--------------------------- MODULE MCAuthSessions ---------------------------
(* Instances of AuthSessions for TLC: browsers behind one proxy address. *)
EXTENDS AuthSessions, TLC

CONSTANTS b1, b2, t1, t2, proxy

MCToken == {t1, t2}
MCBrowser == {b1, b2}
MCRemote == {proxy}
MCRemoteOf == [b \in MCBrowser |-> proxy]
MCPassword == {"first", "second"}
Symmetry == Permutations(MCToken) \cup Permutations(MCBrowser)
=============================================================================

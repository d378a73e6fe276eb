--------------------------- MODULE MCDeckNotifier ---------------------------
(* Instances of DeckNotifier for TLC. *)
EXTENDS DeckNotifier

CONSTANTS d1, d2, u1, u2

MCOneDeck == {d1}
MCOneUrl == {u1}
MCTwoUrls == {u1, u2}
MCOneTarget == {[url |-> u1, scope |-> "leaf"]}
MCTwoTargets == {[url |-> u1, scope |-> "leaf"], [url |-> u2, scope |-> "all"]}
MCAnyEdit == {"save", "resync"}
=============================================================================

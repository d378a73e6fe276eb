--------------------------- MODULE MCReviewLeases ---------------------------
(* Instances of ReviewLeases for TLC. *)
EXTENDS ReviewLeases, TLC

CONSTANTS c1, c2, k1, k2

MCClient == {c1, c2}
MCCard == {k1, k2}
MCLanguage == {"spanish"}
MCDeckOf == (k1 :> "spanish") @@ (k2 :> "spanish")
MCTwoLanguages == {"spanish", "english"}
MCTwoDecks == (k1 :> "spanish") @@ (k2 :> "english")
ClientSymmetry == Permutations(MCClient)
Symmetry == Permutations(MCClient) \cup Permutations(MCCard)
=============================================================================

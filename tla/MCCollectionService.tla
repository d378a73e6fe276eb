-------------------------- MODULE MCCollectionService --------------------------
(* Instances of CollectionService for TLC. *)
EXTENDS CollectionService, TLC

CONSTANTS p1, p2, t1, t2

MCProcess == {p1, p2}
MCOneProcess == {p1}
MCTask == {t1, t2}
MCProduction == {"fn", "backup", "import"}
MCAll == Op
MCExport == {"export"}
Symmetry == Permutations(MCProcess) \cup Permutations(MCTask)
=============================================================================

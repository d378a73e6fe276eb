--------------------------- MODULE ReviewContract ---------------------------
(***************************************************************************)
(* What the review API promises to the people who share a deck: a token is *)
(* granted once, for one card; a card is leased to at most one token; an   *)
(* answer is recorded only while its token holds the lease, and counts at  *)
(* most once unless it is undone.  ReviewLeases implements it.             *)
(***************************************************************************)
EXTENDS Integers

CONSTANTS
  Card,
  MaxTokens      \* bound: how many tokens are ever granted

VARIABLES
  lease,         \* the token that holds each card, 0 if none
  issued,        \* tokens 1..issued were granted
  counted        \* how many answers of each token the review history has

contractVars == <<lease, issued, counted>>

Init ==
  /\ lease = [c \in Card |-> 0]
  /\ issued = 0
  /\ counted = [t \in 1..MaxTokens |-> 0]

\* Leases of the cards in D end.
Without(D) == [c \in Card |-> IF c \in D THEN 0 ELSE lease[c]]

End(D) ==
  /\ lease' = Without(D)
  /\ UNCHANGED <<issued, counted>>

\* A free card is leased to a new token; leases that lapsed end on the way.
Grant(c, D) ==
  /\ issued < MaxTokens
  /\ lease[c] = 0
  /\ issued' = issued + 1
  /\ lease' = [Without(D) EXCEPT ![c] = issued + 1]
  /\ UNCHANGED counted

Record(c) ==
  /\ lease[c] # 0
  /\ counted[lease[c]] = 0
  /\ counted' = [counted EXCEPT ![lease[c]] = 1]
  /\ UNCHANGED <<lease, issued>>

Retract(t) ==
  /\ counted[t] = 1
  /\ counted' = [counted EXCEPT ![t] = 0]
  /\ UNCHANGED <<lease, issued>>

Next ==
  \/ \E D \in SUBSET Card : End(D)
  \/ \E c \in Card, D \in SUBSET Card : Grant(c, D)
  \/ \E c \in Card : Record(c)
  \/ \E t \in 1..MaxTokens : Retract(t)

Spec == Init /\ [][Next]_contractVars
=============================================================================

---------------------------- MODULE CardActions -----------------------------
(* The AnkiConnect actions that change cards while the pages are open: one   *)
(* job each, then the change flags, as of the last of its transactions.      *)
EXTENDS Desk

Jobs ==                             \* [pc |-> "cards", do, cards]
  /\ Request({"cards"})
  /\ UNCHANGED <<col, undos, ui, tab, sock, desk, missed>>

CardKinds ==
  {"suspend", "unsuspend", "answercards", "forgetcards", "setduedate", "relearncards",
   "seteasefactors", "setvalue", "movecards", "deletedecks", "deletenotes"}

(* What a job makes of the collection: cards that are gone are left out.     *)
Answered(cs, again) == PutAside(Rescheduled(col, cs), cs \ again)
Done(do, cs) ==
  CASE do = "suspend"     -> {PutAside(col, cs)}
    [] do = "unsuspend"   -> {[col EXCEPT !.due = @ \cup Live(col, cs)]}
    [] do = "answercards" -> {Answered(cs, again) : again \in SUBSET cs}
    [] do \in {"forgetcards", "setduedate", "relearncards"} -> {Requeued(col, cs)}
    [] do \in {"seteasefactors", "setvalue"} -> {Rescheduled(col, cs)}
    [] do = "movecards"   -> {Rehomed(col, cs, 2)}
    [] do \in {"deletedecks", "deletenotes"} -> {Without(col, NotesOf(col, cs))}

Jobbed(h) ==
  /\ h.do # "relearncards"
  /\ \E c \in Done(h.do, h.cards) :
       Commits(c) /\ \E s \in Spreads(c) : Broadcasts("ankiconnect", s)

(* A list whose next item raises leaves what was done before it in place,    *)
(* and an answer that is not of the next card is refused; nothing is told.   *)
BreaksOff(h) ==
  /\ h.do \in {"answercards", "seteasefactors"}
  /\ \E cs \in SUBSET h.cards : cs # h.cards /\ \E c \in Done(h.do, cs) :
       Commits(c) /\ missed' = (missed \/ c # col)
  /\ UNCHANGED <<tab, sock>>
Refused(h) == h.do = "setduedate" /\ UNCHANGED <<col, undos, tab, sock, missed>>

(* The cards to relearn are written past the backend, which then forgets     *)
(* what could be undone, and nothing is told.                                *)
PastTheBackend(h) ==
  /\ h.do = "relearncards"
  /\ IF h.cards = {} THEN UNCHANGED <<col, undos>>
     ELSE col' \in Done(h.do, h.cards) /\ undos' = <<>>
  /\ missed' = (missed \/ col' # col)
  /\ UNCHANGED <<tab, sock>>

CardJob ==
  /\ run[Connect].pc = "cards"
  /\ LET h == run[Connect] IN Jobbed(h) \/ BreaksOff(h) \/ Refused(h) \/ PastTheBackend(h)
  /\ Ends(Connect)
  /\ UNCHANGED <<ui, desk, left>>

CardActionsNext == Jobs \/ CardJob
=============================================================================

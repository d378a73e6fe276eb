------------------------------ MODULE RawCalls ------------------------------
(* What Anki's own pages (change of note type, imports, image occlusion,     *)
(* deck options) ask of the backend over HTTP: one job each, whose change    *)
(* flags are then broadcast by the handler.  They take the slot of the       *)
(* AnkiConnect client.                                                       *)
EXTENDS NoteForms

(* The page to change a note type sends no notes: the server puts in what    *)
(* the browser has selected when the call arrives, or else it looks up all   *)
(* notes of the old type.                                                    *)
Chosen(r, ns) == [pc |-> "changeNotetype", from |-> r.from, to |-> r.to, notes |-> ns]
AskRaw ==
  /\ \E r \in desk.asks :
       /\ r.pc \in {"allOfType", "raw"} /\ Asks(r)
       /\ run' = [run EXCEPT ![Connect] =
                    IF r.pc = "allOfType" /\ ui.notes # {} THEN Chosen(r, ui.notes) ELSE r]
  /\ UNCHANGED <<col, undos, ui, tab, sock, desk, missed, form>>
AllOfType ==
  /\ run[Connect].pc = "allOfType"
  /\ run' = [run EXCEPT ![Connect] = Chosen(@, {n \in col.notes : col.note[n].type = run[Connect].from})]
  /\ UNCHANGED <<col, undos, ui, tab, sock, desk, left, missed, form>>

(* The backend converts notes that are all there and of the old type, or     *)
(* none.                                                                     *)
Convertible(h) == h.notes # {} /\ \A n \in h.notes : n \in col.notes /\ col.note[n].type = h.from
Converted(h) ==
  IF ~Convertible(h) THEN col
  ELSE [col EXCEPT !.note = [n \in Notes |-> IF n \in h.notes THEN [@[n] EXCEPT !.type = h.to] ELSE @[n]]]
ChangeNotetype ==
  /\ run[Connect].pc = "changeNotetype"
  /\ LET c == Converted(run[Connect]) IN Commits(c) /\ Tells(c)
  /\ Ends(Connect)
  /\ UNCHANGED <<ui, desk, left, form>>

(* An import or an occluded image adds a note or writes one again, options   *)
(* let more cards, or fewer, be due today.  A file outside the directory of  *)
(* uploads is refused.                                                       *)
RawResults(h) ==
  {col} \cup
  CASE h.do = "import"  -> {With(col, h.new) : n \in Unused(col)} \cup {Edit(n, h.new) : n \in col.notes}
    [] h.do = "options" -> {[col EXCEPT !.due = xs] : xs \in SUBSET Live(col, Cards)}
RawCall ==
  /\ run[Connect].pc = "raw"
  /\ \E c \in RawResults(run[Connect]) : Commits(c) /\ Tells(c)
  /\ Ends(Connect)
  /\ UNCHANGED <<ui, desk, left, form>>

RawCallsNext == AskRaw \/ AllOfType \/ ChangeNotetype \/ RawCall
=============================================================================

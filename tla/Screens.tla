------------------------------- MODULE Screens ------------------------------
(* All screens of the development UI on one desk, with AnkiConnect and the   *)
(* calls of Anki's own pages.                                                *)
EXTENDS ReviewerScreen, BrowserScreen, CardActions, NoteForms, NoteTypes, DeckScreens, RawCalls

CONSTANT Stored         \* the note types that are stored at first, or None

ASSUME StoredAssumption ==
  /\ Whole(Stored) /\ \E m \in Models : Stored[m] # None
  /\ \A m \in Models, l \in Lists : Stored[m] # None => Proper(Stored[m][l])

(* The desks begin with a sound collection, and their clients ask for what   *)
(* there is.                                                                 *)
ASSUME DesksAssumption ==
  \A d \in Desks :
    /\ Sound(d.col)
    /\ \A r \in d.asks :
         /\ r.pc = "cards" => r.do \in CardKinds
         /\ r.pc = "raw" => r.do \in {"import", "options"}
         /\ r.pc = "addNotes" => Len(r.new) \in Nat /\ DOMAIN r.new = 1..Len(r.new)

Vars == <<deskVars, session, form, report, typeVars>>
Init == DeskInit /\ ReviewerInit /\ NoteFormsInit /\ DeckScreensInit /\ NoteTypesInit /\ models = Stored
Next ==
  \/ ReviewerNext /\ UNCHANGED <<form, report, typeVars>>
  \/ NoteFormsNext /\ UNCHANGED <<session, report, typeVars>>
  \/ RawCallsNext /\ UNCHANGED <<session, report, typeVars>>
  \/ DeckScreensNext /\ UNCHANGED <<session, form, typeVars>>
  \/ /\ "types" \in desk.menu /\ left > 0 /\ left' = left - 1
     /\ NoteTypesNext
     /\ UNCHANGED <<col, undos, ui, tab, sock, run, desk, missed, session, form, report>>
  \/ /\ \/ BrowserNext
        \/ CardActionsNext
        \/ \E k \in Sockets : Notice(k)
        \/ \E t \in Tabs : CloseTab(t)
        \/ GuiAsks \/ GuiUndo \/ GuiDeck \/ GuiNavigate
     /\ UNCHANGED <<session, form, report, typeVars>>
Spec == Init /\ [][Next]_Vars
=============================================================================

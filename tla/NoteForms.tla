----------------------------- MODULE NoteForms ------------------------------
(* The editor and the page to add notes, whose state is kept on the server   *)
(* for all their pages, and the AnkiConnect actions on notes.                *)
EXTENDS Desk, SequencesExt

CONSTANTS
  Types,        \* note types; a note has one field
  Texts,        \* what can be typed into it
  Plain         \* Plain[x]: the text without its markup, "" if there is no more

VARIABLE form   \* what the server keeps: the type and the tags of the note to
                \* add, and the note that was loaded last into an editor

NoteFormsInit == form = [type |-> 0, tags |-> {}, nid |-> 0]

Twins(a, b) == a.type = b.type /\ Plain[a.text] = Plain[b.text]

(* fields_check and add_note.  Anki numbers notes by the time of their       *)
(* creation; BOUND: the numbers in Notes.                                    *)
Used(c) == c.notes \cup UNION {undos[i].notes : i \in DOMAIN undos}
Unused(c) == {n \in Notes : \A m \in Used(c) : n > m}
AddableAsTyped(c, new, dup) ==                                  \* mutant
  Plain[new.text] # "" /\ Unused(c) # {} /\ (dup \/ \A n \in c.notes : c.note[n].text # new.text)
Addable(c, new, dup) ==
  /\ Plain[new.text] # "" /\ Unused(c) # {}
  /\ dup \/ \A n \in c.notes : ~Twins(c.note[n], new)
With(c, new) ==
  LET n == CHOOSE m \in Unused(c) : \A o \in Unused(c) : m <= o
  IN  [c EXCEPT !.notes = @ \cup {n}, !.note[n] = new, !.due = @ \cup CardsOf({n})]

(* A change of a note without an entry of its own for undo: to undo what     *)
(* went before leaves it in place.                                           *)
Edit(n, note) == [col EXCEPT !.note[n] = note]
Edits(n, note) ==
  /\ col' = Edit(n, note)
  /\ undos' = [i \in DOMAIN undos |-> [undos[i] EXCEPT !.note[n] = note]]
Retyped(n, text) == [col.note[n] EXCEPT !.text = text]
Relabelled(n, tags) == [col.note[n] EXCEPT !.tags = tags]

(* ---- the page to add notes ---- *)
EmptyForm(type) == [Blank EXCEPT !.side = "form", !.type = type]

OpenAdd(t, k) == tab[t].page = "add" /\ Opens(t, k, <<[cmd |-> "addReady"]>>) /\ UNCHANGED form
UseAdd(t) ==
  /\ tab[t].page = "add" /\ tab[t].shows.side = "form"
  /\ \/ \E y \in Types : Commands(t, [cmd |-> "setnotetype", type |-> y])
     \/ \E ts \in SUBSET {"tag"} : Commands(t, [cmd |-> "saveTags", tags |-> ts])
     \/ \E x \in Texts : Commands(t, [cmd |-> "addnote", text |-> x])
  /\ UNCHANGED form

AddReads(k) ==
  /\ Reads(k, "add")
  /\ LET c == Head(sock[k].box) IN
       /\ Starts(k, CASE c.cmd = "addReady"    -> [pc |-> "addReady"]
                      [] c.cmd = "setnotetype" -> [pc |-> "emptyform", type |-> c.type]
                      [] c.cmd = "saveTags"    -> Idle
                      [] c.cmd = "addnote"     ->
                           [pc |-> "addnote",
                            new |-> [type |-> form.type, text |-> c.text, tags |-> form.tags]])
       /\ form' = CASE c.cmd = "setnotetype" -> [form EXCEPT !.type = c.type, !.tags = {}]
                    [] c.cmd = "saveTags"    -> [form EXCEPT !.tags = c.tags]
                    [] OTHER                 -> form
  /\ UNCHANGED <<col, undos, tab, desk, left, missed>>

Fills(page, screen) ==
  \E s \in Sends({page}) : Put(s.got, screen) /\ missed' = (missed \/ ~s.ok)

AddReady(k) ==                      \* the type that Anki has for current
  /\ run[k].pc = "addReady"
  /\ \E y \in Types : form' = [form EXCEPT !.type = y, !.tags = {}] /\ Fills("add", EmptyForm(y))
  /\ Ends(k)
  /\ UNCHANGED <<col, undos, ui, sock, desk, left>>
FillForm(k) ==                      \* also for AnkiConnect, of any type
  /\ run[k].pc = "emptyform"
  /\ Fills("add", EmptyForm(run[k].type))
  /\ Ends(k)
  /\ UNCHANGED <<col, undos, ui, sock, desk, left, form>>
AddNote(k) ==                       \* checked and added in one job
  /\ run[k].pc = "addnote"
  /\ IF Addable(col, run[k].new, FALSE)
     THEN /\ Commits(With(col, run[k].new))
          /\ \E s \in Sends(Contexts) :
               /\ Broadcasts("add", s)
               /\ run' = [run EXCEPT ![k] =
                    IF s.ok THEN [pc |-> "emptyform", type |-> run[k].new.type] ELSE Idle]
     ELSE Ends(k) /\ UNCHANGED <<col, undos, tab, sock, missed>>
  /\ UNCHANGED <<ui, desk, left, form>>

(* ---- the editor: a save names the note, save tags the note loaded last ---*)
Editing(n) == [Blank EXCEPT !.side = "note", !.note = n]

OpenEditor(t, k) ==
  /\ tab[t].page = "editor" /\ Opens(t, k, <<[cmd |-> "load", nid |-> t]>>)
  /\ UNCHANGED form
UseEditor(t) ==
  /\ tab[t].page = "editor" /\ tab[t].shows.side = "note"
  /\ \/ \E n \in Notes : Commands(t, [cmd |-> "load", nid |-> n])
     \/ \E x \in Texts, c \in {"blur", "key"} :
          Commands(t, [cmd |-> c, nid |-> tab[t].shows.note, text |-> x])
     \/ \E ts \in SUBSET {"tag"} : Commands(t, [cmd |-> "saveTags", tags |-> ts])
  /\ UNCHANGED form

EditorReads(k) ==
  /\ Reads(k, "editor")
  /\ LET c == Head(sock[k].box) IN
       /\ Starts(k, CASE c.cmd = "load"            -> [pc |-> "loadnote", nid |-> c.nid]
                      [] c.cmd \in {"blur", "key"} ->
                           [pc |-> "save", nid |-> c.nid, text |-> c.text, tells |-> c.cmd = "blur"]
                      [] c.cmd = "saveTags"        ->
                           IF form.nid = 0 THEN Idle
                           ELSE [pc |-> "tags", nid |-> form.nid, tags |-> c.tags])
       /\ form' = IF c.cmd = "load" THEN [form EXCEPT !.nid = c.nid] ELSE form
  /\ UNCHANGED <<col, undos, tab, desk, left, missed>>

LoadNote(k) ==
  /\ run[k].pc = "loadnote"
  /\ IF run[k].nid \in col.notes THEN Fills("editor", Editing(run[k].nid)) ELSE UNCHANGED <<tab, missed>>
  /\ Ends(k)
  /\ UNCHANGED <<col, undos, ui, sock, desk, left, form>>
SaveNote(k) ==
  /\ run[k].pc \in {"save", "tags"}
  /\ LET h == run[k]
         n == h.nid
         note == IF h.pc = "tags" THEN Relabelled(n, h.tags) ELSE Retyped(n, h.text)
         tells == h.pc = "tags" \/ h.tells
     IN  IF n \notin col.notes THEN UNCHANGED <<col, undos, tab, sock, missed>>
         ELSE /\ Edits(n, note)
              /\ IF tells THEN \E s \in Spreads(Edit(n, note)) : Broadcasts("editor", s)
                 ELSE UNCHANGED <<tab, sock, missed>>
  /\ Ends(k)
  /\ UNCHANGED <<ui, desk, left, form>>

(* ---- AnkiConnect ---- *)
NoteRequest ==
  /\ \/ Request({"addNotes", "updateNote", "updateNoteModel", "addTags", "removeTags", "deleteNotes",
                 "replaceTags", "replaceTagsInAllNotes", "removeEmptyNotes", "removeDuplicateNotes"})
     \/ ui.screen = "add" /\ Request({"emptyform"})
  /\ UNCHANGED <<col, undos, ui, tab, sock, desk, missed, form>>

Tells(c) == \E s \in Spreads(c) : Broadcasts("ankiconnect", s)
Quietly == UNCHANGED <<tab, sock, missed>>

(* addNotes adds what it can, and takes it all back if one of them failed:   *)
(* one that is empty, or a twin of a note that is there or of an earlier one *)
(* of the list (if that one failed, this one fails for the same reason).     *)
(* BOUND: there are numbers for all.                                         *)
Failures(new, dup) ==
  {i \in DOMAIN new :
     \/ Plain[new[i].text] = ""
     \/ /\ ~dup
        /\ \/ \E n \in col.notes : Twins(col.note[n], new[i])
           \/ \E j \in 1..(i - 1) : Twins(new[j], new[i])}
Numberings(is) ==
  {f \in [is -> Unused(col)] :
     /\ \A i, j \in is : i < j => f[i] < f[j]
     /\ \A i \in is, n \in Unused(col) : n < f[i] => \E j \in is : f[j] = n}
Rank(i, is) == Cardinality({j \in is : j < i})
Adding(new, f, is) ==                   \* those of the places is, under their numbers
  LET ns == {f[i] : i \in is}
  IN  [col EXCEPT !.notes = @ \cup ns, !.due = @ \cup CardsOf(ns),
                  !.note = [n \in Notes |-> IF n \in ns THEN new[CHOOSE i \in is : f[i] = n] ELSE @[n]]]
Steps(new, f, is) ==                    \* the collection before each of them
  [k \in 1..Cardinality(is) |-> Adding(new, f, {i \in is : Rank(i, is) < k - 1})]
TakesBackEarlier(c, ns) == Without(c, {n \in ns : \E m \in ns : n < m})     \* mutant
TakesBack(c, ns) == Without(c, ns)
AddNotes ==
  /\ run[Connect].pc = "addNotes"
  /\ LET new == run[Connect].new
         is == DOMAIN new \ Failures(new, run[Connect].dup)
     IN  \E f \in Numberings(is) :
           LET c == Adding(new, f, is)
           IN  IF is = DOMAIN new
               THEN col' = c /\ undos' = undos \o Steps(new, f, is) /\ Tells(c)
               ELSE /\ col' = TakesBack(c, {f[i] : i \in is})
                    /\ undos' = undos \o Steps(new, f, is) \o (IF is = {} THEN <<>> ELSE <<c>>)
                    /\ Quietly
  /\ Ends(Connect)
  /\ UNCHANGED <<ui, desk, left, form>>

(* updateNote is two jobs, for the fields and for the tags.                  *)
UpdateFields ==
  /\ run[Connect].pc = "updateNote"
  /\ LET n == run[Connect].nid
         note == Retyped(n, run[Connect].new.text)
     IN  IF n \notin col.notes THEN UNCHANGED <<col, undos>> /\ Quietly /\ Ends(Connect)
         ELSE /\ Edits(n, note)
              /\ \E s \in Spreads(Edit(n, note)) :
                   /\ Broadcasts("ankiconnect", s)
                   /\ IF s.ok THEN run' = [run EXCEPT ![Connect] = [pc |-> "updateTags", nid |-> n, new |-> @.new]]
                      ELSE Ends(Connect)
  /\ UNCHANGED <<ui, desk, left, form>>

KeepsTheLatest(c) == {n \in c.notes : \E m \in c.notes : m > n /\ Twins(c.note[m], c.note[n])}  \* mutant
Fresh(c) == {n \in c.notes : \E m \in c.notes : m < n /\ Twins(c.note[m], c.note[n])}
Empty(c) == {n \in c.notes : Plain[c.note[n].text] = ""}
Replaced(c, ns) == Tagged(Tagged(c, {n \in ns : "tag" \in c.note[n].tags}, "marked", TRUE), ns, "tag", FALSE)
NoteJobs(h) ==
  CASE h.pc = "updateTags"      -> IF h.nid \in col.notes THEN Edit(h.nid, Relabelled(h.nid, h.new.tags)) ELSE col
    [] h.pc = "updateNoteModel" -> IF h.nid \in col.notes THEN Edit(h.nid, h.new) ELSE col
    [] h.pc = "addTags"         -> Tagged(col, h.notes, "tag", TRUE)
    [] h.pc = "removeTags"      -> Tagged(col, h.notes, "tag", FALSE)
    [] h.pc = "deleteNotes"     -> Without(col, h.notes)
    [] h.pc = "replaceTagsInAllNotes" -> Replaced(col, col.notes)
    [] h.pc = "removeEmptyNotes"      -> Without(col, Empty(col))
    [] h.pc = "removeDuplicateNotes"  -> Without(col, Fresh(col) \ Empty(col))
Told == {"updateTags", "updateNoteModel", "addTags", "removeTags", "deleteNotes",
         "replaceTagsInAllNotes", "removeEmptyNotes", "removeDuplicateNotes"}
NoteJob ==
  /\ run[Connect].pc \in Told
  /\ LET c == NoteJobs(run[Connect]) IN Commits(c) /\ Tells(c)
  /\ Ends(Connect)
  /\ UNCHANGED <<ui, desk, left, form>>
(* replaceTags goes from note to note and stops at one that is gone; nothing *)
(* is told.                                                                  *)
ReplaceTags ==
  /\ run[Connect].pc = "replaceTags"
  /\ \E ns \in SUBSET run[Connect].notes :
       /\ ns = run[Connect].notes \/ ~(run[Connect].notes \subseteq col.notes)
       /\ Commits(Replaced(col, ns))
  /\ Quietly /\ Ends(Connect)
  /\ UNCHANGED <<ui, desk, left, form>>

NoteFormsNext ==
  \/ \E t \in Tabs : UseAdd(t) \/ UseEditor(t) \/ \E k \in Sockets : OpenAdd(t, k) \/ OpenEditor(t, k)
  \/ \E k \in Sockets : AddReads(k) \/ EditorReads(k) \/ AddReady(k) \/ AddNote(k)
                        \/ LoadNote(k) \/ SaveNote(k)
  \/ \E k \in Sockets \cup {Connect} : FillForm(k)
  \/ NoteRequest \/ AddNotes \/ UpdateFields \/ NoteJob \/ ReplaceTags

(* A note that is added, other than by an undo, by an import or as a         *)
(* duplicate that was asked for, has no twin among the others: whatever was  *)
(* added between the form and its check.  (add.py:129-154, _helpers.py:38-45)*)
Added == IF Len(undos') > Len(undos) THEN col'.notes \ col.notes ELSE {}
Wanted == run[Connect].pc = "raw" \/ (run[Connect].pc = "addNotes" /\ run[Connect].dup)
NewNotesAreNew ==
  [][\A n \in Added, m \in col'.notes \ Added :
       ~Wanted => ~Twins(col'.note[n], col'.note[m])]_col

(* addNotes adds all of its notes, or none if one of them is refused, be it  *)
(* for another one of the list.  (ankiconnect/actions/notes.py:61-89)        *)
AllOrNothing ==
  [][run[Connect].pc = "addNotes" /\ run'[Connect].pc = "idle" =>
       Cardinality(Added) \in {0, Len(run[Connect].new)}]_run

(* removeDuplicateNotes deletes no note without leaving an older twin of it, *)
(* and leaves no twins but empty notes.  (extra_actions/notes.py:19-69)      *)
TheOldestStays ==
  [][run[Connect].pc = "removeDuplicateNotes" /\ run'[Connect].pc = "idle" =>
       \A n \in col.notes :
         (n \notin col'.notes) <=>
           /\ n \notin Empty(col)
           /\ \E m \in col'.notes : m < n /\ Twins(col.note[m], col.note[n])]_run
=============================================================================

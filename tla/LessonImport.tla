---------------------------- MODULE LessonImport ----------------------------
(***************************************************************************)
(* Lesson imports: the import page (LessonImportsPage.tsx) previews a      *)
(* batch of cards and then commits it; the adapter carries out one request *)
(* at a time (adapter.py), the batch is planned, and applied, card by card *)
(* in one job (lesson_imports.py), and a commit ends with a receipt        *)
(* (receipts.py).  Meanwhile the form is edited, connections break, any    *)
(* step fails, the server restarts and other screens change the deck.      *)
(*                                                                         *)
(* One deck is modelled: a batch names its language, and so its deck.  A   *)
(* card's "key" is its normalised text with the duplicate_kind of its type,*)
(* so types of one kind share keys.  "level" stands for the fields         *)
(* Language and CEFR, whose contradiction is a conflict, "label" for Topic *)
(* and Source.  A card that does not parse has a type that is "gone" for   *)
(* good.  Statuses are written without the "would_" of a preview.          *)
(*                                                                         *)
(* A definition marked "mutant" is a plausible mistake in the code of the  *)
(* definition that follows it; no specification uses it.                   *)
(***************************************************************************)
EXTENDS Naturals, Sequences, FiniteSets

CONSTANTS
  Page,          \* browser tabs that show the import page
  Type,          \* card types
  Key,           \* duplicate keys
  Level, Label,  \* values of the metadata fields
  Batches,       \* the batches that are typed into the form
  Start,         \* the notes the deck may hold at first: a set of sequences
  Models,        \* the conditions the note types may be in at first
  MaxRequests,   \* bound: requests sent
  MaxChanges,    \* bound: changes made by other screens
  MaxCrashes     \* bound: restarts of the server

Blank == ""
Card == [type : Type, key : Key, level : Level, label : Label]
Note == [type : Type, key : Key, level : Level \cup {Blank}, label : Label \cup {Blank},
         tags : SUBSET (Type \cup Level \cup Label)]

\* The note type of a card type: as it should be; not there, under its name or
\* with its text; without a field for the label (or another of the metadata);
\* or else unsuitable: of the wrong kind, or without a field of the card.
Condition == {"usable", "gone", "unlabelled", "unsuitable"}

ASSUME LessonAssumption ==
  /\ Blank \notin Level \cup Label
  /\ Batches \subseteq Seq(Card) \ {<<>>} /\ Batches # {}
  /\ Start \subseteq Seq(Note)
  /\ Models \subseteq [Type -> Condition]
  /\ MaxRequests \in Nat /\ MaxChanges \in Nat /\ MaxCrashes \in Nat

VARIABLES
  notes,     \* the notes of the deck, by id
  made,      \* the latest note id
  models,    \* the condition of each type's note type
  plan,      \* the local variables of the job that plans a batch
  server,    \* the requests at the adapter: the first has its lock
  form,      \* the batch in the form of each page
  shown,     \* "preview" of each page: what it shows beside the form
  receipts,  \* the receipts on disk, in the order they were saved
  sent, changes, crashes,   \* how much of the bounds is used
  raced,     \* history variable: the form was edited during a preview
  maker,     \* history variable: the request that made each note, 0 for others
  touched,   \* history variable: the notes that others made, changed or deleted
  repaired   \* history variable: a note type was changed

deck   == <<notes, made, models, maker>>
pages  == <<form, shown, raced>>
bounds == <<sent, changes, crashes>>
vars   == <<deck, plan, server, pages, receipts, bounds, touched, repaired>>

Nothing == [mode |-> "none", batch |-> <<>>, items |-> <<>>]
NoPlan  == [notes |-> <<>>, index |-> <<>>, planned |-> {}, made |-> 0, items |-> <<>>]

-----------------------------------------------------------------------------
(* Planning a batch. *)

Broken == {t \in Type : models[t] # "usable"}
TypesOf(batch) == {batch[i].type : i \in DOMAIN batch}

TagsOf(c) == {c.type, c.level, c.label}
NoteOf(c) == [type |-> c.type, key |-> c.key, level |-> c.level, label |-> c.label,
              tags |-> TagsOf(c)]
\* A note without the field that its type lacks.
Bare(n) == [n EXCEPT !.label = Blank]
Stored(n) == IF models[n.type] = "unlabelled" THEN Bare(n) ELSE n

Put(f, id, n) == [i \in DOMAIN f \cup {id} |-> IF i = id THEN n ELSE f[i]]

FoundOfType(index, c) ==                                    \* mutant
  {i \in DOMAIN index : index[i].key = c.key /\ index[i].type = c.type}
Found(index, c) == {i \in DOMAIN index : index[i].key = c.key}

Conflicts(n, c) == n.level # Blank /\ n.level # c.level
LatestLabel(n, c) ==                                        \* mutant
  [n EXCEPT !.level = IF @ = Blank THEN c.level ELSE @,
            !.label = c.label,
            !.tags = @ \cup TagsOf(c)]
Merged(n, c) ==
  [n EXCEPT !.level = IF @ = Blank THEN c.level ELSE @,
            !.label = IF @ = Blank THEN c.label ELSE @,
            !.tags = @ \cup TagsOf(c)]

\* What becomes of a card: its status, and the note it concerns (0 if none).
Decision(index, planned, c) ==
  LET found == Found(index, c)
      n == CHOOSE i \in found : TRUE
  IN IF c.type \in Broken THEN [status |-> "error", note |-> 0]
     ELSE IF Cardinality(found) > 1 THEN [status |-> "ambiguous_duplicate", note |-> 0]
     ELSE IF found = {} THEN [status |-> "added", note |-> 0]
     ELSE IF n \in planned THEN [status |-> "skipped_duplicate", note |-> 0]
     ELSE IF Conflicts(index[n], c) THEN [status |-> "metadata_conflict", note |-> n]
     ELSE [status |-> IF Merged(index[n], c) = index[n] THEN "skipped_duplicate"
                                                        ELSE "updated_metadata",
           note |-> n]

\* The job looks up the note types of the batch, and indexes the notes of all
\* types but those it found wanting and those it does not know by name.
Ignored(batch) ==
  {t \in Broken : t \in TypesOf(batch) \/ models[t] = "gone"}
Begun(ns, latest, batch) ==
  [notes |-> ns,
   index |-> [i \in {j \in DOMAIN ns : ns[j].type \notin Ignored(batch)} |-> ns[i]],
   planned |-> {}, made |-> latest, items |-> <<>>]

PlannedForReal(p, c, commit) ==                             \* mutant
  LET d == Decision(p.index, p.planned, c)
      id == IF d.status = "added" THEN p.made + 1 ELSE d.note
      written(f) == CASE d.status = "added" -> Put(f, id, NoteOf(c))
                      [] d.status = "updated_metadata" -> Put(f, id, Merged(p.index[id], c))
                      [] OTHER -> f
  IN [notes   |-> IF d.status = "added" \/ commit THEN written(p.notes) ELSE p.notes,
      index   |-> written(p.index),
      planned |-> IF d.status = "added" /\ ~commit THEN p.planned \cup {id} ELSE p.planned,
      made    |-> IF d.status = "added" THEN id ELSE p.made,
      items   |-> Append(p.items, IF commit /\ d.status = "added"
                                  THEN [d EXCEPT !.note = id] ELSE d)]

\* One card: a commit changes the note or adds one, a preview only its index.
Planned(p, c, commit) ==
  LET d == Decision(p.index, p.planned, c)
      id == IF d.status = "added" THEN p.made + 1 ELSE d.note
      written(f) == CASE d.status = "added" -> Put(f, id, NoteOf(c))
                      [] d.status = "updated_metadata" -> Put(f, id, Merged(p.index[id], c))
                      [] OTHER -> f
  IN [notes   |-> IF commit THEN written(p.notes) ELSE p.notes,
      index   |-> written(p.index),
      planned |-> IF d.status = "added" /\ ~commit THEN p.planned \cup {id} ELSE p.planned,
      made    |-> IF d.status = "added" THEN id ELSE p.made,
      items   |-> Append(p.items, IF commit /\ d.status = "added"
                                  THEN [d EXCEPT !.note = id] ELSE d)]

\* A commit raises when it fills in a field that the note does not have.
Raises(p, c) ==
  LET d == Decision(p.index, p.planned, c)
  IN  d.status = "updated_metadata" /\ LET n == p.index[d.note]
                                       IN  n.label = Blank /\ models[n.type] = "unlabelled"

\* A whole batch at once, up to a card at which it raises, for the properties.
Advanced(p, k, c, commit) ==
  IF Len(p.items) = k - 1 /\ ~(commit /\ Raises(p, c)) THEN Planned(p, c, commit) ELSE p
Outcome(p, batch, commit) ==
  LET after[k \in 0..Len(batch)] ==
        IF k = 0 THEN p ELSE Advanced(after[k - 1], k, batch[k], commit)
  IN  after[Len(batch)]

Counted(items, statuses) == Cardinality({i \in DOMAIN items : items[i].status \in statuses})
Changing == {"added", "updated_metadata"}

-----------------------------------------------------------------------------
Init ==
  /\ models \in Models
  /\ \E s \in Start : notes = [i \in DOMAIN s |-> Stored(s[i])] /\ made = Len(s)
  /\ maker = [i \in 1..made |-> 0]
  /\ plan = NoPlan
  /\ server = <<>>
  /\ form \in [Page -> Batches]
  /\ shown = [p \in Page |-> Nothing]
  /\ receipts = <<>>
  /\ sent = 0 /\ changes = 0 /\ crashes = 0
  /\ raced = [p \in Page |-> FALSE]
  /\ touched = {i \in DOMAIN notes : \E j \in DOMAIN notes \ {i} : notes[j].key = notes[i].key}
  /\ repaired = FALSE

Request(p, commit) ==
  [page |-> p, commit |-> commit, batch |-> form[p], stage |-> "wait", awaited |-> TRUE]
Busy(p) == \E i \in DOMAIN server : server[i].page = p /\ server[i].awaited
AtStage(stage) == server # <<>> /\ server[1].stage = stage
MoveTo(stage) == server' = [server EXCEPT ![1].stage = stage]

\* The requests are carried out in the order they were sent: the number of the
\* first one at the adapter.
Serving == sent - Len(server) + 1

-----------------------------------------------------------------------------
(* The page. *)

KeepsPreview(p, batch) ==                                   \* mutant
  /\ batch # form[p]
  /\ form' = [form EXCEPT ![p] = batch]
  /\ raced' = [raced EXCEPT ![p] = Busy(p)]
  /\ UNCHANGED <<shown, deck, plan, server, receipts, bounds, touched, repaired>>

\* An edit of the form invalidates the preview; a busy page can be edited.
TypeForm(p, batch) ==
  /\ batch # form[p]
  /\ form' = [form EXCEPT ![p] = batch]
  /\ shown' = [shown EXCEPT ![p] = Nothing]
  /\ raced' = [raced EXCEPT ![p] = Busy(p)]
  /\ UNCHANGED <<deck, plan, server, receipts, bounds, touched, repaired>>

Send(p, commit) ==
  /\ ~Busy(p)
  /\ sent < MaxRequests
  /\ sent' = sent + 1
  /\ server' = Append(server, Request(p, commit))
  /\ UNCHANGED <<deck, plan, pages, receipts, changes, crashes, touched, repaired>>

RunPreview(p) == Send(p, FALSE)

\* The import button is there once a preview announces a change.
OffersCommit(p) ==
  shown[p].mode = "preview" /\ Counted(shown[p].items, Changing) > 0
Commit(p) == OffersCommit(p) /\ Send(p, TRUE)

\* The connection breaks: the page shows an error, the request goes on.
Disconnect(p) ==
  /\ Busy(p)
  /\ server' = [i \in DOMAIN server |->
                  IF server[i].page = p THEN [server[i] EXCEPT !.awaited = FALSE]
                                        ELSE server[i]]
  /\ UNCHANGED <<deck, plan, pages, receipts, bounds, touched, repaired>>

-----------------------------------------------------------------------------
(* The server. *)

StartJob ==
  /\ AtStage("wait")
  /\ plan' = Begun(notes, made, server[1].batch)
  /\ MoveTo("run")
  /\ UNCHANGED <<deck, pages, receipts, bounds, touched, repaired>>

ProcessCard ==
  /\ AtStage("run")
  /\ Len(plan.items) < Len(server[1].batch)
  /\ LET c == server[1].batch[Len(plan.items) + 1]
     IN  ~(server[1].commit /\ Raises(plan, c)) /\ plan' = Planned(plan, c, server[1].commit)
  /\ IF server[1].commit
     THEN /\ notes' = plan'.notes /\ made' = plan'.made
          /\ maker' = IF made' = made THEN maker ELSE Append(maker, Serving)
     ELSE UNCHANGED <<notes, made, maker>>
  /\ UNCHANGED <<models, server, pages, receipts, bounds, touched, repaired>>

\* The answer reaches the page if it still waits; the lock goes on.
Reply ==
  /\ server' = Tail(server)
  /\ plan' = NoPlan
  /\ shown' = IF server[1].awaited
              THEN [shown EXCEPT ![server[1].page] =
                      [mode |-> IF server[1].commit THEN "commit" ELSE "preview",
                       batch |-> server[1].batch, items |-> plan.items]]
              ELSE shown
  /\ UNCHANGED <<form, raced>>

\* The plan is complete.  A commit goes on to tell the subscribers, if it
\* changed anything, and to save its receipt.
SavesPreviews ==                                            \* mutant
  /\ AtStage("run")
  /\ Len(plan.items) = Len(server[1].batch)
  /\ MoveTo(IF server[1].commit /\ Counted(plan.items, Changing) > 0 THEN "emit" ELSE "save")
  /\ UNCHANGED <<plan, pages, deck, receipts, bounds, touched, repaired>>
FinishJob ==
  /\ AtStage("run")
  /\ Len(plan.items) = Len(server[1].batch)
  /\ IF server[1].commit
     THEN /\ MoveTo(IF Counted(plan.items, Changing) > 0 THEN "emit" ELSE "save")
          /\ UNCHANGED <<plan, pages>>
     ELSE Reply
  /\ UNCHANGED <<deck, receipts, bounds, touched, repaired>>

Emit ==
  /\ AtStage("emit")
  /\ MoveTo("save")
  /\ UNCHANGED <<deck, plan, pages, receipts, bounds, touched, repaired>>

SavesLater ==                                               \* mutant
  /\ AtStage("save")
  /\ Reply
  /\ UNCHANGED <<receipts, deck, bounds, touched, repaired>>
SaveReceipt ==
  /\ AtStage("save")
  /\ receipts' = Append(receipts, [request |-> Serving, batch |-> server[1].batch,
                                   items |-> plan.items])
  /\ Reply
  /\ UNCHANGED <<deck, bounds, touched, repaired>>

\* An exception at any stage: the deck is missing, Anki refuses a note, a note
\* has no field to fill in, a subscriber raises, the disk is full.  What was
\* done stays done.
Fail ==
  /\ server # <<>>
  /\ server' = Tail(server)
  /\ plan' = NoPlan
  /\ UNCHANGED <<deck, pages, receipts, bounds, touched, repaired>>

Crash ==
  /\ crashes < MaxCrashes
  /\ crashes' = crashes + 1
  /\ server' = <<>>
  /\ plan' = NoPlan
  /\ UNCHANGED <<deck, pages, receipts, sent, changes, touched, repaired>>

-----------------------------------------------------------------------------
(* Other screens: each a job of its own. *)

OtherJob ==
  /\ ~AtStage("run")
  /\ changes < MaxChanges
  /\ changes' = changes + 1
  /\ UNCHANGED <<plan, server, pages, receipts, sent, crashes>>

EditNote(i) ==
  /\ OtherJob
  /\ \/ \E k \in Key : notes' = [notes EXCEPT ![i].key = k]
     \/ \E l \in Level \cup {Blank} : notes' = [notes EXCEPT ![i].level = l]
     \/ /\ models[notes[i].type] # "unlabelled"
        /\ \E l \in Label \cup {Blank} : notes' = [notes EXCEPT ![i].label = l]
  /\ notes' # notes
  /\ touched' = touched \cup {i}
  /\ UNCHANGED <<made, models, maker, repaired>>

DeleteNote(i) ==
  /\ OtherJob
  /\ notes' = [j \in DOMAIN notes \ {i} |-> notes[j]]
  /\ touched' = touched \cup {i}
  /\ UNCHANGED <<made, models, maker, repaired>>

AddNote(c) ==
  /\ OtherJob
  /\ made' = made + 1
  /\ notes' = Put(notes, made + 1, Stored(NoteOf(c)))
  /\ maker' = Append(maker, 0)
  /\ touched' = touched \cup {made + 1}
  /\ UNCHANGED <<models, repaired>>

\* A field that a note type loses is lost in its notes.
ChangeModel(t, condition) ==
  /\ OtherJob
  /\ condition # models[t]
  /\ models' = [models EXCEPT ![t] = condition]
  /\ notes' = [i \in DOMAIN notes |->
                 IF notes[i].type = t /\ condition = "unlabelled" THEN Bare(notes[i])
                                                                 ELSE notes[i]]
  /\ repaired' = TRUE
  /\ UNCHANGED <<made, maker, touched>>

-----------------------------------------------------------------------------
Next ==
  \/ \E p \in Page :
       \/ \E batch \in Batches : TypeForm(p, batch)
       \/ RunPreview(p) \/ Commit(p) \/ Disconnect(p)
  \/ StartJob \/ ProcessCard \/ FinishJob \/ Emit \/ SaveReceipt \/ Fail \/ Crash
  \/ \E i \in DOMAIN notes : EditNote(i) \/ DeleteNote(i)
  \/ \E batch \in Batches : \E i \in DOMAIN batch : AddNote(batch[i])
  \/ \E t \in Type, condition \in Condition : ChangeModel(t, condition)

Spec == Init /\ [][Next]_vars

-----------------------------------------------------------------------------
\* Imports alone never give the deck two notes with the same text, whichever
\* tabs commit, retry after errors and restarts, or fail half way, and whatever
\* else is changed meanwhile (lesson_imports.py:64-82, 125-147).
NoTwins ==
  ~repaired =>
    \A i, j \in {n \in DOMAIN notes \ touched : notes[n].type \notin Broken} :
      notes[i].key = notes[j].key => i = j

\* The server carries out no import.
Quiet == server = <<>>

\* A commit can be repeated: after a part of a batch or the whole of it was
\* applied, a further commit completes it to what one commit gives, and the
\* next one finds nothing to change.  If a commit raises at a card, each of
\* them ends there (lesson_imports.py:74-147).
Repeatable ==
  Quiet => \A batch \in Batches : \A k \in 0..Len(batch) :
    LET After(p, cards) == Outcome(Begun(p.notes, p.made, batch), cards, TRUE)
        now   == Begun(notes, made, batch)
        once  == After(now, batch)
        again == After(After(now, SubSeq(batch, 1, k)), batch)
        more  == After(again, batch)
    IN /\ again.notes = once.notes /\ Len(again.items) = Len(once.items)
       /\ Counted(more.items, Changing) = 0

\* A commit does what a preview right before it says, card by card.  It raises
\* before the end only at a card that the preview says gives its metadata to a
\* note whose type cannot be used and is not of the batch.
Statuses(items) == [i \in DOMAIN items |-> items[i].status]
CommitFollows(batch) ==
  LET preview == Outcome(Begun(notes, made, batch), batch, FALSE)
      commit  == Outcome(Begun(preview.notes, preview.made, batch), batch, TRUE)
      done    == Len(commit.items)
      next    == preview.items[done + 1]
  IN /\ Statuses(commit.items) = [i \in 1..done |-> preview.items[i].status]
     /\ done < Len(batch) =>
          /\ next.status = "updated_metadata"
          /\ notes[next.note].type \in Broken \ TypesOf(batch)

\* A preview announces what a commit right after it does, if no two cards of
\* the batch have the same text, up to a card whose note lacks a field that
\* the preview says is filled in (lesson_imports.py:29-34, 43, 53-147).
ExactForDistinctCards ==
  Quiet => \A batch \in Batches :
    Cardinality({batch[i].key : i \in DOMAIN batch}) = Len(batch) => CommitFollows(batch)

\* "Exact decisions appear here: add, update metadata or skip": when a page
\* has a batch previewed and then committed, and nobody else does anything, the
\* commit does what the preview showed (LessonImportsPage.tsx:217).
PreviewIsExact ==
  [][\A p \in Page :
       /\ shown[p].mode = "preview" /\ shown'[p].mode = "commit"
       /\ shown'[p].batch = shown[p].batch
       /\ sent = 2 /\ changes = 0
       => Statuses(shown'[p].items) = Statuses(shown[p].items)]_vars

\* The receipts tell the truth.  What one says was added is a note that this
\* import made and that no other card or receipt claims; until somebody else
\* changes it, it is in the deck with the text and tags of its card.  And no
\* note that the import made is left out (adapter.py:368-380,
\* lesson_imports.py:125-147).
Added(items) == {i \in DOMAIN items : items[i].status = "added"}
Holds(id, c) ==
  /\ id \in DOMAIN notes
  /\ notes[id].type = c.type /\ notes[id].key = c.key /\ TagsOf(c) \subseteq notes[id].tags
TrueOf(request, batch, items) ==
  /\ \A i \in Added(items) :
       LET id == items[i].note
       IN /\ id \in 1..made /\ maker[id] = request
          /\ id \notin touched => Holds(id, batch[i])
          /\ \A j \in Added(items) : items[j].note = id => j = i
  /\ \A id \in 1..made : maker[id] = request => \E i \in Added(items) : items[i].note = id
ReceiptsAreTrue ==
  /\ \A r \in DOMAIN receipts : TrueOf(receipts[r].request, receipts[r].batch, receipts[r].items)
  /\ \A r, s \in DOMAIN receipts : receipts[r].request = receipts[s].request => r = s

\* "Import finished" on the page means that the receipt is on disk and that,
\* unless another screen changed the deck, each card that was not refused is in
\* it with its tags (adapter.py:369-381, LessonImportsPage.tsx:220).
ConfirmedIsDurable ==
  \A p \in Page : shown[p].mode = "commit" =>
    /\ \E r \in DOMAIN receipts : receipts[r].items = shown[p].items
    /\ changes = 0 =>
         \A i \in DOMAIN shown[p].items :
           shown[p].items[i].status \in Changing \cup {"skipped_duplicate"} =>
             LET c == shown[p].batch[i]
             IN \E n \in DOMAIN notes :
                  notes[n].key = c.key /\ TagsOf(c) \subseteq notes[n].tags

\* The page commits a batch only after it has shown a preview of that batch,
\* unless the form was edited while the preview was awaited
\* (LessonImportsPage.tsx:106-139).
CommitsWhatWasPreviewed ==
  [][\A p \in Page :
       Commit(p) /\ ~raced[p] => shown[p].mode = "preview" /\ shown[p].batch = form[p]]_vars
=============================================================================

------------------------- MODULE LessonImportProofs -------------------------
(***************************************************************************)
(* Lesson imports, for any number of tabs, batches, failures and restarts: *)
(* what a commit under way may have done to the deck, and so what the deck,*)
(* the receipts and the pages may show of the commits before it.           *)
(***************************************************************************)
EXTENDS LessonImport, FiniteSetTheorems, FunctionTheorems, WellFoundedInduction, TLAPS

Stage == {"wait", "run", "emit", "save"}
Requests == [page : Page, commit : BOOLEAN, batch : Batches, stage : Stage, awaited : BOOLEAN]
Status == {"error", "ambiguous_duplicate", "added", "skipped_duplicate", "metadata_conflict",
           "updated_metadata"}
Item == [status : Status, note : Nat]
View == [mode : {"none", "preview", "commit"}, batch : Seq(Card), items : Seq(Item)]
Receipt == [request : Nat, batch : Batches, items : Seq(Item)]

\* The notes of a deck, by id.
IsDeck(f, latest) == DOMAIN f \subseteq 1..latest /\ f \in [DOMAIN f -> Note]
IsPlan(q) ==
  /\ q.made \in Nat /\ IsDeck(q.notes, q.made) /\ IsDeck(q.index, q.made)
  /\ q.items \in Seq(Item)

Kinds ==
  /\ made \in Nat /\ IsDeck(notes, made) /\ models \in [Type -> Condition]
  /\ maker \in Seq(Nat) /\ Len(maker) = made
  /\ IsPlan(plan) /\ server \in Seq(Requests)
  /\ form \in [Page -> Batches] /\ shown \in [Page -> View] /\ raced \in [Page -> BOOLEAN]
  /\ receipts \in Seq(Receipt)
  /\ changes \in Nat

\* The notes the plan of a batch knows.
IndexOf(ns, batch) == [i \in {j \in DOMAIN ns : ns[j].type \notin Ignored(batch)} |-> ns[i]]

\* Only the first request is carried out, and only a commit has more to do once
\* its job is done.
Served ==
  \A i \in DOMAIN server :
    /\ server[i].stage # "wait" => i = 1
    /\ server[i].stage \in {"emit", "save"} => server[i].commit

\* While the job of a commit runs nobody else changes the deck it works on.
UnderWay == server # <<>> /\ server[1].commit /\ server[1].stage # "wait"
Drafts(batch) ==
  /\ plan.notes = notes /\ plan.made = made /\ plan.planned = {}
  /\ plan.index = IndexOf(notes, batch)
Drafted ==
  UnderWay /\ server[1].stage = "run" => \E batch \in Batches : server[1].batch = batch /\ Drafts(batch)

\* No note was made by a request that is still to come, nor by the first one
\* unless it is a commit under way.
Numbered ==
  /\ sent \in Nat /\ Len(server) <= sent
  /\ \A r \in DOMAIN receipts : receipts[r].request \in 1..(Serving - 1)
  /\ \A id \in 1..made : maker[id] <= Serving /\ (maker[id] = Serving => UnderWay)

\* What a commit claims to have added so far is what it has made.
Claimed == UnderWay => TrueOf(Serving, server[1].batch, plan.items)

\* What it did not refuse is in the deck.
Kept(c) == \E n \in DOMAIN notes : notes[n].key = c.key /\ TagsOf(c) \subseteq notes[n].tags
Settled(batch, items) ==
  \A i \in DOMAIN items :
    items[i].status \in Changing \cup {"skipped_duplicate"} => i \in DOMAIN batch /\ Kept(batch[i])
Applied == UnderWay /\ changes = 0 => Settled(server[1].batch, plan.items)

\* A page shows, or awaits, a preview of what is in its form, unless the form
\* was edited meanwhile.
FormShown ==
  \A p \in Page : ~raced[p] =>
    /\ shown[p].mode = "preview" => shown[p].batch = form[p]
    /\ \A i \in DOMAIN server : server[i].page = p /\ server[i].awaited => server[i].batch = form[p]

ImportInv ==
  /\ Kinds /\ Served /\ Numbered /\ Drafted /\ Claimed /\ Applied /\ FormShown
  /\ NoTwins /\ ReceiptsAreTrue /\ ConfirmedIsDurable

-----------------------------------------------------------------------------
(* Queues. *)

LEMMA QueueFacts ==
  ASSUME NEW S, NEW s \in Seq(S)
  PROVE  /\ Len(s) \in Nat /\ DOMAIN s = 1..Len(s)
         /\ \A i \in DOMAIN s : s[i] \in S
         /\ s # <<>> => 1 \in DOMAIN s
OBVIOUS

LEMMA AppendFacts ==
  ASSUME NEW S, NEW s \in Seq(S), NEW e \in S, NEW q, q = Append(s, e)
  PROVE  /\ q \in Seq(S) /\ Len(q) = Len(s) + 1 /\ Len(q) \in DOMAIN q /\ q[Len(q)] = e /\ q # <<>>
         /\ \A i \in DOMAIN s : i \in DOMAIN q /\ q[i] = s[i] /\ i # Len(q)
         /\ \A i \in DOMAIN q : i \in DOMAIN s \/ i = Len(q)
OBVIOUS

LEMMA TailFacts ==
  ASSUME NEW S, NEW s \in Seq(S), s # <<>>, NEW q, q = Tail(s)
  PROVE  /\ q \in Seq(S)
         /\ \A i \in DOMAIN q : i + 1 \in DOMAIN s /\ q[i] = s[i + 1] /\ i \in Nat /\ i + 1 # 1
OBVIOUS

-----------------------------------------------------------------------------
(* Notes and cards. *)

LEMMA MergedFacts ==
  ASSUME NEW n \in Note, NEW c \in Card
  PROVE  /\ Merged(n, c) \in Note /\ Merged(n, c).key = n.key /\ Merged(n, c).type = n.type
         /\ Merged(n, c).tags = n.tags \cup TagsOf(c)
BY DEF Merged, Note, Card, TagsOf

LEMMA NoteOfFacts ==
  ASSUME NEW c \in Card
  PROVE  NoteOf(c) \in Note /\ NoteOf(c).key = c.key /\ NoteOf(c).type = c.type /\ NoteOf(c).tags = TagsOf(c)
BY DEF NoteOf, Note, Card, TagsOf

LEMMA StoredFacts ==
  ASSUME NEW n \in Note
  PROVE  /\ Bare(n) \in Note /\ Bare(n).key = n.key /\ Bare(n).type = n.type /\ Bare(n).tags = n.tags
         /\ Stored(n) \in Note /\ Stored(n).key = n.key /\ Stored(n).type = n.type
         /\ Stored(n).tags = n.tags
BY DEF Stored, Bare, Note

LEMMA IgnoredFacts == ASSUME NEW batch PROVE Ignored(batch) \subseteq Broken /\ Broken \subseteq Type
BY DEF Ignored, Broken

LEMMA PutFacts ==
  ASSUME NEW f, NEW id, NEW n
  PROVE  /\ DOMAIN Put(f, id, n) = DOMAIN f \cup {id} /\ Put(f, id, n)[id] = n
         /\ \A i \in DOMAIN f \ {id} : Put(f, id, n)[i] = f[i]
BY DEF Put

LEMMA PutIsDeck ==
  ASSUME NEW f, NEW m \in Nat, IsDeck(f, m), NEW k \in Nat, m <= k, NEW id \in 1..k, NEW n \in Note
  PROVE  IsDeck(Put(f, id, n), k)
BY DEF Put, IsDeck

\* What becomes of a card, for any index of notes.
LEMMA Decides ==
  ASSUME NEW m \in Nat, NEW index, IsDeck(index, m), NEW planned, NEW c \in Card,
         NEW d, d = Decision(index, planned, c)
  PROVE  /\ d \in Item
         /\ d.note \in DOMAIN index \cup {0}
         /\ d.status = "added" => Found(index, c) = {} /\ c.type \notin Broken /\ d.note = 0
         /\ d.status = "updated_metadata" => d.note \in Found(index, c)
         /\ d.status = "skipped_duplicate" /\ planned = {} =>
              d.note \in Found(index, c) /\ Merged(index[d.note], c) = index[d.note]
<1> DEFINE found == Found(index, c)
           n == CHOOSE i \in found : TRUE
<1>1. found \subseteq DOMAIN index /\ DOMAIN index \subseteq Nat
  BY DEF Found, IsDeck
<1>2. found # {} => n \in found
  OBVIOUS
<1> HIDE DEF n, found
<1>4. \/ d = [status |-> "error", note |-> 0] \/ d = [status |-> "ambiguous_duplicate", note |-> 0]
      \/ d = [status |-> "added", note |-> 0] /\ found = {} /\ c.type \notin Broken
      \/ d = [status |-> "skipped_duplicate", note |-> 0] /\ n \in planned
      \/ d = [status |-> "metadata_conflict", note |-> n] /\ found # {}
      \/ d = [status |-> "updated_metadata", note |-> n] /\ found # {}
      \/ d = [status |-> "skipped_duplicate", note |-> n] /\ found # {} /\ Merged(index[n], c) = index[n]
  BY DEF Decision, n, found
<1>5. found # {} => n \in Nat /\ n \in DOMAIN index
  BY <1>1, <1>2
<1> QED BY <1>2, <1>4, <1>5 DEF Item, Status, found

LEMMA PlannedShape ==
  ASSUME NEW q, IsPlan(q), NEW c \in Card, NEW commit \in BOOLEAN
  PROVE  IsPlan(Planned(q, c, commit))
<1> DEFINE d == Decision(q.index, q.planned, c)
           id == IF d.status = "added" THEN q.made + 1 ELSE d.note
           latest == IF d.status = "added" THEN id ELSE q.made
           written(f) == CASE d.status = "added" -> Put(f, id, NoteOf(c))
                           [] d.status = "updated_metadata" -> Put(f, id, Merged(q.index[id], c))
                           [] OTHER -> f
           item == IF commit /\ d.status = "added" THEN [d EXCEPT !.note = id] ELSE d
           r == Planned(q, c, commit)
<1>1. /\ r.notes = IF commit THEN written(q.notes) ELSE q.notes
      /\ r.index = written(q.index) /\ r.made = latest /\ r.items = Append(q.items, item)
  BY DEF Planned
<1> HIDE DEF r
<1>0. q.made \in Nat /\ IsDeck(q.notes, q.made) /\ IsDeck(q.index, q.made) /\ q.items \in Seq(Item)
  BY DEF IsPlan
<1>2. /\ d \in Item /\ d.note \in DOMAIN q.index \cup {0}
      /\ d.status = "updated_metadata" => d.note \in DOMAIN q.index
  BY <1>0, Decides DEF Found
<1> HIDE DEF d
<1>a. DOMAIN q.index \subseteq 1..q.made /\ q.made + 1 \in 1..(q.made + 1)
  BY <1>0 DEF IsDeck
<1>3. latest \in Nat /\ q.made <= latest /\ (d.status \in {"added", "updated_metadata"} => id \in 1..latest)
  BY <1>0, <1>2, <1>a DEF Item
<1>4. item \in Item
  BY <1>0, <1>2 DEF Item, Status
<1>5. ASSUME NEW f, IsDeck(f, q.made) PROVE IsDeck(written(f), latest)
  <2>1. CASE d.status = "added"
    <3>1. NoteOf(c) \in Note
      BY NoteOfFacts
    <3> HIDE DEF id, latest
    <3>2. IsDeck(Put(f, id, NoteOf(c)), latest)
      BY <1>0, <1>3, <1>5, <2>1, <3>1, PutIsDeck
    <3> QED BY <2>1, <3>2
  <2>2. CASE d.status = "updated_metadata"
    <3>1. id = d.note
      BY <2>2
    <3>2. Merged(q.index[id], c) \in Note
      BY <1>0, <1>2, <2>2, <3>1, MergedFacts DEF IsDeck
    <3> HIDE DEF id, latest
    <3>3. IsDeck(Put(f, id, Merged(q.index[id], c)), latest)
      BY <1>0, <1>3, <1>5, <2>2, <3>2, PutIsDeck
    <3> QED BY <2>2, <3>3
  <2>3. CASE d.status \notin {"added", "updated_metadata"}
    <3>1. latest = q.made /\ written(f) = f
      BY <2>3
    <3> QED BY <1>5, <3>1
  <2> QED BY <2>1, <2>2, <2>3
<1> HIDE DEF written, latest, item, id
<1>6. r.made \in Nat /\ r.items \in Seq(Item)
  BY <1>0, <1>1, <1>3, <1>4
<1>7. IsDeck(r.index, r.made)
  BY <1>0, <1>1, <1>5
<1>8. IsDeck(q.notes, latest)
  BY <1>0, <1>3 DEF IsDeck
<1>9. IsDeck(r.notes, r.made)
  BY <1>0, <1>1, <1>5, <1>8
<1> QED BY <1>6, <1>7, <1>9 DEF IsPlan, r

\* What a commit does with one card, and what it says about it.
Done(c, item, ns, latest) ==
  \/ /\ item.status = "added" /\ item.note = made + 1 /\ latest = made + 1
     /\ ns = Put(notes, made + 1, NoteOf(c)) /\ c.type \notin Broken
     /\ \A i \in DOMAIN notes : notes[i].type \notin Broken => notes[i].key # c.key
  \/ /\ item.status = "updated_metadata" /\ latest = made
     /\ \E n \in DOMAIN notes : notes[n].key = c.key /\ ns = Put(notes, n, Merged(notes[n], c))
  \/ /\ item.status \notin Changing /\ ns = notes /\ latest = made
     /\ item.status = "skipped_duplicate" =>
          \E n \in DOMAIN notes : notes[n].key = c.key /\ TagsOf(c) \subseteq notes[n].tags

LEMMA CardCommitted ==
  ASSUME Kinds, plan.notes = notes, plan.made = made, plan.planned = {},
         NEW batch, plan.index = IndexOf(notes, batch),
         NEW c \in Card, NEW q, q = Planned(plan, c, TRUE)
  PROVE  /\ q.planned = {} /\ q.index = IndexOf(q.notes, batch)
         /\ \E item \in Item : q.items = Append(plan.items, item) /\ Done(c, item, q.notes, q.made)
<1> DEFINE index == IndexOf(notes, batch)
           d == Decision(index, {}, c)
           id == IF d.status = "added" THEN made + 1 ELSE d.note
           written(f) == CASE d.status = "added" -> Put(f, id, NoteOf(c))
                           [] d.status = "updated_metadata" -> Put(f, id, Merged(index[id], c))
                           [] OTHER -> f
           item == IF d.status = "added" THEN [d EXCEPT !.note = id] ELSE d
<1>0. made \in Nat /\ IsDeck(notes, made)
  BY DEF Kinds
<1>1. /\ q.notes = written(notes) /\ q.index = written(index) /\ q.planned = {}
      /\ q.made = IF d.status = "added" THEN id ELSE made
      /\ q.items = Append(plan.items, item)
  BY DEF Planned
<1>2. /\ DOMAIN index = {j \in DOMAIN notes : notes[j].type \notin Ignored(batch)}
      /\ \A i \in DOMAIN index : index[i] = notes[i] /\ i \in DOMAIN notes /\ notes[i] \in Note
  BY <1>0 DEF IndexOf, IsDeck
<1>3. IsDeck(index, made)
  BY <1>0, <1>2 DEF IsDeck, IndexOf
<1> HIDE DEF index
<1>4. /\ d \in Item
      /\ d.status = "added" => Found(index, c) = {} /\ c.type \notin Broken
      /\ d.status = "updated_metadata" => d.note \in Found(index, c)
      /\ d.status = "skipped_duplicate" =>
              d.note \in Found(index, c) /\ Merged(index[d.note], c) = index[d.note]
  BY <1>0, <1>3, Decides
<1> HIDE DEF d
<1>5. CASE d.status = "added"
  <2>1. /\ q.notes = Put(notes, made + 1, NoteOf(c)) /\ q.index = Put(index, made + 1, NoteOf(c))
        /\ q.made = made + 1 /\ id = made + 1
    BY <1>1, <1>5
  <2>2. item \in Item /\ item.status = "added" /\ item.note = made + 1
    BY <1>0, <1>4, <1>5 DEF Item
  <2>3. \A i \in DOMAIN notes : notes[i].type \notin Broken => notes[i].key # c.key
    BY <1>2, <1>4, <1>5, IgnoredFacts DEF Found
  <2>4. NoteOf(c).type \notin Ignored(batch)
    BY <1>4, <1>5, NoteOfFacts, IgnoredFacts
  <2>5. Put(index, made + 1, NoteOf(c)) = IndexOf(Put(notes, made + 1, NoteOf(c)), batch)
    BY <1>2, <2>4 DEF Put, IndexOf
  <2>6. Done(c, item, q.notes, q.made)
    BY <1>4, <1>5, <2>1, <2>2, <2>3 DEF Done
  <2> HIDE DEF item
  <2> QED BY <1>1, <2>1, <2>2, <2>5, <2>6
<1>6. CASE d.status = "updated_metadata"
  <2> DEFINE n == d.note
             new == Merged(notes[n], c)
  <2>1. n \in DOMAIN index /\ n \in DOMAIN notes /\ index[n] = notes[n] /\ notes[n].key = c.key
        /\ notes[n].type \notin Ignored(batch) /\ notes[n] \in Note
    BY <1>2, <1>4, <1>6 DEF Found
  <2>2. q.notes = Put(notes, n, new) /\ q.index = Put(index, n, new) /\ q.made = made /\ item = d
    BY <1>1, <1>6, <2>1
  <2>3. new.type = notes[n].type
    BY <2>1, MergedFacts
  <2> HIDE DEF new
  <2>4. Put(index, n, new) = IndexOf(Put(notes, n, new), batch)
    BY <1>2, <2>1, <2>3 DEF Put, IndexOf
  <2>5. Done(c, item, q.notes, q.made)
    BY <1>6, <2>1, <2>2 DEF Done, new
  <2> HIDE DEF item, n
  <2> QED BY <1>1, <1>4, <2>2, <2>4, <2>5
<1>7. CASE d.status \notin {"added", "updated_metadata"}
  <2>1. q.notes = notes /\ q.index = index /\ q.made = made /\ item = d
    BY <1>1, <1>7
  <2>2. d.status = "skipped_duplicate" =>
          \E n \in DOMAIN notes : notes[n].key = c.key /\ TagsOf(c) \subseteq notes[n].tags
    <3> SUFFICES ASSUME d.status = "skipped_duplicate"
                 PROVE  d.note \in DOMAIN notes /\ notes[d.note].key = c.key /\ TagsOf(c) \subseteq notes[d.note].tags
      OBVIOUS
    <3>1. d.note \in DOMAIN notes /\ notes[d.note] \in Note /\ notes[d.note].key = c.key
          /\ Merged(notes[d.note], c) = notes[d.note]
      BY <1>2, <1>4 DEF Found
    <3>2. Merged(notes[d.note], c).tags = notes[d.note].tags \cup TagsOf(c)
      BY <3>1, MergedFacts
    <3> QED BY <3>1, <3>2
  <2>3. Done(c, item, q.notes, q.made)
    BY <1>7, <2>1, <2>2 DEF Done, Changing
  <2> HIDE DEF item
  <2> QED BY <1>1, <1>4, <2>1, <2>3 DEF index
<1> QED BY <1>5, <1>6, <1>7

-----------------------------------------------------------------------------
(* The initial states. *)

LEMMA InvInit == Init => ImportInv
<1> SUFFICES ASSUME Init PROVE ImportInv
  OBVIOUS
<1>1. PICK s \in Start : notes = [i \in DOMAIN s |-> Stored(s[i])] /\ made = Len(s)
  BY DEF Init
<1>2. s \in Seq(Note) /\ Len(s) \in Nat /\ DOMAIN s = 1..Len(s) /\ \A i \in DOMAIN s : Stored(s[i]) \in Note
  <2>1. s \in Seq(Note)
    BY LessonAssumption
  <2>2. \A i \in DOMAIN s : s[i] \in Note
    BY <2>1
  <2> QED BY <2>1, <2>2, StoredFacts
<1>3. IsDeck(notes, made) /\ made \in Nat
  BY <1>1, <1>2 DEF IsDeck
<1>4. IsPlan(plan)
  BY DEF Init, NoPlan, IsPlan, IsDeck
<1>5. server = <<>> /\ DOMAIN server = {} /\ receipts = <<>> /\ DOMAIN receipts = {} /\ changes = 0
      /\ shown \in [Page -> View] /\ \A p \in Page : shown[p].mode = "none"
  BY DEF Init, Nothing, View
<1>6. server \in Seq(Requests) /\ receipts \in Seq(Receipt) /\ Len(server) = 0 /\ sent = 0
  BY <1>5 DEF Init
<1>7. /\ form \in [Page -> Batches] /\ raced \in [Page -> BOOLEAN] /\ models \in [Type -> Condition]
      /\ maker = [i \in 1..made |-> 0]
  BY LessonAssumption DEF Init
<1>m. maker \in Seq(Nat) /\ Len(maker) = made /\ \A id \in 1..made : maker[id] = 0
  BY <1>3, <1>7
<1>8. Kinds
  BY <1>3, <1>4, <1>5, <1>6, <1>7, <1>m DEF Kinds
<1>n. Numbered
  BY <1>5, <1>6, <1>m DEF Numbered, Serving
<1>9. Served /\ Drafted /\ Claimed /\ Applied /\ FormShown
  BY <1>5 DEF Served, Drafted, Claimed, Applied, FormShown, UnderWay
<1>10. ReceiptsAreTrue /\ ConfirmedIsDurable
  BY <1>5 DEF ReceiptsAreTrue, ConfirmedIsDurable
<1>11. NoTwins
  <2>1. touched = {i \in DOMAIN notes : \E j \in DOMAIN notes \ {i} : notes[j].key = notes[i].key}
    BY DEF Init
  <2> QED BY <2>1 DEF NoTwins
<1> QED BY <1>8, <1>9, <1>10, <1>11, <1>n DEF ImportInv

-----------------------------------------------------------------------------
(* What was said of a request before. *)

\* A step under which what is true of a request stays true.
Onward(request) ==
  /\ made' \in Nat /\ made <= made'
  /\ \A id \in 1..made : maker'[id] = maker[id]
  /\ \A id \in 1..made' : id \in 1..made \/ maker'[id] # request
  /\ touched \subseteq touched'
  /\ \A id \in DOMAIN notes \ touched' :
       /\ id \in DOMAIN notes' /\ notes'[id].type = notes[id].type /\ notes'[id].key = notes[id].key
       /\ notes[id].tags \subseteq notes'[id].tags

LEMMA TruthStays ==
  ASSUME made \in Nat, NEW request, Onward(request), NEW batch, NEW items, TrueOf(request, batch, items)
  PROVE  TrueOf(request, batch, items)'
<1>1. 1..made \subseteq 1..made'
  BY DEF Onward
<1>2. ASSUME NEW i \in Added(items), items[i].note \notin touched' PROVE Holds(items[i].note, batch[i])'
  <2>1. Holds(items[i].note, batch[i]) /\ items[i].note \notin touched
    BY <1>2 DEF TrueOf, Onward
  <2> QED BY <1>2, <2>1 DEF Holds, Onward, TagsOf
<1>3. ASSUME NEW i \in Added(items)
      PROVE  /\ items[i].note \in 1..made' /\ maker'[items[i].note] = request
             /\ \A j \in Added(items) : items[j].note = items[i].note => j = i
  BY <1>1 DEF TrueOf, Onward
<1>4. ASSUME NEW id \in 1..made', maker'[id] = request PROVE \E i \in Added(items) : items[i].note = id
  BY <1>4 DEF TrueOf, Onward
<1> QED BY <1>2, <1>3, <1>4 DEF TrueOf, Added

\* The receipts stay true under such a step.
LEMMA ReceiptsStay ==
  ASSUME made \in Nat, ReceiptsAreTrue, UNCHANGED receipts,
         \A r \in DOMAIN receipts : Onward(receipts[r].request)
  PROVE  ReceiptsAreTrue'
<1>1. ASSUME NEW r \in DOMAIN receipts
      PROVE  TrueOf(receipts[r].request, receipts[r].batch, receipts[r].items)'
  <2>1. PICK request, batch, items : /\ receipts[r].request = request /\ receipts[r].batch = batch
                                     /\ receipts[r].items = items
    OBVIOUS
  <2>2. Onward(request) /\ TrueOf(request, batch, items)
    BY <2>1 DEF ReceiptsAreTrue
  <2>3. TrueOf(request, batch, items)'
    BY <2>2, TruthStays
  <2>4. receipts'[r].request = request /\ receipts'[r].batch = batch /\ receipts'[r].items = items
    BY <2>1
  <2> QED BY <2>3, <2>4 DEF TrueOf, Added, Holds, TagsOf
<1> QED BY <1>1 DEF ReceiptsAreTrue

-----------------------------------------------------------------------------
(* Steps that leave the deck and the receipts alone. *)

\* The requests stay in order: the first one goes on, or is done with.
Attended ==
  /\ sent' \in Nat /\ Len(server') <= sent' /\ Serving' \in Nat /\ Serving <= Serving'
  /\ Serving' = Serving /\ UnderWay => UnderWay'

LEMMA ServingFacts ==
  ASSUME ImportInv
  PROVE  /\ Len(server) \in Nat /\ sent \in Nat /\ Len(server) <= sent
         /\ Serving \in Nat /\ Serving >= 1 /\ Serving = sent - Len(server) + 1
<1>1. Len(server) \in Nat /\ sent \in Nat /\ Len(server) <= sent
  BY DEF ImportInv, Kinds, Numbered
<1> QED BY <1>1 DEF Serving

\* The commit under way, if there is one after the step, was under way before.
LEMMA HeadKeeps ==
  ASSUME ImportInv, UNCHANGED <<deck, receipts, changes, touched, repaired>>, Attended,
         UnderWay' => /\ UnderWay /\ plan' = plan /\ server'[1].batch = server[1].batch
                      /\ Serving' = Serving
                      /\ server'[1].stage = "run" => server[1].stage = "run"
  PROVE  Numbered' /\ Drafted' /\ Claimed' /\ Applied' /\ NoTwins' /\ ReceiptsAreTrue'
<1>1. Drafted /\ Claimed /\ Applied /\ NoTwins /\ ReceiptsAreTrue /\ Numbered
  BY DEF ImportInv
<1>2. NoTwins' /\ ReceiptsAreTrue'
  BY <1>1 DEF NoTwins, ReceiptsAreTrue, TrueOf, Added, Holds, TagsOf, Broken, deck
<1>3. Drafted'
  <2> SUFFICES ASSUME UnderWay', server'[1].stage = "run"
               PROVE  \E batch \in Batches : server'[1].batch = batch /\ Drafts(batch)'
    BY DEF Drafted
  <2>1. PICK batch \in Batches : server[1].batch = batch /\ Drafts(batch)
    BY <1>1 DEF Drafted
  <2>2. Drafts(batch)'
    BY <2>1 DEF Drafts, IndexOf, Ignored, Broken, TypesOf, deck
  <2> QED BY <2>1, <2>2
<1>4. Claimed'
  <2> SUFFICES ASSUME UnderWay' PROVE TrueOf(Serving, server[1].batch, plan.items)'
    BY DEF Claimed
  <2>1. PICK request, batch, items : request = Serving /\ batch = server[1].batch /\ items = plan.items
    OBVIOUS
  <2>2. TrueOf(request, batch, items)
    BY <1>1, <2>1 DEF Claimed
  <2>3. TrueOf(request, batch, items)'
    BY <2>2 DEF TrueOf, Added, Holds, TagsOf, deck
  <2>4. Serving' = request /\ server'[1].batch = batch /\ plan'.items = items
    BY <2>1
  <2> QED BY <2>3, <2>4 DEF TrueOf, Added, Holds, TagsOf
<1>5. Applied'
  BY <1>1 DEF Applied, Settled, Kept, TagsOf, deck
<1>6. Numbered'
  <2>1. /\ \A r \in DOMAIN receipts : receipts[r].request \in 1..(Serving - 1)
        /\ \A id \in 1..made : maker[id] <= Serving /\ (maker[id] = Serving => UnderWay)
    BY <1>1 DEF Numbered
  <2>2. Serving \in Nat /\ Serving' \in Nat /\ Serving <= Serving' /\ sent' \in Nat /\ Len(server') <= sent'
        /\ (Serving' = Serving /\ UnderWay => UnderWay')
    BY ServingFacts DEF Attended
  <2>3. \A id \in 1..made : maker[id] \in Nat
    BY DEF ImportInv, Kinds
  <2>4. maker' = maker /\ made' = made /\ receipts' = receipts
    BY DEF deck
  <2>5. \A id \in 1..made : maker[id] <= Serving' /\ (maker[id] = Serving' => UnderWay')
    BY <2>1, <2>2, <2>3
  <2>6. \A r \in DOMAIN receipts : receipts[r].request \in 1..(Serving' - 1)
    BY <2>1, <2>2
  <2> QED BY <2>2, <2>4, <2>5, <2>6 DEF Numbered
<1> QED BY <1>2, <1>3, <1>4, <1>5, <1>6

\* What the pages show of commits stays true while they show no further one.
LEMMA ShownKeeps ==
  ASSUME ImportInv, UNCHANGED <<deck, receipts, changes>>,
         \A p \in Page : shown'[p].mode = "commit" => shown'[p] = shown[p]
  PROVE  ConfirmedIsDurable'
<1>1. ConfirmedIsDurable
  BY DEF ImportInv
<1> QED BY <1>1 DEF ConfirmedIsDurable, TagsOf, deck

\* The first request goes on.
LEMMA MovedFacts ==
  ASSUME server \in Seq(Requests), server # <<>>, NEW stage \in Stage,
         server' = [server EXCEPT ![1].stage = stage]
  PROVE  /\ server' \in Seq(Requests) /\ server' # <<>> /\ DOMAIN server' = DOMAIN server
         /\ server'[1] \in Requests
         /\ server'[1].stage = stage /\ server'[1].commit = server[1].commit
         /\ server'[1].batch = server[1].batch /\ server'[1].page = server[1].page
         /\ server'[1].awaited = server[1].awaited
         /\ \A i \in DOMAIN server \ {1} : server'[i] = server[i]
<1>1. 1 \in DOMAIN server /\ server[1] \in Requests /\ Len(server) \in Nat /\ DOMAIN server = 1..Len(server)
  OBVIOUS
<1>2. [server[1] EXCEPT !.stage = stage] \in Requests
  BY <1>1 DEF Requests
<1>3. server' = [server EXCEPT ![1] = [server[1] EXCEPT !.stage = stage]]
  OBVIOUS
<1>4. server' \in Seq(Requests) /\ DOMAIN server' = DOMAIN server
  BY <1>1, <1>2, <1>3
<1>5. server'[1] = [server[1] EXCEPT !.stage = stage] /\ \A i \in DOMAIN server \ {1} : server'[i] = server[i]
  BY <1>1, <1>3
<1>6. /\ server'[1].stage = stage /\ server'[1].commit = server[1].commit
      /\ server'[1].batch = server[1].batch /\ server'[1].page = server[1].page
      /\ server'[1].awaited = server[1].awaited
  BY <1>1, <1>5 DEF Requests
<1>7. server' # <<>>
  BY <1>1, <1>4
<1> QED BY <1>2, <1>4, <1>5, <1>6, <1>7

\* The first request is done with: those behind it wait.
LEMMA LeftFacts ==
  ASSUME server \in Seq(Requests), server # <<>>, Served, server' = Tail(server)
  PROVE  /\ server' \in Seq(Requests) /\ Served' /\ ~UnderWay' /\ Len(server') = Len(server) - 1
         /\ \A i \in DOMAIN server' : \E k \in DOMAIN server : server'[i] = server[k]
<1>1. /\ server' \in Seq(Requests)
      /\ \A i \in DOMAIN server' : i + 1 \in DOMAIN server /\ server'[i] = server[i + 1] /\ i \in Nat /\ i + 1 # 1
  BY TailFacts
<1>2. \A i \in DOMAIN server' : server'[i].stage = "wait"
  BY <1>1 DEF Served
<1>3. server' # <<>> => 1 \in DOMAIN server'
  BY <1>1, QueueFacts
<1>4. Len(server') = Len(server) - 1
  OBVIOUS
<1> QED BY <1>1, <1>2, <1>3, <1>4 DEF Served, UnderWay

\* How the number of the first request changes.
LEMMA Attends ==
  ASSUME ImportInv, server' \in Seq(Requests)
  PROVE  /\ sent' = sent /\ DOMAIN server' = DOMAIN server =>
              Serving' = Serving /\ ((UnderWay => UnderWay') => Attended)
         /\ sent' = sent + 1 /\ Len(server') = Len(server) + 1 =>
              Serving' = Serving /\ ((UnderWay => UnderWay') => Attended)
         /\ sent' = sent /\ Len(server') = Len(server) - 1 => Serving' = Serving + 1 /\ Attended
         /\ sent' = sent /\ server' = <<>> => Serving <= Serving' /\ ((server = <<>> => ~UnderWay) => Attended)
<1>1. /\ Len(server) \in Nat /\ sent \in Nat /\ Len(server) <= sent
      /\ Serving \in Nat /\ Serving = sent - Len(server) + 1
  BY ServingFacts
<1>2. Len(server') \in Nat /\ (DOMAIN server' = DOMAIN server => Len(server') = Len(server))
  <2>1. server \in Seq(Requests)
    BY DEF ImportInv, Kinds
  <2> QED BY <2>1
<1>3. Serving' = sent' - Len(server') + 1
  BY DEF Serving
<1>4. server' = <<>> => Len(server') = 0
  OBVIOUS
<1>5. Len(server) = 0 => server = <<>>
  BY DEF ImportInv, Kinds
<1> QED BY <1>1, <1>2, <1>3, <1>4, <1>5 DEF Attended

LEMMA TypeFormKeeps ==
  ASSUME ImportInv, NEW p \in Page, NEW batch \in Batches, TypeForm(p, batch) PROVE ImportInv'
<1>0. Kinds /\ Served /\ FormShown
  BY DEF ImportInv
<1>1. /\ form' = [form EXCEPT ![p] = batch] /\ shown' = [shown EXCEPT ![p] = Nothing]
      /\ raced' = [raced EXCEPT ![p] = Busy(p)]
      /\ UNCHANGED <<deck, plan, server, receipts, sent, changes, touched, repaired>>
  BY DEF TypeForm, bounds
<1>2. Kinds'
  <2>1. Nothing \in View /\ Busy(p) \in BOOLEAN
    BY DEF Nothing, View, Busy
  <2>2. shown' \in [Page -> View] /\ form' \in [Page -> Batches]
    BY <1>0, <1>1, <2>1 DEF Kinds
  <2>3. raced' \in [Page -> BOOLEAN]
    BY <1>0, <1>1, <2>1 DEF Kinds
  <2> QED BY <1>0, <1>1, <2>2, <2>3 DEF Kinds, deck, IsDeck, IsPlan
<1>3. Served'
  BY <1>0, <1>1 DEF Served
<1>a. Attended /\ Serving' = Serving
  BY <1>0, <1>1, Attends DEF Kinds, UnderWay
<1>4. Numbered' /\ Drafted' /\ Claimed' /\ Applied' /\ NoTwins' /\ ReceiptsAreTrue'
  BY <1>1, <1>a, HeadKeeps DEF UnderWay
<1>5. ConfirmedIsDurable'
  BY <1>0, <1>1, ShownKeeps DEF Kinds, Nothing
<1>6. FormShown'
  <2>1. raced'[p] <=> Busy(p)
    BY <1>0, <1>1 DEF Kinds
  <2>2. shown'[p].mode = "none"
    BY <1>0, <1>1 DEF Kinds, Nothing
  <2>3. \A r \in Page \ {p} : raced'[r] = raced[r] /\ shown'[r] = shown[r] /\ form'[r] = form[r]
    BY <1>0, <1>1 DEF Kinds
  <2> QED BY <1>0, <1>1, <2>1, <2>2, <2>3 DEF FormShown, Busy
<1> QED BY <1>2, <1>3, <1>4, <1>5, <1>6 DEF ImportInv

LEMMA SendKeeps == ASSUME ImportInv, NEW p \in Page, NEW commit \in BOOLEAN, Send(p, commit) PROVE ImportInv'
<1> DEFINE req == Request(p, commit)
<1>0. Kinds /\ Served /\ FormShown /\ server \in Seq(Requests)
  BY DEF ImportInv, Kinds
<1>1. /\ server' = Append(server, req) /\ sent' = sent + 1
      /\ UNCHANGED <<deck, plan, pages, receipts, changes, touched, repaired>>
  BY DEF Send
<1>2. req \in Requests /\ req.stage = "wait" /\ req.page = p /\ req.batch = form[p]
  BY <1>0 DEF Request, Requests, Stage, Kinds
<1> HIDE DEF req
<1>3. /\ server' \in Seq(Requests) /\ Len(server') \in DOMAIN server' /\ server'[Len(server')] = req
      /\ Len(server') = Len(server) + 1
      /\ \A i \in DOMAIN server : i \in DOMAIN server' /\ server'[i] = server[i] /\ i # Len(server')
      /\ \A i \in DOMAIN server' : i \in DOMAIN server \/ i = Len(server')
  BY <1>0, <1>1, <1>2, AppendFacts
<1>4. Kinds'
  BY <1>0, <1>1, <1>3 DEF Kinds, deck, pages, IsDeck, IsPlan
<1>5. Served'
  BY <1>0, <1>2, <1>3 DEF Served
<1>6. UnderWay' => UnderWay /\ server'[1] = server[1]
  <2>1. 1 \in DOMAIN server => server # <<>>
    OBVIOUS
  <2>2. 1 \in DOMAIN server' \/ server' = <<>>
    BY <1>3, QueueFacts
  <2> QED BY <1>2, <1>3, <2>1, <2>2 DEF UnderWay
<1>a. Attended /\ Serving' = Serving
  <2>1. UnderWay => UnderWay'
    <3>1. server # <<>> => 1 \in DOMAIN server
      BY <1>0, QueueFacts
    <3> QED BY <1>1, <1>3, <3>1 DEF UnderWay
  <2> QED BY <1>1, <1>3, <2>1, Attends
<1>7. Numbered' /\ Drafted' /\ Claimed' /\ Applied' /\ NoTwins' /\ ReceiptsAreTrue'
  <2>1. UnderWay' => server'[1] = server[1]
    BY <1>0, <1>3, <1>6, QueueFacts DEF UnderWay
  <2> QED BY <1>1, <1>6, <1>a, <2>1, HeadKeeps
<1>8. ConfirmedIsDurable'
  BY <1>1, ShownKeeps DEF pages
<1>9. FormShown'
  BY <1>0, <1>1, <1>2, <1>3 DEF FormShown, pages
<1> QED BY <1>4, <1>5, <1>7, <1>8, <1>9 DEF ImportInv

LEMMA DisconnectKeeps == ASSUME ImportInv, NEW p \in Page, Disconnect(p) PROVE ImportInv'
<1> DEFINE Lost(q) == IF q.page = p THEN [q EXCEPT !.awaited = FALSE] ELSE q
<1>0. Kinds /\ Served /\ FormShown /\ server \in Seq(Requests)
  BY DEF ImportInv, Kinds
<1>1. /\ server' = [i \in DOMAIN server |-> Lost(server[i])]
      /\ UNCHANGED <<deck, plan, pages, receipts, sent, changes, touched, repaired>>
  BY DEF Disconnect, bounds
<1>2. \A q \in Requests : /\ Lost(q) \in Requests /\ Lost(q).commit = q.commit /\ Lost(q).batch = q.batch
                          /\ Lost(q).stage = q.stage /\ Lost(q).page = q.page /\ (Lost(q).awaited => q.awaited)
  BY DEF Requests
<1> HIDE DEF Lost
<1>3. /\ DOMAIN server' = DOMAIN server /\ server' \in Seq(Requests)
      /\ \A i \in DOMAIN server : /\ server'[i].commit = server[i].commit /\ server'[i].batch = server[i].batch
                                  /\ server'[i].stage = server[i].stage /\ server'[i].page = server[i].page
                                  /\ server'[i].awaited => server[i].awaited
  <2>1. Len(server) \in Nat /\ DOMAIN server = 1..Len(server) /\ \A i \in DOMAIN server : server[i] \in Requests
    BY <1>0
  <2>2. server' \in Seq(Requests) /\ DOMAIN server' = DOMAIN server
    BY <1>1, <1>2, <2>1
  <2> QED BY <1>1, <1>2, <2>1, <2>2
<1>4. Kinds'
  BY <1>0, <1>1, <1>3 DEF Kinds, deck, pages, IsDeck, IsPlan
<1>5. Served'
  BY <1>0, <1>3 DEF Served
<1>6. /\ UnderWay' <=> UnderWay
      /\ UnderWay => server'[1].batch = server[1].batch /\ server'[1].stage = server[1].stage
  <2>1. (server' # <<>> <=> server # <<>>) /\ (server # <<>> => 1 \in DOMAIN server)
    BY <1>0, <1>3, QueueFacts
  <2> QED BY <1>3, <2>1 DEF UnderWay
<1>a. Attended /\ Serving' = Serving
  BY <1>1, <1>3, <1>6, Attends
<1>7. Numbered' /\ Drafted' /\ Claimed' /\ Applied' /\ NoTwins' /\ ReceiptsAreTrue'
  BY <1>1, <1>6, <1>a, HeadKeeps
<1>8. ConfirmedIsDurable'
  BY <1>1, ShownKeeps DEF pages
<1>9. FormShown'
  BY <1>0, <1>1, <1>3 DEF FormShown, pages
<1> QED BY <1>4, <1>5, <1>7, <1>8, <1>9 DEF ImportInv

-----------------------------------------------------------------------------
(* The steps of the server. *)

\* A step that answers nobody, and lets no new request in, upsets no page.
LEMMA FormKeeps ==
  ASSUME FormShown, UNCHANGED pages,
         \A i \in DOMAIN server' : \E k \in DOMAIN server :
            /\ server'[i].page = server[k].page /\ server'[i].batch = server[k].batch
            /\ server'[i].awaited = server[k].awaited
  PROVE  FormShown'
BY DEF FormShown, pages

\* The first request goes from one stage to another.
LEMMA StageKeeps ==
  ASSUME ImportInv, UNCHANGED pages, server # <<>>, NEW stage \in Stage,
         server' = [server EXCEPT ![1].stage = stage],
         stage \in {"emit", "save"} => server[1].commit
  PROVE  server' \in Seq(Requests) /\ Served' /\ FormShown'
<1>0. server \in Seq(Requests) /\ Served /\ FormShown
  BY DEF ImportInv, Kinds
<1>1. /\ server' \in Seq(Requests) /\ DOMAIN server' = DOMAIN server
      /\ server'[1].stage = stage /\ server'[1].commit = server[1].commit
      /\ server'[1].batch = server[1].batch /\ server'[1].page = server[1].page
      /\ server'[1].awaited = server[1].awaited
      /\ \A i \in DOMAIN server \ {1} : server'[i] = server[i]
  BY <1>0, MovedFacts
<1>2. Served'
  BY <1>0, <1>1 DEF Served
<1>3. FormShown'
  BY <1>0, <1>1, FormKeeps
<1> QED BY <1>1, <1>2, <1>3

LEMMA StartJobKeeps == ASSUME ImportInv, StartJob PROVE ImportInv'
<1> DEFINE batch == server[1].batch
<1>0. Kinds /\ Numbered /\ ConfirmedIsDurable /\ NoTwins /\ ReceiptsAreTrue
  BY DEF ImportInv
<1>1. /\ server # <<>> /\ server[1].stage = "wait" /\ server' = [server EXCEPT ![1].stage = "run"]
      /\ plan' = Begun(notes, made, batch)
      /\ UNCHANGED <<deck, pages, receipts, sent, changes, touched, repaired>>
  BY DEF StartJob, AtStage, MoveTo, bounds
<1>2. server' \in Seq(Requests) /\ Served' /\ FormShown'
  BY <1>1, StageKeeps DEF Stage
<1>m. DOMAIN server' = DOMAIN server /\ server'[1].batch = batch
  BY <1>0, <1>1, MovedFacts DEF Kinds, Stage
<1>a. ~UnderWay /\ Attended /\ Serving' = Serving
  <2>1. ~UnderWay
    BY <1>1 DEF UnderWay
  <2> QED BY <1>1, <1>2, <1>m, <2>1, Attends
<1>3. /\ plan'.notes = notes /\ plan'.index = IndexOf(notes, batch) /\ plan'.planned = {}
      /\ plan'.made = made /\ plan'.items = <<>> /\ DOMAIN plan'.items = {}
  BY <1>1 DEF Begun, IndexOf
<1>4. IsPlan(plan')
  <2>1. IsDeck(notes, made) /\ made \in Nat
    BY <1>0 DEF Kinds
  <2>2. IsDeck(IndexOf(notes, batch), made)
    BY <2>1 DEF IsDeck, IndexOf
  <2> QED BY <1>3, <2>1, <2>2 DEF IsPlan
<1>5. Kinds'
  BY <1>0, <1>1, <1>2, <1>4 DEF Kinds, deck, pages, IsDeck
<1>6. Drafted'
  <2>1. PICK b \in Batches : b = batch
    <3>1. server[1] \in Requests
      BY <1>0, <1>1, QueueFacts DEF Kinds
    <3> QED BY <3>1 DEF Requests
  <2>2. Drafts(b)'
    BY <1>1, <1>3, <2>1 DEF Drafts, IndexOf, Ignored, Broken, TypesOf, deck
  <2> QED BY <1>m, <2>1, <2>2 DEF Drafted
<1>7. Claimed' /\ Applied'
  <2>1. \A id \in 1..made : maker[id] # Serving
    BY <1>0, <1>a DEF Numbered
  <2>2. Claimed'
    BY <1>1, <1>3, <1>a, <2>1 DEF Claimed, TrueOf, Added, deck
  <2> QED BY <1>3, <2>2 DEF Applied, Settled
<1>8. Numbered' /\ NoTwins' /\ ReceiptsAreTrue'
  <2>1. Numbered'
    <3>1. Serving \in Nat /\ Serving' = Serving /\ sent' \in Nat /\ Len(server') <= sent'
      BY <1>a, ServingFacts DEF Attended
    <3> QED BY <1>0, <1>1, <1>a, <3>1 DEF Numbered, deck
  <2> QED BY <1>0, <1>1, <2>1 DEF NoTwins, ReceiptsAreTrue, TrueOf, Added, Holds, TagsOf, Broken, deck
<1>9. ConfirmedIsDurable'
  BY <1>1, ShownKeeps DEF pages
<1> QED BY <1>2, <1>5, <1>6, <1>7, <1>8, <1>9 DEF ImportInv

LEMMA EmitKeeps == ASSUME ImportInv, Emit PROVE ImportInv'
<1>0. Kinds /\ Served
  BY DEF ImportInv
<1>1. /\ server # <<>> /\ server[1].stage = "emit" /\ server' = [server EXCEPT ![1].stage = "save"]
      /\ UNCHANGED <<deck, plan, pages, receipts, sent, changes, touched, repaired>>
  BY DEF Emit, AtStage, MoveTo, bounds
<1>2. 1 \in DOMAIN server /\ server \in Seq(Requests)
  BY <1>0, <1>1, QueueFacts DEF Kinds
<1>3. server[1].commit
  BY <1>0, <1>1, <1>2 DEF Served
<1>4. server' \in Seq(Requests) /\ Served' /\ FormShown'
  BY <1>1, <1>3, StageKeeps DEF Stage
<1>5. /\ server'[1].stage = "save" /\ server'[1].batch = server[1].batch /\ server' # <<>>
      /\ server'[1].commit = server[1].commit /\ DOMAIN server' = DOMAIN server
  BY <1>1, <1>2, MovedFacts DEF Stage
<1>a. Attended /\ Serving' = Serving
  BY <1>1, <1>4, <1>5, Attends DEF UnderWay
<1>6. Numbered' /\ Drafted' /\ Claimed' /\ Applied' /\ NoTwins' /\ ReceiptsAreTrue'
  BY <1>1, <1>3, <1>5, <1>a, HeadKeeps DEF UnderWay
<1>7. Kinds'
  BY <1>0, <1>1, <1>4 DEF Kinds, deck, pages, IsDeck, IsPlan
<1>8. ConfirmedIsDurable'
  BY <1>1, ShownKeeps DEF pages
<1> QED BY <1>4, <1>6, <1>7, <1>8 DEF ImportInv

LEMMA NoPlanFacts == IsPlan(NoPlan) /\ NoPlan.items = <<>>
BY DEF NoPlan, IsPlan, IsDeck

LEMMA FailKeeps == ASSUME ImportInv, Fail PROVE ImportInv'
<1>0. Kinds /\ Served /\ FormShown /\ server \in Seq(Requests)
  BY DEF ImportInv, Kinds
<1>1. /\ server # <<>> /\ server' = Tail(server) /\ plan' = NoPlan
      /\ UNCHANGED <<deck, pages, receipts, sent, changes, touched, repaired>>
  BY DEF Fail, bounds
<1>2. /\ server' \in Seq(Requests) /\ Served' /\ ~UnderWay' /\ Len(server') = Len(server) - 1
      /\ \A i \in DOMAIN server' : \E k \in DOMAIN server : server'[i] = server[k]
  BY <1>0, <1>1, LeftFacts
<1>a. Attended
  BY <1>1, <1>2, Attends
<1>3. Numbered' /\ Drafted' /\ Claimed' /\ Applied' /\ NoTwins' /\ ReceiptsAreTrue'
  BY <1>1, <1>2, <1>a, HeadKeeps
<1>4. Kinds'
  <2>1. IsPlan(plan')
    BY <1>1, NoPlanFacts
  <2> QED BY <1>0, <1>1, <1>2, <2>1 DEF Kinds, deck, pages, IsDeck
<1>5. ConfirmedIsDurable'
  BY <1>1, ShownKeeps DEF pages
<1>6. FormShown'
  BY <1>0, <1>1, <1>2, FormKeeps
<1> QED BY <1>2, <1>3, <1>4, <1>5, <1>6 DEF ImportInv

LEMMA CrashKeeps == ASSUME ImportInv, Crash PROVE ImportInv'
<1>0. Kinds /\ FormShown
  BY DEF ImportInv
<1>1. /\ server' = <<>> /\ DOMAIN server' = {} /\ plan' = NoPlan
      /\ UNCHANGED <<deck, pages, receipts, sent, changes, touched, repaired>>
  BY DEF Crash
<1>2. ~UnderWay' /\ Served'
  BY <1>1 DEF UnderWay, Served
<1>a. Attended
  <2>1. (server = <<>> => ~UnderWay) /\ server' \in Seq(Requests)
    BY <1>1 DEF UnderWay
  <2> QED BY <1>1, <2>1, Attends
<1>3. Numbered' /\ Drafted' /\ Claimed' /\ Applied' /\ NoTwins' /\ ReceiptsAreTrue'
  BY <1>1, <1>2, <1>a, HeadKeeps
<1>4. Kinds'
  <2>1. IsPlan(plan') /\ server' \in Seq(Requests)
    BY <1>1, NoPlanFacts
  <2> QED BY <1>0, <1>1, <2>1 DEF Kinds, deck, pages, IsDeck
<1>5. ConfirmedIsDurable'
  BY <1>1, ShownKeeps DEF pages
<1>6. FormShown'
  BY <1>0, <1>1, FormKeeps
<1> QED BY <1>2, <1>3, <1>4, <1>5, <1>6 DEF ImportInv

\* A page that is answered shows the batch it sent.
LEMMA ReplyKeeps ==
  ASSUME ImportInv, server # <<>>, Reply
  PROVE  /\ server' \in Seq(Requests) /\ Served' /\ ~UnderWay' /\ IsPlan(plan') /\ FormShown'
         /\ Len(server') = Len(server) - 1 /\ form' = form /\ raced' = raced /\ shown' \in [Page -> View]
         /\ \A p \in Page : \/ shown'[p] = shown[p]
                            \/ /\ shown'[p].mode = IF server[1].commit THEN "commit" ELSE "preview"
                               /\ shown'[p].batch = server[1].batch /\ shown'[p].items = plan.items
<1> DEFINE view == [mode |-> IF server[1].commit THEN "commit" ELSE "preview",
                    batch |-> server[1].batch, items |-> plan.items]
           page == server[1].page
<1>0. Kinds /\ Served /\ FormShown /\ server \in Seq(Requests)
  BY DEF ImportInv, Kinds
<1>1. /\ server' = Tail(server) /\ plan' = NoPlan /\ form' = form /\ raced' = raced
      /\ shown' = IF server[1].awaited THEN [shown EXCEPT ![page] = view] ELSE shown
  BY DEF Reply
<1>2. /\ server' \in Seq(Requests) /\ Served' /\ ~UnderWay' /\ Len(server') = Len(server) - 1
      /\ \A i \in DOMAIN server' : \E k \in DOMAIN server : server'[i] = server[k]
  BY <1>0, <1>1, LeftFacts
<1>3. 1 \in DOMAIN server /\ server[1] \in Requests
  BY <1>0, QueueFacts
<1>4. view \in View /\ page \in Page
  <2>1. server[1].batch \in Seq(Card) /\ plan.items \in Seq(Item) /\ server[1].page \in Page
    BY <1>0, <1>3, LessonAssumption DEF Requests, Kinds, IsPlan
  <2> QED BY <2>1 DEF View
<1>5. view.mode = (IF server[1].commit THEN "commit" ELSE "preview")
      /\ view.batch = server[1].batch /\ view.items = plan.items
  OBVIOUS
<1> HIDE DEF view
<1>6. shown \in [Page -> View]
  BY <1>0 DEF Kinds
<1>7. /\ shown' \in [Page -> View]
      /\ \A p \in Page : shown'[p] = shown[p] \/ (shown'[p] = view /\ p = page /\ server[1].awaited)
  BY <1>1, <1>4, <1>6
<1>8. FormShown'
  BY <1>0, <1>1, <1>2, <1>3, <1>5, <1>7 DEF FormShown
<1>9. IsPlan(plan')
  BY <1>1, NoPlanFacts
<1> QED BY <1>1, <1>2, <1>5, <1>7, <1>8, <1>9

LEMMA FinishJobKeeps == ASSUME ImportInv, FinishJob PROVE ImportInv'
<1>0. Kinds /\ Served /\ FormShown /\ server \in Seq(Requests)
  BY DEF ImportInv, Kinds
<1>1. /\ server # <<>> /\ server[1].stage = "run"
      /\ UNCHANGED <<deck, receipts, sent, changes, touched, repaired>>
  BY DEF FinishJob, AtStage, bounds
<1>2. CASE server[1].commit
  <2> DEFINE next == IF Counted(plan.items, Changing) > 0 THEN "emit" ELSE "save"
  <2>1. server' = [server EXCEPT ![1].stage = next] /\ UNCHANGED <<plan, pages>>
    BY <1>2 DEF FinishJob, MoveTo
  <2>2. next \in Stage
    BY DEF Stage
  <2>3. server' \in Seq(Requests) /\ Served' /\ FormShown'
    BY <1>1, <1>2, <2>1, <2>2, StageKeeps
  <2>4. /\ server'[1].batch = server[1].batch /\ server'[1].stage \notin {"run", "wait"}
        /\ server'[1].commit = server[1].commit /\ server' # <<>> /\ DOMAIN server' = DOMAIN server
    BY <1>0, <1>1, <2>1, <2>2, MovedFacts
  <2>a. Attended /\ Serving' = Serving
    BY <1>1, <1>2, <2>3, <2>4, Attends DEF UnderWay
  <2>5. Numbered' /\ Drafted' /\ Claimed' /\ Applied' /\ NoTwins' /\ ReceiptsAreTrue'
    BY <1>1, <1>2, <2>1, <2>4, <2>a, HeadKeeps DEF UnderWay
  <2>6. Kinds'
    BY <1>0, <1>1, <2>1, <2>3 DEF Kinds, deck, pages, IsDeck, IsPlan
  <2>7. ConfirmedIsDurable'
    BY <1>1, <2>1, ShownKeeps DEF pages
  <2> QED BY <2>3, <2>5, <2>6, <2>7 DEF ImportInv
<1>3. CASE ~server[1].commit
  <2>0. Reply
    BY <1>3 DEF FinishJob
  <2>1. /\ server' \in Seq(Requests) /\ Served' /\ ~UnderWay' /\ IsPlan(plan') /\ FormShown'
        /\ Len(server') = Len(server) - 1 /\ form' = form /\ raced' = raced /\ shown' \in [Page -> View]
        /\ \A p \in Page : shown'[p] = shown[p] \/ shown'[p].mode = "preview"
    BY <1>1, <1>3, <2>0, ReplyKeeps
  <2>a. Attended
    BY <1>1, <2>1, Attends
  <2>2. Numbered' /\ Drafted' /\ Claimed' /\ Applied' /\ NoTwins' /\ ReceiptsAreTrue'
    BY <1>1, <2>1, <2>a, HeadKeeps
  <2>3. Kinds'
    BY <1>0, <1>1, <2>1 DEF Kinds, deck, IsDeck
  <2>4. ConfirmedIsDurable'
    BY <1>1, <2>1, ShownKeeps
  <2> QED BY <2>1, <2>2, <2>3, <2>4 DEF ImportInv
<1> QED BY <1>2, <1>3

LEMMA SaveReceiptKeeps == ASSUME ImportInv, SaveReceipt PROVE ImportInv'
<1> DEFINE items == plan.items
           saved == [request |-> Serving, batch |-> server[1].batch, items |-> items]
           last == Len(receipts')
<1>0. Kinds /\ Served /\ Numbered /\ Claimed /\ Applied /\ NoTwins /\ ReceiptsAreTrue /\ ConfirmedIsDurable
      /\ server \in Seq(Requests)
  BY DEF ImportInv, Kinds
<1>1. /\ server # <<>> /\ server[1].stage = "save" /\ Reply /\ receipts' = Append(receipts, saved)
      /\ UNCHANGED <<deck, sent, changes, touched, repaired>>
  BY DEF SaveReceipt, AtStage, bounds
<1>2. 1 \in DOMAIN server /\ server[1] \in Requests
  BY <1>0, <1>1, QueueFacts
<1>3. UnderWay /\ server[1].commit
  BY <1>0, <1>1, <1>2 DEF Served, UnderWay
<1>4. /\ server' \in Seq(Requests) /\ Served' /\ ~UnderWay' /\ IsPlan(plan') /\ FormShown'
      /\ Len(server') = Len(server) - 1 /\ form' = form /\ raced' = raced /\ shown' \in [Page -> View]
      /\ \A p \in Page : \/ shown'[p] = shown[p]
                         \/ shown'[p].batch = server[1].batch /\ shown'[p].items = items
  BY <1>1, ReplyKeeps
<1>a. /\ Serving \in Nat /\ Serving >= 1 /\ Serving' = Serving + 1
      /\ sent' \in Nat /\ Len(server') <= sent'
  BY <1>1, <1>4, Attends, ServingFacts DEF Attended
<1>5. /\ items \in Seq(Item) /\ receipts \in Seq(Receipt) /\ saved \in Receipt
      /\ saved.request = Serving /\ saved.batch = server[1].batch /\ saved.items = items
  BY <1>0, <1>2, <1>a DEF Kinds, IsPlan, Receipt, Requests
<1> HIDE DEF saved
<1>6. /\ receipts' \in Seq(Receipt) /\ last \in DOMAIN receipts' /\ receipts'[last] = saved
      /\ \A r \in DOMAIN receipts : r \in DOMAIN receipts' /\ receipts'[r] = receipts[r] /\ r # last
      /\ \A r \in DOMAIN receipts' : r \in DOMAIN receipts \/ r = last
  BY <1>1, <1>5, AppendFacts
<1> HIDE DEF last
<1>7. Kinds'
  BY <1>0, <1>1, <1>4, <1>6 DEF Kinds, deck, IsDeck
<1>8. Drafted' /\ Claimed' /\ Applied'
  BY <1>4 DEF Drafted, Claimed, Applied
<1>n. Numbered'
  <2>1. \A r \in DOMAIN receipts' : receipts'[r].request \in 1..(Serving' - 1)
    <3>1. \A r \in DOMAIN receipts : receipts[r].request \in 1..(Serving - 1)
      BY <1>0 DEF Numbered
    <3> QED BY <1>5, <1>6, <1>a, <3>1
  <2>2. \A id \in 1..made : maker[id] <= Serving' /\ maker[id] # Serving'
    <3>1. \A id \in 1..made : maker[id] \in Nat /\ maker[id] <= Serving
      BY <1>0 DEF Kinds, Numbered
    <3> QED BY <1>a, <3>1
  <2> QED BY <1>1, <1>a, <2>1, <2>2 DEF Numbered, deck
<1>9. NoTwins'
  BY <1>0, <1>1 DEF NoTwins, Broken, deck
<1>10. ReceiptsAreTrue'
  <2>1. TrueOf(saved.request, saved.batch, saved.items)
    BY <1>0, <1>3, <1>5 DEF Claimed
  <2>2. \A r \in DOMAIN receipts' : TrueOf(receipts'[r].request, receipts'[r].batch, receipts'[r].items)
    <3>1. \A r \in DOMAIN receipts : TrueOf(receipts[r].request, receipts[r].batch, receipts[r].items)
      BY <1>0 DEF ReceiptsAreTrue
    <3> QED BY <1>6, <2>1, <3>1
  <2>3. ASSUME NEW r \in DOMAIN receipts'
        PROVE  TrueOf(receipts[r].request, receipts[r].batch, receipts[r].items)'
    <3>1. PICK request, batch, sum : /\ receipts'[r].request = request /\ receipts'[r].batch = batch
                                     /\ receipts'[r].items = sum
      OBVIOUS
    <3>2. TrueOf(request, batch, sum)
      BY <2>2, <3>1
    <3>3. TrueOf(request, batch, sum)'
      BY <1>1, <3>2 DEF TrueOf, Added, Holds, TagsOf, deck
    <3> QED BY <3>1, <3>3 DEF TrueOf, Added, Holds, TagsOf
  <2>4. \A r, s \in DOMAIN receipts' : receipts'[r].request = receipts'[s].request => r = s
    <3>1. \A r, s \in DOMAIN receipts : receipts[r].request = receipts[s].request => r = s
      BY <1>0 DEF ReceiptsAreTrue
    <3>2. \A r \in DOMAIN receipts : receipts[r].request # saved.request
      <4>1. \A r \in DOMAIN receipts : receipts[r].request \in 1..(Serving - 1)
        BY <1>0 DEF Numbered
      <4> QED BY <1>5, <1>a, <4>1
    <3> QED BY <1>6, <3>1, <3>2
  <2> QED BY <2>3, <2>4 DEF ReceiptsAreTrue
<1>11. ConfirmedIsDurable'
  <2>1. changes = 0 => Settled(server[1].batch, items)
    BY <1>0, <1>3 DEF Applied
  <2> SUFFICES ASSUME NEW p \in Page, shown'[p].mode = "commit"
               PROVE  /\ \E r \in DOMAIN receipts' : receipts'[r].items = shown'[p].items
                      /\ changes = 0 =>
                           \A i \in DOMAIN shown'[p].items :
                             shown'[p].items[i].status \in Changing \cup {"skipped_duplicate"} =>
                               Kept(shown'[p].batch[i])
    BY <1>1 DEF ConfirmedIsDurable, Kept, TagsOf, deck
  <2>2. CASE shown'[p] = shown[p]
    <3>1. /\ \E r \in DOMAIN receipts : receipts[r].items = shown[p].items
          /\ changes = 0 =>
               \A i \in DOMAIN shown[p].items :
                 shown[p].items[i].status \in Changing \cup {"skipped_duplicate"} =>
                   Kept(shown[p].batch[i])
      BY <1>0, <2>2 DEF ConfirmedIsDurable, Kept
    <3> QED BY <1>6, <2>2, <3>1
  <2>3. CASE shown'[p].batch = server[1].batch /\ shown'[p].items = items
    BY <1>5, <1>6, <2>1, <2>3 DEF Settled
  <2> QED BY <1>4, <2>2, <2>3
<1> QED BY <1>4, <1>7, <1>8, <1>9, <1>10, <1>11, <1>n DEF ImportInv

\* A commit only adds: no note loses its text, its type or a tag.
LEMMA DoneFacts ==
  ASSUME Kinds, NEW c \in Card, NEW item \in Item, NEW ns, NEW latest, Done(c, item, ns, latest)
  PROVE  /\ latest = IF item.status = "added" THEN made + 1 ELSE made
         /\ item.status = "added" =>
              /\ item.note = made + 1 /\ made + 1 \in DOMAIN ns /\ ns[made + 1].type = c.type
              /\ ns[made + 1].key = c.key /\ TagsOf(c) \subseteq ns[made + 1].tags
         /\ \A i \in DOMAIN notes : /\ i \in DOMAIN ns /\ ns[i].key = notes[i].key
                                    /\ ns[i].type = notes[i].type /\ notes[i].tags \subseteq ns[i].tags
         /\ \A i \in DOMAIN ns \ DOMAIN notes :
              /\ i = made + 1 /\ ns[i].key = c.key
              /\ \A j \in DOMAIN notes : notes[j].type \notin Broken => notes[j].key # c.key
         /\ item.status \in Changing \cup {"skipped_duplicate"} =>
              \E n \in DOMAIN ns : ns[n].key = c.key /\ TagsOf(c) \subseteq ns[n].tags
<1>0. made \in Nat /\ made + 1 \notin DOMAIN notes /\ \A i \in DOMAIN notes : notes[i] \in Note
  BY DEF Kinds, IsDeck
<1>1. CASE /\ item.status = "added" /\ item.note = made + 1 /\ latest = made + 1
           /\ ns = Put(notes, made + 1, NoteOf(c))
           /\ \A i \in DOMAIN notes : notes[i].type \notin Broken => notes[i].key # c.key
  <2>1. /\ DOMAIN ns = DOMAIN notes \cup {made + 1} /\ ns[made + 1] = NoteOf(c)
        /\ \A i \in DOMAIN notes \ {made + 1} : ns[i] = notes[i]
    BY <1>1 DEF Put
  <2>2. NoteOf(c).key = c.key /\ NoteOf(c).type = c.type /\ NoteOf(c).tags = TagsOf(c)
    BY NoteOfFacts
  <2> QED BY <1>0, <1>1, <2>1, <2>2
<1>2. CASE /\ item.status = "updated_metadata" /\ latest = made
           /\ \E n \in DOMAIN notes : notes[n].key = c.key /\ ns = Put(notes, n, Merged(notes[n], c))
  <2>1. PICK n \in DOMAIN notes : notes[n].key = c.key /\ ns = Put(notes, n, Merged(notes[n], c))
    BY <1>2
  <2> DEFINE new == Merged(notes[n], c)
  <2>2. /\ new.key = notes[n].key /\ new.type = notes[n].type
        /\ new.tags = notes[n].tags \cup TagsOf(c)
    BY <1>0, MergedFacts
  <2>3. DOMAIN ns = DOMAIN notes /\ ns[n] = new /\ \A i \in DOMAIN notes \ {n} : ns[i] = notes[i]
    BY <2>1 DEF Put
  <2> HIDE DEF new
  <2> QED BY <1>2, <2>1, <2>2, <2>3
<1>3. CASE /\ item.status \notin Changing /\ ns = notes /\ latest = made
           /\ item.status = "skipped_duplicate" =>
                \E n \in DOMAIN notes : notes[n].key = c.key /\ TagsOf(c) \subseteq notes[n].tags
  BY <1>3 DEF Changing
<1> QED BY <1>1, <1>2, <1>3 DEF Done

LEMMA ProcessCardKeeps == ASSUME ImportInv, ProcessCard PROVE ImportInv'
<1> DEFINE place == Len(plan.items) + 1
<1>0. /\ Kinds /\ Served /\ Numbered /\ Drafted /\ Claimed /\ Applied /\ FormShown
      /\ NoTwins /\ ReceiptsAreTrue /\ ConfirmedIsDurable
  BY DEF ImportInv
<1>1. /\ server # <<>> /\ server[1].stage = "run" /\ place - 1 < Len(server[1].batch)
      /\ plan' = Planned(plan, server[1].batch[place], server[1].commit)
      /\ UNCHANGED <<models, server, pages, receipts, sent, changes, touched, repaired>>
  <2>1. Len(plan.items) \in Nat
    BY <1>0 DEF Kinds, IsPlan
  <2> QED BY <2>1 DEF ProcessCard, AtStage, bounds
<1>2. /\ server[1].batch \in Seq(Card) /\ server[1].commit \in BOOLEAN /\ plan.items \in Seq(Item)
      /\ server \in Seq(Requests)
  <2>1. server[1] \in Requests
    BY <1>0, <1>1, QueueFacts DEF Kinds
  <2> QED BY <1>0, <2>1, LessonAssumption DEF Requests, Kinds, IsPlan
<1>3. place \in DOMAIN server[1].batch /\ server[1].batch[place] \in Card
  BY <1>1, <1>2
<1>c. PICK c \in Card : c = server[1].batch[place]
  BY <1>3
<1>4. IsPlan(plan')
  <2>1. IsPlan(plan)
    BY <1>0 DEF Kinds
  <2> QED BY <1>1, <1>2, <1>c, <2>1, PlannedShape
<1>5. Served' /\ FormShown'
  BY <1>0, <1>1 DEF Served, FormShown, pages
<1>a. Attended /\ Serving' = Serving
  BY <1>1, <1>2, Attends DEF UnderWay
<1>6. CASE ~server[1].commit
  <2>1. UNCHANGED deck /\ ~UnderWay'
    BY <1>1, <1>6 DEF ProcessCard, deck, UnderWay
  <2>2. Numbered' /\ Drafted' /\ Claimed' /\ Applied' /\ NoTwins' /\ ReceiptsAreTrue'
    BY <1>1, <1>a, <2>1, HeadKeeps
  <2>3. Kinds'
    BY <1>0, <1>1, <1>4, <2>1 DEF Kinds, deck, pages, IsDeck
  <2>4. ConfirmedIsDurable'
    BY <1>1, <2>1, ShownKeeps DEF pages
  <2> QED BY <1>5, <2>2, <2>3, <2>4 DEF ImportInv
<1>7. CASE server[1].commit
  <2>1. /\ UnderWay /\ notes' = plan'.notes /\ made' = plan'.made /\ plan' = Planned(plan, c, TRUE)
        /\ maker' = IF made' = made THEN maker ELSE Append(maker, Serving)
    BY <1>1, <1>2, <1>7, <1>c DEF ProcessCard, UnderWay
  <2>b. PICK batch \in Batches : server[1].batch = batch /\ Drafts(batch)
    BY <1>0, <1>1, <2>1 DEF Drafted
  <2>2. /\ plan.notes = notes /\ plan.made = made /\ plan.planned = {}
        /\ plan.index = IndexOf(notes, batch)
    BY <2>b DEF Drafts
  <2>3. /\ plan'.planned = {} /\ plan'.index = IndexOf(plan'.notes, batch)
        /\ \E item \in Item : plan'.items = Append(plan.items, item) /\ Done(c, item, plan'.notes, plan'.made)
    BY <1>0, <1>3, <2>1, <2>2, CardCommitted
  <2>4. PICK item \in Item : plan'.items = Append(plan.items, item) /\ Done(c, item, notes', made')
    BY <2>1, <2>3
  <2>5. /\ made' = IF item.status = "added" THEN made + 1 ELSE made
        /\ item.status = "added" =>
             /\ item.note = made + 1 /\ made + 1 \in DOMAIN notes' /\ notes'[made + 1].type = c.type
             /\ notes'[made + 1].key = c.key /\ TagsOf(c) \subseteq notes'[made + 1].tags
        /\ \A i \in DOMAIN notes : /\ i \in DOMAIN notes' /\ notes'[i].key = notes[i].key
                                   /\ notes'[i].type = notes[i].type /\ notes[i].tags \subseteq notes'[i].tags
        /\ \A i \in DOMAIN notes' \ DOMAIN notes :
             /\ i = made + 1 /\ notes'[i].key = c.key
             /\ \A j \in DOMAIN notes : notes[j].type \notin Broken => notes[j].key # c.key
        /\ item.status \in Changing \cup {"skipped_duplicate"} =>
             \E n \in DOMAIN notes' : notes'[n].key = c.key /\ TagsOf(c) \subseteq notes'[n].tags
    BY <1>0, <1>3, <2>4, DoneFacts
  <2>6. /\ \A i \in DOMAIN plan.items : i \in DOMAIN plan'.items /\ plan'.items[i] = plan.items[i] /\ i # place
        /\ \A i \in DOMAIN plan'.items : i \in DOMAIN plan.items \/ i = place
        /\ plan'.items[place] = item /\ place \in DOMAIN plan'.items
    BY <1>2, <2>4, AppendFacts
  <2> HIDE DEF place
  <2>7. /\ made \in Nat /\ made' \in Nat /\ 1..made \subseteq 1..made' /\ made + 1 \notin 1..made
        /\ made + 1 \in 1..(made + 1) /\ \A i \in 1..(made + 1) : i \in 1..made \/ i = made + 1
    BY <1>0, <2>5 DEF Kinds
  <2>m. /\ maker' \in Seq(Nat) /\ Len(maker') = made'
        /\ \A id \in 1..made : maker'[id] = maker[id] /\ maker[id] \in Nat
        /\ item.status = "added" => maker'[made + 1] = Serving
    <3>1. maker \in Seq(Nat) /\ Len(maker) = made /\ Serving \in Nat
      BY <1>0, ServingFacts DEF Kinds
    <3>2. CASE item.status = "added"
      <4>1. maker' = Append(maker, Serving) /\ made' = made + 1
        BY <2>1, <2>5, <2>7, <3>2
      <4> QED BY <3>1, <4>1
    <3>3. CASE item.status # "added"
      <4>1. maker' = maker /\ made' = made
        BY <2>1, <2>5, <3>3
      <4> QED BY <3>1, <3>3, <4>1
    <3> QED BY <3>2, <3>3
  <2>8. Kinds'
    <3>1. IsDeck(notes, made)'
      BY <1>4, <2>1 DEF IsPlan, IsDeck
    <3> QED BY <1>0, <1>1, <1>4, <2>7, <2>m, <3>1 DEF Kinds, pages
  <2>9. Drafted'
    <3>1. Drafts(batch)'
      BY <1>1, <2>1, <2>3 DEF Drafts, IndexOf, Ignored, Broken, TypesOf
    <3> QED BY <1>1, <2>b, <3>1 DEF Drafted
  <2>n. Numbered'
    <3>1. UnderWay' /\ Serving \in Nat /\ sent' = sent /\ server' = server
      BY <1>1, <2>1, ServingFacts DEF UnderWay
    <3>2. \A id \in 1..made' : maker'[id] <= Serving
      <4>1. \A id \in 1..made : maker[id] <= Serving
        BY <1>0 DEF Numbered
      <4> QED BY <2>5, <2>7, <2>m, <3>1, <4>1
    <3> QED BY <1>0, <1>1, <1>a, <3>1, <3>2 DEF Numbered
  <2>10. TrueOf(Serving, server[1].batch, plan.items)
    BY <1>0, <2>1 DEF Claimed
  <2>11. Claimed'
    <3>0. PICK request, sum : request = Serving /\ plan'.items = sum
      OBVIOUS
    <3>1. \A i \in Added(plan.items) :
            /\ plan.items[i].note \in 1..made /\ maker[plan.items[i].note] = Serving
            /\ plan.items[i].note \notin touched => Holds(plan.items[i].note, batch[i])
            /\ \A j \in Added(plan.items) : plan.items[j].note = plan.items[i].note => j = i
      BY <2>10, <2>b DEF TrueOf
    <3>2. \A id \in 1..made : maker[id] = Serving => \E i \in Added(plan.items) : plan.items[i].note = id
      BY <2>10 DEF TrueOf
    <3>3. /\ \A i \in Added(plan.items) : i \in Added(sum) /\ sum[i] = plan.items[i] /\ i # place
          /\ \A i \in Added(sum) : i \in Added(plan.items) \/ (i = place /\ item.status = "added")
          /\ item.status = "added" => place \in Added(sum)
      BY <2>6, <3>0 DEF Added
    <3>4. ASSUME NEW i \in Added(sum)
          PROVE  /\ sum[i].note \in 1..made' /\ maker'[sum[i].note] = request
                 /\ sum[i].note \notin touched => Holds(sum[i].note, batch[i])'
                 /\ \A j \in Added(sum) : sum[j].note = sum[i].note => j = i
      <4>1. CASE i \in Added(plan.items)
        <5>1. sum[i].note = plan.items[i].note /\ plan.items[i].note \in 1..made
          BY <3>1, <3>3, <4>1
        <5>2. sum[i].note \notin touched => Holds(sum[i].note, batch[i])'
          BY <2>5, <3>1, <4>1, <5>1 DEF Holds, TagsOf
        <5>3. \A j \in Added(sum) : sum[j].note = sum[i].note => j = i
          BY <2>5, <2>6, <2>7, <3>0, <3>1, <3>3, <4>1, <5>1
        <5> QED BY <2>7, <2>m, <3>0, <3>1, <4>1, <5>1, <5>2, <5>3
      <4>2. CASE i = place /\ item.status = "added"
        <5>1. sum[i].note = made + 1 /\ made' = made + 1
          BY <2>5, <2>6, <3>0, <4>2
        <5>2. PICK id : id = made + 1
          OBVIOUS
        <5>3. batch[i] = c
          BY <1>c, <2>b, <4>2
        <5>4. Holds(id, c)'
          BY <2>5, <4>2, <5>2 DEF Holds, TagsOf
        <5>5. Holds(sum[i].note, batch[i])'
          BY <5>1, <5>2, <5>3, <5>4 DEF Holds, TagsOf
        <5>6. \A j \in Added(sum) : sum[j].note = sum[i].note => j = i
          BY <2>7, <3>1, <3>3, <4>2, <5>1
        <5> QED BY <2>5, <2>7, <2>m, <3>0, <4>2, <5>1, <5>5, <5>6
      <4> QED BY <3>3, <4>1, <4>2
    <3>5. ASSUME NEW id \in 1..made', maker'[id] = request
          PROVE  \E i \in Added(sum) : sum[i].note = id
      <4>1. CASE id \in 1..made
        BY <2>m, <3>0, <3>2, <3>3, <3>5, <4>1
      <4>2. CASE id \notin 1..made
        <5>1. id = made + 1 /\ item.status = "added" /\ item.note = made + 1
          BY <2>5, <2>7, <4>2
        <5> QED BY <2>6, <3>0, <3>3, <5>1
      <4> QED BY <4>1, <4>2
    <3>6. TrueOf(request, batch, sum)'
      BY <1>1, <3>4, <3>5 DEF TrueOf, Added
    <3>7. Serving' = request /\ server'[1].batch = batch /\ plan'.items = sum
      BY <1>1, <1>a, <2>b, <3>0
    <3> QED BY <3>6, <3>7 DEF Claimed, TrueOf, Added, Holds, TagsOf
  <2>12. ASSUME NEW d, Kept(d) PROVE Kept(d)'
    <3>1. PICK n \in DOMAIN notes : notes[n].key = d.key /\ TagsOf(d) \subseteq notes[n].tags
      BY <2>12 DEF Kept
    <3>2. n \in DOMAIN notes' /\ notes'[n].key = d.key /\ TagsOf(d) \subseteq notes'[n].tags
      BY <2>5, <3>1
    <3> QED BY <3>2 DEF Kept, TagsOf
  <2>13. Applied'
    <3> SUFFICES ASSUME changes = 0, NEW i \in DOMAIN plan'.items,
                        plan'.items[i].status \in Changing \cup {"skipped_duplicate"}
                 PROVE  i \in DOMAIN server[1].batch /\ \A d : d = server[1].batch[i] => Kept(d)'
      BY <1>1 DEF Applied, Settled, Kept, TagsOf
    <3>1. Settled(server[1].batch, plan.items)
      BY <1>0, <2>1 DEF Applied
    <3>2. CASE i \in DOMAIN plan.items
      BY <2>6, <2>12, <3>1, <3>2 DEF Settled
    <3>3. CASE i = place
      <4>1. Kept(c)'
        BY <2>5, <2>6, <3>3 DEF Kept
      <4> QED BY <1>1, <1>3, <1>c, <3>3, <4>1
    <3> QED BY <2>6, <3>2, <3>3
  <2>14. NoTwins'
    BY <1>0, <1>1, <2>5 DEF NoTwins, Broken
  <2>15. ReceiptsAreTrue'
    <3>1. ASSUME NEW r \in DOMAIN receipts PROVE Onward(receipts[r].request)
      <4>1. receipts[r].request # Serving
        <5>1. receipts[r].request \in 1..(Serving - 1) /\ Serving \in Nat
          BY <1>0, ServingFacts DEF Numbered
        <5> QED BY <5>1
      <4>2. \A id \in 1..made' : id \in 1..made \/ maker'[id] # receipts[r].request
        BY <2>5, <2>7, <2>m, <4>1
      <4>3. made <= made'
        BY <2>5, <2>7
      <4> QED BY <1>1, <2>5, <2>7, <2>m, <4>2, <4>3 DEF Onward
    <3> QED BY <1>0, <1>1, <2>7, <3>1, ReceiptsStay
  <2>16. ConfirmedIsDurable'
    <3> SUFFICES ASSUME NEW p \in Page, shown[p].mode = "commit"
                 PROVE  /\ \E r \in DOMAIN receipts : receipts[r].items = shown[p].items
                        /\ changes = 0 =>
                             \A i \in DOMAIN shown[p].items :
                               shown[p].items[i].status \in Changing \cup {"skipped_duplicate"} =>
                                 \A d : d = shown[p].batch[i] => Kept(d)'
      BY <1>1 DEF ConfirmedIsDurable, Kept, TagsOf, pages
    <3>1. /\ \E r \in DOMAIN receipts : receipts[r].items = shown[p].items
          /\ changes = 0 =>
               \A i \in DOMAIN shown[p].items :
                 shown[p].items[i].status \in Changing \cup {"skipped_duplicate"} =>
                   Kept(shown[p].batch[i])
      BY <1>0 DEF ConfirmedIsDurable, Kept
    <3> QED BY <2>12, <3>1
  <2> QED BY <1>5, <2>8, <2>9, <2>11, <2>13, <2>14, <2>15, <2>16, <2>n DEF ImportInv
<1> QED BY <1>6, <1>7, <1>2

-----------------------------------------------------------------------------
(* The other screens. *)

\* What a job of another screen does with the notes and their numbers.
OthersDo ==
  /\ made' \in Nat /\ made <= made' /\ maker' \in Seq(Nat) /\ Len(maker') = made'
  /\ IsDeck(notes, made)' /\ models' \in [Type -> Condition]
  /\ \A id \in 1..made : maker'[id] = maker[id]
  /\ \A id \in 1..made' : id \in 1..made \/ maker'[id] = 0
  /\ touched \subseteq touched'
  /\ \A id \in DOMAIN notes \ touched' :
       /\ id \in DOMAIN notes' /\ notes'[id].type = notes[id].type /\ notes'[id].key = notes[id].key
       /\ notes[id].tags \subseteq notes'[id].tags

LEMMA OtherKeeps ==
  ASSUME ImportInv, OtherJob, OthersDo, NoTwins'
  PROVE  ImportInv'
<1>0. Kinds /\ Served /\ Numbered /\ Claimed /\ FormShown /\ ReceiptsAreTrue /\ ConfirmedIsDurable
  BY DEF ImportInv
<1>1. /\ ~AtStage("run") /\ changes' = changes + 1
      /\ UNCHANGED <<plan, server, pages, receipts, sent>>
  BY DEF OtherJob
<1>2. /\ made \in Nat /\ made' \in Nat /\ 1..made \subseteq 1..made' /\ changes' \in Nat /\ changes' # 0
      /\ Serving \in Nat /\ Serving >= 1 /\ Serving' = Serving /\ (UnderWay' <=> UnderWay)
  BY <1>0, <1>1, ServingFacts DEF Kinds, OthersDo, Serving, UnderWay
<1>3. Kinds'
  BY <1>0, <1>1, <1>2 DEF Kinds, pages, IsPlan, IsDeck, OthersDo
<1>4. Served' /\ FormShown'
  BY <1>0, <1>1 DEF Served, FormShown, pages
<1>5. Drafted' /\ Applied'
  BY <1>1, <1>2 DEF Drafted, Applied, UnderWay, AtStage
<1>o. ASSUME NEW request \in Nat, request # 0 PROVE Onward(request)
  BY <1>o DEF Onward, OthersDo
<1>n. Numbered'
  <2>1. \A id \in 1..made' : maker'[id] <= Serving /\ (maker'[id] = Serving => UnderWay)
    <3>1. \A id \in 1..made : maker[id] <= Serving /\ (maker[id] = Serving => UnderWay)
      BY <1>0 DEF Numbered
    <3>2. 0 <= Serving /\ 0 # Serving
      BY <1>2
    <3> QED BY <3>1, <3>2 DEF OthersDo
  <2> QED BY <1>0, <1>1, <1>2, <2>1 DEF Numbered
<1>6. Claimed'
  <2> SUFFICES ASSUME UnderWay PROVE TrueOf(Serving, server[1].batch, plan.items)'
    BY <1>2 DEF Claimed
  <2>1. PICK request, batch, items : /\ request \in Nat /\ request = Serving
                                       /\ batch = server[1].batch /\ items = plan.items
    BY <1>2
  <2>2. TrueOf(request, batch, items)
    BY <1>0, <2>1 DEF Claimed
  <2>3. Onward(request)
    BY <1>2, <1>o, <2>1
  <2>4. TrueOf(request, batch, items)'
    BY <1>2, <2>2, <2>3, TruthStays
  <2> QED BY <1>1, <1>2, <2>1, <2>4 DEF TrueOf, Added, Holds, TagsOf
<1>7. ReceiptsAreTrue'
  <2>1. ASSUME NEW r \in DOMAIN receipts PROVE Onward(receipts[r].request)
    <3>1. receipts[r].request \in Nat /\ receipts[r].request # 0
      BY <1>0, <1>2 DEF Numbered
    <3> QED BY <1>o, <3>1
  <2> QED BY <1>0, <1>1, <1>2, <2>1, ReceiptsStay
<1>8. ConfirmedIsDurable'
  BY <1>0, <1>1, <1>2 DEF ConfirmedIsDurable, pages
<1> QED BY <1>3, <1>4, <1>5, <1>6, <1>7, <1>8, <1>n DEF ImportInv

\* Such a job that makes no note.
LEMMA NoneMade ==
  ASSUME ImportInv, UNCHANGED <<made, maker>>, IsDeck(notes, made)', models' \in [Type -> Condition],
         touched \subseteq touched',
         \A id \in DOMAIN notes \ touched' :
           /\ id \in DOMAIN notes' /\ notes'[id].type = notes[id].type /\ notes'[id].key = notes[id].key
           /\ notes[id].tags \subseteq notes'[id].tags
  PROVE  OthersDo
<1>1. made \in Nat /\ made <= made /\ maker \in Seq(Nat) /\ Len(maker) = made
  BY DEF ImportInv, Kinds
<1> QED BY <1>1 DEF OthersDo

LEMMA EditNoteKeeps == ASSUME ImportInv, NEW i \in DOMAIN notes, EditNote(i) PROVE ImportInv'
<1>0. Kinds /\ NoTwins /\ made \in Nat /\ IsDeck(notes, made) /\ models \in [Type -> Condition]
  BY DEF ImportInv, Kinds
<1>1. OtherJob /\ touched' = touched \cup {i} /\ UNCHANGED <<made, models, maker, repaired>>
  BY DEF EditNote
<1>2. notes[i] \in Note /\ \A j \in DOMAIN notes : notes[j] \in Note
  BY <1>0 DEF IsDeck
<1>3. \E n \in Note : notes' = [notes EXCEPT ![i] = n]
  <2>1. CASE \E k \in Key : notes' = [notes EXCEPT ![i].key = k]
    <3>1. PICK k \in Key : notes' = [notes EXCEPT ![i].key = k]
      BY <2>1
    <3>2. [notes[i] EXCEPT !.key = k] \in Note
      BY <1>2 DEF Note
    <3> QED BY <3>1, <3>2
  <2>2. CASE \E l \in Level \cup {Blank} : notes' = [notes EXCEPT ![i].level = l]
    <3>1. PICK l \in Level \cup {Blank} : notes' = [notes EXCEPT ![i].level = l]
      BY <2>2
    <3>2. [notes[i] EXCEPT !.level = l] \in Note
      BY <1>2 DEF Note
    <3> QED BY <3>1, <3>2
  <2>3. CASE /\ models[notes[i].type] # "unlabelled"
             /\ \E l \in Label \cup {Blank} : notes' = [notes EXCEPT ![i].label = l]
    <3>1. PICK l \in Label \cup {Blank} : notes' = [notes EXCEPT ![i].label = l]
      BY <2>3
    <3>2. [notes[i] EXCEPT !.label = l] \in Note
      BY <1>2 DEF Note
    <3> QED BY <3>1, <3>2
  <2> QED BY <2>1, <2>2, <2>3 DEF EditNote
<1>4. PICK n \in Note : notes' = [notes EXCEPT ![i] = n]
  BY <1>3
<1>5. DOMAIN notes' = DOMAIN notes /\ notes'[i] = n /\ \A j \in DOMAIN notes \ {i} : notes'[j] = notes[j]
  BY <1>0, <1>4 DEF IsDeck
<1>6. IsDeck(notes, made)'
  BY <1>0, <1>1, <1>4, <1>5 DEF IsDeck
<1>7. NoTwins'
  BY <1>0, <1>1, <1>5 DEF NoTwins, Broken
<1>8. OthersDo
  BY <1>0, <1>1, <1>5, <1>6, NoneMade
<1> QED BY <1>1, <1>7, <1>8, OtherKeeps

LEMMA DeleteNoteKeeps == ASSUME ImportInv, NEW i \in DOMAIN notes, DeleteNote(i) PROVE ImportInv'
<1>0. NoTwins /\ made \in Nat /\ IsDeck(notes, made) /\ models \in [Type -> Condition]
  BY DEF ImportInv, Kinds
<1>1. /\ OtherJob /\ notes' = [j \in DOMAIN notes \ {i} |-> notes[j]]
      /\ touched' = touched \cup {i} /\ UNCHANGED <<made, models, maker, repaired>>
  BY DEF DeleteNote
<1>2. DOMAIN notes' = DOMAIN notes \ {i} /\ \A j \in DOMAIN notes' : notes'[j] = notes[j]
  BY <1>1
<1>3. IsDeck(notes, made)'
  BY <1>0, <1>1, <1>2 DEF IsDeck
<1>4. NoTwins'
  BY <1>0, <1>1, <1>2 DEF NoTwins, Broken
<1>5. OthersDo
  BY <1>0, <1>1, <1>2, <1>3, NoneMade
<1> QED BY <1>1, <1>4, <1>5, OtherKeeps

LEMMA AddNoteKeeps == ASSUME ImportInv, NEW c \in Card, AddNote(c) PROVE ImportInv'
<1> DEFINE new == Stored(NoteOf(c))
<1>0. /\ NoTwins /\ made \in Nat /\ IsDeck(notes, made) /\ models \in [Type -> Condition]
      /\ maker \in Seq(Nat) /\ Len(maker) = made
  BY DEF ImportInv, Kinds
<1>1. /\ OtherJob /\ made' = made + 1 /\ notes' = Put(notes, made + 1, new)
      /\ maker' = Append(maker, 0) /\ touched' = touched \cup {made + 1} /\ UNCHANGED <<models, repaired>>
  BY DEF AddNote
<1>2. made + 1 \in Nat /\ made <= made + 1 /\ made + 1 \in 1..(made + 1)
  BY <1>0
<1>3. IsDeck(notes, made)'
  <2>1. new \in Note
    BY NoteOfFacts, StoredFacts
  <2> HIDE DEF new
  <2>2. IsDeck(Put(notes, made + 1, new), made + 1)
    BY <1>0, <1>2, <2>1, PutIsDeck
  <2> QED BY <1>1, <2>2 DEF IsDeck
<1>4. /\ DOMAIN notes' = DOMAIN notes \cup {made + 1}
      /\ \A j \in DOMAIN notes \ {made + 1} : notes'[j] = notes[j]
  BY <1>1 DEF Put
<1>5. NoTwins'
  BY <1>0, <1>1, <1>4 DEF NoTwins, Broken
<1>6. /\ maker' \in Seq(Nat) /\ Len(maker') = made' /\ \A id \in 1..made : maker'[id] = maker[id]
      /\ \A id \in 1..made' : id \in 1..made \/ maker'[id] = 0
  BY <1>0, <1>1
<1>7. OthersDo
  BY <1>0, <1>1, <1>2, <1>3, <1>4, <1>6 DEF OthersDo
<1> QED BY <1>1, <1>5, <1>7, OtherKeeps

LEMMA ChangeModelKeeps ==
  ASSUME ImportInv, NEW t \in Type, NEW condition \in Condition, ChangeModel(t, condition) PROVE ImportInv'
<1> DEFINE Now(i) == IF notes[i].type = t /\ condition = "unlabelled" THEN Bare(notes[i]) ELSE notes[i]
<1>0. made \in Nat /\ IsDeck(notes, made) /\ models \in [Type -> Condition]
  BY DEF ImportInv, Kinds
<1>1. /\ OtherJob /\ repaired' = TRUE /\ models' = [models EXCEPT ![t] = condition]
      /\ notes' = [i \in DOMAIN notes |-> Now(i)] /\ UNCHANGED <<made, maker, touched>>
  BY DEF ChangeModel
<1>2. \A i \in DOMAIN notes : notes[i] \in Note
  BY <1>0 DEF IsDeck
<1>3. \A i \in DOMAIN notes : /\ Now(i) \in Note /\ Now(i).type = notes[i].type /\ Now(i).key = notes[i].key
                              /\ Now(i).tags = notes[i].tags
  BY <1>2, StoredFacts
<1> HIDE DEF Now
<1>4. /\ DOMAIN notes' = DOMAIN notes
      /\ \A i \in DOMAIN notes : /\ notes'[i] \in Note /\ notes'[i].type = notes[i].type
                                 /\ notes'[i].key = notes[i].key /\ notes'[i].tags = notes[i].tags
  BY <1>1, <1>3
<1>5. IsDeck(notes, made)' /\ models' \in [Type -> Condition]
  BY <1>0, <1>1, <1>4 DEF IsDeck
<1>6. NoTwins'
  BY <1>1 DEF NoTwins
<1>7. OthersDo
  BY <1>1, <1>4, <1>5, NoneMade
<1> QED BY <1>1, <1>6, <1>7, OtherKeeps

-----------------------------------------------------------------------------
(* The results. *)

LEMMA InvNext == ASSUME ImportInv, [Next]_vars PROVE ImportInv'
<1>1. CASE UNCHANGED vars
  <2>1. /\ UNCHANGED <<deck, plan, server, pages, receipts, sent, changes, touched, repaired>>
    BY <1>1 DEF vars, bounds
  <2>a. Attended /\ Serving' = Serving
    BY <2>1, Attends DEF ImportInv, Kinds, UnderWay
  <2>2. Numbered' /\ Drafted' /\ Claimed' /\ Applied' /\ NoTwins' /\ ReceiptsAreTrue'
    BY <2>1, <2>a, HeadKeeps DEF UnderWay
  <2>3. ConfirmedIsDurable'
    BY <2>1, ShownKeeps DEF pages
  <2>4. Kinds' /\ Served' /\ FormShown'
    BY <2>1 DEF ImportInv, Kinds, Served, FormShown, deck, pages, IsDeck, IsPlan
  <2> QED BY <2>2, <2>3, <2>4 DEF ImportInv
<1>2. CASE \E p \in Page : (\E batch \in Batches : TypeForm(p, batch)) \/ RunPreview(p) \/ Commit(p) \/ Disconnect(p)
  BY <1>2, TypeFormKeeps, SendKeeps, DisconnectKeeps DEF RunPreview, Commit
<1>3. CASE StartJob \/ ProcessCard \/ FinishJob \/ Emit \/ SaveReceipt \/ Fail \/ Crash
  BY <1>3, StartJobKeeps, ProcessCardKeeps, FinishJobKeeps, EmitKeeps, SaveReceiptKeeps, FailKeeps, CrashKeeps
<1>4. CASE \E i \in DOMAIN notes : EditNote(i) \/ DeleteNote(i)
  BY <1>4, EditNoteKeeps, DeleteNoteKeeps
<1>5. CASE \E batch \in Batches : \E i \in DOMAIN batch : AddNote(batch[i])
  <2>0. PICK batch \in Batches : \E i \in DOMAIN batch : AddNote(batch[i])
    BY <1>5
  <2>1. PICK i \in DOMAIN batch : AddNote(batch[i])
    BY <2>0
  <2>2. batch[i] \in Card
    <3>1. batch \in Seq(Card)
      BY LessonAssumption
    <3> QED BY <3>1, QueueFacts
  <2> QED BY <2>1, <2>2, AddNoteKeeps
<1>6. CASE \E t \in Type, condition \in Condition : ChangeModel(t, condition)
  BY <1>6, ChangeModelKeeps
<1> QED BY <1>1, <1>2, <1>3, <1>4, <1>5, <1>6 DEF Next

\* What a commit under way may have done to the deck, and what the pages and
\* the receipts show of it, in every reachable state (adapter.py:347-381,
\* lesson_imports.py:53-147).
THEOREM ImportsKeepTheirShape == Spec => []ImportInv
BY InvInit, InvNext, PTL DEF Spec

\* Imports never give the deck two notes with the same text
\* (lesson_imports.py:64-82, 125-147).
THEOREM NoTwinsArise == Spec => []NoTwins
<1>1. ImportInv => NoTwins
  BY DEF ImportInv
<1> QED BY <1>1, ImportsKeepTheirShape, PTL

\* The notes a receipt says were added are those its import made, each for its
\* own card, and they are in the deck until somebody else changes them
\* (adapter.py:368-380, lesson_imports.py:125-147).
THEOREM ReceiptsStayTrue == Spec => []ReceiptsAreTrue
<1>1. ImportInv => ReceiptsAreTrue
  BY DEF ImportInv
<1> QED BY <1>1, ImportsKeepTheirShape, PTL

\* What a page shows as imported is on disk and in the deck (adapter.py:369-381,
\* LessonImportsPage.tsx:220).
THEOREM ConfirmedStaysDurable == Spec => []ConfirmedIsDurable
<1>1. ImportInv => ConfirmedIsDurable
  BY DEF ImportInv
<1> QED BY <1>1, ImportsKeepTheirShape, PTL

\* A page commits only what it has shown a preview of
\* (LessonImportsPage.tsx:106-139).
THEOREM OnlyPreviewedIsCommitted == Spec => CommitsWhatWasPreviewed
<1> DEFINE A == \A p \in Page :
                  Commit(p) /\ ~raced[p] => shown[p].mode = "preview" /\ shown[p].batch = form[p]
<1>1. ImportInv => A
  BY DEF ImportInv, FormShown, Commit, OffersCommit
<1>2. ImportInv /\ [Next]_vars => [A]_vars
  BY <1>1
<1> HIDE DEF A
<1>3. Spec => [][A]_vars
  BY <1>2, ImportsKeepTheirShape, PTL DEF Spec
<1> QED BY <1>3 DEF CommitsWhatWasPreviewed, A

-----------------------------------------------------------------------------
(* What becomes of whole batches, by induction over their cards.             *)

\* The induction: a set that has 0, and the successor of each of its numbers.
LEMMA Inductive ==
  ASSUME NEW S, 0 \in S, \A n \in Nat : n \in S => n + 1 \in S
  PROVE  \A n \in Nat : n \in S
<1> DEFINE Below == {ss \in Nat \X Nat : ss[1] < ss[2]}
           Others == Nat \ S
<1>1. IsWellFoundedOn(Below, Nat)
  BY NatLessThanWellFounded DEF OpToRel
<1> SUFFICES ASSUME Others # {} PROVE FALSE
  OBVIOUS
<1> HIDE DEF Below
<1>2. PICK x \in Others : \A y \in Others : <<y, x>> \notin Below
  BY <1>1, WFMin
<1>3. x \in Nat /\ x # 0 /\ x - 1 \in Nat /\ x - 1 + 1 = x
  BY <1>2
<1>4. x - 1 \notin Others
  <2>1. \A y \in Nat : y < x => <<y, x>> \in Below
    BY <1>3 DEF Below
  <2>2. x - 1 < x
    BY <1>3
  <2>3. <<x - 1, x>> \in Below
    BY <1>3, <2>1, <2>2
  <2> QED BY <1>2, <2>3
<1> QED BY <1>2, <1>3, <1>4

\* The plans while a batch is planned, from the one it starts with.
Course(f, p, batch, commit) ==
  f[0] = p /\ \A k \in 1..Len(batch) : f[k] = Advanced(f[k - 1], k, batch[k], commit)

LEMMA CourseExists ==
  ASSUME NEW p, NEW batch, Len(batch) \in Nat, NEW commit
  PROVE  \E f : Course(f, p, batch, commit) /\ Outcome(p, batch, commit) = f[Len(batch)]
<1> DEFINE N == Len(batch)
           Is(f, n) == f = [k \in 0..n |-> IF k = 0 THEN p ELSE Advanced(f[k - 1], k, batch[k], commit)]
           S == {n \in Nat : \E f : Is(f, n)}
<1>1. 0 \in S
  <2>1. Is([k \in 0..0 |-> p], 0)
    OBVIOUS
  <2> QED BY <2>1
<1>2. ASSUME NEW n \in Nat, n \in S PROVE n + 1 \in S
  <2>1. PICK f : Is(f, n)
    BY <1>2
  <2> DEFINE g == [k \in 0..(n + 1) |-> IF k <= n THEN f[k] ELSE Advanced(f[n], n + 1, batch[n + 1], commit)]
  <2>2. ASSUME NEW k \in 0..(n + 1)
        PROVE  g[k] = IF k = 0 THEN p ELSE Advanced(g[k - 1], k, batch[k], commit)
    <3>1. CASE k <= n
      <4>1. k \in 0..n /\ (k # 0 => k - 1 \in 0..(n + 1) /\ k - 1 <= n)
        BY <3>1
      <4>2. g[k] = f[k] /\ (k # 0 => g[k - 1] = f[k - 1])
        BY <4>1
      <4>3. f[k] = IF k = 0 THEN p ELSE Advanced(f[k - 1], k, batch[k], commit)
        BY <2>1, <4>1
      <4> QED BY <4>2, <4>3
    <3>2. CASE k = n + 1
      <4>1. k # 0 /\ ~(k <= n) /\ k - 1 = n /\ n \in 0..(n + 1) /\ n <= n
        BY <3>2
      <4>2. g[k] = Advanced(f[n], n + 1, batch[n + 1], commit) /\ g[k - 1] = f[n]
        BY <4>1
      <4> QED BY <3>2, <4>1, <4>2
    <3> QED BY <3>1, <3>2
  <2>3. g = [k \in 0..(n + 1) |-> g[k]]
    OBVIOUS
  <2> HIDE DEF g
  <2>4. Is(g, n + 1)
    BY <2>2, <2>3
  <2> HIDE DEF Is
  <2> QED BY <2>4
<1> HIDE DEF S
<1>3. N \in S
  BY <1>1, <1>2, Inductive
<1> DEFINE f == CHOOSE f : Is(f, N)
<1>4. Is(f, N)
  <2> HIDE DEF Is
  <2> QED BY <1>3 DEF S
<1>5. Outcome(p, batch, commit) = f[N]
  BY DEF Outcome
<1> HIDE DEF f
<1>6. \A k \in 0..N : f[k] = IF k = 0 THEN p ELSE Advanced(f[k - 1], k, batch[k], commit)
  BY <1>4
<1>7. Course(f, p, batch, commit)
  BY <1>6 DEF Course
<1> QED BY <1>5, <1>7

\* A step: the case d that is decided of card c and what it does with the plan.
Step(q, c, commit, d, r) ==
  /\ d.status = "added" =>
       /\ r.index = Put(q.index, q.made + 1, NoteOf(c)) /\ r.made = q.made + 1
       /\ r.notes = IF commit THEN Put(q.notes, q.made + 1, NoteOf(c)) ELSE q.notes
       /\ r.planned = IF commit THEN q.planned ELSE q.planned \cup {q.made + 1}
  /\ d.status = "updated_metadata" =>
       /\ r.index = Put(q.index, d.note, Merged(q.index[d.note], c)) /\ r.made = q.made
       /\ r.notes = IF commit THEN Put(q.notes, d.note, Merged(q.index[d.note], c)) ELSE q.notes
       /\ r.planned = q.planned
  /\ d.status \notin Changing =>
       r.index = q.index /\ r.made = q.made /\ r.notes = q.notes /\ r.planned = q.planned
  /\ Len(r.items) = Len(q.items) + 1
  /\ \A i \in DOMAIN q.items : i \in DOMAIN r.items /\ r.items[i] = q.items[i]
  /\ \A i \in DOMAIN r.items : i \in DOMAIN q.items \/ i = Len(q.items) + 1
  /\ r.items[Len(q.items) + 1].status = d.status
  /\ ~commit => r.items[Len(q.items) + 1] = d

LEMMA StepOf ==
  ASSUME NEW q, IsPlan(q), NEW c \in Card, NEW commit \in BOOLEAN
  PROVE  Step(q, c, commit, Decision(q.index, q.planned, c), Planned(q, c, commit))
<1> DEFINE d == Decision(q.index, q.planned, c)
           r == Planned(q, c, commit)
<1> DEFINE item == IF commit /\ d.status = "added" THEN [d EXCEPT !.note = q.made + 1] ELSE d
<1>1. q.made \in Nat /\ IsDeck(q.index, q.made) /\ q.items \in Seq(Item)
  BY DEF IsPlan
<1>2. d \in Item
  BY <1>1, Decides
<1>3. item \in Item /\ item.status = d.status /\ (~commit => item = d)
  BY <1>1, <1>2 DEF Item
<1>4. r.items = Append(q.items, item)
  <2>1. item = IF commit /\ d.status = "added"
               THEN [d EXCEPT !.note = IF d.status = "added" THEN q.made + 1 ELSE d.note] ELSE d
    OBVIOUS
  <2> QED BY <2>1 DEF Planned
<1> HIDE DEF item, d
<1>5. /\ Len(r.items) = Len(q.items) + 1
      /\ \A i \in DOMAIN q.items : i \in DOMAIN r.items /\ r.items[i] = q.items[i]
      /\ \A i \in DOMAIN r.items : i \in DOMAIN q.items \/ i = Len(q.items) + 1
      /\ r.items[Len(q.items) + 1] = item
  BY <1>1, <1>3, <1>4
<1>6. CASE d.status = "added"
  BY <1>3, <1>5, <1>6 DEF Planned, Changing, Step, d, r
<1>7. CASE d.status = "updated_metadata"
  BY <1>3, <1>5, <1>7 DEF Planned, Changing, Step, d, r
<1>8. CASE d.status \notin Changing
  BY <1>3, <1>5, <1>8 DEF Planned, Changing, Step, d, r
<1> QED BY <1>6, <1>7, <1>8 DEF Changing

\* What is decided depends on the notes of the same text only.
LEMMA OneOrMore ==
  ASSUME NEW m \in Nat, NEW S, S \subseteq 1..m
  PROVE  Cardinality(S) > 1 <=> \E i, j \in S : i # j
<1>0. IsFiniteSet(1..m) /\ S \in SUBSET (1..m)
  BY FS_Interval
<1>1. IsFiniteSet(S) /\ Cardinality(S) \in Nat
  BY <1>0, FS_Subset, FS_CardinalityType
<1>2. ASSUME NEW i \in S, NEW j \in S, i # j PROVE Cardinality(S) > 1
  <2>1. {i, j} \in SUBSET S /\ {i} \cup {j} = {i, j} /\ j \notin {i}
    BY <1>2
  <2>2. Cardinality({i, j}) = 2
    <3>1. IsFiniteSet({i}) /\ Cardinality({i}) = 1
      BY FS_Singleton
    <3>2. Cardinality({i} \cup {j}) = Cardinality({i}) + 1
      BY <2>1, <3>1, FS_AddElement
    <3> QED BY <2>1, <3>1, <3>2
  <2>3. Cardinality({i, j}) <= Cardinality(S)
    BY <1>1, <2>1, FS_Subset
  <2> QED BY <1>1, <2>2, <2>3
<1>3. ASSUME \A i, j \in S : i = j PROVE ~(Cardinality(S) > 1)
  <2>1. CASE S = {}
    BY <2>1, FS_EmptySet
  <2>2. CASE S # {}
    <3>1. PICK x : x \in S
      BY <2>2
    <3>2. S = {x}
      BY <1>3, <3>1
    <3>3. Cardinality(S) = 1
      BY <3>2, FS_Singleton
    <3> QED BY <3>3
  <2> QED BY <2>1, <2>2
<1> QED BY <1>2, <1>3

\* A card has no more to do: each later decision leaves it as it is.
Final(index, c) ==
  \/ c.type \in Broken
  \/ \E i, j \in Found(index, c) : i # j
  \/ \E n \in Found(index, c) :
       /\ Found(index, c) = {n}
       /\ Conflicts(index[n], c) \/ Merged(index[n], c) = index[n]

LEMMA DecisionIs ==
  ASSUME NEW m \in Nat, NEW index, IsDeck(index, m), NEW c \in Card, NEW d, d = Decision(index, {}, c)
  PROVE  /\ d.status \notin Changing <=> Final(index, c)
         /\ d.status = "updated_metadata" =>
              /\ Found(index, c) = {d.note} /\ ~Conflicts(index[d.note], c)
              /\ c.type \notin Broken
<1> DEFINE found == Found(index, c)
           n == CHOOSE i \in found : TRUE
<1>1. found \subseteq 1..m
  BY DEF Found, IsDeck
<1>2. Cardinality(found) > 1 <=> \E i, j \in found : i # j
  BY <1>1, OneOrMore
<1>3. found # {} => n \in found
  OBVIOUS
<1>4. d = IF c.type \in Broken THEN [status |-> "error", note |-> 0]
     ELSE IF Cardinality(found) > 1 THEN [status |-> "ambiguous_duplicate", note |-> 0]
     ELSE IF found = {} THEN [status |-> "added", note |-> 0]
     ELSE IF n \in {} THEN [status |-> "skipped_duplicate", note |-> 0]
     ELSE IF Conflicts(index[n], c) THEN [status |-> "metadata_conflict", note |-> n]
     ELSE [status |-> IF Merged(index[n], c) = index[n] THEN "skipped_duplicate"
                                                        ELSE "updated_metadata",
           note |-> n]
  BY DEF Decision
<1>5. Final(index, c) <=> \/ c.type \in Broken
                          \/ \E i, j \in found : i # j
                          \/ \E k \in found : found = {k} /\ (Conflicts(index[k], c) \/ Merged(index[k], c) = index[k])
  BY DEF Final
<1> HIDE DEF found, n
<1>6. CASE c.type \in Broken \/ Cardinality(found) > 1 \/ found = {}
  BY <1>2, <1>4, <1>5, <1>6 DEF Changing
<1>7. CASE ~(c.type \in Broken \/ Cardinality(found) > 1 \/ found = {})
  <2>1. found = {n}
    BY <1>2, <1>3, <1>7
  <2>2. Final(index, c) <=> (Conflicts(index[n], c) \/ Merged(index[n], c) = index[n])
    BY <1>5, <1>7, <1>2, <2>1
  <2>3. d = IF Conflicts(index[n], c) THEN [status |-> "metadata_conflict", note |-> n]
            ELSE [status |-> IF Merged(index[n], c) = index[n] THEN "skipped_duplicate"
                                                               ELSE "updated_metadata",
                  note |-> n]
    BY <1>4, <1>7
  <2>4. CASE Conflicts(index[n], c)
    BY <2>2, <2>3, <2>4 DEF Changing
  <2>5. CASE ~Conflicts(index[n], c) /\ Merged(index[n], c) = index[n]
    BY <2>2, <2>3, <2>5 DEF Changing
  <2>6. CASE ~Conflicts(index[n], c) /\ Merged(index[n], c) # index[n]
    BY <1>7, <2>1, <2>2, <2>3, <2>6 DEF Changing, found
  <2> QED BY <2>4, <2>5, <2>6
<1> QED BY <1>6, <1>7

LEMMA MergedTwice ==
  ASSUME NEW c \in Card
  PROVE  /\ Merged(NoteOf(c), c) = NoteOf(c)
         /\ \A n \in Note : Merged(Merged(n, c), c) = Merged(n, c)
         /\ \A n \in Note, e \in Card :
              /\ Conflicts(n, c) => Conflicts(Merged(n, e), c)
              /\ Merged(n, c) = n => Merged(Merged(n, e), c) = Merged(n, e)
<1>0. \A n \in Note : n = [type |-> n.type, key |-> n.key, level |-> n.level, label |-> n.label,
                          tags |-> n.tags]
  BY DEF Note
<1>2. ASSUME NEW n \in Note, NEW e \in Card
      PROVE  Merged(n, e) = [type |-> n.type, key |-> n.key,
                             level |-> IF n.level = Blank THEN e.level ELSE n.level,
                             label |-> IF n.label = Blank THEN e.label ELSE n.label,
                             tags |-> n.tags \cup TagsOf(e)]
  <2>1. Merged(n, e) \in Note /\ Merged(n, e).key = n.key /\ Merged(n, e).type = n.type
        /\ Merged(n, e).tags = n.tags \cup TagsOf(e)
    BY MergedFacts
  <2>2. /\ Merged(n, e).level = IF n.level = Blank THEN e.level ELSE n.level
        /\ Merged(n, e).label = IF n.label = Blank THEN e.label ELSE n.label
    BY DEF Merged, Note
  <2>3. Merged(n, e) = [type |-> Merged(n, e).type, key |-> Merged(n, e).key, level |-> Merged(n, e).level,
                        label |-> Merged(n, e).label, tags |-> Merged(n, e).tags]
    BY <1>0, <2>1
  <2> QED BY <2>1, <2>2, <2>3
<1>1. Merged(NoteOf(c), c) = NoteOf(c)
  <2>1. NoteOf(c) \in Note
    BY NoteOfFacts
  <2>2. /\ NoteOf(c).level = c.level /\ NoteOf(c).label = c.label /\ NoteOf(c).tags = TagsOf(c)
    BY DEF NoteOf
  <2>3. Merged(NoteOf(c), c) = [type |-> NoteOf(c).type, key |-> NoteOf(c).key, level |-> NoteOf(c).level,
                                label |-> NoteOf(c).label, tags |-> NoteOf(c).tags]
    BY <1>2, <2>1, <2>2
  <2> QED BY <1>0, <2>1, <2>3
<1>3. c.level # Blank /\ c.label # Blank
  BY LessonAssumption DEF Card
<1>4. ASSUME NEW n \in Note PROVE Merged(Merged(n, c), c) = Merged(n, c)
  <2>1. Merged(n, c) \in Note
    BY MergedFacts
  <2> DEFINE m == Merged(n, c)
  <2>2. m.level # Blank /\ m.label # Blank /\ m.tags = n.tags \cup TagsOf(c)
    BY <1>2, <1>3
  <2>3. Merged(m, c) = [type |-> m.type, key |-> m.key, level |-> m.level, label |-> m.label,
                        tags |-> m.tags \cup TagsOf(c)]
    BY <1>2, <2>1, <2>2
  <2>4. m.tags \cup TagsOf(c) = m.tags
    BY <2>2
  <2> HIDE DEF m
  <2>5. Merged(m, c) = m
    BY <1>0, <2>1, <2>3, <2>4 DEF m
  <2> QED BY <2>5 DEF m
<1>5. ASSUME NEW n \in Note, NEW e \in Card, Conflicts(n, c) PROVE Conflicts(Merged(n, e), c)
  BY <1>2, <1>5 DEF Conflicts
<1>6. ASSUME NEW n \in Note, NEW e \in Card, Merged(n, c) = n PROVE Merged(Merged(n, e), c) = Merged(n, e)
  <2>1. Merged(n, e) \in Note
    BY MergedFacts
  <2>2. n.level # Blank /\ n.label # Blank /\ n.tags = n.tags \cup TagsOf(c)
    <3>1. /\ n.level = IF n.level = Blank THEN c.level ELSE n.level
          /\ n.label = IF n.label = Blank THEN c.label ELSE n.label
          /\ n.tags = n.tags \cup TagsOf(c)
      BY <1>2, <1>6
    <3> QED BY <1>3, <3>1
  <2>3. Merged(n, e) = [type |-> n.type, key |-> n.key, level |-> n.level, label |-> n.label,
                        tags |-> n.tags \cup TagsOf(e)]
    BY <1>2, <2>2
  <2>4. (n.tags \cup TagsOf(e)) \cup TagsOf(c) = n.tags \cup TagsOf(e)
    BY <2>2
  <2> DEFINE m == Merged(n, e)
  <2>5. m.level # Blank /\ m.label # Blank /\ m.tags = n.tags \cup TagsOf(e)
    BY <2>2, <2>3
  <2>6. Merged(m, c) = [type |-> m.type, key |-> m.key, level |-> m.level, label |-> m.label,
                        tags |-> m.tags \cup TagsOf(c)]
    BY <1>2, <2>1, <2>5
  <2> HIDE DEF m
  <2>7. Merged(m, c) = m
    BY <1>0, <2>1, <2>4, <2>5, <2>6 DEF m
  <2> QED BY <2>7 DEF m
<1> QED BY <1>1, <1>4, <1>5, <1>6

\* The plan of a commit: its index has the notes of the deck that it knows.
Draft(q, batch) == IsPlan(q) /\ q.planned = {} /\ q.index = IndexOf(q.notes, batch)

LEMMA CommitOf ==
  ASSUME NEW batch, NEW q, Draft(q, batch), NEW c \in Card
  PROVE  Step(q, c, TRUE, Decision(q.index, {}, c), Planned(q, c, TRUE))
BY StepOf DEF Draft

LEMMA DraftStep ==
  ASSUME NEW batch, NEW q, Draft(q, batch), NEW c \in Card, NEW r, r = Planned(q, c, TRUE)
  PROVE  Draft(r, batch)
<1>0. PICK d : d = Decision(q.index, {}, c) /\ Step(q, c, TRUE, d, r)
  BY CommitOf
<1>1. /\ IsPlan(q) /\ q.planned = {} /\ q.index = IndexOf(q.notes, batch)
      /\ q.made \in Nat /\ IsDeck(q.notes, q.made) /\ IsDeck(q.index, q.made)
  BY DEF Draft, IsPlan
<1>2. IsPlan(r)
  BY <1>1, PlannedShape
<1>3. /\ DOMAIN q.index = {j \in DOMAIN q.notes : q.notes[j].type \notin Ignored(batch)}
      /\ \A i \in DOMAIN q.index : q.index[i] = q.notes[i] /\ i \in DOMAIN q.notes /\ q.notes[i] \in Note
  BY <1>1 DEF IndexOf, IsDeck
<1>4. /\ d.status = "added" => c.type \notin Broken
      /\ d.status = "updated_metadata" => d.note \in Found(q.index, c)
  BY <1>0, <1>1, Decides
<1>5. CASE d.status = "added"
  <2>1. /\ r.index = Put(q.index, q.made + 1, NoteOf(c)) /\ r.notes = Put(q.notes, q.made + 1, NoteOf(c))
        /\ r.planned = {}
    BY <1>0, <1>1, <1>5 DEF Step
  <2>2. NoteOf(c).type \notin Ignored(batch)
    BY <1>4, <1>5, NoteOfFacts, IgnoredFacts
  <2>3. Put(q.index, q.made + 1, NoteOf(c)) = IndexOf(Put(q.notes, q.made + 1, NoteOf(c)), batch)
    BY <1>3, <2>2 DEF Put, IndexOf
  <2> QED BY <1>2, <2>1, <2>3 DEF Draft
<1>6. CASE d.status = "updated_metadata"
  <2> DEFINE n == d.note
             new == Merged(q.index[n], c)
  <2>1. /\ r.index = Put(q.index, n, new) /\ r.notes = Put(q.notes, n, new) /\ r.planned = {}
    BY <1>0, <1>1, <1>6 DEF Step
  <2>2. n \in DOMAIN q.index /\ q.index[n] = q.notes[n] /\ q.notes[n] \in Note /\ q.notes[n].type \notin Ignored(batch)
    BY <1>3, <1>4, <1>6 DEF Found
  <2>3. new.type \notin Ignored(batch)
    BY <2>2, MergedFacts
  <2> HIDE DEF new, n
  <2>4. Put(q.index, n, new) = IndexOf(Put(q.notes, n, new), batch)
    BY <1>3, <2>2, <2>3 DEF Put, IndexOf
  <2> QED BY <1>2, <2>1, <2>4 DEF Draft
<1>7. CASE d.status \notin Changing
  BY <1>0, <1>1, <1>2, <1>7 DEF Draft, Step
<1> QED BY <1>5, <1>6, <1>7 DEF Changing

\* Once a card was processed it has no more to do, and nothing undoes that.
LEMMA FinalThen ==
  ASSUME NEW batch, NEW q, Draft(q, batch), NEW e \in Card, NEW r, r = Planned(q, e, TRUE)
  PROVE  /\ Final(r.index, e)
         /\ \A c \in Card : Final(q.index, c) => Final(r.index, c)
<1>0. PICK d : d = Decision(q.index, {}, e) /\ Step(q, e, TRUE, d, r)
  BY CommitOf
<1>1. IsPlan(q) /\ q.planned = {} /\ q.made \in Nat /\ IsDeck(q.index, q.made)
  BY DEF Draft, IsPlan
<1>2. /\ DOMAIN q.index \subseteq 1..q.made /\ q.made + 1 \notin DOMAIN q.index
      /\ \A i \in DOMAIN q.index : q.index[i] \in Note
  BY <1>1 DEF IsDeck
<1>3. /\ d.status \notin Changing <=> Final(q.index, e)
      /\ d.status = "updated_metadata" => Found(q.index, e) = {d.note} /\ ~Conflicts(q.index[d.note], e)
      /\ d.status = "added" => Found(q.index, e) = {}
  BY <1>0, <1>1, Decides, DecisionIs
<1>4. CASE d.status = "added"
  <2> DEFINE id == q.made + 1
  <2>1. r.index = Put(q.index, id, NoteOf(e))
    BY <1>0, <1>1, <1>4 DEF Step
  <2> HIDE DEF id
  <2>2. /\ DOMAIN r.index = DOMAIN q.index \cup {id} /\ r.index[id] = NoteOf(e)
        /\ \A i \in DOMAIN q.index : r.index[i] = q.index[i]
    BY <1>2, <2>1 DEF id, Put
  <2>3. Found(r.index, e) = {id}
    <3>1. \A i \in DOMAIN q.index : q.index[i].key # e.key
      BY <1>3, <1>4 DEF Found
    <3>2. NoteOf(e).key = e.key
      BY NoteOfFacts
    <3> QED BY <2>2, <3>1, <3>2 DEF Found
  <2>4. Final(r.index, e)
    <3>1. Merged(r.index[id], e) = r.index[id]
      BY <2>2, MergedTwice
    <3> QED BY <2>3, <3>1 DEF Final
  <2>5. ASSUME NEW c \in Card, Final(q.index, c) PROVE Final(r.index, c)
    <3>1. CASE c.key = e.key
      <4>1. Found(q.index, c) = {}
        BY <1>3, <1>4, <3>1 DEF Found
      <4> QED BY <2>5, <4>1 DEF Final
    <3>2. CASE c.key # e.key
      <4>1. Found(r.index, c) = Found(q.index, c)
        <5>1. r.index[id].key # c.key /\ id \notin DOMAIN q.index
          BY <1>2, <2>2, <3>2, NoteOfFacts DEF id
        <5> QED BY <2>2, <5>1 DEF Found
      <4>2. \A n \in Found(q.index, c) : r.index[n] = q.index[n]
        BY <2>2 DEF Found
      <4> QED BY <2>5, <4>1, <4>2 DEF Final
    <3> QED BY <3>1, <3>2
  <2> QED BY <2>4, <2>5
<1>5. CASE d.status = "updated_metadata"
  <2> DEFINE n == d.note
             old == q.index[n]
  <2>1. r.index = Put(q.index, n, Merged(old, e))
    BY <1>0, <1>1, <1>5 DEF Step
  <2>2. n \in DOMAIN q.index /\ Found(q.index, e) = {n} /\ old \in Note /\ old.key = e.key
    BY <1>2, <1>3, <1>5 DEF Found
  <2> HIDE DEF n, old
  <2>3. /\ DOMAIN r.index = DOMAIN q.index /\ r.index[n] = Merged(old, e)
        /\ \A i \in DOMAIN q.index \ {n} : r.index[i] = q.index[i]
    BY <2>1, <2>2 DEF Put
  <2>4. Merged(old, e).key = old.key
    BY <2>2, MergedFacts
  <2>5. \A c : Found(r.index, c) = Found(q.index, c)
    BY <2>2, <2>3, <2>4 DEF Found, old
  <2>6. Final(r.index, e)
    <3>1. Merged(Merged(old, e), e) = Merged(old, e) /\ n \in Found(r.index, e) /\ Found(r.index, e) = {n}
      BY <2>2, <2>5, MergedTwice
    <3> QED BY <2>3, <3>1 DEF Final
  <2>7. ASSUME NEW c \in Card, Final(q.index, c) PROVE Final(r.index, c)
    <3>1. CASE c.type \in Broken \/ \E i, j \in Found(q.index, c) : i # j
      BY <3>1, <2>5 DEF Final
    <3>2. CASE \E k \in Found(q.index, c) :
                 /\ Found(q.index, c) = {k}
                 /\ Conflicts(q.index[k], c) \/ Merged(q.index[k], c) = q.index[k]
      <4>1. PICK k \in Found(q.index, c) :
                 /\ Found(q.index, c) = {k}
                 /\ Conflicts(q.index[k], c) \/ Merged(q.index[k], c) = q.index[k]
        BY <3>2
      <4>2. k \in DOMAIN q.index
        BY DEF Found
      <4>3. CASE k = n
        <5>1. Conflicts(Merged(old, e), c) \/ Merged(Merged(old, e), c) = Merged(old, e)
          BY <2>2, <4>1, <4>3, MergedTwice DEF old
        <5> QED BY <2>3, <2>5, <4>1, <4>3, <5>1 DEF Final
      <4>4. CASE k # n
        <5>1. r.index[k] = q.index[k]
          BY <2>3, <4>2, <4>4
        <5> QED BY <2>5, <4>1, <5>1 DEF Final
      <4> QED BY <4>3, <4>4
    <3> QED BY <2>7, <3>1, <3>2 DEF Final
  <2> QED BY <2>6, <2>7
<1>6. CASE d.status \notin Changing
  <2>1. r.index = q.index
    BY <1>0, <1>1, <1>6 DEF Step
  <2> QED BY <1>3, <1>6, <2>1
<1> QED BY <1>4, <1>5, <1>6 DEF Changing

\* Plans that differ in what they have said only.
Same(q, r) == q.notes = r.notes /\ q.index = r.index /\ q.planned = r.planned /\ q.made = r.made

Abreast(q, r) == Same(q, r) /\ Len(q.items) = Len(r.items)

LEMMA SameSteps ==
  ASSUME NEW q, NEW r, Abreast(q, r), IsPlan(q), IsPlan(r), NEW k, NEW c
  PROVE  Abreast(Advanced(q, k, c, TRUE), Advanced(r, k, c, TRUE))
<1>0. Same(q, r) /\ q.items \in Seq(Item) /\ r.items \in Seq(Item) /\ Len(q.items) = Len(r.items)
  BY DEF Abreast, IsPlan
<1>1. Raises(q, c) <=> Raises(r, c)
  BY <1>0 DEF Same, Raises
<1>2. Same(Planned(q, c, TRUE), Planned(r, c, TRUE))
  BY <1>0 DEF Same, Planned
<1>3. Len(Planned(q, c, TRUE).items) = Len(Planned(r, c, TRUE).items)
  <2>1. \E x, y : /\ Planned(q, c, TRUE).items = Append(q.items, x)
                  /\ Planned(r, c, TRUE).items = Append(r.items, y)
    BY DEF Planned
  <2>2. \A x : Len(Append(q.items, x)) = Len(q.items) + 1 /\ Len(Append(r.items, x)) = Len(r.items) + 1
    BY <1>0
  <2> QED BY <1>0, <2>1, <2>2
<1> QED BY <1>0, <1>1, <1>2, <1>3 DEF Advanced, Abreast

LEMMA BegunIsDraft ==
  ASSUME NEW ns, NEW m \in Nat, IsDeck(ns, m), NEW batch
  PROVE  Draft(Begun(ns, m, batch), batch) /\ Begun(ns, m, batch).items = <<>>
<1>1. IsDeck(IndexOf(ns, batch), m)
  BY DEF IsDeck, IndexOf
<1> QED BY <1>1 DEF Draft, IsPlan, Begun, IndexOf

LEMMA BegunAgain ==
  ASSUME NEW batch, NEW q, Draft(q, batch) PROVE Same(Begun(q.notes, q.made, batch), q)
BY DEF Draft, Same, Begun, IndexOf

\* A card that has no more to do changes nothing, and raises nothing.
LEMMA NothingToDo ==
  ASSUME NEW batch, NEW q, Draft(q, batch), NEW c \in Card, Final(q.index, c), NEW r, r = Planned(q, c, TRUE)
  PROVE  Same(r, q) /\ r.items[Len(q.items) + 1].status \notin Changing /\ ~Raises(q, c)
<1>0. PICK d : d = Decision(q.index, {}, c) /\ Step(q, c, TRUE, d, r)
  BY CommitOf
<1>1. IsDeck(q.index, q.made) /\ q.made \in Nat /\ q.planned = {}
  BY DEF Draft, IsPlan
<1>2. d.status \notin Changing
  BY <1>0, <1>1, DecisionIs
<1>3. ~Raises(q, c)
  BY <1>0, <1>1, <1>2 DEF Raises, Changing
<1> QED BY <1>0, <1>1, <1>2, <1>3 DEF Step, Same

\* A commit, card by card: the cards it has processed have no more to do, and if
\* it is not as far as it could be, it raises at the next one.
Gone(q, cards, k) ==
  /\ Len(q.items) \in 0..k
  /\ \A i \in 1..Len(q.items) : Final(q.index, cards[i])
  /\ Len(q.items) < k => Raises(q, cards[Len(q.items) + 1])

LEMMA CommitCourse ==
  ASSUME NEW batch, NEW p, Draft(p, batch), p.items = <<>>,
         NEW cards \in Seq(Card), NEW f, Course(f, p, cards, TRUE)
  PROVE  \A k \in 0..Len(cards) : Draft(f[k], batch) /\ Gone(f[k], cards, k)
<1> DEFINE S == {k \in Nat : k <= Len(cards) => Draft(f[k], batch) /\ Gone(f[k], cards, k)}
<1>1. 0 \in S
  BY DEF Course, Gone
<1>2. ASSUME NEW k \in Nat, k \in S PROVE k + 1 \in S
  <2> DEFINE j == k + 1
  <2> SUFFICES ASSUME j <= Len(cards) PROVE Draft(f[j], batch) /\ Gone(f[j], cards, j)
    OBVIOUS
  <2>1. /\ j \in 1..Len(cards) /\ cards[j] \in Card /\ \A i \in 1..k : cards[i] \in Card
        /\ j - 1 = k /\ 1..j = 1..k \cup {j} /\ 0..k \subseteq 0..j /\ j \in 0..j
    OBVIOUS
  <2>2. Draft(f[k], batch) /\ Gone(f[k], cards, k)
    BY <1>2
  <2>0. j = k + 1
    OBVIOUS
  <2> HIDE DEF j
  <2>3. f[j] = Advanced(f[k], j, cards[j], TRUE)
    BY <2>1 DEF Course
  <2>4. CASE Len(f[k].items) = k /\ ~Raises(f[k], cards[j])
    <3>1. f[j] = Planned(f[k], cards[j], TRUE)
      BY <2>1, <2>3, <2>4 DEF Advanced
    <3>2. Draft(f[j], batch)
      BY <2>1, <2>2, <3>1, DraftStep
    <3>3. /\ Final(f[j].index, cards[j])
          /\ \A c \in Card : Final(f[k].index, c) => Final(f[j].index, c)
      BY <2>1, <2>2, <3>1, FinalThen
    <3>4. Len(f[j].items) = j
      <4>1. Step(f[k], cards[j], TRUE, Decision(f[k].index, {}, cards[j]), f[j])
        BY <2>1, <2>2, <3>1, CommitOf
      <4> QED BY <2>0, <2>4, <4>1 DEF Step
    <3>5. \A i \in 1..j : Final(f[j].index, cards[i])
      BY <2>1, <2>2, <2>4, <3>3 DEF Gone
    <3> QED BY <2>0, <2>1, <3>2, <3>4, <3>5 DEF Gone
  <2>5. CASE ~(Len(f[k].items) = k /\ ~Raises(f[k], cards[j]))
    <3>1. f[j] = f[k]
      BY <2>1, <2>3, <2>5 DEF Advanced
    <3>2. Len(f[k].items) \in 0..k /\ Raises(f[k], cards[Len(f[k].items) + 1])
      BY <2>0, <2>2, <2>5 DEF Gone
    <3> QED BY <2>1, <2>2, <3>1, <3>2 DEF Gone
  <2> QED BY <2>4, <2>5
<1> HIDE DEF S
<1>3. \A k \in Nat : k \in S
  BY <1>1, <1>2, Inductive
<1> QED BY <1>3 DEF S

\* Two courses from the same plan, over the same cards.
Shared(s, t, n) ==
  /\ Len(s) \in Nat /\ Len(t) \in Nat /\ n \in Nat /\ n <= Len(s) /\ n <= Len(t)
  /\ \A i \in 1..n : s[i] = t[i]
Meet(f, g, n) == f[n] = g[n]

LEMMA SameCourse ==
  ASSUME NEW p, NEW s, NEW t, NEW f, NEW g, NEW n, Shared(s, t, n),
         Course(f, p, s, TRUE), Course(g, p, t, TRUE)
  PROVE  Meet(f, g, n)
<1>0. /\ Len(s) \in Nat /\ Len(t) \in Nat /\ n \in Nat /\ n <= Len(s) /\ n <= Len(t)
      /\ \A i \in 1..n : s[i] = t[i]
  BY DEF Shared
<1> DEFINE S == {k \in Nat : k <= n => f[k] = g[k]}
<1>1. 0 \in S
  BY DEF Course
<1>2. ASSUME NEW k \in Nat, k \in S PROVE k + 1 \in S
  <2> DEFINE j == k + 1
  <2> SUFFICES ASSUME j <= n PROVE f[j] = g[j]
    OBVIOUS
  <2>1. j \in 1..Len(s) /\ j \in 1..Len(t) /\ s[j] = t[j] /\ j - 1 = k /\ k <= n
    BY <1>0
  <2>2. f[k] = g[k]
    BY <1>2, <2>1
  <2> HIDE DEF j
  <2>3. f[j] = Advanced(f[k], j, s[j], TRUE) /\ g[j] = Advanced(g[k], j, s[j], TRUE)
    BY <2>1 DEF Course
  <2> QED BY <2>2, <2>3
<1> HIDE DEF S
<1>3. n \in S /\ n <= n
  BY <1>0, <1>1, <1>2, Inductive
<1> QED BY <1>3 DEF S, Meet

\* A batch whose first cards have no more to do: the plan stays the same while
\* they are processed, and none of them is said to change anything.
Idle(q, p, k) ==
  /\ Same(q, p) /\ DOMAIN q.items = 1..k /\ Len(q.items) = k
  /\ \A i \in 1..k : q.items[i].status \notin Changing

LEMMA IdleCourse ==
  ASSUME NEW batch, NEW p, Draft(p, batch), p.items = <<>>, NEW cards \in Seq(Card), NEW f,
         Course(f, p, cards, TRUE),
         NEW n \in Nat, n <= Len(cards), \A i \in 1..n : Final(p.index, cards[i])
  PROVE  Idle(f[n], p, n)
<1> DEFINE Good(k) == Idle(f[k], p, k) /\ Draft(f[k], batch)
           S == {k \in Nat : k <= n => Good(k)}
<1>1. 0 \in S
  BY DEF Course, Same, Idle
<1>2. ASSUME NEW k \in Nat, k \in S PROVE k + 1 \in S
  <2> DEFINE j == k + 1
  <2> SUFFICES ASSUME j <= n PROVE Good(j)
    OBVIOUS
  <2>1. /\ j \in 1..Len(cards) /\ cards[j] \in Card /\ j \in 1..n
        /\ j - 1 = k /\ 1..j = 1..k \cup {j} /\ k \in Nat
    OBVIOUS
  <2>2. Idle(f[k], p, k) /\ Draft(f[k], batch)
    BY <1>2
  <2>0. j = k + 1
    OBVIOUS
  <2> HIDE DEF j
  <2>5. Final(f[k].index, cards[j])
    BY <2>1, <2>2 DEF Same, Idle
  <2>a. PICK r : r = Planned(f[k], cards[j], TRUE)
    OBVIOUS
  <2>6. Same(r, f[k]) /\ r.items[Len(f[k].items) + 1].status \notin Changing /\ ~Raises(f[k], cards[j])
    BY <2>1, <2>2, <2>5, <2>a, NothingToDo
  <2>3. f[j] = r
    <3>1. f[j] = Advanced(f[k], j, cards[j], TRUE) /\ Len(f[k].items) = j - 1
      BY <2>1, <2>2 DEF Course, Idle
    <3> QED BY <2>6, <2>a, <3>1 DEF Advanced
  <2>4. Draft(f[j], batch)
    BY <2>1, <2>2, <2>3, <2>a, DraftStep
  <2>7. Same(f[j], f[k]) /\ f[j].items[j].status \notin Changing
    BY <2>0, <2>2, <2>3, <2>6 DEF Idle
  <2>8. Step(f[k], cards[j], TRUE, Decision(f[k].index, {}, cards[j]), f[j])
    BY <2>1, <2>2, <2>3, <2>a, CommitOf
  <2>9. /\ \A i \in 1..k : i \in DOMAIN f[j].items /\ f[j].items[i] = f[k].items[i]
        /\ \A i \in DOMAIN f[j].items : i \in 1..k \/ i = j
        /\ Len(f[j].items) = j
    BY <2>0, <2>2, <2>8 DEF Step, Idle
  <2>10. DOMAIN f[j].items = 1..j
    BY <2>4, <2>9 DEF Draft, IsPlan
  <2>11. Same(f[j], p)
    BY <2>2, <2>7 DEF Same, Idle
  <2> QED BY <2>1, <2>2, <2>4, <2>7, <2>9, <2>10, <2>11 DEF Idle
<1> HIDE DEF S
<1>3. n \in S
  BY <1>1, <1>2, Inductive
<1> QED BY <1>3 DEF S

\* A commit that raises goes no further.
StuckAt(cards, N, f, n) ==
  /\ Len(cards) = N /\ n < N /\ \E p : Course(f, p, cards, TRUE)
  /\ Len(f[n].items) = n /\ Raises(f[n], cards[n + 1])

LEMMA Stuck ==
  ASSUME NEW cards, NEW f, NEW N \in Nat, NEW n \in Nat, StuckAt(cards, N, f, n)
  PROVE  \A i \in n..N : f[i] = f[n]
<1>0. /\ Len(cards) = N /\ n < N /\ \E p : Course(f, p, cards, TRUE)
      /\ Len(f[n].items) = n /\ Raises(f[n], cards[n + 1])
  BY DEF StuckAt
<1> DEFINE S == {i \in Nat : n + i <= N => f[n + i] = f[n]}
<1>1. 0 \in S
  OBVIOUS
<1>2. ASSUME NEW i \in Nat, i \in S PROVE i + 1 \in S
  <2> DEFINE j == n + (i + 1)
  <2> SUFFICES ASSUME j <= N PROVE f[j] = f[n]
    OBVIOUS
  <2>1. j \in 1..N /\ j - 1 = n + i /\ n + i <= N /\ (j - 1 = n \/ n # j - 1) /\ (j - 1 = n => j = n + 1)
    OBVIOUS
  <2>2. f[j - 1] = f[n]
    BY <1>2, <2>1
  <2> HIDE DEF j
  <2>3. f[j] = Advanced(f[n], j, cards[j], TRUE)
    BY <1>0, <2>1, <2>2 DEF Course
  <2> QED BY <1>0, <2>1, <2>3 DEF Advanced
<1> HIDE DEF S
<1>3. \A i \in Nat : i \in S
  BY <1>1, <1>2, Inductive
<1> SUFFICES ASSUME NEW i \in n..N PROVE f[i] = f[n]
  OBVIOUS
<1>4. i - n \in Nat /\ n + (i - n) = i /\ i <= N
  OBVIOUS
<1> QED BY <1>3, <1>4 DEF S

\* No items are counted.
LEMMA NoneCounted ==
  ASSUME NEW items, NEW statuses, \A i \in DOMAIN items : items[i].status \notin statuses
  PROVE  Counted(items, statuses) = 0
<1>1. {i \in DOMAIN items : items[i].status \in statuses} = {}
  OBVIOUS
<1> QED BY <1>1, FS_EmptySet DEF Counted

\* The courses of a batch, of its first k cards, and of the batch twice more.
Retried(now, batch, N, k, part, f, g, B, h, C, u) ==
  /\ Draft(now, batch) /\ now.items = <<>> /\ batch \in Seq(Card) /\ Len(batch) = N
  /\ k <= N /\ part \in Seq(Card) /\ Len(part) = k /\ \A i \in 1..k : part[i] = batch[i]
  /\ Course(f, now, batch, TRUE) /\ Course(g, now, part, TRUE)
  /\ Draft(B, batch) /\ B.items = <<>> /\ Same(B, g[k]) /\ Course(h, B, batch, TRUE)
  /\ Draft(C, batch) /\ C.items = <<>> /\ Same(C, h[N]) /\ Course(u, C, batch, TRUE)

\* A batch from a plan for which some of its first cards have no more to do, and
\* the same batch from the beginning: the plans are the same from there on.
LEMMA CatchesUp ==
  ASSUME NEW batch \in Seq(Card), NEW N \in Nat, Len(batch) = N,
         NEW now, Draft(now, batch), now.items = <<>>, NEW f, Course(f, now, batch, TRUE),
         NEW k \in Nat, k <= N,
         NEW B, Draft(B, batch), B.items = <<>>, Same(B, f[k]), NEW h, Course(h, B, batch, TRUE)
  PROVE  Abreast(h[N], f[N])
<1> DEFINE l == Len(f[k].items)
<1>0. /\ \A i \in 0..N : Draft(f[i], batch) /\ Gone(f[i], batch, i)
      /\ \A i \in 0..N : Draft(h[i], batch) /\ Gone(h[i], batch, i)
  BY CommitCourse
<1>1. k \in 0..N /\ Gone(f[k], batch, k)
  BY <1>0
<1>2. l \in 0..k /\ l \in Nat /\ l <= N /\ \A i \in 1..l : Final(f[k].index, batch[i])
  BY <1>1 DEF Gone
<1>3. Idle(h[l], B, l)
  <2>1. \A i \in 1..l : Final(B.index, batch[i])
    BY <1>2 DEF Same
  <2> HIDE DEF l
  <2> QED BY <1>2, <2>1, IdleCourse
<1>4. Abreast(h[l], f[k])
  BY <1>3 DEF Idle, Same, Abreast
<1>5. h[k] = h[l]
  <2>1. CASE l = k
    BY <2>1
  <2>2. CASE l # k
    <3>1. l < k /\ l < N /\ k \in l..N
      BY <1>2, <2>2
    <3>2. Raises(f[k], batch[l + 1])
      BY <1>1, <3>1 DEF Gone
    <3>3. Raises(h[l], batch[l + 1]) /\ Len(h[l].items) = l
      BY <1>4, <3>2 DEF Abreast, Same, Raises
    <3> HIDE DEF l
    <3>5. StuckAt(batch, N, h, l)
      BY <3>1, <3>3 DEF StuckAt
    <3>4. \A i \in l..N : h[i] = h[l]
      BY <1>2, <3>5, Stuck
    <3> QED BY <3>1, <3>4
  <2> QED BY <2>1, <2>2
<1>6. Abreast(h[k], f[k])
  BY <1>4, <1>5
<1> HIDE DEF l
<1>7. Abreast(h[N], f[N])
  <2> DEFINE S == {i \in Nat : k + i <= N => Abreast(h[k + i], f[k + i])}
  <2>1. 0 \in S
    BY <1>6
  <2>2. ASSUME NEW i \in Nat, i \in S PROVE i + 1 \in S
    <3> DEFINE j == k + (i + 1)
    <3> SUFFICES ASSUME j <= N PROVE Abreast(h[j], f[j])
      OBVIOUS
    <3>1. j \in 1..N /\ j - 1 = k + i /\ k + i <= N /\ j - 1 \in 0..N
      OBVIOUS
    <3>2. Abreast(h[j - 1], f[j - 1])
      BY <2>2, <3>1
    <3> HIDE DEF j
    <3>3. h[j] = Advanced(h[j - 1], j, batch[j], TRUE) /\ f[j] = Advanced(f[j - 1], j, batch[j], TRUE)
      BY <3>1 DEF Course
    <3>4. IsPlan(h[j - 1]) /\ IsPlan(f[j - 1])
      BY <1>0, <3>1 DEF Draft
    <3>5. Abreast(Advanced(h[j - 1], j, batch[j], TRUE), Advanced(f[j - 1], j, batch[j], TRUE))
      BY <3>2, <3>4, SameSteps
    <3> QED BY <3>3, <3>5
  <2> HIDE DEF S
  <2>3. N - k \in S
    BY <2>1, <2>2, Inductive
  <2>4. k + (N - k) = N /\ k + (N - k) <= N
    OBVIOUS
  <2> QED BY <2>3, <2>4 DEF S
<1> QED BY <1>7

LEMMA CommitsRepeat ==
  ASSUME NEW now, NEW batch, NEW N \in Nat, NEW k \in Nat, NEW part, NEW f, NEW g, NEW B, NEW h,
         NEW C, NEW u, Retried(now, batch, N, k, part, f, g, B, h, C, u)
  PROVE  Abreast(h[N], f[N]) /\ Counted(u[N].items, Changing) = 0
<1>0. /\ Draft(now, batch) /\ now.items = <<>> /\ batch \in Seq(Card) /\ Len(batch) = N
      /\ k <= N /\ part \in Seq(Card) /\ Len(part) = k /\ \A i \in 1..k : part[i] = batch[i]
      /\ Course(f, now, batch, TRUE) /\ Course(g, now, part, TRUE)
      /\ Draft(B, batch) /\ B.items = <<>> /\ Same(B, g[k]) /\ Course(h, B, batch, TRUE)
      /\ Draft(C, batch) /\ C.items = <<>> /\ Same(C, h[N]) /\ Course(u, C, batch, TRUE)
  BY DEF Retried
<1>1. f[k] = g[k]
  <2>1. Shared(batch, part, k)
    BY <1>0 DEF Shared
  <2>2. Course(f, now, batch, TRUE) /\ Course(g, now, part, TRUE)
    BY <1>0
  <2>3. Meet(f, g, k)
    BY <2>1, <2>2, SameCourse
  <2> QED BY <2>3 DEF Meet
<1>2. Abreast(h[N], f[N])
  BY <1>0, <1>1, CatchesUp
<1>3. Same(C, f[N])
  BY <1>0, <1>2 DEF Same, Abreast
<1> DEFINE l == Len(f[N].items)
<1>4. Gone(f[N], batch, N)
  <2>1. \A i \in 0..Len(batch) : Gone(f[i], batch, i)
    BY <1>0, CommitCourse
  <2>2. N \in 0..Len(batch)
    BY <1>0
  <2> QED BY <2>1, <2>2
<1>5. l \in 0..N /\ l \in Nat /\ l <= N /\ \A i \in 1..l : Final(C.index, batch[i])
  BY <1>3, <1>4 DEF Gone, Same
<1>6. Idle(u[l], C, l)
  <2> HIDE DEF l
  <2> QED BY <1>0, <1>5, IdleCourse
<1>7. u[N] = u[l]
  <2>1. CASE l = N
    BY <2>1
  <2>2. CASE l # N
    <3>1. l < N /\ N \in l..N
      BY <1>5, <2>2
    <3>2. Raises(f[N], batch[l + 1])
      BY <1>4, <3>1 DEF Gone
    <3>3. Raises(u[l], batch[l + 1]) /\ Len(u[l].items) = l
      BY <1>3, <1>6, <3>2 DEF Idle, Same, Raises
    <3> HIDE DEF l
    <3>4. StuckAt(batch, N, u, l)
      BY <1>0, <3>1, <3>3 DEF StuckAt
    <3>5. \A i \in l..N : u[i] = u[l]
      BY <1>5, <3>4, Stuck
    <3> QED BY <3>1, <3>5
  <2> QED BY <2>1, <2>2
<1> HIDE DEF l
<1> QED BY <1>2, <1>6, <1>7, NoneCounted DEF Idle

\* A commit of cards of a batch from the plan now, and the plan that a next one
\* starts with.
Leads(now, batch, cards, A, B) ==
  A = Outcome(now, cards, TRUE) /\ B = Begun(A.notes, A.made, batch)
Begins(now, batch, cards, A, B) ==
  /\ Draft(B, batch) /\ B.items = <<>>
  /\ \E f : Course(f, now, cards, TRUE) /\ A = f[Len(cards)] /\ Same(B, f[Len(cards)])

LEMMA BegunAfter ==
  ASSUME NEW batch, NEW now, Draft(now, batch), now.items = <<>>, NEW cards \in Seq(Card),
         NEW A, NEW B, Leads(now, batch, cards, A, B)
  PROVE  Begins(now, batch, cards, A, B)
<1>1. Len(cards) \in Nat /\ Len(cards) \in 0..Len(cards)
  OBVIOUS
<1>2. PICK f : Course(f, now, cards, TRUE) /\ A = f[Len(cards)]
  BY <1>1, CourseExists DEF Leads
<1>3. Draft(A, batch)
  <2>1. \A i \in 0..Len(cards) : Draft(f[i], batch)
    BY <1>2, CommitCourse
  <2> QED BY <1>1, <1>2, <2>1
<1>4. A.made \in Nat /\ IsDeck(A.notes, A.made)
  BY <1>3 DEF Draft, IsPlan
<1>5. Draft(B, batch) /\ B.items = <<>> /\ Same(B, A)
  BY <1>3, <1>4, BegunAgain, BegunIsDraft DEF Leads
<1> QED BY <1>2, <1>5 DEF Begins

LEMMA OutcomesRepeat ==
  ASSUME NEW batch \in Seq(Card), NEW now, Draft(now, batch), now.items = <<>>, NEW part \in Seq(Card),
         NEW k \in Nat, Len(part) = k, k <= Len(batch), \A i \in 1..k : part[i] = batch[i],
         NEW A, NEW B, Leads(now, batch, part, A, B), NEW once, NEW D, Leads(now, batch, batch, once, D),
         NEW again, NEW C, Leads(B, batch, batch, again, C), NEW more, NEW E, Leads(C, batch, batch, more, E)
  PROVE  /\ again.notes = once.notes /\ Len(again.items) = Len(once.items)
         /\ Counted(more.items, Changing) = 0
<1>1. Begins(now, batch, part, A, B) /\ Begins(now, batch, batch, once, D)
  BY BegunAfter
<1>2. Draft(B, batch) /\ B.items = <<>>
  BY <1>1 DEF Begins
<1>3. Begins(B, batch, batch, again, C)
  BY <1>2, BegunAfter
<1>4. Draft(C, batch) /\ C.items = <<>>
  BY <1>3 DEF Begins
<1>5. Begins(C, batch, batch, more, E)
  BY <1>4, BegunAfter
<1>6. PICK f : Course(f, now, batch, TRUE) /\ once = f[Len(batch)]
  BY <1>1 DEF Begins
<1>7. PICK g : Course(g, now, part, TRUE) /\ Same(B, g[k])
  BY <1>1 DEF Begins
<1>8. PICK h : Course(h, B, batch, TRUE) /\ again = h[Len(batch)] /\ Same(C, h[Len(batch)])
  BY <1>3 DEF Begins
<1>9. PICK u : Course(u, C, batch, TRUE) /\ more = u[Len(batch)]
  BY <1>5 DEF Begins
<1>10. Abreast(again, once) /\ Counted(more.items, Changing) = 0
  <2> DEFINE N == Len(batch)
  <2>1. /\ N \in Nat /\ k <= N /\ Len(batch) = N /\ once = f[N] /\ again = h[N] /\ more = u[N]
        /\ Same(C, h[N])
    BY <1>6, <1>8, <1>9
  <2> HIDE DEF N
  <2>2. Retried(now, batch, N, k, part, f, g, B, h, C, u)
    BY <2>1, <1>2, <1>4, <1>6, <1>7, <1>8, <1>9 DEF Retried
  <2> QED BY <2>1, <2>2, CommitsRepeat
<1> QED BY <1>10 DEF Same, Abreast

\* A commit can be repeated, whatever part of it was done before, and whether or
\* not it raises before its end (lesson_imports.py:74-147).
THEOREM CommitsAreRepeatable == Spec => []Repeatable
<1>1. ImportInv => Repeatable
  <2> SUFFICES ASSUME ImportInv, NEW batch \in Batches, NEW k \in 0..Len(batch)
               PROVE  LET After(p, cards) == Outcome(Begun(p.notes, p.made, batch), cards, TRUE)
                          now   == Begun(notes, made, batch)
                          once  == After(now, batch)
                          again == After(After(now, SubSeq(batch, 1, k)), batch)
                          more  == After(again, batch)
                      IN /\ again.notes = once.notes /\ Len(again.items) = Len(once.items)
                         /\ Counted(more.items, Changing) = 0
    BY DEF Repeatable
  <2> DEFINE start == Begun(notes, made, batch)
             now == Begun(start.notes, start.made, batch)
             part == SubSeq(batch, 1, k)
             A == Outcome(now, part, TRUE)
             B == Begun(A.notes, A.made, batch)
             once == Outcome(now, batch, TRUE)
             D == Begun(once.notes, once.made, batch)
             again == Outcome(B, batch, TRUE)
             C == Begun(again.notes, again.made, batch)
             more == Outcome(C, batch, TRUE)
             E == Begun(more.notes, more.made, batch)
  <2>1. batch \in Seq(Card)
    BY LessonAssumption
  <2>2. /\ part \in Seq(Card) /\ Len(part) <= Len(batch)
        /\ \A i \in 1..Len(part) : part[i] = batch[i]
    BY <2>1
  <2>3. Draft(now, batch) /\ now.items = <<>>
    <3>1. made \in Nat /\ IsDeck(notes, made) /\ start.notes = notes /\ start.made = made
      BY DEF ImportInv, Kinds, Begun
    <3> HIDE DEF start
    <3> QED BY <3>1, BegunIsDraft
  <2>4. /\ Leads(now, batch, part, A, B) /\ Leads(now, batch, batch, once, D)
        /\ Leads(B, batch, batch, again, C) /\ Leads(C, batch, batch, more, E)
    BY DEF Leads
  <2>5. /\ again.notes = once.notes /\ Len(again.items) = Len(once.items)
        /\ Counted(more.items, Changing) = 0
    <3> HIDE DEF now, part, A, B, once, D, again, C, more, E
    <3>1. Len(part) \in Nat
      BY <2>2
    <3> QED BY <2>1, <2>2, <2>3, <2>4, <3>1, OutcomesRepeat
  <2> QED BY <2>5
<1> QED BY <1>1, ImportsKeepTheirShape, PTL
-----------------------------------------------------------------------------
(* What a preview announces, by induction over the cards of a batch.         *)

\* Plan q knows the same of card c as plan p, before any card was planned.
Alike(q, p, c) ==
  /\ Found(q.index, c) = Found(p.index, c)
  /\ \A i \in Found(p.index, c) : q.index[i] = p.index[i] /\ i \notin q.planned

\* What is decided of a card depends on what is known of its text.
LEMMA AlikeDecides ==
  ASSUME NEW q, NEW p, NEW c, Alike(q, p, c)
  PROVE  Decision(q.index, q.planned, c) = Decision(p.index, {}, c)
<1> DEFINE found == Found(p.index, c)
           n == CHOOSE i \in found : TRUE
<1>1. found # {} => n \in found
  OBVIOUS
<1>2. found # {} => q.index[n] = p.index[n] /\ n \notin q.planned
  BY <1>1 DEF Alike
<1>3. Found(q.index, c) = found
  BY DEF Alike
<1>4. Decision(p.index, {}, c) =
     IF c.type \in Broken THEN [status |-> "error", note |-> 0]
     ELSE IF Cardinality(found) > 1 THEN [status |-> "ambiguous_duplicate", note |-> 0]
     ELSE IF found = {} THEN [status |-> "added", note |-> 0]
     ELSE IF n \in {} THEN [status |-> "skipped_duplicate", note |-> 0]
     ELSE IF Conflicts(p.index[n], c) THEN [status |-> "metadata_conflict", note |-> n]
     ELSE [status |-> IF Merged(p.index[n], c) = p.index[n] THEN "skipped_duplicate"
                                                            ELSE "updated_metadata",
           note |-> n]
  BY DEF Decision
<1>5. Decision(q.index, q.planned, c) =
     IF c.type \in Broken THEN [status |-> "error", note |-> 0]
     ELSE IF Cardinality(found) > 1 THEN [status |-> "ambiguous_duplicate", note |-> 0]
     ELSE IF found = {} THEN [status |-> "added", note |-> 0]
     ELSE IF n \in q.planned THEN [status |-> "skipped_duplicate", note |-> 0]
     ELSE IF Conflicts(q.index[n], c) THEN [status |-> "metadata_conflict", note |-> n]
     ELSE [status |-> IF Merged(q.index[n], c) = q.index[n] THEN "skipped_duplicate"
                                                            ELSE "updated_metadata",
           note |-> n]
  BY <1>3 DEF Decision
<1> HIDE DEF found, n
<1>6. CASE found = {}
  BY <1>4, <1>5, <1>6
<1>7. CASE found # {}
  BY <1>2, <1>4, <1>5, <1>7
<1> QED BY <1>6, <1>7

\* A card changes nothing that is known of another text.
LEMMA AlikeStays ==
  ASSUME NEW q, IsPlan(q), NEW e \in Card, NEW commit \in BOOLEAN, NEW r, r = Planned(q, e, commit),
         NEW p, NEW c \in Card, c.key # e.key, Alike(q, p, c)
  PROVE  Alike(r, p, c)
<1>0. PICK d : d = Decision(q.index, q.planned, e) /\ Step(q, e, commit, d, r)
  BY StepOf
<1>1. q.made \in Nat /\ IsDeck(q.index, q.made)
  BY DEF IsPlan
<1>2. /\ q.made + 1 \notin DOMAIN q.index
      /\ \A i \in DOMAIN q.index : q.index[i] \in Note
  BY <1>1 DEF IsDeck
<1>3. d.status = "updated_metadata" => d.note \in Found(q.index, e)
  BY <1>0, <1>1, Decides
<1>4. \A i \in Found(q.index, c) : i \in DOMAIN q.index /\ i # q.made + 1
  BY <1>2 DEF Found
<1>5. CASE d.status = "added"
  <2> DEFINE id == q.made + 1
  <2>1. r.index = Put(q.index, id, NoteOf(e)) /\ r.planned \subseteq q.planned \cup {id}
    BY <1>0, <1>5 DEF Step
  <2>2. id \notin DOMAIN q.index /\ \A i \in Found(q.index, c) : i # id
    BY <1>2, <1>4
  <2> HIDE DEF id
  <2>3. /\ DOMAIN r.index = DOMAIN q.index \cup {id} /\ r.index[id] = NoteOf(e)
        /\ \A i \in DOMAIN q.index : r.index[i] = q.index[i]
    BY <2>1, <2>2 DEF Put
  <2>4. Found(r.index, c) = Found(q.index, c)
    BY <2>2, <2>3, NoteOfFacts DEF Found
  <2> QED BY <1>4, <2>1, <2>2, <2>3, <2>4 DEF Alike
<1>6. CASE d.status = "updated_metadata"
  <2> DEFINE n == d.note
             old == q.index[n]
  <2>1. r.index = Put(q.index, n, Merged(old, e)) /\ r.planned = q.planned
    BY <1>0, <1>6 DEF Step
  <2>2. n \in DOMAIN q.index /\ old \in Note /\ old.key = e.key
    BY <1>2, <1>3, <1>6 DEF Found
  <2>3. n \notin Found(q.index, c)
    BY <2>2 DEF Found
  <2> HIDE DEF n, old
  <2>4. /\ DOMAIN r.index = DOMAIN q.index /\ r.index[n] = Merged(old, e)
        /\ \A i \in DOMAIN q.index \ {n} : r.index[i] = q.index[i]
    BY <2>1, <2>2 DEF Put
  <2>5. Merged(old, e).key # c.key
    BY <2>2, MergedFacts
  <2>6. Found(r.index, c) = Found(q.index, c)
    BY <2>2, <2>3, <2>4, <2>5 DEF Found
  <2> QED BY <1>4, <2>1, <2>3, <2>4, <2>6 DEF Alike
<1>7. CASE d.status \notin Changing
  BY <1>0, <1>7 DEF Step, Alike
<1> QED BY <1>5, <1>6, <1>7 DEF Changing

\* Whether it commits or not, a batch of distinct texts does with each card
\* what the plan it starts with has for it, up to the card it raises at.
Announced(q, p, batch, commit, k) ==
  /\ IsPlan(q) /\ Len(q.items) \in 0..k /\ q.made >= p.made
  /\ \A i \in 1..Len(q.items) :
       /\ q.items[i].status = Decision(p.index, {}, batch[i]).status
       /\ ~commit => q.items[i] = Decision(p.index, {}, batch[i])
  /\ Len(q.items) < k => commit /\ Raises(q, batch[Len(q.items) + 1])
  /\ \A i \in 1..Len(batch) : i > Len(q.items) => Alike(q, p, batch[i])
  /\ ~commit => q.notes = p.notes

LEMMA AnnouncedCourse ==
  ASSUME NEW p, IsPlan(p), p.planned = {}, p.items = <<>>, NEW batch \in Seq(Card),
         \A i, j \in 1..Len(batch) : batch[i].key = batch[j].key => i = j,
         NEW commit \in BOOLEAN, NEW f, Course(f, p, batch, commit)
  PROVE  \A k \in 0..Len(batch) : Announced(f[k], p, batch, commit, k)
<1> DEFINE N == Len(batch)
           S == {k \in Nat : k <= N => Announced(f[k], p, batch, commit, k)}
<1>0. N \in Nat /\ \A i \in 1..N : batch[i] \in Card
  OBVIOUS
<1>1. 0 \in S
  <2>1. f[0] = p /\ p.made \in Nat /\ p.made >= p.made
    BY DEF Course, IsPlan
  <2>2. \A c : Alike(p, p, c)
    BY DEF Alike
  <2> QED BY <2>1, <2>2 DEF Announced
<1>2. ASSUME NEW k \in Nat, k \in S PROVE k + 1 \in S
  <2> DEFINE j == k + 1
  <2> SUFFICES ASSUME j <= N PROVE Announced(f[j], p, batch, commit, j)
    OBVIOUS
  <2>1. /\ j \in 1..N /\ batch[j] \in Card /\ j - 1 = k /\ j > k /\ k + 1 = j /\ 0..k \subseteq 0..j
        /\ 1..j = 1..k \cup {j} /\ (\A i \in 1..N : i > j => i > k /\ i # j) /\ j \in 0..j
    BY <1>0
  <2>2. Announced(f[k], p, batch, commit, k)
    BY <1>2, <2>1
  <2>0. j = k + 1
    OBVIOUS
  <2> HIDE DEF j
  <2>3. f[j] = Advanced(f[k], j, batch[j], commit)
    BY <2>1 DEF Course, N
  <2>4. CASE Len(f[k].items) = k /\ ~(commit /\ Raises(f[k], batch[j]))
    <3>1. f[j] = Planned(f[k], batch[j], commit)
      BY <2>1, <2>3, <2>4 DEF Advanced
    <3>2. IsPlan(f[k]) /\ f[k].made >= p.made /\ f[k].made \in Nat /\ p.made \in Nat
          /\ DOMAIN f[k].items = 1..k
      BY <2>2, <2>4 DEF Announced, IsPlan
    <3>3. IsPlan(f[j])
      BY <2>1, <3>1, <3>2, PlannedShape
    <3>4. Decision(f[k].index, f[k].planned, batch[j]) = Decision(p.index, {}, batch[j])
      <4>1. Alike(f[k], p, batch[j])
        BY <2>1, <2>2, <2>4 DEF Announced, N
      <4> QED BY <4>1, AlikeDecides
    <3>5. Step(f[k], batch[j], commit, Decision(p.index, {}, batch[j]), f[j])
      <4>1. Step(f[k], batch[j], commit, Decision(f[k].index, f[k].planned, batch[j]), f[j])
        BY <2>1, <3>1, <3>2, StepOf
      <4> QED BY <3>4, <4>1
    <3>6. ASSUME NEW i \in 1..N, i > j PROVE Alike(f[j], p, batch[i])
      <4>1. batch[i].key # batch[j].key /\ batch[i] \in Card /\ Alike(f[k], p, batch[i])
        BY <1>0, <2>1, <2>2, <2>4, <3>6 DEF Announced
      <4> QED BY <2>1, <3>1, <3>2, <4>1, AlikeStays
    <3>7. /\ Len(f[j].items) = j
          /\ \A i \in 1..j : /\ f[j].items[i].status = Decision(p.index, {}, batch[i]).status
                             /\ ~commit => f[j].items[i] = Decision(p.index, {}, batch[i])
      <4>1. /\ Len(f[j].items) = j /\ f[j].items[j].status = Decision(p.index, {}, batch[j]).status
            /\ ~commit => f[j].items[j] = Decision(p.index, {}, batch[j])
            /\ \A i \in 1..k : f[j].items[i] = f[k].items[i]
        BY <2>1, <2>4, <3>2, <3>5 DEF Step
      <4>2. \A i \in 1..k : /\ f[k].items[i].status = Decision(p.index, {}, batch[i]).status
                            /\ ~commit => f[k].items[i] = Decision(p.index, {}, batch[i])
        BY <2>2, <2>4 DEF Announced
      <4> QED BY <2>1, <4>1, <4>2
    <3>8. f[j].made >= p.made
      <4>1. f[j].made = f[k].made + 1 \/ f[j].made = f[k].made
        BY <3>5 DEF Step, Changing
      <4> QED BY <3>2, <4>1
    <3>9. ~commit => f[j].notes = p.notes
      BY <2>2, <3>5 DEF Step, Changing, Announced
    <3> QED BY <2>1, <3>3, <3>6, <3>7, <3>8, <3>9 DEF Announced
  <2>5. CASE ~(Len(f[k].items) = k /\ ~(commit /\ Raises(f[k], batch[j])))
    <3>1. f[j] = f[k]
      BY <2>1, <2>3, <2>5 DEF Advanced
    <3>2. Len(f[k].items) \in 0..k /\ commit /\ Raises(f[k], batch[Len(f[k].items) + 1])
      BY <2>0, <2>2, <2>5 DEF Announced
    <3> QED BY <2>1, <2>2, <3>1, <3>2 DEF Announced
  <2> QED BY <2>4, <2>5
<1> HIDE DEF S
<1>3. \A k \in Nat : k \in S
  BY <1>1, <1>2, Inductive
<1> QED BY <1>3 DEF S

\* Texts that are as many as the cards are distinct.
LEMMA DistinctCards ==
  ASSUME NEW batch \in Seq(Card), Cardinality({batch[i].key : i \in DOMAIN batch}) = Len(batch)
  PROVE  \A i, j \in 1..Len(batch) : batch[i].key = batch[j].key => i = j
<1> DEFINE N == Len(batch)
           D == 1..N
           T == {batch[i].key : i \in DOMAIN batch}
           g == [i \in D |-> batch[i].key]
<1>0. N \in Nat
  OBVIOUS
<1>1. DOMAIN batch = D
  OBVIOUS
<1>2. IsFiniteSet(D) /\ Cardinality(D) = N
  <2> HIDE DEF N
  <2>1. 1 \in Int /\ N \in Int
    BY <1>0
  <2>2. /\ IsFiniteSet(1..N) /\ Cardinality(1..N) = IF 1 > N THEN 0 ELSE N - 1 + 1
    BY <2>1, FS_Interval
  <2>3. (IF 1 > N THEN 0 ELSE N - 1 + 1) = N
    BY <1>0
  <2> QED BY <2>2, <2>3
<1>3. g \in Surjection(D, T)
  <2>1. g \in [D -> T] /\ \A t \in T : \E i \in D : g[i] = t
    BY <1>1
  <2> QED BY <2>1, Fun_IsSurj
<1> HIDE DEF N, D, T
<1>4. Cardinality(T) = Cardinality(D)
  BY <1>2 DEF T, N
<1> HIDE DEF g
<1>5. g \in Injection(D, T)
  BY <1>2, <1>3, <1>4, FS_SurjSameCardinalityImpliesInj
<1>6. \A i, j \in D : g[i] = g[j] => i = j
  BY <1>5, Fun_InjectionProperties
<1> QED BY <1>6 DEF g, D, N

\* What a whole batch of distinct texts comes to.
Distinct(batch) == \A i, j \in 1..Len(batch) : batch[i].key = batch[j].key => i = j
Comes(p, batch, commit, o) ==
  /\ IsPlan(p) /\ p.planned = {} /\ p.items = <<>>
  /\ Distinct(batch) /\ o = Outcome(p, batch, commit)
LEMMA AnnouncedOutcome ==
  ASSUME NEW p, NEW batch \in Seq(Card), NEW commit \in BOOLEAN, NEW o, Comes(p, batch, commit, o)
  PROVE  Announced(o, p, batch, commit, Len(batch))
<1>1. Len(batch) \in Nat /\ Len(batch) \in 0..Len(batch)
  OBVIOUS
<1>2. PICK f : Course(f, p, batch, commit) /\ o = f[Len(batch)]
  BY <1>1, CourseExists DEF Comes
<1> QED BY <1>1, <1>2, AnnouncedCourse DEF Comes, Distinct

Follows(ns, m, batch, p, preview, q, commit) ==
  /\ p = Begun(ns, m, batch) /\ preview = Outcome(p, batch, FALSE)
  /\ q = Begun(preview.notes, preview.made, batch) /\ commit = Outcome(q, batch, TRUE)

\* What is said of the commit, of the preview and of the card it raises at.
Matches(ns, batch, preview, commit) ==
  /\ Statuses(commit.items) = [i \in 1..Len(commit.items) |-> preview.items[i].status]
  /\ Len(commit.items) < Len(batch) =>
       /\ preview.items[Len(commit.items) + 1].status = "updated_metadata"
       /\ ns[preview.items[Len(commit.items) + 1].note].type \in Broken \ TypesOf(batch)

\* A commit that raises at a card is about to fill in a note of a type that is
\* not of the batch.
LEMMA RaisesFor ==
  ASSUME NEW ns, NEW m \in Nat, IsDeck(ns, m), NEW batch, NEW p, p.index = IndexOf(ns, batch),
         NEW q, NEW c \in Card, Alike(q, p, c), Raises(q, c), NEW d, d = Decision(p.index, {}, c)
  PROVE  d.status = "updated_metadata" /\ ns[d.note].type \in Broken \ TypesOf(batch)
<1>1. d = Decision(q.index, q.planned, c)
  BY AlikeDecides
<1>2. /\ d.status = "updated_metadata" /\ models[q.index[d.note].type] = "unlabelled"
  BY <1>1 DEF Raises
<1>3. IsDeck(p.index, m)
  BY DEF IsDeck, IndexOf
<1>4. d.note \in Found(p.index, c)
  BY <1>2, <1>3, Decides
<1>5. d.note \in DOMAIN p.index /\ q.index[d.note] = p.index[d.note]
  BY <1>4 DEF Alike, Found
<1>6. /\ d.note \in DOMAIN ns /\ ns[d.note].type \notin Ignored(batch)
      /\ p.index[d.note] = ns[d.note] /\ ns[d.note] \in Note
  BY <1>5 DEF IndexOf, IsDeck
<1>7. ns[d.note].type \in Broken
  BY <1>2, <1>5, <1>6 DEF Broken, Note
<1> QED BY <1>2, <1>6, <1>7 DEF Ignored

LEMMA CommitFollowsPreview ==
  ASSUME NEW ns, NEW m \in Nat, IsDeck(ns, m), NEW batch \in Seq(Card), Distinct(batch),
         NEW p, NEW preview, NEW q, NEW commit, Follows(ns, m, batch, p, preview, q, commit)
  PROVE  Matches(ns, batch, preview, commit)
<1> DEFINE N == Len(batch)
           done == Len(commit.items)
<1>0. N \in Nat /\ \A i \in 1..N : batch[i] \in Card
  OBVIOUS
<1>1. /\ IsPlan(p) /\ p.planned = {} /\ p.items = <<>> /\ p.notes = ns /\ p.made = m
      /\ p.index = IndexOf(ns, batch)
  BY BegunIsDraft DEF Draft, Begun, IndexOf, Follows
<1>2. Announced(preview, p, batch, FALSE, N)
  <2>1. Comes(p, batch, FALSE, preview)
    BY <1>1 DEF Comes, Follows
  <2> QED BY <2>1, AnnouncedOutcome
<1>3. preview.made \in Nat /\ IsDeck(preview.notes, preview.made) /\ preview.notes = ns
  BY <1>1, <1>2 DEF IsPlan, Announced
<1>4. IsPlan(q) /\ q.planned = {} /\ q.items = <<>> /\ q.index = IndexOf(ns, batch)
  <2>1. Draft(Begun(preview.notes, preview.made, batch), batch)
        /\ Begun(preview.notes, preview.made, batch).items = <<>>
    BY <1>3, BegunIsDraft
  <2>2. q = Begun(preview.notes, preview.made, batch) /\ q.notes = ns
    BY <1>3 DEF Follows, Begun
  <2>3. Draft(q, batch) /\ q.items = <<>>
    BY <2>1, <2>2
  <2> QED BY <2>2, <2>3 DEF Draft
<1>5. q.index = p.index
  BY <1>1, <1>4
<1>6. Announced(commit, q, batch, TRUE, N)
  <2>1. Comes(q, batch, TRUE, commit)
    BY <1>4 DEF Comes, Follows
  <2> QED BY <2>1, AnnouncedOutcome
<1>7. Len(preview.items) = N /\ \A i \in 1..N : preview.items[i] = Decision(p.index, {}, batch[i])
  BY <1>0, <1>2 DEF Announced
<1>8. /\ done \in 0..N /\ DOMAIN commit.items = 1..done
      /\ \A i \in 1..done : commit.items[i].status = Decision(p.index, {}, batch[i]).status
  BY <1>5, <1>6 DEF Announced, IsPlan
<1>9. Statuses(commit.items) = [i \in 1..done |-> preview.items[i].status]
  BY <1>0, <1>7, <1>8 DEF Statuses
<1>10. ASSUME done < N
       PROVE  /\ preview.items[done + 1].status = "updated_metadata"
              /\ ns[preview.items[done + 1].note].type \in Broken \ TypesOf(batch)
  <2>1. done + 1 \in 1..N /\ done + 1 > done
    BY <1>0, <1>8, <1>10
  <2>2. Raises(commit, batch[done + 1]) /\ Alike(commit, q, batch[done + 1])
    BY <1>6, <1>10, <2>1 DEF Announced
  <2>3. PICK c \in Card : c = batch[done + 1]
    BY <1>0, <2>1
  <2>4. Alike(commit, p, c)
    BY <1>5, <2>2, <2>3 DEF Alike
  <2>5. PICK d : d = Decision(p.index, {}, c)
    OBVIOUS
  <2>6. preview.items[done + 1] = d
    BY <1>7, <2>1, <2>3, <2>5
  <2>7. Raises(commit, c) /\ p.index = IndexOf(ns, batch)
    BY <1>1, <2>2, <2>3
  <2>8. d.status = "updated_metadata" /\ ns[d.note].type \in Broken \ TypesOf(batch)
    BY <2>4, <2>5, <2>7, RaisesFor
  <2> QED BY <2>6, <2>8
<1> QED BY <1>9, <1>10 DEF Matches

\* A preview announces what a commit right after it does, if no two cards of
\* the batch have the same text, up to a card at which the commit raises; and
\* it raises only at one that the preview says gives its metadata to a note
\* whose type cannot be used and is not of the batch (lesson_imports.py:29-34,
\* 43, 53-147).
THEOREM PreviewsAreExact == Spec => []ExactForDistinctCards
<1>1. ImportInv => ExactForDistinctCards
  <2> SUFFICES ASSUME ImportInv, NEW batch \in Batches,
                      Cardinality({batch[i].key : i \in DOMAIN batch}) = Len(batch)
               PROVE  CommitFollows(batch)
    BY DEF ExactForDistinctCards
  <2> DEFINE p == Begun(notes, made, batch)
             preview == Outcome(p, batch, FALSE)
             q == Begun(preview.notes, preview.made, batch)
             commit == Outcome(q, batch, TRUE)
  <2>1. batch \in Seq(Card)
    BY LessonAssumption
  <2>2. Distinct(batch)
    BY <2>1, DistinctCards DEF Distinct
  <2>3. made \in Nat /\ IsDeck(notes, made)
    BY DEF ImportInv, Kinds
  <2>4. Follows(notes, made, batch, p, preview, q, commit)
    BY DEF Follows
  <2>5. Matches(notes, batch, preview, commit)
    <3> HIDE DEF p, preview, q, commit
    <3> QED BY <2>1, <2>2, <2>3, <2>4, CommitFollowsPreview
  <2> QED BY <2>5 DEF CommitFollows, Matches
<1> QED BY <1>1, ImportsKeepTheirShape, PTL
=============================================================================

----------------------- MODULE CollectionServiceProofs -----------------------
(***************************************************************************)
(* Who uses the collection file, for any number of processes, calls,       *)
(* cancellations and replaced collections.  The invariant is a conjunction *)
(* of what holds of each process: which jobs its worker may have in each   *)
(* stage of the lifecycle and for whom, whose the asyncio lock is, and     *)
(* which Collection objects may be open.                                   *)
(***************************************************************************)
EXTENDS CollectionService, SequenceTheorems, TLAPS

Starting == {"opening", "backing", "disowning"}
Live == Starting \cup {"up", "closing"}
OpName == Op \cup {"reopen", "report"}
Calls == {Idle} \cup [op : OpName, stage : {"wait", "await", "done", "failed"}]
JobSet == [by : Task \cup {"main", "nobody"}, kind : Op \cup {"open", "close"}, obj : Nat]

Kinds ==
  /\ owner \in Process \cup {"nobody"}
  /\ life \in [Process -> Live \cup {"down", "closed"}]
  /\ cancels \in [Process -> Nat] /\ generation \in [Process -> Nat]
  /\ col \in [Process -> Nat] /\ made \in [Process -> Nat]
  /\ files \in [Process -> SUBSET Nat]
  /\ lock \in [Process -> Task \cup {"main", "nobody"}]
  /\ waiting \in [Process -> Seq(Task)]
  /\ jobs \in [Process -> Seq(JobSet)]
  /\ call \in [Process -> [Task -> Calls]]

\* A process that has opened, or is about to open, a collection is its owner.
Holds(p) == life[p] \in Live => owner = p

\* Calls are in flight only while the service is up; those that wait for the
\* lock are in the queue once, and a call that has the lock is its holder.
Called(p) ==
  /\ life[p] # "up" => \A t \in Task : call[p][t] = Idle
  /\ \A i \in DOMAIN waiting[p] : call[p][waiting[p][i]].stage = "wait"
  /\ \A i, j \in DOMAIN waiting[p] : waiting[p][i] = waiting[p][j] => i = j
  /\ \A t \in Task :
       /\ call[p][t].stage \in {"await", "done"} => lock[p] = t
       /\ call[p][t].op = "reopen" => call[p][t].stage # "failed"

\* A job that is awaited is the only one its call has.
JobOf(p, t, job) ==
  /\ call[p][t].stage = "await"
  /\ job.kind \in Op => job.obj = col[p]
  /\ job.kind = "open" <=> call[p][t].op = "reopen"
  /\ call[p][t].op = "export" => job.kind = "export"
  /\ job.kind # "close"
Awaited(p) ==
  \A i \in DOMAIN jobs[p] :
    jobs[p][i].by \in Task =>
      /\ JobOf(p, jobs[p][i].by, jobs[p][i])
      /\ \A k \in DOMAIN jobs[p] : jobs[p][k].by = jobs[p][i].by => k = i

\* The jobs in each stage of the lifecycle.
FromMain(p, job) ==
  /\ job.by = "main"
  /\ IF life[p] = "disowning" THEN job.kind = "close" /\ job.obj = made[p] ELSE job.kind = "open"
Abandoned(job) == job.by = "nobody" /\ job.kind \in Op
Staged(p) ==
  /\ life[p] \in Starting => Len(jobs[p]) <= 1 /\ \A i \in DOMAIN jobs[p] : FromMain(p, jobs[p][i])
  /\ life[p] \in {"backing", "disowning"} => cancels[p] >= 1
  /\ life[p] = "up" => \A i \in DOMAIN jobs[p] : jobs[p][i].by \in Task \/ Abandoned(jobs[p][i])
  /\ life[p] = "closing" => \A i \in DOMAIN jobs[p] :
       IF i = Len(jobs[p]) THEN jobs[p][i] = Job("main", "close", col[p])
       ELSE Abandoned(jobs[p][i])
  /\ life[p] = "closed" => jobs[p] = <<>>
  /\ life[p] = "down" => \A i \in DOMAIN jobs[p] :
       cancels[p] >= 2 /\ jobs[p][i].by = "nobody" /\ jobs[p][i].kind \notin Op

\* The objects whose file is open, if the start was cancelled once at most.
OpenFiles(p) ==
  /\ life[p] \in {"down", "closed"} => files[p] = {}
  /\ life[p] \in Starting => files[p] \subseteq {made[p]}
  /\ life[p] \in {"opening", "backing"} /\ jobs[p] # <<>> => files[p] = {}
  /\ life[p] \in {"disowning", "closing"} /\ jobs[p] = <<>> => files[p] = {}
  /\ life[p] = "closing" => files[p] \subseteq {col[p]}
  /\ life[p] = "up" => \A o \in files[p] :
       o = col[p] \/ (o = made[p] /\ \E t \in Task : call[p][t] = [op |-> "reopen", stage |-> "done"])

\* The call that has exported the collection, which is closed until it has
\* reopened it, is the only such call.
Reopens(c) == c.op = "reopen" \/ (c.op = "export" /\ c.stage = "done")
OneReopens(p) ==
  /\ col[p] <= made[p]
  /\ \A t \in Task : Reopens(call[p][t]) =>
       col[p] \notin files[p] /\ \A u \in Task : Reopens(call[p][u]) => u = t

Sound(p) ==
  Holds(p) /\ Called(p) /\ Awaited(p) /\ Staged(p) /\ (cancels[p] <= 1 => OpenFiles(p)) /\ OneReopens(p)

ServiceInv == Kinds /\ \A p \in Process : Sound(p)

-----------------------------------------------------------------------------
(* Queues. *)

LEMMA QueueFacts ==
  ASSUME NEW S, NEW s \in Seq(S)
  PROVE  /\ Len(s) \in Nat /\ DOMAIN s = 1..Len(s)
         /\ \A i \in 1..Len(s) : s[i] \in S
         /\ s = <<>> <=> Len(s) = 0
         /\ s = <<>> => DOMAIN s = {}
         /\ \A e \in S : /\ Append(s, e) \in Seq(S) /\ Len(Append(s, e)) = Len(s) + 1
                         /\ \A i \in 1..Len(s) : Append(s, e)[i] = s[i]
                         /\ Append(s, e)[Len(s) + 1] = e
         /\ s # <<>> => /\ Head(s) = s[1] /\ Head(s) \in S /\ 1 \in DOMAIN s
                        /\ Tail(s) \in Seq(S) /\ Len(Tail(s)) = Len(s) - 1
                        /\ \A i \in 1..Len(s) - 1 : Tail(s)[i] = s[i + 1]
OBVIOUS

LEMMA AppendFacts ==
  ASSUME NEW S, NEW s \in Seq(S), NEW e \in S, NEW q, q = Append(s, e)
  PROVE  /\ q \in Seq(S) /\ Len(q) = Len(s) + 1 /\ Len(q) \in DOMAIN q /\ q[Len(q)] = e /\ q # <<>>
         /\ \A i \in DOMAIN s : i \in DOMAIN q /\ q[i] = s[i] /\ i # Len(q)
         /\ \A i \in DOMAIN q : i \in DOMAIN s \/ i = Len(q)
OBVIOUS

LEMMA TailFacts ==
  ASSUME NEW S, NEW s \in Seq(S), s # <<>>, NEW q, q = Tail(s)
  PROVE  /\ q \in Seq(S) /\ Len(q) = Len(s) - 1 /\ Head(s) = s[1] /\ Head(s) \in S /\ 1 \in DOMAIN s
         /\ \A i \in DOMAIN q : i + 1 \in DOMAIN s /\ q[i] = s[i + 1] /\ i \in Nat /\ i + 1 # 1
         /\ \A i \in DOMAIN q : i = Len(q) <=> i + 1 = Len(s)
<1>1. Len(s) \in Nat /\ DOMAIN s = 1..Len(s) /\ Len(s) # 0
  OBVIOUS
<1>2. q \in Seq(S) /\ Len(q) = Len(s) - 1 /\ DOMAIN q = 1..Len(s) - 1
  BY <1>1
<1>3. \A i \in DOMAIN q : i + 1 \in DOMAIN s /\ q[i] = s[i + 1] /\ i \in Nat /\ i + 1 # 1
  BY <1>1, <1>2
<1>4. Head(s) = s[1] /\ Head(s) \in S /\ 1 \in DOMAIN s
  BY <1>1
<1>5. \A i \in DOMAIN q : i = Len(q) <=> i + 1 = Len(s)
  BY <1>1, <1>2
<1> QED BY <1>2, <1>3, <1>4, <1>5

LEMMA TailIsEmpty ==
  ASSUME NEW S, NEW s \in Seq(S), s # <<>>, NEW q, q = Tail(s)
  PROVE  /\ Len(s) <= 1 => q = <<>> /\ DOMAIN q = {} /\ Len(q) = 0
         /\ Len(s) # 1 => q # <<>>
<1>1. Len(s) \in Nat /\ Len(s) # 0
  OBVIOUS
<1>2. Len(q) = Len(s) - 1 /\ DOMAIN q = 1..Len(s) - 1 /\ q \in Seq(S)
  OBVIOUS
<1>3. q = <<>> <=> Len(q) = 0
  BY <1>2, SMTT(30)
<1> QED BY <1>1, <1>2, <1>3

LEMMA RemoveAtFacts ==
  ASSUME NEW S, NEW s \in Seq(S), NEW i \in 1..Len(s)
  PROVE  /\ RemoveAt(s, i) \in Seq(S) /\ Len(RemoveAt(s, i)) = Len(s) - 1
         /\ \A j \in 1..Len(s) - 1 : RemoveAt(s, i)[j] = IF j < i THEN s[j] ELSE s[j + 1]
<1>1. /\ SubSeq(s, 1, i - 1) \in Seq(S) /\ Len(SubSeq(s, 1, i - 1)) = i - 1
      /\ \A j \in 1..i - 1 : SubSeq(s, 1, i - 1)[j] = s[j]
  BY SubSeqProperties
<1>2. /\ SubSeq(s, i + 1, Len(s)) \in Seq(S) /\ Len(SubSeq(s, i + 1, Len(s))) = Len(s) - i
      /\ \A j \in 1..Len(s) - i : SubSeq(s, i + 1, Len(s))[j] = s[i + j]
  BY SubSeqProperties
<1> DEFINE a == SubSeq(s, 1, i - 1)
           b == SubSeq(s, i + 1, Len(s))
<1>3. RemoveAt(s, i) = a \o b
  BY DEF RemoveAt
<1> HIDE DEF a, b
<1>4. /\ a \o b \in Seq(S) /\ Len(a \o b) = Len(a) + Len(b)
      /\ \A j \in 1..Len(a) + Len(b) : (a \o b)[j] = IF j <= Len(a) THEN a[j] ELSE b[j - Len(a)]
  BY <1>1, <1>2, ConcatProperties DEF a, b
<1>5. /\ Len(a) = i - 1 /\ Len(b) = Len(s) - i
      /\ \A j \in 1..i - 1 : a[j] = s[j]
      /\ \A j \in 1..Len(s) - i : b[j] = s[i + j]
  BY <1>1, <1>2 DEF a, b
<1>6. ASSUME NEW j \in 1..Len(s) - 1
      PROVE  (a \o b)[j] = IF j < i THEN s[j] ELSE s[j + 1]
  <2>1. CASE j < i
    BY <1>4, <1>5, <2>1
  <2>2. CASE ~(j < i)
    <3>1. j \in 1..Len(a) + Len(b) /\ ~(j <= Len(a))
      BY <1>5, <2>2
    <3>2. PICK k \in 1..Len(s) - i : k = j - Len(a) /\ i + k = j + 1
      BY <1>5, <2>2
    <3>3. (a \o b)[j] = b[k] /\ b[k] = s[j + 1]
      BY <1>4, <1>5, <3>1, <3>2
    <3> QED BY <2>2, <3>3
  <2> QED BY <2>1, <2>2
<1> QED BY <1>3, <1>4, <1>5, <1>6

\* What is left of a queue when a place is given up: the places that remain are
\* others, each was one place before, and their order is kept.
PartOf(q, s, places) ==
  \E from \in [DOMAIN q -> DOMAIN s \ places] :
    /\ \A i \in DOMAIN q : q[i] = s[from[i]]
    /\ \A i, j \in DOMAIN q : from[i] = from[j] => i = j

LEMMA WithoutFacts ==
  ASSUME NEW S, NEW s \in Seq(S), NEW places \in SUBSET DOMAIN s,
         \A i, j \in places : i = j
  PROVE  /\ Without(s, places) \in Seq(S)
         /\ PartOf(Without(s, places), s, places)
<1>1. CASE places = {}
  <2> DEFINE from == [i \in DOMAIN s |-> i]
  <2>1. Without(s, places) = s
    BY <1>1 DEF Without
  <2>2. from \in [DOMAIN s -> DOMAIN s \ places] /\ \A i \in DOMAIN s : from[i] = i
    BY <1>1
  <2> HIDE DEF from
  <2> QED BY <1>1, <2>1, <2>2 DEF PartOf
<1>2. CASE places # {}
  <2> DEFINE k == CHOOSE i \in places : TRUE
             r == RemoveAt(s, k)
             from == [i \in DOMAIN r |-> IF i < k THEN i ELSE i + 1]
  <2>1. k \in places /\ places = {k} /\ k \in 1..Len(s)
    BY <1>2
  <2>2. Without(s, places) = r
    BY <1>2 DEF Without
  <2> HIDE DEF k
  <2>3. /\ r \in Seq(S) /\ Len(r) = Len(s) - 1
        /\ \A j \in 1..Len(s) - 1 : r[j] = IF j < k THEN s[j] ELSE s[j + 1]
    BY <2>1, RemoveAtFacts
  <2> HIDE DEF r
  <2>4. DOMAIN r = 1..Len(s) - 1 /\ DOMAIN s = 1..Len(s)
    BY <2>3
  <2>5. from \in [DOMAIN r -> DOMAIN s \ places]
    BY <2>1, <2>4
  <2>6. \A i \in DOMAIN r : r[i] = s[from[i]]
    BY <2>1, <2>3, <2>4
  <2>7. \A i, j \in DOMAIN r : from[i] = from[j] => i = j
    BY <2>1, <2>4
  <2> HIDE DEF from
  <2> QED BY <2>2, <2>3, <2>5, <2>6, <2>7 DEF PartOf
<1> QED BY <1>1, <1>2

LEMMA OrphanedFacts ==
  ASSUME NEW s \in Seq(JobSet), NEW who \in Task \cup {"main"}
  PROVE  /\ Orphaned(s, who) \in Seq(JobSet) /\ Len(Orphaned(s, who)) = Len(s)
         /\ \A i \in DOMAIN s :
              /\ Orphaned(s, who)[i].kind = s[i].kind /\ Orphaned(s, who)[i].obj = s[i].obj
              /\ Orphaned(s, who)[i].by = IF s[i].by = who THEN "nobody" ELSE s[i].by
<1> DEFINE o == Orphaned(s, who)
<1>1. DOMAIN s = 1..Len(s) /\ Len(s) \in Nat /\ \A i \in 1..Len(s) : s[i] \in JobSet
  OBVIOUS
<1>2. DOMAIN o = 1..Len(s)
  BY <1>1 DEF Orphaned
<1>3. ASSUME NEW i \in 1..Len(s)
      PROVE  /\ o[i] \in JobSet /\ o[i].kind = s[i].kind /\ o[i].obj = s[i].obj
             /\ o[i].by = IF s[i].by = who THEN "nobody" ELSE s[i].by
  BY <1>1 DEF Orphaned, JobSet
<1>4. o = [i \in 1..Len(s) |-> o[i]]
  BY <1>1 DEF Orphaned
<1> HIDE DEF o
<1>5. o \in Seq(JobSet) /\ Len(o) = Len(s)
  BY <1>1, <1>3, <1>4
<1> QED BY <1>1, <1>3, <1>5 DEF o

-----------------------------------------------------------------------------
(* A step of one process leaves the others alone. *)

Same(r) ==
  /\ life'[r] = life[r] /\ cancels'[r] = cancels[r] /\ col'[r] = col[r] /\ made'[r] = made[r]
  /\ files'[r] = files[r] /\ lock'[r] = lock[r] /\ waiting'[r] = waiting[r]
  /\ jobs'[r] = jobs[r] /\ call'[r] = call[r]

LEMMA SameKeeps ==
  ASSUME NEW r \in Process, Sound(r), Same(r), life[r] \in Live => owner' = r
  PROVE  Sound(r)'
<1> USE DEF Sound, Same
<1>1. Holds(r)'
  BY DEF Holds
<1>2. Called(r)' /\ Awaited(r)'
  BY DEF Called, Awaited, JobOf
<1>3. Staged(r)' /\ (cancels'[r] <= 1 => OpenFiles(r)') /\ OneReopens(r)'
  BY DEF Staged, FromMain, OpenFiles, OneReopens
<1> QED BY <1>1, <1>2, <1>3

LEMMA InvInit == Init => ServiceInv
<1> SUFFICES ASSUME Init PROVE ServiceInv
  OBVIOUS
<1> USE DEF Init
<1>1. Kinds
  BY DEF Kinds, Live, Starting, Calls
<1>2. ASSUME NEW p \in Process PROVE Sound(p)
  <2>1. life[p] = "down" /\ jobs[p] = <<>> /\ files[p] = {} /\ waiting[p] = <<>>
        /\ col[p] = 0 /\ made[p] = 0 /\ (\A t \in Task : call[p][t] = Idle)
    OBVIOUS
  <2>2. Holds(p) /\ Called(p) /\ Awaited(p)
    BY <2>1 DEF Holds, Called, Awaited, Live, Starting, Idle
  <2>3. Staged(p) /\ OpenFiles(p) /\ OneReopens(p)
    BY <2>1 DEF Staged, OpenFiles, OneReopens, Starting, Reopens, Idle
  <2> QED BY <2>2, <2>3 DEF Sound
<1> QED BY <1>1, <1>2 DEF ServiceInv

\* What is known of a process, unfolded.
LEMMA Known ==
  ASSUME ServiceInv, NEW p \in Process
  PROVE  /\ Kinds /\ Sound(p)
         /\ Holds(p) /\ Called(p) /\ Awaited(p) /\ Staged(p) /\ OneReopens(p)
         /\ cancels[p] <= 1 => OpenFiles(p)
         /\ jobs[p] \in Seq(JobSet) /\ waiting[p] \in Seq(Task)
         /\ cancels[p] \in Nat /\ col[p] \in Nat /\ made[p] \in Nat /\ files[p] \in SUBSET Nat
         /\ \A t \in Task : call[p][t] \in Calls
BY DEF ServiceInv, Sound, Kinds

\* The other processes when one takes a step: a process with a lifecycle under
\* way is the owner, so nobody else takes or gives up the ownership.
LEMMA OthersKeep ==
  ASSUME ServiceInv, NEW p \in Process, \A r \in Process \ {p} : Same(r),
         owner' = owner \/ owner \in {p, "nobody"},
         Kinds', Sound(p)'
  PROVE  ServiceInv'
<1>1. ASSUME NEW r \in Process \ {p} PROVE Sound(r)'
  <2>1. Sound(r) /\ (life[r] \in Live => owner = r)
    BY Known DEF Holds
  <2>2. life[r] \in Live => owner' = r
    BY <2>1, NamesAssumption
  <2> QED BY <2>1, <2>2, SameKeeps
<1> QED BY <1>1 DEF ServiceInv

-----------------------------------------------------------------------------
(* The lifecycle. *)

LEMMA OpenKeeps == ASSUME ServiceInv, NEW p \in Process, Open(p) PROVE ServiceInv'
<1> USE DEF Open, Submit
<1> DEFINE job == Job("main", "open", 0)
<1>0. job \in JobSet /\ job.by = "main" /\ job.kind = "open"
  BY DEF Job, JobSet
<1> HIDE DEF job
<1>1. /\ jobs' = [jobs EXCEPT ![p] = Append(@, job)]
      /\ Len(jobs'[p]) = 1 /\ jobs'[p] \in Seq(JobSet) /\ DOMAIN jobs'[p] = {1} /\ jobs'[p][1] = job
  BY <1>0, Known, QueueFacts DEF job, Kinds
<1>2. Kinds'
  BY <1>0, <1>1, Known DEF Kinds, Live, Starting
<1>3. \A r \in Process \ {p} : Same(r)
  BY <1>1, Known DEF Same, Kinds
<1>4. /\ life'[p] = "opening" /\ call'[p] = call[p] /\ waiting'[p] = waiting[p] /\ lock'[p] = lock[p]
      /\ col'[p] = col[p] /\ made'[p] = made[p] /\ files'[p] = files[p] /\ cancels'[p] = cancels[p]
      /\ owner' = p /\ life[p] = "down"
  BY Known DEF Kinds
<1>5. Holds(p)' /\ Called(p)'
  BY <1>4, Known DEF Holds, Called
<1>a. Awaited(p)'
  BY <1>0, <1>1, NamesAssumption DEF Awaited
<1>6. Staged(p)'
  <2>1. \A i \in DOMAIN jobs'[p] : FromMain(p, jobs[p][i])'
    BY <1>0, <1>1, <1>4 DEF FromMain
  <2>2. Len(jobs'[p]) <= 1
    BY <1>1
  <2> QED BY <1>4, <2>1, <2>2 DEF Staged, FromMain
<1>7. (cancels'[p] <= 1 => OpenFiles(p)') /\ OneReopens(p)'
  BY <1>4, Known DEF OpenFiles, OneReopens, Starting
<1>8. Sound(p)'
  BY <1>5, <1>a, <1>6, <1>7 DEF Sound
<1> QED BY <1>2, <1>3, <1>8, OthersKeep

\* The awaited job of the lifecycle has ended, so the queue is empty.
LEMMA MainIsDone ==
  ASSUME ServiceInv, NEW p \in Process, ~Awaits(p, "main"), life[p] \in Starting \cup {"closing"}
  PROVE  jobs[p] = <<>> /\ DOMAIN jobs[p] = {}
<1>1. jobs[p] \in Seq(JobSet) /\ Staged(p)
  BY Known
<1>2. Len(jobs[p]) \in Nat /\ DOMAIN jobs[p] = 1..Len(jobs[p]) /\ (jobs[p] = <<>> <=> Len(jobs[p]) = 0)
  BY <1>1, QueueFacts
<1>3. ASSUME Len(jobs[p]) # 0 PROVE \E i \in DOMAIN jobs[p] : jobs[p][i].by = "main"
  <2>1. Len(jobs[p]) \in DOMAIN jobs[p]
    BY <1>2, <1>3
  <2>2. CASE life[p] \in Starting
    BY <1>1, <2>1, <2>2 DEF Staged, FromMain
  <2>3. CASE life[p] = "closing"
    <3>1. jobs[p][Len(jobs[p])] = Job("main", "close", col[p])
      BY <1>1, <2>1, <2>3 DEF Staged
    <3> QED BY <2>1, <3>1 DEF Job
  <2> QED BY <2>1, <2>2, <2>3
<1> QED BY <1>2, <1>3 DEF Awaits

LEMMA OpenDoneKeeps == ASSUME ServiceInv, NEW p \in Process, OpenDone(p) PROVE ServiceInv'
<1> USE DEF OpenDone
<1>0. /\ Kinds /\ Holds(p) /\ Called(p) /\ OneReopens(p) /\ (cancels[p] <= 1 => OpenFiles(p))
      /\ made[p] \in Nat /\ life[p] = "opening"
  BY Known
<1>1. jobs[p] = <<>> /\ jobs'[p] = jobs[p] /\ DOMAIN jobs[p] = {}
  BY <1>0, MainIsDone DEF Starting
<1>2. Kinds'
  <2>1. col' \in [Process -> Nat] /\ owner' \in Process \cup {"nobody"}
    BY <1>0 DEF Kinds
  <2>3. generation' \in [Process -> Nat]
    <3>1. generation \in [Process -> Nat] /\ generation[p] + 1 \in Nat
      BY <1>0 DEF Kinds
    <3>2. generation' = generation \/ generation' = [generation EXCEPT ![p] = generation[p] + 1]
      OBVIOUS
    <3> QED BY <3>1, <3>2
  <2>2. life' \in [Process -> Live \cup {"down", "closed"}]
    BY <1>0 DEF Kinds, Live
  <2> QED BY <1>0, <2>1, <2>2, <2>3 DEF Kinds
<1>3. \A r \in Process \ {p} : Same(r)
  BY <1>0, SMTT(30) DEF Same, Kinds
<1>4. /\ UNCHANGED <<call, waiting, lock, made, files, cancels>>
      /\ \/ life'[p] = "up" /\ col'[p] = made[p] /\ owner' = owner
         \/ life'[p] = "down" /\ col'[p] = col[p] /\ owner' = "nobody" /\ made[p] \notin files[p]
  BY <1>0 DEF Kinds
<1>5. \A t \in Task : call[p][t] = Idle
  BY <1>0 DEF Called
<1>6. Holds(p)' /\ Called(p)'
  BY <1>0, <1>4, <1>5 DEF Holds, Called, Idle, Live, Starting
<1>7. Awaited(p)' /\ Staged(p)'
  BY <1>1, <1>4 DEF Awaited, Staged, Starting
<1>8. cancels'[p] <= 1 => OpenFiles(p)'
  BY <1>0, <1>1, <1>4 DEF OpenFiles, Starting
<1>9. OneReopens(p)'
  BY <1>0, <1>4, <1>5 DEF OneReopens, Reopens, Idle
<1>10. Sound(p)'
  BY <1>6, <1>7, <1>8, <1>9 DEF Sound
<1>11. owner' = owner \/ owner \in {p, "nobody"}
  BY <1>0 DEF Holds, Live, Starting
<1> QED BY <1>2, <1>3, <1>10, <1>11, OthersKeep

LEMMA CancelOpenKeeps == ASSUME ServiceInv, NEW p \in Process, CancelOpen(p) PROVE ServiceInv'
<1>0. /\ Kinds /\ Holds(p) /\ Called(p) /\ Awaited(p) /\ Staged(p) /\ OneReopens(p)
      /\ (cancels[p] <= 1 => OpenFiles(p)) /\ cancels[p] \in Nat /\ cancels[p] + 1 \in Nat
  BY Known
<1>1. /\ cancels' = [cancels EXCEPT ![p] = cancels[p] + 1] /\ life' = [life EXCEPT ![p] = "backing"]
      /\ life[p] = "opening" /\ UNCHANGED <<owner, call, waiting, lock, jobs, made, files, col, generation>>
  BY DEF CancelOpen
<1>2. life'[p] = "backing" /\ cancels'[p] = cancels[p] + 1
  BY <1>0, <1>1 DEF Kinds
<1>a. cancels[p] \in Nat
  BY Known
<1>3. Kinds'
  <2>1. life' \in [Process -> Live \cup {"down", "closed"}]
    BY <1>0, <1>1 DEF Kinds, Live, Starting
  <2>2. cancels' \in [Process -> Nat]
    BY <1>0, <1>1 DEF Kinds
  <2> QED BY <1>0, <1>1, <2>1, <2>2 DEF Kinds
<1>4. \A r \in Process \ {p} : Same(r)
  BY <1>0, <1>1 DEF Same, Kinds
<1>5. Holds(p)' /\ Called(p)'
  BY <1>0, <1>1, <1>2 DEF Holds, Called, Live, Starting
<1>6. Awaited(p)' /\ OneReopens(p)'
  BY <1>0, <1>1 DEF Awaited, JobOf, OneReopens
<1>7. Staged(p)'
  <2>1. Len(jobs[p]) <= 1 /\ \A i \in DOMAIN jobs[p] : FromMain(p, jobs[p][i])
    BY <1>0, <1>1 DEF Staged, Starting
  <2>2. \A i \in DOMAIN jobs'[p] : FromMain(p, jobs[p][i])'
    BY <1>1, <1>2, <2>1 DEF FromMain
  <2>3. cancels'[p] >= 1
    BY <1>2, <1>a
  <2>4. Len(jobs'[p]) <= 1
    BY <1>1, <2>1
  <2> QED BY <1>2, <2>2, <2>3, <2>4 DEF Staged, FromMain
<1>8. cancels'[p] <= 1 => OpenFiles(p)'
  <2>0. cancels'[p] <= 1 => cancels[p] <= 1
    BY <1>2, <1>a
  <2>1. cancels'[p] <= 1 => OpenFiles(p)
    BY <1>0, <2>0
  <2>2. OpenFiles(p) => OpenFiles(p)'
    BY <1>1, <1>2 DEF OpenFiles, Starting
  <2> QED BY <2>1, <2>2
<1>9. Sound(p)'
  BY <1>5, <1>6, <1>7, <1>8 DEF Sound
<1> QED BY <1>1, <1>3, <1>4, <1>9, OthersKeep

LEMMA BackOutKeeps == ASSUME ServiceInv, NEW p \in Process, BackOut(p) PROVE ServiceInv'
<1> USE DEF BackOut
<1>0. /\ Kinds /\ Holds(p) /\ Called(p) /\ Staged(p) /\ OneReopens(p)
      /\ (cancels[p] <= 1 => OpenFiles(p))
      /\ made[p] \in Nat /\ jobs[p] \in Seq(JobSet) /\ life[p] = "backing"
  BY Known
<1>b. jobs[p] \in Seq(JobSet)
  BY Known
<1>c. jobs[p] = <<>> /\ DOMAIN jobs[p] = {}
  BY <1>0, MainIsDone DEF Starting
<1>d. Len(jobs[p]) = 0
  BY <1>c, <1>b, QueueFacts
<1>1. jobs[p] = <<>> /\ DOMAIN jobs[p] = {} /\ Len(jobs[p]) = 0
  BY <1>c, <1>d
<1>2. \A t \in Task : call[p][t] = Idle
  BY <1>0 DEF Called
<1>3. UNCHANGED <<cancels, col, made, files, lock, waiting, call, generation>>
  OBVIOUS
<1>a. owner' = owner \/ owner \in {p, "nobody"}
  BY <1>0 DEF Holds, Live, Starting
<1>4. CASE made[p] \in files[p]
  <2> DEFINE job == Job("main", "close", made[p])
  <2>0. job \in JobSet /\ job.by = "main" /\ job.kind = "close" /\ job.obj = made[p]
    BY <1>0 DEF Job, JobSet
  <2> HIDE DEF job
  <2>a. jobs' = [jobs EXCEPT ![p] = Append(@, job)] /\ life' = [life EXCEPT ![p] = "disowning"] /\ owner' = owner
    BY <1>4 DEF job, Submit
  <2>b. jobs'[p] = Append(jobs[p], job) /\ life'[p] = "disowning"
    BY <1>0, <2>a DEF Kinds
  <2>1. /\ Len(jobs'[p]) = 1 /\ jobs'[p] \in Seq(JobSet) /\ DOMAIN jobs'[p] = {1} /\ jobs'[p][1] = job
        /\ jobs'[p] # <<>>
    BY <1>b, <1>d, <2>0, <2>b, QueueFacts
  <2>3. Kinds'
    <3>1. life' \in [Process -> Live \cup {"down", "closed"}]
      BY <1>0, <2>a DEF Kinds, Live, Starting
    <3>2. jobs' \in [Process -> Seq(JobSet)]
      BY <1>0, <2>1, <2>a DEF Kinds
    <3> QED BY <1>0, <1>3, <2>a, <3>1, <3>2 DEF Kinds
  <2>4. \A r \in Process \ {p} : Same(r)
    BY <1>0, <1>3, <2>a DEF Same, Kinds
  <2>5. Holds(p)' /\ Called(p)' /\ OneReopens(p)'
    BY <1>0, <1>3, <2>a, <2>b DEF Holds, Called, OneReopens, Live, Starting
  <2>6. Awaited(p)'
    BY <2>0, <2>1, NamesAssumption DEF Awaited
  <2>7. Staged(p)'
    <3>1. \A i \in DOMAIN jobs'[p] : FromMain(p, jobs[p][i])'
      BY <1>3, <2>0, <2>1, <2>b DEF FromMain
    <3>a. cancels[p] >= 1
      BY <1>0 DEF Staged
    <3>b. cancels' = cancels
      BY <1>3
    <3>c. cancels'[p] >= 1
      BY <3>a, <3>b
    <3>e. Len(jobs'[p]) = 1
      BY <2>1
    <3>d. Len(jobs'[p]) <= 1
      BY <3>e
    <3>2. Len(jobs'[p]) <= 1 /\ cancels'[p] >= 1
      BY <3>c, <3>d
    <3> QED BY <2>b, <3>1, <3>2 DEF Staged, FromMain
  <2>8. cancels'[p] <= 1 => OpenFiles(p)'
    BY <1>0, <1>3, <2>1, <2>b DEF OpenFiles, Starting
  <2>9. Sound(p)'
    BY <2>5, <2>6, <2>7, <2>8 DEF Sound
  <2> QED BY <1>a, <2>3, <2>4, <2>9, OthersKeep
<1>5. CASE made[p] \notin files[p]
  <2>1. jobs' = jobs /\ life' = [life EXCEPT ![p] = "down"] /\ life'[p] = "down" /\ owner' = "nobody"
    BY <1>0, <1>5 DEF Kinds
  <2>2. Kinds'
    BY <1>0, <1>3, <2>1 DEF Kinds
  <2>3. \A r \in Process \ {p} : Same(r)
    BY <1>0, <1>3, <2>1 DEF Same, Kinds
  <2>4. Sound(p)'
    <3> USE <1>1, <1>2, <1>3, <2>1
    <3>1. Holds(p)' /\ Called(p)' /\ OneReopens(p)'
      BY <1>0 DEF Holds, Called, OneReopens, Live, Starting
    <3>2. Awaited(p)' /\ Staged(p)'
      BY DEF Awaited, Staged, Starting
    <3>3. cancels'[p] <= 1 => OpenFiles(p)'
      BY <1>0, <1>5 DEF OpenFiles, Starting
    <3> QED BY <3>1, <3>2, <3>3 DEF Sound
  <2> QED BY <1>a, <2>2, <2>3, <2>4, OthersKeep
<1> QED BY <1>4, <1>5

LEMMA DisownKeeps == ASSUME ServiceInv, NEW p \in Process, Disown(p) PROVE ServiceInv'
<1> USE DEF Disown
<1>0. /\ Kinds /\ Holds(p) /\ Called(p) /\ OneReopens(p) /\ (cancels[p] <= 1 => OpenFiles(p))
      /\ life[p] = "disowning"
  BY Known
<1>1. jobs[p] = <<>> /\ DOMAIN jobs[p] = {}
  BY <1>0, MainIsDone DEF Starting
<1>2. Kinds'
  BY <1>0 DEF Kinds
<1>3. \A r \in Process \ {p} : Same(r)
  BY <1>0 DEF Same, Kinds
<1>4. life'[p] = "down" /\ owner' = "nobody" /\ UNCHANGED <<cancels, col, made, files, lock, waiting, jobs, call>>
  BY <1>0 DEF Kinds
<1>5. Holds(p)' /\ Called(p)' /\ OneReopens(p)'
  BY <1>0, <1>4 DEF Holds, Called, OneReopens, Live, Starting
<1>6. Awaited(p)' /\ Staged(p)'
  BY <1>1, <1>4 DEF Awaited, Staged, Starting
<1>7. cancels'[p] <= 1 => OpenFiles(p)'
  BY <1>0, <1>1, <1>4 DEF OpenFiles, Starting
<1>8. Sound(p)'
  BY <1>5, <1>6, <1>7 DEF Sound
<1>9. owner' = owner \/ owner \in {p, "nobody"}
  BY <1>0 DEF Holds, Live, Starting
<1> QED BY <1>2, <1>3, <1>8, <1>9, OthersKeep

\* The queue once nobody awaits the job of a task, which runs on or is
\* withdrawn: its jobs are jobs of the queue before, each of them once.
Relieved(q, s, who) ==
  \E from \in [DOMAIN q -> DOMAIN s] :
    /\ \A i \in DOMAIN q :
         /\ q[i].kind = s[from[i]].kind /\ q[i].obj = s[from[i]].obj
         /\ q[i].by = IF s[from[i]].by = who THEN "nobody" ELSE s[from[i]].by
    /\ \A i, j \in DOMAIN q : from[i] = from[j] => i = j

LEMMA DroppedFacts ==
  ASSUME NEW s \in Seq(JobSet), NEW who \in Task \cup {"main"},
         NEW q \in {Orphaned(s, who), Withdrawn(s, who)},
         \A i, j \in DOMAIN s : s[i].by = who /\ s[j].by = who => i = j
  PROVE  q \in Seq(JobSet) /\ Relieved(q, s, who)
<1>1. CASE q = Orphaned(s, who)
  <2>1. /\ q \in Seq(JobSet) /\ DOMAIN q = DOMAIN s
        /\ \A i \in DOMAIN s : /\ q[i].kind = s[i].kind /\ q[i].obj = s[i].obj
                               /\ q[i].by = IF s[i].by = who THEN "nobody" ELSE s[i].by
    BY <1>1, OrphanedFacts, QueueFacts
  <2> DEFINE from == [i \in DOMAIN q |-> i]
  <2>2. from \in [DOMAIN q -> DOMAIN s] /\ \A i \in DOMAIN q : from[i] = i
    BY <2>1
  <2> HIDE DEF from
  <2> QED BY <2>1, <2>2 DEF Relieved
<1>2. CASE q = Withdrawn(s, who)
  <2> DEFINE places == {i \in DOMAIN s : s[i].by = who}
  <2>1. q = Without(s, places)
    BY <1>2 DEF Withdrawn
  <2>2. places \in SUBSET DOMAIN s /\ \A i, j \in places : i = j
    OBVIOUS
  <2>3. \A i \in DOMAIN s \ places : s[i].by # who
    OBVIOUS
  <2> HIDE DEF places
  <2>4. q \in Seq(JobSet) /\ PartOf(q, s, places)
    BY <2>1, <2>2, WithoutFacts
  <2>5. PICK from \in [DOMAIN q -> DOMAIN s \ places] :
             /\ \A i \in DOMAIN q : q[i] = s[from[i]]
             /\ \A i, j \in DOMAIN q : from[i] = from[j] => i = j
    BY <2>4 DEF PartOf
  <2>6. from \in [DOMAIN q -> DOMAIN s]
    OBVIOUS
  <2>7. \A i \in DOMAIN q : q[i] = s[from[i]] /\ s[from[i]].by # who
    BY <2>3, <2>5
  <2>8. \A i, j \in DOMAIN q : from[i] = from[j] => i = j
    BY <2>5
  <2> QED BY <2>4, <2>6, <2>7, <2>8 DEF Relieved
<1> QED BY <1>1, <1>2

LEMMA CancelBackOutKeeps == ASSUME ServiceInv, NEW p \in Process, CancelBackOut(p) PROVE ServiceInv'
<1>0. /\ Kinds /\ Holds(p) /\ Called(p) /\ Staged(p) /\ OneReopens(p)
      /\ jobs[p] \in Seq(JobSet) /\ cancels[p] \in Nat
  BY Known
<1>1. /\ life[p] \in {"backing", "disowning"} /\ cancels' = [cancels EXCEPT ![p] = cancels[p] + 1]
      /\ owner' = "nobody" /\ life' = [life EXCEPT ![p] = "down"]
      /\ UNCHANGED <<col, made, files, generation, lock, waiting, call>>
  BY DEF CancelBackOut
<1>2. PICK q \in {Orphaned(jobs[p], "main"), Withdrawn(jobs[p], "main")} : jobs' = [jobs EXCEPT ![p] = q]
  BY DEF CancelBackOut
<1>3. /\ Len(jobs[p]) <= 1 /\ cancels[p] >= 1
      /\ \A i \in DOMAIN jobs[p] : jobs[p][i].by = "main" /\ jobs[p][i].kind \notin Op
  BY <1>0, <1>1 DEF Staged, FromMain, Starting, Op
<1>4. \A i, j \in DOMAIN jobs[p] : i = j
  BY <1>0, <1>3, QueueFacts
<1>5. /\ q \in Seq(JobSet)
      /\ \A i \in DOMAIN q : q[i].by = "nobody" /\ q[i].kind \notin Op
  BY <1>0, <1>2, <1>3, <1>4, DroppedFacts DEF Relieved
<1>6. life'[p] = "down" /\ jobs'[p] = q /\ cancels'[p] >= 2 /\ ~(cancels'[p] <= 1)
  BY <1>0, <1>1, <1>2, <1>3, SMTT(30) DEF Kinds
<1>7. Kinds'
  <2>1. jobs' \in [Process -> Seq(JobSet)] /\ cancels' \in [Process -> Nat]
    BY <1>0, <1>1, <1>2, <1>5, SMTT(30) DEF Kinds
  <2>2. life' \in [Process -> Live \cup {"down", "closed"}]
    BY <1>0, <1>1 DEF Kinds
  <2> QED BY <1>0, <1>1, <2>1, <2>2 DEF Kinds
<1>8. \A r \in Process \ {p} : Same(r)
  BY <1>0, <1>1, <1>2 DEF Same, Kinds
<1>9. Holds(p)' /\ Called(p)' /\ OneReopens(p)'
  BY <1>0, <1>1, <1>6 DEF Holds, Called, OneReopens, Live, Starting
<1>10. Awaited(p)' /\ Staged(p)'
  BY <1>5, <1>6, NamesAssumption DEF Awaited, Staged, Starting
<1>11. Sound(p)'
  BY <1>6, <1>9, <1>10 DEF Sound
<1>12. owner \in {p, "nobody"}
  BY <1>0, <1>1 DEF Holds, Live, Starting
<1> QED BY <1>7, <1>8, <1>11, <1>12, OthersKeep

LEMMA CloseKeeps == ASSUME ServiceInv, NEW p \in Process, Close(p) PROVE ServiceInv'
<1> DEFINE job == Job("main", "close", col[p])
<1>0. /\ Kinds /\ Holds(p) /\ Called(p) /\ Awaited(p) /\ Staged(p) /\ OneReopens(p)
      /\ (cancels[p] <= 1 => OpenFiles(p)) /\ jobs[p] \in Seq(JobSet) /\ col[p] \in Nat
  BY Known
<1>1. /\ life[p] = "up" /\ \A t \in Task : call[p][t] = Idle
      /\ lock' = [lock EXCEPT ![p] = "main"] /\ jobs' = [jobs EXCEPT ![p] = Append(jobs[p], job)]
      /\ life' = [life EXCEPT ![p] = "closing"]
      /\ UNCHANGED <<owner, cancels, col, made, files, generation, waiting, call>>
  BY DEF Close, Submit
<1>2. job \in JobSet /\ job.by = "main"
  BY <1>0 DEF Job, JobSet
<1> HIDE DEF job
<1>a. jobs'[p] = Append(jobs[p], job) /\ life'[p] = "closing" /\ lock'[p] = "main"
  BY <1>0, <1>1 DEF Kinds
<1>3. /\ jobs'[p] \in Seq(JobSet) /\ Len(jobs'[p]) = Len(jobs[p]) + 1
      /\ \A i \in DOMAIN jobs[p] : jobs'[p][i] = jobs[p][i]
      /\ jobs'[p][Len(jobs'[p])] = job /\ jobs'[p] # <<>>
      /\ \A i \in DOMAIN jobs'[p] : i \in DOMAIN jobs[p] \/ i = Len(jobs'[p])
  BY <1>0, <1>2, <1>a, AppendFacts
<1>4. Kinds'
  BY <1>0, <1>1, <1>3, <1>a DEF Kinds, Live
<1>5. \A r \in Process \ {p} : Same(r)
  BY <1>0, <1>1 DEF Same, Kinds
<1>6. \A i \in DOMAIN jobs[p] : Abandoned(jobs[p][i])
  BY <1>0, <1>1 DEF Staged, Awaited, JobOf, Idle
<1>7. Holds(p)' /\ Called(p)' /\ OneReopens(p)'
  BY <1>0, <1>1, <1>3, <1>a DEF Holds, Called, OneReopens, Reopens, Live, Idle
<1>8. Staged(p)'
  <2>1. \A i \in DOMAIN jobs'[p] : IF i = Len(jobs'[p]) THEN jobs'[p][i] = Job("main", "close", col'[p])
                                   ELSE Abandoned(jobs'[p][i])
    BY <1>1, <1>3, <1>6 DEF job
  <2> QED BY <1>a, <2>1 DEF Staged, Starting, Abandoned
<1>9. Awaited(p)'
  BY <1>2, <1>3, <1>6, NamesAssumption DEF Awaited, Abandoned
<1>b. [op |-> "reopen", stage |-> "done"] # Idle
  BY DEF Idle
<1>10. cancels'[p] <= 1 => OpenFiles(p)'
  BY <1>0, <1>1, <1>3, <1>a, <1>b DEF OpenFiles, Starting
<1>11. Sound(p)'
  BY <1>7, <1>8, <1>9, <1>10 DEF Sound
<1> QED BY <1>1, <1>4, <1>5, <1>11, OthersKeep

LEMMA CloseDoneKeeps == ASSUME ServiceInv, NEW p \in Process, CloseDone(p) PROVE ServiceInv'
<1>0. /\ Kinds /\ Holds(p) /\ Called(p) /\ OneReopens(p) /\ made[p] \in Nat
      /\ (cancels[p] <= 1 => OpenFiles(p))
  BY Known
<1>1. /\ life[p] = "closing" /\ col' = [col EXCEPT ![p] = 0] /\ owner' = "nobody"
      /\ lock' = [lock EXCEPT ![p] = "nobody"] /\ life' = [life EXCEPT ![p] = "closed"]
      /\ UNCHANGED <<cancels, made, files, generation, waiting, jobs, call>>
  BY DEF CloseDone
<1>2. jobs[p] = <<>> /\ DOMAIN jobs[p] = {}
  BY <1>1, MainIsDone DEF CloseDone
<1>3. life'[p] = "closed" /\ col'[p] = 0 /\ lock'[p] = "nobody"
  BY <1>0, <1>1 DEF Kinds
<1>4. Kinds'
  <2>1. col' \in [Process -> Nat] /\ life' \in [Process -> Live \cup {"down", "closed"}]
    BY <1>0, <1>1 DEF Kinds
  <2> QED BY <1>0, <1>1, <2>1 DEF Kinds
<1>5. \A r \in Process \ {p} : Same(r)
  BY <1>0, <1>1 DEF Same, Kinds
<1>6. \A t \in Task : call[p][t] = Idle
  BY <1>0, <1>1 DEF Called
<1>7. Holds(p)' /\ Called(p)' /\ OneReopens(p)'
  BY <1>0, <1>1, <1>3, <1>6 DEF Holds, Called, OneReopens, Reopens, Live, Starting, Idle
<1>8. Awaited(p)' /\ Staged(p)'
  BY <1>1, <1>2, <1>3 DEF Awaited, Staged, Starting
<1>9. cancels'[p] <= 1 => OpenFiles(p)'
  BY <1>0, <1>1, <1>2, <1>3 DEF OpenFiles, Starting
<1>10. Sound(p)'
  BY <1>7, <1>8, <1>9 DEF Sound
<1>11. owner \in {p, "nobody"}
  BY <1>0, <1>1 DEF Holds, Live, Starting
<1> QED BY <1>4, <1>5, <1>10, <1>11, OthersKeep

LEMMA ExitKeeps == ASSUME ServiceInv, NEW p \in Process, Exit(p) PROVE ServiceInv'
<1> USE DEF Exit
<1>0. Kinds
  BY Known
<1>1. Kinds'
  <2>1. /\ cancels' \in [Process -> Nat] /\ generation' \in [Process -> Nat]
        /\ col' \in [Process -> Nat] /\ made' \in [Process -> Nat]
    BY <1>0 DEF Kinds
  <2>2. /\ owner' \in Process \cup {"nobody"} /\ life' \in [Process -> Live \cup {"down", "closed"}]
        /\ files' \in [Process -> SUBSET Nat] /\ lock' \in [Process -> Task \cup {"main", "nobody"}]
    BY <1>0 DEF Kinds
  <2>3. waiting' \in [Process -> Seq(Task)] /\ jobs' \in [Process -> Seq(JobSet)]
    BY <1>0 DEF Kinds
  <2>4. call' \in [Process -> [Task -> Calls]]
    BY <1>0 DEF Kinds, Calls
  <2> QED BY <2>1, <2>2, <2>3, <2>4 DEF Kinds
<1>2. \A r \in Process \ {p} : Same(r)
  BY <1>0 DEF Same, Kinds
<1>3. /\ life'[p] = "down" /\ jobs'[p] = <<>> /\ files'[p] = {} /\ waiting'[p] = <<>>
      /\ col'[p] = 0 /\ made'[p] = 0 /\ (\A t \in Task : call'[p][t] = Idle)
  BY <1>0 DEF Kinds
<1>4. Holds(p)' /\ Called(p)' /\ Awaited(p)'
  BY <1>3 DEF Holds, Called, Awaited, Live, Starting, Idle
<1>5. Staged(p)' /\ OpenFiles(p)' /\ OneReopens(p)'
  BY <1>3 DEF Staged, OpenFiles, OneReopens, Starting, Reopens, Idle
<1>6. Sound(p)'
  BY <1>4, <1>5 DEF Sound
<1> QED BY <1>1, <1>2, <1>6, OthersKeep

-----------------------------------------------------------------------------
(* The calls. *)

\* One call of one process goes on.
LEMMA CallFacts ==
  ASSUME Kinds, NEW p \in Process, NEW t \in Task, NEW c \in Calls, call' = [call EXCEPT ![p][t] = c]
  PROVE  /\ call' \in [Process -> [Task -> Calls]] /\ call'[p][t] = c
         /\ \A u \in Task \ {t} : call'[p][u] = call[p][u]
         /\ \A r \in Process \ {p} : call'[r] = call[r]
BY DEF Kinds

\* The lock is given up by its holder alone.
LEMMA LeftFacts ==
  ASSUME Kinds, NEW p \in Process, NEW t \in Task, lock' = Left(p, t)
  PROVE  /\ lock' \in [Process -> Task \cup {"main", "nobody"}]
         /\ lock[p] # t => lock'[p] = lock[p]
         /\ \A r \in Process \ {p} : lock'[r] = lock[r]
BY DEF Kinds, Left

\* A call that has the lock is the only one that has.
LEMMA OneHolds ==
  ASSUME NEW p, Called(p), NEW t \in Task, NEW u \in Task,
         call[p][t].stage \in {"await", "done"}, call[p][u].stage \in {"await", "done"}
  PROVE  t = u /\ lock[p] = t
BY DEF Called

LEMMA BeginKeeps ==
  ASSUME ServiceInv, NEW p \in Process, NEW t \in Task, NEW op \in Ops, Begin(p, t, op)
  PROVE  ServiceInv'
<1> DEFINE c == [op |-> op, stage |-> "wait"]
<1>0. /\ Kinds /\ Holds(p) /\ Called(p) /\ Awaited(p) /\ Staged(p) /\ OneReopens(p)
      /\ (cancels[p] <= 1 => OpenFiles(p)) /\ waiting[p] \in Seq(Task)
  BY Known
<1>1. /\ life[p] = "up" /\ call[p][t] = Idle /\ call' = [call EXCEPT ![p][t] = c]
      /\ waiting' = [waiting EXCEPT ![p] = Append(waiting[p], t)]
      /\ UNCHANGED <<owner, life, cancels, col, made, files, generation, lock, jobs>>
  BY DEF Begin, SetCall
<1>2. c \in Calls /\ c.op = op /\ c.stage = "wait" /\ op \in Op
  BY OpsAssumption DEF Calls, OpName
<1>3. op # "reopen" /\ Idle.stage = "idle" /\ Idle.op = "none"
  BY <1>2 DEF Idle, Op
<1> HIDE DEF c
<1>4. /\ call' \in [Process -> [Task -> Calls]] /\ call'[p][t] = c
      /\ \A u \in Task \ {t} : call'[p][u] = call[p][u]
      /\ \A r \in Process \ {p} : call'[r] = call[r]
  BY <1>0, <1>1, <1>2, CallFacts
<1>5. /\ waiting'[p] \in Seq(Task) /\ waiting'[p][Len(waiting'[p])] = t
      /\ \A i \in DOMAIN waiting[p] : waiting'[p][i] = waiting[p][i]
      /\ \A i \in DOMAIN waiting'[p] : i \in DOMAIN waiting[p] \/ i = Len(waiting'[p])
  <2>1. waiting'[p] = Append(waiting[p], t)
    BY <1>0, <1>1 DEF Kinds
  <2> QED BY <1>0, <2>1, AppendFacts
<1>6. Kinds'
  BY <1>0, <1>1, <1>4, <1>5 DEF Kinds
<1>7. \A r \in Process \ {p} : Same(r)
  BY <1>0, <1>1, <1>4 DEF Same, Kinds
<1>8. \A i \in DOMAIN waiting[p] : waiting[p][i] # t /\ waiting[p][i] \in Task
  BY <1>0, <1>1, <1>3, QueueFacts DEF Called
<1>9. Called(p)'
  <2>1. \A i \in DOMAIN waiting'[p] : call'[p][waiting'[p][i]].stage = "wait"
    BY <1>0, <1>2, <1>4, <1>5, <1>8 DEF Called
  <2>2. \A i, j \in DOMAIN waiting'[p] : waiting'[p][i] = waiting'[p][j] => i = j
    BY <1>0, <1>5, <1>8 DEF Called
  <2>3. \A u \in Task : /\ call'[p][u].stage \in {"await", "done"} => lock'[p] = u
                        /\ call'[p][u].op = "reopen" => call'[p][u].stage # "failed"
    BY <1>0, <1>1, <1>2, <1>4 DEF Called
  <2> QED BY <1>1, <2>1, <2>2, <2>3 DEF Called
<1>10. Awaited(p)'
  <2>1. ASSUME NEW i \in DOMAIN jobs[p], jobs[p][i].by \in Task PROVE JobOf(p, jobs[p][i].by, jobs[p][i])'
    <3>1. JobOf(p, jobs[p][i].by, jobs[p][i]) /\ jobs[p][i].by # t
      BY <1>0, <1>1, <1>3, <2>1 DEF Awaited, JobOf
    <3> QED BY <1>1, <1>4, <2>1, <3>1 DEF JobOf
  <2> QED BY <1>0, <1>1, <2>1 DEF Awaited
<1>11. Staged(p)' /\ Holds(p)'
  BY <1>0, <1>1 DEF Staged, FromMain, Holds
<1>12. \A u \in Task : Reopens(call'[p][u]) => Reopens(call[p][u])
  BY <1>2, <1>3, <1>4 DEF Reopens
<1>13. OneReopens(p)'
  BY <1>0, <1>1, <1>12 DEF OneReopens
<1>14. cancels'[p] <= 1 => OpenFiles(p)'
  <2>1. [op |-> "reopen", stage |-> "done"] # Idle
    BY DEF Idle
  <2>2. \A u \in Task : call[p][u] = [op |-> "reopen", stage |-> "done"] => call'[p][u] = call[p][u]
    BY <1>1, <1>4, <2>1
  <2> QED BY <1>0, <1>1, <2>2 DEF OpenFiles, Starting
<1>15. Sound(p)'
  BY <1>9, <1>10, <1>11, <1>13, <1>14 DEF Sound
<1> QED BY <1>1, <1>6, <1>7, <1>15, OthersKeep

LEMMA CancelKeeps ==
  ASSUME ServiceInv, NEW p \in Process, NEW t \in Task, Cancel(p, t)
  PROVE  ServiceInv'
<1>0. /\ Kinds /\ Holds(p) /\ Called(p) /\ Awaited(p) /\ Staged(p) /\ OneReopens(p)
      /\ (cancels[p] <= 1 => OpenFiles(p)) /\ waiting[p] \in Seq(Task) /\ jobs[p] \in Seq(JobSet)
  BY Known
<1> DEFINE places == {i \in DOMAIN waiting[p] : waiting[p][i] = t}
           w == Without(waiting[p], places)
<1>1. /\ call[p][t].op \in {"fn", "backup", "import"} /\ call' = [call EXCEPT ![p][t] = Idle]
      /\ lock' = Left(p, t)
      /\ UNCHANGED <<owner, life, cancels, col, made, files, generation>>
  BY DEF Cancel
<1>2. waiting' = [waiting EXCEPT ![p] = w]
  BY DEF Cancel, WaitingWithout
<1>3. PICK q \in {Orphaned(jobs[p], t), Withdrawn(jobs[p], t)} : jobs' = [jobs EXCEPT ![p] = q]
  BY DEF Cancel
<1>4. /\ call' \in [Process -> [Task -> Calls]] /\ call'[p][t] = Idle
      /\ \A u \in Task \ {t} : call'[p][u] = call[p][u]
      /\ \A r \in Process \ {p} : call'[r] = call[r]
  BY <1>0, <1>1, CallFacts DEF Calls
<1>5. /\ lock' \in [Process -> Task \cup {"main", "nobody"}]
      /\ lock[p] # t => lock'[p] = lock[p]
      /\ \A r \in Process \ {p} : lock'[r] = lock[r]
  BY <1>0, <1>1, LeftFacts
<1>6. Idle.stage = "idle" /\ Idle.op = "none" /\ life[p] = "up"
  BY <1>0, <1>1 DEF Idle, Called
<1>7. w \in Seq(Task) /\ PartOf(w, waiting[p], places)
  <2>1. places \in SUBSET DOMAIN waiting[p] /\ \A i, j \in places : i = j
    BY <1>0 DEF Called
  <2> HIDE DEF places
  <2> QED BY <1>0, <2>1, WithoutFacts
<1>8. PICK left \in [DOMAIN w -> DOMAIN waiting[p] \ places] :
              /\ \A i \in DOMAIN w : w[i] = waiting[p][left[i]]
              /\ \A i, j \in DOMAIN w : left[i] = left[j] => i = j
  BY <1>7 DEF PartOf
<1>9. /\ \A i \in DOMAIN w : /\ left[i] \in DOMAIN waiting[p] /\ w[i] = waiting[p][left[i]]
                             /\ waiting[p][left[i]] # t /\ waiting[p][left[i]] \in Task
      /\ \A i, j \in DOMAIN w : left[i] = left[j] => i = j
  BY <1>0, <1>8, QueueFacts
<1> HIDE DEF w, places
<1>10. waiting'[p] = w /\ jobs'[p] = q
  BY <1>0, <1>2, <1>3 DEF Kinds
<1>11. q \in Seq(JobSet) /\ Relieved(q, jobs[p], t)
  <2>1. \A i, j \in DOMAIN jobs[p] : jobs[p][i].by = t /\ jobs[p][j].by = t => i = j
    BY <1>0 DEF Awaited
  <2> QED BY <1>0, <1>3, <2>1, DroppedFacts
<1>12. PICK from \in [DOMAIN q -> DOMAIN jobs[p]] :
              /\ \A i \in DOMAIN q :
                   /\ q[i].kind = jobs[p][from[i]].kind /\ q[i].obj = jobs[p][from[i]].obj
                   /\ q[i].by = IF jobs[p][from[i]].by = t THEN "nobody" ELSE jobs[p][from[i]].by
              /\ \A i, j \in DOMAIN q : from[i] = from[j] => i = j
  BY <1>11 DEF Relieved
<1>13. Kinds'
  <2>1. jobs' \in [Process -> Seq(JobSet)] /\ waiting' \in [Process -> Seq(Task)]
    BY <1>0, <1>2, <1>3, <1>7, <1>11 DEF Kinds
  <2> QED BY <1>0, <1>1, <1>4, <1>5, <2>1 DEF Kinds
<1>14. \A r \in Process \ {p} : Same(r)
  BY <1>0, <1>1, <1>2, <1>3, <1>4, <1>5 DEF Same, Kinds
<1>15. Called(p)'
  <2>1. \A i \in DOMAIN waiting'[p] : call'[p][waiting'[p][i]].stage = "wait"
    BY <1>0, <1>4, <1>9, <1>10 DEF Called
  <2>2. \A i, j \in DOMAIN waiting'[p] : waiting'[p][i] = waiting'[p][j] => i = j
    BY <1>0, <1>9, <1>10 DEF Called
  <2>3. \A u \in Task : /\ call'[p][u].stage \in {"await", "done"} => lock'[p] = u
                        /\ call'[p][u].op = "reopen" => call'[p][u].stage # "failed"
    BY <1>0, <1>4, <1>5, <1>6 DEF Called
  <2> QED BY <1>1, <1>6, <2>1, <2>2, <2>3 DEF Called
<1>16. ASSUME NEW i \in DOMAIN q
       PROVE  /\ q[i].by \in Task => q[i].by = jobs[p][from[i]].by /\ q[i].by # t /\ JobOf(p, q[i].by, q[i])'
              /\ q[i].by \in Task \/ Abandoned(q[i])
  <2> DEFINE job == jobs[p][from[i]]
  <2>1. from[i] \in DOMAIN jobs[p] /\ q[i].kind = job.kind /\ q[i].obj = job.obj
        /\ q[i].by = IF job.by = t THEN "nobody" ELSE job.by
    BY <1>12, <1>16
  <2>2. job \in JobSet /\ (job.by \in Task => JobOf(p, job.by, job)) /\ (job.by \in Task \/ Abandoned(job))
    BY <1>0, <1>6, <2>1, QueueFacts DEF Awaited, Staged
  <2> HIDE DEF job
  <2>3. ASSUME q[i].by \in Task PROVE q[i].by = job.by /\ q[i].by # t /\ JobOf(p, q[i].by, q[i])'
    <3>1. q[i].by = job.by /\ job.by # t
      BY <2>1, <2>3, NamesAssumption
    <3>2. JobOf(p, job.by, job) /\ call'[p][job.by] = call[p][job.by] /\ col'[p] = col[p]
      BY <1>1, <1>4, <2>2, <2>3, <3>1
    <3> QED BY <2>1, <3>1, <3>2 DEF JobOf
  <2>4. ASSUME q[i].by \notin Task PROVE Abandoned(q[i])
    <3>1. CASE job.by = t
      BY <1>1, <2>1, <2>2, <3>1 DEF JobOf, Abandoned, JobSet
    <3>2. CASE job.by # t
      BY <2>1, <2>2, <2>4, <3>2 DEF Abandoned
    <3> QED BY <3>1, <3>2
  <2> QED BY <2>3, <2>4 DEF job
<1>17. Awaited(p)'
  <2>1. ASSUME NEW i \in DOMAIN q, NEW k \in DOMAIN q, q[i].by \in Task, q[k].by = q[i].by PROVE k = i
    <3>1. jobs[p][from[i]].by = jobs[p][from[k]].by /\ jobs[p][from[i]].by \in Task
      BY <1>16, <2>1
    <3>2. from[i] = from[k]
      BY <1>0, <1>12, <3>1 DEF Awaited
    <3> QED BY <1>12, <3>2
  <2> QED BY <1>10, <1>16, <2>1 DEF Awaited, JobOf
<1>18. Staged(p)' /\ Holds(p)'
  BY <1>0, <1>1, <1>6, <1>10, <1>16 DEF Staged, Abandoned, Holds, Starting
<1>19. OneReopens(p)'
  <2>1. \A u \in Task : Reopens(call'[p][u]) => Reopens(call[p][u])
    BY <1>4, <1>6 DEF Reopens
  <2> QED BY <1>0, <1>1, <2>1 DEF OneReopens
<1>20. cancels'[p] <= 1 => OpenFiles(p)'
  <2>1. \A u \in Task : call[p][u] = [op |-> "reopen", stage |-> "done"] => call'[p][u] = call[p][u]
    BY <1>1, <1>4
  <2> QED BY <1>0, <1>1, <1>6, <2>1 DEF OpenFiles, Starting
<1>21. Sound(p)'
  BY <1>15, <1>17, <1>18, <1>19, <1>20 DEF Sound
<1> QED BY <1>1, <1>13, <1>14, <1>21, OthersKeep

\* The first that waits for the lock leaves the queue.
LEMMA GrantWaits ==
  ASSUME ServiceInv, NEW p \in Process, NEW t, Grant(p), t = Head(waiting[p])
  PROVE  /\ t \in Task /\ call[p][t].stage = "wait" /\ life[p] = "up" /\ lock[p] = "nobody"
         /\ waiting' \in [Process -> Seq(Task)] /\ \A r \in Process \ {p} : waiting'[r] = waiting[r]
         /\ \A i \in DOMAIN waiting'[p] : waiting'[p][i] # t /\ call[p][waiting'[p][i]].stage = "wait"
                                          /\ waiting'[p][i] \in Task
         /\ \A i, j \in DOMAIN waiting'[p] : waiting'[p][i] = waiting'[p][j] => i = j
<1>0. Kinds /\ Called(p) /\ waiting[p] \in Seq(Task)
  BY Known
<1>1. /\ waiting' = [waiting EXCEPT ![p] = Tail(waiting[p])] /\ waiting[p] # <<>> /\ lock[p] = "nobody"
  BY DEF Grant
<1>2. waiting'[p] = Tail(waiting[p])
  BY <1>0, <1>1 DEF Kinds
<1>a. waiting[p] \in Seq(Task) /\ waiting[p] # <<>>
  BY <1>0, <1>1
<1>b. /\ Head(waiting[p]) = waiting[p][1] /\ Head(waiting[p]) \in Task /\ 1 \in DOMAIN waiting[p]
      /\ waiting'[p] \in Seq(Task)
      /\ \A i \in DOMAIN waiting'[p] : /\ i + 1 \in DOMAIN waiting[p] /\ waiting'[p][i] = waiting[p][i + 1]
                                       /\ i \in Nat /\ i + 1 # 1
  BY <1>a, <1>2, TailFacts
<1>3. /\ t = waiting[p][1] /\ t \in Task /\ 1 \in DOMAIN waiting[p] /\ waiting'[p] \in Seq(Task)
      /\ \A i \in DOMAIN waiting'[p] : /\ i + 1 \in DOMAIN waiting[p] /\ waiting'[p][i] = waiting[p][i + 1]
                                       /\ i \in Nat /\ i + 1 # 1
  BY <1>b
<1>4. call[p][t].stage = "wait"
  BY <1>0, <1>3 DEF Called
<1>5. life[p] = "up"
  BY <1>0, <1>3, <1>4 DEF Called, Idle
<1>6. waiting' \in [Process -> Seq(Task)] /\ \A r \in Process \ {p} : waiting'[r] = waiting[r]
  BY <1>0, <1>1, <1>2, <1>3 DEF Kinds
<1>7. \A i \in DOMAIN waiting'[p] : waiting'[p][i] # t /\ call[p][waiting'[p][i]].stage = "wait"
  BY <1>0, <1>3 DEF Called
<1>8. \A i, j \in DOMAIN waiting'[p] : waiting'[p][i] = waiting'[p][j] => i = j
  <2>1. ASSUME NEW i \in DOMAIN waiting'[p], NEW j \in DOMAIN waiting'[p], waiting'[p][i] = waiting'[p][j]
        PROVE  i + 1 = j + 1 /\ i \in Nat /\ j \in Nat
    BY <1>0, <1>3, <2>1 DEF Called
  <2> QED BY <2>1
<1>9. \A i \in DOMAIN waiting'[p] : waiting'[p][i] \in Task
  BY <1>3, QueueFacts
<1> QED BY <1>1, <1>3, <1>4, <1>5, <1>6, <1>7, <1>8, <1>9

LEMMA GrantKeeps == ASSUME ServiceInv, NEW p \in Process, Grant(p) PROVE ServiceInv'
<1> DEFINE t == Head(waiting[p])
           op == call[p][t].op
           job == IF op = "reopen" THEN Job(t, "open", 0)
                  ELSE Job(t, IF op = "report" THEN "fn" ELSE op, col[p])
<1>0. /\ Kinds /\ Holds(p) /\ Called(p) /\ Awaited(p) /\ Staged(p) /\ OneReopens(p) /\ col[p] \in Nat
      /\ (cancels[p] <= 1 => OpenFiles(p)) /\ jobs[p] \in Seq(JobSet)
      /\ \A u \in Task : call[p][u] \in Calls
  BY Known
<1>1. UNCHANGED <<owner, life, cancels, col, made, files, generation>>
  BY DEF Grant
<1>2. \/ op # "reopen" /\ call' = [call EXCEPT ![p][t] = [op |-> op, stage |-> "failed"]] /\ UNCHANGED <<lock, jobs>>
      \/ /\ lock' = [lock EXCEPT ![p] = t] /\ jobs' = [jobs EXCEPT ![p] = Append(jobs[p], job)]
         /\ call' = [call EXCEPT ![p][t] = [op |-> op, stage |-> "await"]]
  BY DEF Grant, SetCall, Submit, Taken
<1>3. /\ t \in Task /\ call[p][t].stage = "wait" /\ life[p] = "up" /\ lock[p] = "nobody"
      /\ waiting' \in [Process -> Seq(Task)] /\ \A r \in Process \ {p} : waiting'[r] = waiting[r]
      /\ \A i \in DOMAIN waiting'[p] : waiting'[p][i] # t /\ call[p][waiting'[p][i]].stage = "wait"
                                       /\ waiting'[p][i] \in Task
      /\ \A i, j \in DOMAIN waiting'[p] : waiting'[p][i] = waiting'[p][j] => i = j
  BY GrantWaits
<1>4. op \in OpName /\ call[p][t] = [op |-> op, stage |-> "wait"]
  BY <1>0, <1>3 DEF Calls, Idle
<1>5. job \in JobSet /\ job.by = t /\ (job.kind = "open" <=> op = "reopen") /\ job.kind # "close"
      /\ (op = "export" => job.kind = "export") /\ (job.kind \in Op => job.obj = col[p])
  BY <1>0, <1>3, <1>4 DEF Job, JobSet, OpName, Op
<1> HIDE DEF t, op, job
<1>6. \A u \in Task : call[p][u].stage \notin {"await", "done"}
  BY <1>0, <1>3, NamesAssumption DEF Called
<1>7. \A i \in DOMAIN jobs[p] : Abandoned(jobs[p][i]) /\ jobs[p][i].by \notin Task
  BY <1>0, <1>3, <1>6, NamesAssumption DEF Awaited, JobOf, Staged, Abandoned
<1>8. PICK stage \in {"failed", "await"} : call' = [call EXCEPT ![p][t] = [op |-> op, stage |-> stage]]
      /\ (stage = "failed" => op # "reopen" /\ UNCHANGED <<lock, jobs>>)
      /\ (stage = "await" => /\ lock' = [lock EXCEPT ![p] = t]
                             /\ jobs' = [jobs EXCEPT ![p] = Append(jobs[p], job)])
  BY <1>2
<1> DEFINE c == [op |-> op, stage |-> stage]
<1>9. c \in Calls /\ c.op = op /\ c.stage = stage
  BY <1>4 DEF Calls
<1> HIDE DEF c
<1>10. /\ call' \in [Process -> [Task -> Calls]] /\ call'[p][t] = c
       /\ \A u \in Task \ {t} : call'[p][u] = call[p][u]
       /\ \A r \in Process \ {p} : call'[r] = call[r]
  BY <1>0, <1>3, <1>8, <1>9, CallFacts DEF c
<1>11. Called(p)'
  <2>1. \A i \in DOMAIN waiting'[p] : call'[p][waiting'[p][i]].stage = "wait"
    BY <1>3, <1>10
  <2>2. ASSUME NEW u \in Task
        PROVE  /\ call'[p][u].stage \in {"await", "done"} => lock'[p] = u
               /\ call'[p][u].op = "reopen" => call'[p][u].stage # "failed"
    <3>1. CASE u # t
      BY <1>0, <1>6, <1>10, <3>1 DEF Called
    <3>2. CASE u = t
      BY <1>0, <1>3, <1>8, <1>9, <1>10, <3>2 DEF Kinds
    <3> QED BY <3>1, <3>2
  <2> QED BY <1>1, <1>3, <2>1, <2>2 DEF Called
<1>12. \A u \in Task : Reopens(call'[p][u]) => Reopens(call[p][u])
  BY <1>4, <1>8, <1>9, <1>10 DEF Reopens
<1>13. OneReopens(p)' /\ Holds(p)'
  BY <1>0, <1>1, <1>12 DEF OneReopens, Holds
<1>14. cancels'[p] <= 1 => OpenFiles(p)'
  <2>1. \A u \in Task : call[p][u] # [op |-> "reopen", stage |-> "done"]
    BY <1>6
  <2> QED BY <1>0, <1>1, <1>3, <2>1 DEF OpenFiles, Starting
<1>15. \A r \in Process \ {p} : Same(r)
  BY <1>0, <1>1, <1>3, <1>8, <1>10 DEF Same, Kinds
<1>16. CASE stage = "failed"
  <2>1. jobs'[p] = jobs[p] /\ lock' = lock /\ jobs' = jobs
    BY <1>8, <1>16
  <2>2. Kinds'
    BY <1>0, <1>1, <1>3, <1>10, <2>1 DEF Kinds
  <2>3. Awaited(p)' /\ Staged(p)'
    BY <1>1, <1>3, <1>7, <2>1 DEF Awaited, Staged, Starting, Abandoned
  <2>4. Sound(p)'
    BY <1>11, <1>13, <1>14, <2>3 DEF Sound
  <2> QED BY <1>1, <1>15, <2>2, <2>4, OthersKeep
<1>17. CASE stage = "await"
  <2>a. jobs' = [jobs EXCEPT ![p] = Append(jobs[p], job)] /\ lock' = [lock EXCEPT ![p] = t]
    BY <1>8, <1>17
  <2>b. lock' \in [Process -> Task \cup {"main", "nobody"}]
    BY <1>0, <1>3, <2>a DEF Kinds
  <2>c. jobs'[p] = Append(jobs[p], job)
    BY <1>0, <2>a DEF Kinds
  <2>1. jobs'[p] = Append(jobs[p], job) /\ lock' \in [Process -> Task \cup {"main", "nobody"}]
    BY <2>b, <2>c
  <2>2. /\ jobs'[p] \in Seq(JobSet)
        /\ \A i \in DOMAIN jobs[p] : jobs'[p][i] = jobs[p][i]
        /\ jobs'[p][Len(jobs'[p])] = job
        /\ \A i \in DOMAIN jobs'[p] : i \in DOMAIN jobs[p] \/ i = Len(jobs'[p])
    BY <1>0, <1>5, <2>1, AppendFacts
  <2>3. Kinds'
    <3>1. jobs' \in [Process -> Seq(JobSet)]
      BY <1>0, <1>8, <1>17, <2>1, <2>2 DEF Kinds
    <3> QED BY <1>0, <1>1, <1>3, <1>10, <2>1, <3>1 DEF Kinds
  <2>4. \A i \in DOMAIN jobs'[p] : IF i = Len(jobs'[p]) THEN jobs'[p][i] = job
                                   ELSE Abandoned(jobs'[p][i]) /\ jobs'[p][i].by \notin Task
    BY <1>7, <2>2
  <2>5. /\ call'[p][t].stage = "await" /\ call'[p][t].op = op
        /\ job.kind \in Op => job.obj = col'[p]
    BY <1>1, <1>5, <1>9, <1>10, <1>17
  <2>6. Awaited(p)'
    BY <1>5, <2>4, <2>5 DEF Awaited, JobOf
  <2>7. Staged(p)'
    BY <1>1, <1>3, <1>5, <2>4 DEF Staged, Starting, Abandoned
  <2>8. Sound(p)'
    BY <1>11, <1>13, <1>14, <2>6, <2>7 DEF Sound
  <2> QED BY <1>1, <1>15, <2>3, <2>8, OthersKeep
<1> QED BY <1>8, <1>16, <1>17

LEMMA ResumeKeeps ==
  ASSUME ServiceInv, NEW p \in Process, NEW t \in Task, Resume(p, t)
  PROVE  ServiceInv'
<1> DEFINE op == call[p][t].op
           next == NextOp(op, call[p][t].stage = "done")
           c == IF next = "none" THEN Idle ELSE [op |-> next, stage |-> "wait"]
<1>0. /\ Kinds /\ Holds(p) /\ Called(p) /\ Awaited(p) /\ Staged(p) /\ OneReopens(p)
      /\ (cancels[p] <= 1 => OpenFiles(p)) /\ jobs[p] \in Seq(JobSet) /\ waiting[p] \in Seq(Task)
      /\ made[p] \in Nat /\ call[p][t] \in Calls
  BY Known
<1>1. /\ call[p][t].stage \in {"done", "failed"} /\ lock' = Left(p, t)
      /\ call' = [call EXCEPT ![p][t] = c]
      /\ UNCHANGED <<owner, life, cancels, made, files, jobs>>
  BY DEF Resume, SetCall
<1>2. /\ next = "none" => waiting' = waiting
      /\ next # "none" => waiting' = [waiting EXCEPT ![p] = Append(waiting[p], t)]
      /\ op = "reopen" => /\ col' = [col EXCEPT ![p] = made[p]]
                          /\ generation' = [generation EXCEPT ![p] = generation[p] + 1]
      /\ op # "reopen" => UNCHANGED <<col, generation>>
  BY DEF Resume
<1>3. op \in OpName /\ (op = "reopen" => call[p][t].stage = "done") /\ life[p] = "up"
  BY <1>0, <1>1 DEF Calls, Idle, Called
<1>4. /\ next \in {"none", "reopen", "report"}
      /\ next = "reopen" => Reopens(call[p][t]) /\ op = "export"
      /\ op = "reopen" => next = "none" /\ Reopens(call[p][t])
  BY <1>3 DEF NextOp, Reopens
<1>5. /\ c \in Calls /\ c.stage \in {"idle", "wait"} /\ (next # "none" => c.stage = "wait")
      /\ (Reopens(c) => next = "reopen")
  BY <1>4 DEF Calls, Idle, OpName, Reopens
<1> HIDE DEF next, c, op
<1>6. /\ call' \in [Process -> [Task -> Calls]] /\ call'[p][t] = c
      /\ \A u \in Task \ {t} : call'[p][u] = call[p][u]
      /\ \A r \in Process \ {p} : call'[r] = call[r]
  BY <1>0, <1>1, <1>5, CallFacts
<1>7. /\ lock' \in [Process -> Task \cup {"main", "nobody"}]
      /\ lock[p] # t => lock'[p] = lock[p]
      /\ \A r \in Process \ {p} : lock'[r] = lock[r]
  BY <1>0, <1>1, LeftFacts
<1>8. \A i \in DOMAIN waiting[p] : waiting[p][i] # t /\ waiting[p][i] \in Task
  BY <1>0, <1>1, QueueFacts DEF Called
<1>9. /\ waiting' \in [Process -> Seq(Task)] /\ \A r \in Process \ {p} : waiting'[r] = waiting[r]
      /\ \A i \in DOMAIN waiting'[p] : call'[p][waiting'[p][i]].stage = "wait"
      /\ \A i, j \in DOMAIN waiting'[p] : waiting'[p][i] = waiting'[p][j] => i = j
  <2>1. CASE next = "none"
    BY <1>0, <1>2, <1>6, <1>8, <2>1 DEF Kinds, Called
  <2>2. CASE next # "none"
    <3>1. waiting'[p] = Append(waiting[p], t) /\ waiting' = [waiting EXCEPT ![p] = Append(waiting[p], t)]
      BY <1>0, <1>2, <2>2 DEF Kinds
    <3>2. /\ waiting'[p] \in Seq(Task) /\ waiting'[p][Len(waiting'[p])] = t
          /\ \A i \in DOMAIN waiting[p] : waiting'[p][i] = waiting[p][i]
          /\ \A i \in DOMAIN waiting'[p] : i \in DOMAIN waiting[p] \/ i = Len(waiting'[p])
      BY <1>0, <3>1, AppendFacts
    <3>3. waiting' \in [Process -> Seq(Task)] /\ \A r \in Process \ {p} : waiting'[r] = waiting[r]
      BY <1>0, <3>1, <3>2 DEF Kinds
    <3>4. \A i \in DOMAIN waiting'[p] : call'[p][waiting'[p][i]].stage = "wait"
      BY <1>0, <1>5, <1>6, <1>8, <2>2, <3>2 DEF Called
    <3>5. \A i, j \in DOMAIN waiting'[p] : waiting'[p][i] = waiting'[p][j] => i = j
      BY <1>0, <1>8, <3>2 DEF Called
    <3> QED BY <3>3, <3>4, <3>5
  <2> QED BY <2>1, <2>2
<1>10. Kinds'
  <2>1. col' \in [Process -> Nat]
    BY <1>0, <1>2 DEF Kinds
  <2>2. generation' \in [Process -> Nat]
    <3>1. generation \in [Process -> Nat] /\ generation[p] + 1 \in Nat
      BY <1>0 DEF Kinds
    <3> QED BY <1>2, <3>1
  <2> QED BY <1>0, <1>1, <1>6, <1>7, <1>9, <2>1, <2>2 DEF Kinds
<1>11. \A r \in Process \ {p} : Same(r)
  <2>1. \A r \in Process \ {p} : col'[r] = col[r]
    BY <1>0, <1>2 DEF Kinds
  <2> QED BY <1>1, <1>6, <1>7, <1>9, <2>1 DEF Same
<1>12. Called(p)'
  <2>1. ASSUME NEW u \in Task
        PROVE  /\ call'[p][u].stage \in {"await", "done"} => lock'[p] = u
               /\ call'[p][u].op = "reopen" => call'[p][u].stage # "failed"
    <3>1. CASE u # t
      BY <1>0, <1>6, <1>7, <3>1 DEF Called
    <3>2. CASE u = t
      BY <1>5, <1>6, <3>2
    <3> QED BY <3>1, <3>2
  <2> QED BY <1>1, <1>3, <1>9, <2>1 DEF Called
<1>13. col'[p] = IF op = "reopen" THEN made[p] ELSE col[p]
  BY <1>0, <1>2 DEF Kinds
<1>14. \A i \in DOMAIN jobs[p] : jobs[p][i].by \in Task => jobs[p][i].by # t /\ op # "reopen"
  <2>1. ASSUME NEW i \in DOMAIN jobs[p], jobs[p][i].by \in Task
        PROVE  call[p][jobs[p][i].by].stage = "await"
    BY <1>0, <2>1 DEF Awaited, JobOf
  <2> QED BY <1>0, <1>1, <1>3, <2>1, OneHolds
<1>15. Awaited(p)'
  <2>1. ASSUME NEW i \in DOMAIN jobs[p], jobs[p][i].by \in Task PROVE JobOf(p, jobs[p][i].by, jobs[p][i])'
    <3>1. JobOf(p, jobs[p][i].by, jobs[p][i]) /\ call'[p][jobs[p][i].by] = call[p][jobs[p][i].by] /\ col'[p] = col[p]
      BY <1>0, <1>6, <1>13, <1>14, <2>1 DEF Awaited
    <3> QED BY <1>1, <3>1 DEF JobOf
  <2> QED BY <1>0, <1>1, <2>1 DEF Awaited
<1>16. Staged(p)' /\ Holds(p)'
  BY <1>0, <1>1, <1>3 DEF Staged, Holds, Starting
<1>17. OneReopens(p)'
  <2>1. \A u \in Task : Reopens(call'[p][u]) => Reopens(call[p][u])
    BY <1>4, <1>5, <1>6
  <2>2. CASE op = "reopen"
    <3>1. \A u \in Task : ~Reopens(call'[p][u])
      BY <1>0, <1>4, <1>5, <1>6, <2>1, <2>2 DEF OneReopens
    <3>2. col'[p] <= made'[p]
      BY <1>0, <1>1, <1>13, <2>2
    <3> QED BY <3>1, <3>2 DEF OneReopens
  <2>3. CASE op # "reopen"
    BY <1>0, <1>1, <1>13, <2>1, <2>3 DEF OneReopens
  <2> QED BY <2>2, <2>3
<1>18. cancels'[p] <= 1 => OpenFiles(p)'
  <2> SUFFICES ASSUME cancels'[p] <= 1
               PROVE  \A o \in files[p] : o = col'[p] \/
                        (o = made[p] /\ \E u \in Task : call'[p][u] = [op |-> "reopen", stage |-> "done"])
    BY <1>1, <1>3 DEF OpenFiles, Starting
  <2> TAKE o \in files[p]
  <2>1. o = col[p] \/ (o = made[p] /\ \E u \in Task : call[p][u] = [op |-> "reopen", stage |-> "done"])
    BY <1>0, <1>1, <1>3 DEF OpenFiles
  <2>2. CASE op = "reopen"
    <3>1. col[p] \notin files[p]
      BY <1>0, <1>4, <2>2 DEF OneReopens
    <3> QED BY <1>13, <2>1, <2>2, <3>1
  <2>3. CASE op # "reopen"
    BY <1>6, <1>13, <2>1, <2>3 DEF op
  <2> QED BY <2>2, <2>3
<1>19. Sound(p)'
  BY <1>12, <1>15, <1>16, <1>17, <1>18 DEF Sound
<1> QED BY <1>1, <1>10, <1>11, <1>19, OthersKeep

-----------------------------------------------------------------------------
(* The worker. *)

\* What a job does to the service when it ends.
Effect(p, job, stage) ==
  /\ stage \in {"done", "failed"} /\ job \in JobSet
  /\ stage = "done" => job.kind \in {"open", "close"} \/ job.obj \in files[p]
  /\ job.kind = "open" /\ job.by \in Task => stage = "done"
  /\ made' = IF job.kind = "open" /\ stage = "done" THEN [made EXCEPT ![p] = made[p] + 1] ELSE made
  /\ files' = IF job.kind = "open" /\ stage = "done" THEN [files EXCEPT ![p] = files[p] \cup {made[p] + 1}]
              ELSE IF job.kind \in {"close", "export"} THEN [files EXCEPT ![p] = files[p] \ {job.obj}]
              ELSE files
  /\ generation' \in [Process -> Nat] /\ \A r \in Process \ {p} : generation'[r] = generation[r]
  /\ job.by \in Task => call' = [call EXCEPT ![p][job.by] = [op |-> call[p][job.by].op, stage |-> stage]]
  /\ job.by \notin Task => call' = call

LEMMA RunJobHas ==
  ASSUME ServiceInv, NEW p \in Process, RunJob(p)
  PROVE  \E stage : Effect(p, Head(jobs[p]), stage)
<1> DEFINE job == Head(jobs[p])
<1>0. Kinds /\ Awaited(p) /\ jobs[p] \in Seq(JobSet) /\ jobs[p] # <<>>
  BY Known DEF RunJob
<1>1. job \in JobSet /\ job = jobs[p][1] /\ 1 \in DOMAIN jobs[p]
  BY <1>0, QueueFacts
<1>2. PICK ok, replaces \in BOOLEAN :
        /\ ok => job.kind \in {"open", "close"} \/ job.obj \in files[p]
        /\ job.kind = "open" /\ job.by \in Task => ok
        /\ made' = IF job.kind = "open" /\ ok THEN [made EXCEPT ![p] = made[p] + 1] ELSE made
        /\ files' = CASE job.kind = "open" /\ ok -> [files EXCEPT ![p] = @ \cup {made[p] + 1}]
                      [] job.kind \in {"close", "export"} -> [files EXCEPT ![p] = @ \ {job.obj}]
                      [] OTHER -> files
        /\ generation' = IF replaces THEN [generation EXCEPT ![p] = @ + 1] ELSE generation
        /\ call' = IF job.by \in Task
                   THEN [call EXCEPT ![p][job.by].stage = IF ok THEN "done" ELSE "failed"] ELSE call
  BY DEF RunJob
<1>3. job.by \in Task => call[p][job.by] \in [op : OpName, stage : {"wait", "await", "done", "failed"}]
  BY <1>0, <1>1 DEF Awaited, JobOf, Kinds, Calls, Idle
<1> HIDE DEF job
<1>4. generation' \in [Process -> Nat] /\ \A r \in Process \ {p} : generation'[r] = generation[r]
  <2>1. generation \in [Process -> Nat] /\ generation[p] + 1 \in Nat
    BY <1>0 DEF Kinds
  <2> QED BY <1>2, <2>1
<1>5. PICK stage \in {"done", "failed"} : stage = IF ok THEN "done" ELSE "failed"
  OBVIOUS
<1>6. ok <=> stage = "done"
  BY <1>5
<1>7. made' = IF job.kind = "open" /\ stage = "done" THEN [made EXCEPT ![p] = made[p] + 1] ELSE made
  BY <1>2, <1>6
<1>8. files' = IF job.kind = "open" /\ stage = "done" THEN [files EXCEPT ![p] = files[p] \cup {made[p] + 1}]
              ELSE IF job.kind \in {"close", "export"} THEN [files EXCEPT ![p] = files[p] \ {job.obj}]
              ELSE files
  <2>1. CASE job.kind = "open" /\ ok
    BY <1>2, <1>6, <2>1
  <2>2. CASE job.kind \in {"close", "export"}
    BY <1>2, <1>6, <2>2
  <2>3. CASE ~(job.kind = "open" /\ ok) /\ job.kind \notin {"close", "export"}
    BY <1>2, <1>6, <2>3
  <2> QED BY <2>1, <2>2, <2>3
<1>9. job.by \in Task => call' = [call EXCEPT ![p][job.by] = [op |-> call[p][job.by].op, stage |-> stage]]
  <2> SUFFICES ASSUME job.by \in Task PROVE call' = [call EXCEPT ![p][job.by] = [op |-> call[p][job.by].op, stage |-> stage]]
    OBVIOUS
  <2>1. call' = [call EXCEPT ![p][job.by].stage = stage]
    BY <1>2, <1>5
  <2>2. [call[p][job.by] EXCEPT !.stage = stage] = [op |-> call[p][job.by].op, stage |-> stage]
    BY <1>3
  <2> QED BY <2>1, <2>2
<1>10. Effect(p, job, stage)
  BY <1>1, <1>2, <1>4, <1>6, <1>7, <1>8, <1>9 DEF Effect
<1> QED BY <1>10 DEF job

LEMMA RunJobKeeps == ASSUME ServiceInv, NEW p \in Process, RunJob(p) PROVE ServiceInv'
<1>0. /\ Kinds /\ Holds(p) /\ Called(p) /\ Awaited(p) /\ Staged(p) /\ OneReopens(p)
      /\ (cancels[p] <= 1 => OpenFiles(p)) /\ jobs[p] \in Seq(JobSet) /\ jobs[p] # <<>>
  BY Known DEF RunJob
<1>a. made[p] \in Nat /\ col[p] \in Nat /\ col[p] <= made[p] /\ files[p] \in SUBSET Nat
  BY Known DEF OneReopens
<1>b. UNCHANGED <<owner, life, cancels, col, lock, waiting>>
  BY DEF RunJob
<1>c. jobs[p] \in Seq(JobSet) /\ jobs[p] # <<>>
  BY <1>0
<1>1. PICK job, stage : job = Head(jobs[p]) /\ Effect(p, job, stage)
  BY RunJobHas
<1>2. jobs' = [jobs EXCEPT ![p] = Tail(jobs[p])] /\ jobs'[p] = Tail(jobs[p])
  BY <1>0 DEF RunJob, Kinds
<1>e. jobs'[p] = Tail(jobs[p])
  BY <1>2
<1>3. /\ jobs'[p] \in Seq(JobSet) /\ Len(jobs'[p]) = Len(jobs[p]) - 1
      /\ job = jobs[p][1] /\ job \in JobSet /\ 1 \in DOMAIN jobs[p]
      /\ \A i \in DOMAIN jobs'[p] : /\ i + 1 \in DOMAIN jobs[p] /\ jobs'[p][i] = jobs[p][i + 1]
                                    /\ i \in Nat /\ i + 1 # 1
                                    /\ (i = Len(jobs'[p]) <=> i + 1 = Len(jobs[p]))
  <2>1. jobs'[p] \in Seq(JobSet) /\ Len(jobs'[p]) = Len(jobs[p]) - 1
    BY <1>c, <1>e, TailFacts
  <2>2. Head(jobs[p]) = jobs[p][1] /\ Head(jobs[p]) \in JobSet /\ 1 \in DOMAIN jobs[p]
    BY <1>c, TailFacts
  <2>3. \A i \in DOMAIN jobs'[p] : /\ i + 1 \in DOMAIN jobs[p] /\ jobs'[p][i] = jobs[p][i + 1]
                                   /\ i \in Nat /\ i + 1 # 1
    BY <1>c, <1>e, TailFacts
  <2>4. \A i \in DOMAIN jobs'[p] : i = Len(jobs'[p]) <=> i + 1 = Len(jobs[p])
    BY <1>c, <1>e, TailFacts
  <2> QED BY <1>1, <2>1, <2>2, <2>3, <2>4
<1>d. /\ Len(jobs[p]) <= 1 => jobs'[p] = <<>> /\ DOMAIN jobs'[p] = {} /\ Len(jobs'[p]) = 0
      /\ Len(jobs[p]) # 1 => jobs'[p] # <<>>
  BY <1>c, <1>e, TailIsEmpty
<1>f. made \in [Process -> Nat] /\ files \in [Process -> SUBSET Nat]
  BY <1>0 DEF Kinds
<1>4. made' \in [Process -> Nat] /\ files' \in [Process -> SUBSET Nat]
  <2>1. made' = IF job.kind = "open" /\ stage = "done" THEN [made EXCEPT ![p] = @ + 1] ELSE made
    BY <1>1 DEF Effect
  <2>2. made' \in [Process -> Nat]
    <3>1. made[p] + 1 \in Nat
      BY <1>a
    <3> QED BY <1>f, <2>1, <3>1
  <2>3. files' = [files EXCEPT ![p] = files'[p]] /\ files'[p] \in SUBSET Nat
    <3>1. made[p] + 1 \in Nat
      BY <1>a
    <3>2. CASE job.kind = "open" /\ stage = "done"
      BY <1>1, <1>a, <1>f, <3>1, <3>2 DEF Effect
    <3>3. CASE ~(job.kind = "open" /\ stage = "done") /\ job.kind \in {"close", "export"}
      BY <1>1, <1>a, <1>f, <3>3 DEF Effect
    <3>4. CASE ~(job.kind = "open" /\ stage = "done") /\ job.kind \notin {"close", "export"}
      BY <1>1, <1>a, <1>f, <3>4 DEF Effect
    <3> QED BY <3>2, <3>3, <3>4
  <2> QED BY <1>f, <2>2, <2>3
<1>5. call' \in [Process -> [Task -> Calls]] /\ \A r \in Process \ {p} : call'[r] = call[r]
  <2>1. CASE job.by \in Task
    <3>1. JobOf(p, job.by, job) /\ call[p][job.by] \in Calls
      BY <1>0, <1>3, <2>1, Known DEF Awaited
    <3>2. [op |-> call[p][job.by].op, stage |-> stage] \in Calls
      BY <1>1, <3>1 DEF JobOf, Calls, Idle, Effect
    <3> QED BY <1>0, <1>1, <2>1, <3>2, CallFacts DEF Effect
  <2>2. CASE job.by \notin Task
    BY <1>0, <1>1, <2>2 DEF Effect, Kinds
  <2> QED BY <2>1, <2>2
<1>6. Kinds'
  <2>1. jobs' \in [Process -> Seq(JobSet)]
    BY <1>0, <1>2, <1>3 DEF Kinds
  <2>2. generation' \in [Process -> Nat]
    BY <1>1 DEF Effect
  <2> QED BY <1>0, <1>b, <1>4, <1>5, <2>1, <2>2 DEF Kinds
<1>7. \A r \in Process \ {p} : Same(r)
  <2>1. \A r \in Process \ {p} : made'[r] = made[r] /\ files'[r] = files[r]
    BY <1>0, <1>1 DEF Effect, Kinds
  <2> QED BY <1>0, <1>b, <1>2, <1>5, <2>1 DEF Same, Kinds
<1>8. PICK new : new = made[p] + 1 /\ new \in Nat /\ new # col[p] /\ col[p] <= new
  BY <1>a
<1>9. /\ made'[p] = IF job.kind = "open" /\ stage = "done" THEN new ELSE made[p]
      /\ files'[p] = IF job.kind = "open" /\ stage = "done" THEN files[p] \cup {new}
                     ELSE IF job.kind \in {"close", "export"} THEN files[p] \ {job.obj} ELSE files[p]
  BY <1>0, <1>1, <1>8 DEF Effect, Kinds
<1>10. col'[p] <= made'[p] /\ (col[p] \notin files[p] => col'[p] \notin files'[p])
  BY <1>8, <1>9, <1>a, <1>b
<1>11. Holds(p)'
  BY <1>0, <1>b DEF Holds
<1>12. CASE job.by \notin Task
  <2>1. call' = call
    BY <1>1, <1>12 DEF Effect
  <2>2. Called(p)'
    BY <1>0, <1>b, <2>1 DEF Called
  <2>3. Awaited(p)'
    <3>1. ASSUME NEW i \in DOMAIN jobs'[p], jobs'[p][i].by \in Task
          PROVE  JobOf(p, jobs[p][i].by, jobs[p][i])'
      <4>1. JobOf(p, jobs[p][i + 1].by, jobs[p][i + 1]) /\ jobs'[p][i] = jobs[p][i + 1]
        BY <1>0, <1>3, <3>1 DEF Awaited
      <4> QED BY <1>b, <2>1, <4>1 DEF JobOf
    <3>2. ASSUME NEW i \in DOMAIN jobs'[p], NEW k \in DOMAIN jobs'[p],
                 jobs'[p][i].by \in Task, jobs'[p][k].by = jobs'[p][i].by
          PROVE  k = i
      <4>1. k + 1 = i + 1 /\ i \in Nat /\ k \in Nat
        BY <1>0, <1>3, <3>2 DEF Awaited
      <4> QED BY <4>1
    <3> QED BY <3>1, <3>2 DEF Awaited
  <2>4. OneReopens(p)'
    BY <1>0, <1>10, <2>1 DEF OneReopens
  <2>5. life[p] \in Starting => jobs'[p] = <<>> /\ DOMAIN jobs'[p] = {} /\ Len(jobs'[p]) = 0
    <3> SUFFICES ASSUME life[p] \in Starting PROVE jobs'[p] = <<>> /\ DOMAIN jobs'[p] = {} /\ Len(jobs'[p]) = 0
      OBVIOUS
    <3>1. Len(jobs[p]) <= 1
      BY <1>0 DEF Staged
    <3> QED BY <1>d, <3>1
  <2>6. Staged(p)'
    <3>1. CASE life[p] \in Starting
      <4>1. Len(jobs'[p]) <= 1
        BY <2>5, <3>1
      <4> QED BY <1>0, <1>b, <2>5, <3>1, <4>1 DEF Staged, Starting
    <3>2. CASE life[p] = "up"
      BY <1>0, <1>b, <1>3, <3>2 DEF Staged, Abandoned, Starting
    <3>3. CASE life[p] = "closing"
      BY <1>0, <1>b, <1>3, <3>3 DEF Staged, Abandoned, Starting
    <3>4. CASE life[p] \in {"closed", "down"}
      BY <1>0, <1>b, <1>3, <3>4 DEF Staged, Starting
    <3> QED BY <1>0, <3>1, <3>2, <3>3, <3>4 DEF Kinds, Live
  <2>7. cancels'[p] <= 1 => OpenFiles(p)'
    <3> SUFFICES ASSUME cancels[p] <= 1 PROVE OpenFiles(p)'
      BY <1>b
    <3>0. OpenFiles(p) /\ life'[p] = life[p] /\ col'[p] = col[p]
      BY <1>0, <1>b
    <3>1. CASE life[p] \in {"opening", "backing"}
      <4>1. job.kind = "open" /\ files[p] = {}
        BY <1>0, <1>3, <3>0, <3>1 DEF Staged, FromMain, OpenFiles, Starting
      <4>2. files'[p] \subseteq {made'[p]} /\ jobs'[p] = <<>>
        BY <1>9, <2>5, <3>1, <4>1 DEF Starting
      <4> QED BY <3>0, <3>1, <4>2 DEF OpenFiles, Starting
    <3>2. CASE life[p] = "disowning"
      <4>1. job.kind = "close" /\ job.obj = made[p] /\ files[p] \subseteq {made[p]}
        BY <1>0, <1>3, <3>0, <3>2 DEF Staged, FromMain, OpenFiles, Starting
      <4>2. files'[p] = {}
        BY <1>9, <4>1
      <4> QED BY <3>0, <3>2, <4>2 DEF OpenFiles, Starting
    <3>3. CASE life[p] = "closing"
      <4>1. files[p] \subseteq {col[p]}
        BY <3>0, <3>3 DEF OpenFiles
      <4>2. CASE Len(jobs[p]) = 1
        <5>1. job = Job("main", "close", col[p])
          BY <1>0, <1>3, <3>3, <4>2 DEF Staged
        <5>2. job.kind = "close" /\ job.obj = col[p]
          BY <5>1 DEF Job
        <5>3. files'[p] = {}
          BY <1>9, <4>1, <5>2
        <5> QED BY <3>0, <3>3, <5>3 DEF OpenFiles, Starting
      <4>3. CASE Len(jobs[p]) # 1
        <5>1. Abandoned(job)
          BY <1>0, <1>3, <3>3, <4>3 DEF Staged
        <5>2. files'[p] \subseteq {col[p]}
          BY <1>9, <4>1, <5>1 DEF Abandoned, Op
        <5>3. jobs'[p] # <<>>
          BY <1>d, <4>3
        <5> QED BY <3>0, <3>3, <5>2, <5>3 DEF OpenFiles, Starting
      <4> QED BY <4>2, <4>3
    <3>4. CASE life[p] = "up"
      <4>1. Abandoned(job)
        BY <1>0, <1>3, <1>12, <3>4 DEF Staged
      <4>2. files'[p] \subseteq files[p] /\ made'[p] = made[p]
        BY <1>9, <4>1 DEF Abandoned, Op
      <4> QED BY <2>1, <3>0, <3>4, <4>2 DEF OpenFiles, Starting
    <3>5. life[p] \notin {"closed", "down"}
      <4>1. cancels[p] \in Nat /\ ~(cancels[p] >= 2)
        BY Known
      <4> QED BY <1>0, <1>3, <4>1 DEF Staged
    <3> QED BY <1>0, <3>1, <3>2, <3>3, <3>4, <3>5 DEF Kinds, Live, Starting
  <2>8. Sound(p)'
    BY <1>11, <2>2, <2>3, <2>4, <2>6, <2>7 DEF Sound
  <2> QED BY <1>b, <1>6, <1>7, <2>8, OthersKeep
<1>13. CASE job.by \in Task
  <2>1. PICK t \in Task : t = job.by
    BY <1>13
  <2>2. /\ JobOf(p, t, job) /\ lock[p] = t /\ life[p] = "up"
        /\ \A k \in DOMAIN jobs[p] : jobs[p][k].by = t => k = 1
    BY <1>0, <1>3, <2>1 DEF Awaited, JobOf, Called, Idle
  <2>a. call[p][t] \in Calls /\ call[p][t].stage = "await"
    BY <2>2, Known DEF JobOf
  <2>b. call[p][t] \in [op : OpName, stage : {"wait", "await", "done", "failed"}]
    BY <2>a DEF Calls, Idle
  <2>3. PICK op \in OpName : call[p][t] = [op |-> op, stage |-> "await"]
    BY <2>a, <2>b
  <2>4. /\ (job.kind = "open" <=> op = "reopen") /\ job.kind # "close"
        /\ (op = "export" => job.kind = "export") /\ (job.kind \in Op => job.obj = col[p])
    BY <2>2, <2>3 DEF JobOf
  <2>5. /\ call'[p][t] = [op |-> op, stage |-> stage]
        /\ \A u \in Task \ {t} : call'[p][u] = call[p][u]
        /\ stage \in {"done", "failed"} /\ (op = "reopen" => stage = "done")
        /\ stage = "done" => job.kind \in {"open", "close"} \/ job.obj \in files[p]
    BY <1>0, <1>1, <2>1, <2>3, <2>4 DEF Effect, Kinds
  <2>6. \A u \in Task \ {t} : call[p][u].stage \notin {"await", "done"}
    BY <1>0, <2>2 DEF Called
  <2>7. Called(p)'
    <3>1. \A i \in DOMAIN waiting[p] : waiting[p][i] # t /\ waiting[p][i] \in Task
      BY <1>0, <2>3, Known, QueueFacts DEF Called
    <3>2. \A i \in DOMAIN waiting'[p] : call'[p][waiting'[p][i]].stage = "wait"
      BY <1>0, <1>b, <2>5, <3>1 DEF Called
    <3>3. ASSUME NEW u \in Task
          PROVE  /\ call'[p][u].stage \in {"await", "done"} => lock'[p] = u
                 /\ call'[p][u].op = "reopen" => call'[p][u].stage # "failed"
      BY <1>0, <1>b, <2>2, <2>5 DEF Called
    <3> QED BY <1>0, <1>b, <2>2, <3>2, <3>3 DEF Called
  <2>8. \A i \in DOMAIN jobs'[p] : jobs'[p][i] = jobs[p][i + 1] /\ i + 1 \in DOMAIN jobs[p] /\ jobs'[p][i].by # t
    BY <1>3, <2>2
  <2>9. \A i \in DOMAIN jobs'[p] : jobs'[p][i].by \notin Task
    BY <1>0, <2>6, <2>8 DEF Awaited, JobOf
  <2>10. Awaited(p)' /\ Staged(p)'
    BY <1>0, <1>b, <2>2, <2>8, <2>9 DEF Awaited, Staged, Abandoned, Starting
  <2>11. ASSUME NEW u \in Task, Reopens(call'[p][u])
         PROVE  col'[p] \notin files'[p] /\ \A v \in Task : Reopens(call'[p][v]) => v = u
    <3>1. CASE op = "reopen"
      <4>1. \A v \in Task : Reopens(call'[p][v]) => Reopens(call[p][v])
        BY <2>3, <2>5, <3>1 DEF Reopens
      <4> QED BY <1>0, <1>10, <2>11, <4>1 DEF OneReopens
    <3>2. CASE op # "reopen"
      <4>1. \A v \in Task \ {t} : Reopens(call'[p][v]) => Reopens(call[p][v])
        BY <2>5 DEF Reopens
      <4>2. CASE Reopens(call'[p][t])
        <5>1. op = "export" /\ stage = "done" /\ job.kind = "export" /\ job.obj = col[p]
          BY <2>4, <2>5, <3>2, <4>2 DEF Reopens, Op
        <5>2. col[p] \in files[p] /\ files'[p] = files[p] \ {col[p]}
          BY <1>9, <2>5, <5>1
        <5>3. \A v \in Task \ {t} : ~Reopens(call'[p][v])
          BY <1>0, <4>1, <5>2 DEF OneReopens
        <5> QED BY <1>b, <2>11, <5>2, <5>3
      <4>3. CASE ~Reopens(call'[p][t])
        <5>1. \A v \in Task : Reopens(call'[p][v]) => Reopens(call[p][v])
          BY <4>1, <4>3
        <5> QED BY <1>0, <1>10, <2>11, <5>1 DEF OneReopens
      <4> QED BY <4>2, <4>3
    <3> QED BY <3>1, <3>2
  <2>12. OneReopens(p)'
    BY <1>10, <2>11 DEF OneReopens
  <2>13. cancels'[p] <= 1 => OpenFiles(p)'
    <3> SUFFICES ASSUME cancels[p] <= 1 PROVE OpenFiles(p)'
      BY <1>b
    <3>1. \A o \in files[p] : o = col[p]
      BY <1>0, <2>2, <2>3, <2>6 DEF OpenFiles
    <3>2. ASSUME NEW o \in files'[p], o # col[p]
          PROVE  o = made'[p] /\ call'[p][t] = [op |-> "reopen", stage |-> "done"]
      BY <1>9, <2>4, <2>5, <3>1, <3>2
    <3> QED BY <1>b, <2>2, <3>2 DEF OpenFiles, Starting
  <2>14. Sound(p)'
    BY <1>11, <2>7, <2>10, <2>12, <2>13 DEF Sound
  <2> QED BY <1>b, <1>6, <1>7, <2>14, OthersKeep
<1> QED BY <1>12, <1>13

-----------------------------------------------------------------------------
\* A step of a process.
Step(p) ==
  \/ Open(p) \/ CancelOpen(p) \/ CancelBackOut(p) \/ Close(p) \/ Exit(p)
  \/ \E t \in Task : Cancel(p, t) \/ \E op \in Ops : Begin(p, t, op)
  \/ Progress(p)

LEMMA InvNext == ServiceInv /\ [Next]_vars => ServiceInv'
<1> SUFFICES ASSUME ServiceInv, [Next]_vars PROVE ServiceInv'
  OBVIOUS
<1>1. CASE UNCHANGED vars
  <2>1. Kinds'
    BY <1>1 DEF ServiceInv, Kinds, vars, perProcess
  <2>2. ASSUME NEW r \in Process PROVE Sound(r)'
    <3>1. Same(r) /\ Sound(r) /\ owner' = owner
      BY <1>1 DEF ServiceInv, Same, vars, perProcess
    <3> QED BY <3>1, SameKeeps DEF Sound, Holds
  <2> QED BY <2>1, <2>2 DEF ServiceInv
<1>2. ASSUME NEW p \in Process, Step(p) PROVE ServiceInv'
  BY <1>2, OpenKeeps, CancelOpenKeeps, CancelBackOutKeeps, CloseKeeps, ExitKeeps, CancelKeeps, BeginKeeps,
     OpenDoneKeeps, BackOutKeeps, DisownKeeps, CloseDoneKeeps, GrantKeeps, RunJobKeeps, ResumeKeeps
  DEF Step, Progress
<1> QED BY <1>1, <1>2 DEF Next, Step

\* What is known of every process at every moment: each is sound, whatever the
\* others do, whichever calls and jobs are cancelled and whichever processes die.
THEOREM ServicesStaySound == Spec => []ServiceInv
<1> QED BY InvInit, InvNext, PTL DEF Spec

\* A process whose start was cancelled once at most owns the lock while it uses
\* the collection file: two such processes never use it at once.
THEOREM OwnersHold == Spec => []OwnerHoldsUnlessCancelledTwice
<1>1. ServiceInv => OwnerHoldsUnlessCancelledTwice
  <2> SUFFICES ASSUME ServiceInv, NEW p \in Process, cancels[p] <= 1, UsesFile(p) PROVE owner = p
    BY DEF OwnerHoldsUnlessCancelledTwice
  <2>1. Kinds /\ Holds(p) /\ Staged(p) /\ OpenFiles(p) /\ jobs[p] \in Seq(JobSet)
    BY Known
  <2>2. cancels[p] \in Nat /\ ~(cancels[p] >= 2)
    BY Known
  <2>3. CASE life[p] \in Live
    BY <2>1, <2>3 DEF Holds
  <2>4. CASE life[p] \in {"down", "closed"}
    <3>1. files[p] = {}
      BY <2>1, <2>4 DEF OpenFiles
    <3>2. DOMAIN jobs[p] = {}
      BY <2>1, <2>2, <2>4, QueueFacts DEF Staged
    <3> QED BY <3>1, <3>2 DEF UsesFile
  <2> QED BY <2>1, <2>3, <2>4 DEF Kinds
<1> QED BY <1>1, ServicesStaySound, PTL

\* While a call awaits its job the collection stays the one the job was given,
\* and the lock is the call's.
THEOREM CallsKeepTheirs == Spec => []CallsKeepTheirCollection
<1>1. ServiceInv => CallsKeepTheirCollection
  <2> SUFFICES ASSUME ServiceInv, NEW p \in Process, NEW i \in DOMAIN jobs[p],
                      jobs[p][i].by \in Task, jobs[p][i].kind \in Op
               PROVE  jobs[p][i].obj = col[p] /\ lock[p] = jobs[p][i].by
    BY DEF CallsKeepTheirCollection
  <2>1. Called(p) /\ Awaited(p)
    BY Known
  <2> QED BY <2>1 DEF Called, Awaited, JobOf
<1> QED BY <1>1, ServicesStaySound, PTL

-----------------------------------------------------------------------------
(* Servers without the export screen. *)

\* The collection stays open, and every job of a call is given it.
KeptOpen(p) ==
  /\ \A t \in Task : call[p][t].op \notin {"export", "reopen", "report"}
  /\ \A i \in DOMAIN jobs[p] : jobs[p][i].kind \in Op => jobs[p][i].kind # "export" /\ jobs[p][i].obj = col[p]
  /\ life[p] = "up" \/ (life[p] = "closing" /\ jobs[p] # <<>>) => col[p] \in files[p]

LEMMA Frames ==
  ASSUME ServiceInv, NEW p \in Process, Step(p), NEW r \in Process \ {p}
  PROVE  /\ life'[r] = life[r] /\ col'[r] = col[r] /\ files'[r] = files[r]
         /\ jobs'[r] = jobs[r] /\ call'[r] = call[r]
<1>0. Kinds
  BY DEF ServiceInv
<1>1. CASE Open(p) \/ CancelOpen(p) \/ CancelBackOut(p) \/ Close(p) \/ Exit(p)
  BY <1>0, <1>1 DEF Kinds, Open, CancelOpen, CancelBackOut, Close, Exit, Submit
<1>2. CASE \E t \in Task : Cancel(p, t) \/ \E op \in Ops : Begin(p, t, op)
  BY <1>0, <1>2 DEF Kinds, Cancel, Begin, SetCall
<1>3. CASE OpenDone(p) \/ BackOut(p) \/ Disown(p) \/ CloseDone(p)
  BY <1>0, <1>3 DEF Kinds, OpenDone, BackOut, Disown, CloseDone, Submit
<1>4. CASE Grant(p)
  BY <1>0, <1>4 DEF Kinds, Grant, SetCall, Submit
<1>5. CASE RunJob(p)
  <2>1. PICK stage : Effect(p, Head(jobs[p]), stage)
    BY <1>5, RunJobHas
  <2>2. life' = life /\ col' = col /\ jobs' = [jobs EXCEPT ![p] = Tail(@)]
    BY <1>5 DEF RunJob
  <2> QED BY <1>0, <2>1, <2>2 DEF Kinds, Effect
<1>6. CASE \E t \in Task : Resume(p, t)
  BY <1>0, <1>6 DEF Kinds, Resume, SetCall
<1> QED BY <1>1, <1>2, <1>3, <1>4, <1>5, <1>6 DEF Step, Progress

LEMMA OpenNext ==
  ASSUME ServiceInv, NEW p \in Process, KeptOpen(p), Step(p), "export" \notin Ops
  PROVE  KeptOpen(p)'
<1>0. Kinds /\ Called(p) /\ Awaited(p) /\ Staged(p) /\ jobs[p] \in Seq(JobSet) /\ col[p] \in Nat
  BY Known
<1>1. Kinds' /\ Called(p)' /\ Staged(p)'
  BY InvNext DEF Next, Step, ServiceInv, Sound
<1>2. CASE life'[p] \notin {"up", "closing"}
  <2>1. \A t \in Task : call'[p][t] = Idle
    BY <1>1, <1>2 DEF Called
  <2>2. \A i \in DOMAIN jobs'[p] : jobs'[p][i].kind \notin Op
    BY <1>1, <1>2 DEF Staged, FromMain, Kinds, Live, Starting, Op
  <2> QED BY <1>2, <2>1, <2>2 DEF KeptOpen, Idle
<1> SUFFICES ASSUME life'[p] \in {"up", "closing"} PROVE KeptOpen(p)'
  BY <1>2
<1>3. CASE Open(p) \/ CancelOpen(p) \/ CancelBackOut(p) \/ Disown(p) \/ BackOut(p) \/ CloseDone(p) \/ Exit(p)
  BY <1>0, <1>3 DEF Open, CancelOpen, CancelBackOut, Disown, BackOut, CloseDone, Exit, Kinds
<1>4. CASE OpenDone(p)
  <2>1. jobs[p] = <<>> /\ DOMAIN jobs[p] = {} /\ jobs' = jobs /\ call' = call /\ files' = files
    BY <1>4, MainIsDone DEF OpenDone, Starting
  <2>2. made[p] \in files[p] /\ col'[p] = made[p]
    BY <1>0, <1>4 DEF OpenDone, Kinds
  <2> QED BY <2>1, <2>2 DEF KeptOpen
<1>5. CASE Close(p)
  <2> DEFINE job == Job("main", "close", col[p])
  <2>1. /\ jobs'[p] = Append(jobs[p], job) /\ life[p] = "up" /\ UNCHANGED <<call, col, files>>
    BY <1>0, <1>5 DEF Close, Submit, Kinds
  <2>2. job \in JobSet /\ job.kind \notin Op
    BY <1>0 DEF Job, JobSet, Op
  <2> HIDE DEF job
  <2>3. \A i \in DOMAIN jobs'[p] : jobs'[p][i] = job \/ (i \in DOMAIN jobs[p] /\ jobs'[p][i] = jobs[p][i])
    BY <1>0, <2>1, <2>2, AppendFacts
  <2> QED BY <2>1, <2>2, <2>3 DEF KeptOpen
<1>6. ASSUME NEW t \in Task, Cancel(p, t) PROVE KeptOpen(p)'
  <2>1. call' = [call EXCEPT ![p][t] = Idle] /\ UNCHANGED <<life, col, files>>
    BY <1>6 DEF Cancel
  <2>2. PICK q \in {Orphaned(jobs[p], t), Withdrawn(jobs[p], t)} : jobs' = [jobs EXCEPT ![p] = q]
    BY <1>6 DEF Cancel
  <2>3. \A i, j \in DOMAIN jobs[p] : jobs[p][i].by = t /\ jobs[p][j].by = t => i = j
    BY <1>0 DEF Awaited
  <2>4. Relieved(q, jobs[p], t) /\ jobs'[p] = q
    BY <1>0, <2>2, <2>3, DroppedFacts DEF Kinds
  <2>5. \A i \in DOMAIN jobs'[p] : \E k \in DOMAIN jobs[p] :
          jobs'[p][i].kind = jobs[p][k].kind /\ jobs'[p][i].obj = jobs[p][k].obj
    BY <2>4 DEF Relieved
  <2>6. life[p] = "up"
    BY <1>0, <1>6 DEF Cancel, Called, Idle
  <2>7. \A u \in Task : call'[p][u].op \notin {"export", "reopen", "report"}
    BY <1>0, <2>1 DEF KeptOpen, Idle, Kinds
  <2> QED BY <2>1, <2>5, <2>6, <2>7 DEF KeptOpen
<1>7. ASSUME NEW t \in Task, NEW op \in Ops, Begin(p, t, op) PROVE KeptOpen(p)'
  <2>1. call' = [call EXCEPT ![p][t] = [op |-> op, stage |-> "wait"]] /\ UNCHANGED <<life, col, files, jobs>>
    BY <1>7 DEF Begin, SetCall
  <2>2. op \notin {"export", "reopen", "report"}
    BY OpsAssumption DEF Op
  <2>3. \A u \in Task : call'[p][u].op \notin {"export", "reopen", "report"}
    BY <1>0, <2>1, <2>2 DEF KeptOpen, Kinds
  <2> QED BY <2>1, <2>3 DEF KeptOpen
<1>8. CASE Grant(p)
  <2>1. PICK t : t = Head(waiting[p])
    OBVIOUS
  <2>2. t \in Task /\ life[p] = "up"
    BY <1>8, <2>1, GrantWaits
  <2>3. PICK op : op = call[p][t].op /\ op \notin {"export", "reopen", "report"}
    BY <2>2 DEF KeptOpen
  <2>4. PICK stage : call' = [call EXCEPT ![p][t] = [op |-> op, stage |-> stage]]
    BY <1>8, <2>1, <2>3 DEF Grant, SetCall
  <2>5. jobs' = jobs \/ jobs' = [jobs EXCEPT ![p] = Append(jobs[p], Job(t, op, col[p]))]
    BY <1>8, <2>1, <2>3 DEF Grant, Submit
  <2>6. UNCHANGED <<life, col, files>>
    BY <1>8 DEF Grant
  <2>7. \A u \in Task : call'[p][u].op \notin {"export", "reopen", "report"}
    BY <1>0, <2>3, <2>4 DEF KeptOpen, Kinds
  <2>8. \A i \in DOMAIN jobs'[p] : jobs'[p][i].kind \in Op => jobs'[p][i].kind # "export" /\ jobs'[p][i].obj = col[p]
    <3>1. CASE jobs' = jobs
      BY <3>1 DEF KeptOpen
    <3>2. CASE jobs' = [jobs EXCEPT ![p] = Append(jobs[p], Job(t, op, col[p]))]
      <4> DEFINE job == Job(t, op, col[p])
                 J == {job} \cup {jobs[p][k] : k \in DOMAIN jobs[p]}
      <4>1. jobs'[p] = Append(jobs[p], job)
        BY <1>0, <3>2 DEF Kinds
      <4>2. job \in J /\ jobs[p] \in Seq(J)
        BY <1>0
      <4>3. job.kind = op /\ job.obj = col[p]
        BY DEF Job
      <4> HIDE DEF job, J
      <4>4. \A i \in DOMAIN jobs'[p] : jobs'[p][i] = job \/ (i \in DOMAIN jobs[p] /\ jobs'[p][i] = jobs[p][i])
        BY <4>1, <4>2, AppendFacts
      <4> QED BY <2>3, <4>3, <4>4 DEF KeptOpen
    <3> QED BY <2>5, <3>1, <3>2
  <2> QED BY <2>2, <2>6, <2>7, <2>8 DEF KeptOpen
<1>9. CASE RunJob(p)
  <2>1. PICK job, stage : job = Head(jobs[p]) /\ Effect(p, job, stage)
    BY <1>9, RunJobHas
  <2>2. /\ life' = life /\ col' = col /\ jobs' = [jobs EXCEPT ![p] = Tail(jobs[p])] /\ jobs[p] # <<>>
    BY <1>9 DEF RunJob
  <2>3. jobs'[p] = Tail(jobs[p])
    BY <1>0, <2>2 DEF Kinds
  <2>4. job = jobs[p][1] /\ 1 \in DOMAIN jobs[p]
    BY <1>0, <2>1, <2>2, QueueFacts
  <2>a. jobs[p] \in Seq(JobSet) /\ jobs[p] # <<>>
    BY <1>0, <2>2
  <2>5. \A i \in DOMAIN jobs'[p] : i + 1 \in DOMAIN jobs[p] /\ jobs'[p][i] = jobs[p][i + 1]
    BY <2>a, <2>3, TailFacts
  <2>6. \A u \in Task : call'[p][u].op \notin {"export", "reopen", "report"}
    <3>1. \A u \in Task : call'[p][u].op = call[p][u].op
      <4>1. call' = call \/ (job.by \in Task /\ call' = [call EXCEPT ![p][job.by] = [op |-> call[p][job.by].op, stage |-> stage]])
        BY <2>1 DEF Effect
      <4>2. call \in [Process -> [Task -> Calls]]
        BY <1>0 DEF Kinds
      <4> QED BY <4>1, <4>2
    <3> QED BY <3>1 DEF KeptOpen
  <2>7. col[p] \in files[p] /\ life[p] \in {"up", "closing"}
    BY <2>2 DEF KeptOpen
  <2>8. (job.kind \in Op \ {"export"}) => files'[p] = files[p]
    BY <2>1 DEF Effect, Op
  <2>9. job.kind \in Op => job.kind # "export"
    BY <2>4 DEF KeptOpen
  <2>10. CASE job.kind \in Op
    BY <2>2, <2>5, <2>6, <2>7, <2>8, <2>9, <2>10 DEF KeptOpen
  <2>11. CASE job.kind \notin Op
    <3>1. job \in JobSet /\ job.by \notin Task
      <4>1. job.by \in Task => JobOf(p, job.by, job)
        BY <1>0, <2>4 DEF Awaited
      <4>2. job \in JobSet
        BY <1>0, <2>4, QueueFacts
      <4> QED BY <2>11, <4>1, <4>2 DEF JobOf, KeptOpen, JobSet
    <3>2. life[p] = "closing" /\ Len(jobs[p]) = 1
      BY <1>0, <2>4, <2>7, <2>11, <3>1 DEF Staged, Abandoned
    <3>3. jobs'[p] = <<>> /\ DOMAIN jobs'[p] = {}
      <4>1. Len(jobs[p]) <= 1
        BY <3>2
      <4> QED BY <2>a, <2>3, <4>1, TailIsEmpty
    <3> QED BY <2>2, <2>6, <3>2, <3>3 DEF KeptOpen
  <2> QED BY <2>10, <2>11
<1>10. ASSUME NEW t \in Task, Resume(p, t) PROVE KeptOpen(p)'
  <2>1. PICK op : op = call[p][t].op /\ op \notin {"export", "reopen", "report"}
    BY DEF KeptOpen
  <2>2. NextOp(op, call[p][t].stage = "done") = "none"
    BY <2>1 DEF NextOp
  <2>3. call' = [call EXCEPT ![p][t] = Idle] /\ UNCHANGED <<life, col, files, jobs>>
    BY <1>10, <2>1, <2>2 DEF Resume
  <2>4. \A u \in Task : call'[p][u].op \notin {"export", "reopen", "report"}
    BY <1>0, <2>3 DEF KeptOpen, Kinds, Idle
  <2> QED BY <2>3, <2>4 DEF KeptOpen
<1> QED BY <1>3, <1>4, <1>5, <1>6, <1>7, <1>8, <1>9, <1>10 DEF Step, Progress

\* A server without the export screen never hands a job a closed collection.
THEOREM JobsFindTheCollection == "export" \notin Ops => (Spec => []JobsFindItOpen)
<1> SUFFICES ASSUME "export" \notin Ops PROVE Spec => []JobsFindItOpen
  OBVIOUS
<1> DEFINE OpenInv == \A p \in Process : KeptOpen(p)
<1>1. Init => OpenInv
  BY DEF Init, KeptOpen, Idle
<1>2. ServiceInv /\ OpenInv /\ [Next]_vars => OpenInv'
  <2> SUFFICES ASSUME ServiceInv, OpenInv, [Next]_vars, NEW r \in Process PROVE KeptOpen(r)'
    OBVIOUS
  <2>1. CASE UNCHANGED vars
    BY <2>1 DEF KeptOpen, vars, perProcess
  <2>2. CASE Next
    <3>1. PICK p \in Process : Step(p)
      BY <2>2 DEF Next, Step
    <3>2. CASE r = p
      BY <3>1, <3>2, OpenNext
    <3>3. CASE r # p
      BY <3>1, <3>3, Frames DEF KeptOpen
    <3> QED BY <3>2, <3>3
  <2> QED BY <2>1, <2>2
<1>3. ServiceInv /\ OpenInv => JobsFindItOpen
  <2> SUFFICES ASSUME ServiceInv, NEW p \in Process, KeptOpen(p), jobs[p] # <<>>, Head(jobs[p]).kind \in Op
               PROVE  Head(jobs[p]).obj \in files[p]
    BY DEF JobsFindItOpen
  <2>1. Kinds /\ Staged(p) /\ jobs[p] \in Seq(JobSet)
    BY Known
  <2>2. Head(jobs[p]) = jobs[p][1] /\ 1 \in DOMAIN jobs[p]
    BY <2>1, QueueFacts
  <2>3. life[p] \in {"up", "closing"}
    BY <2>1, <2>2 DEF Staged, FromMain, Kinds, Live, Starting, Op
  <2> QED BY <2>2, <2>3 DEF KeptOpen
<1> HIDE DEF OpenInv
<1> QED BY <1>1, <1>2, <1>3, ServicesStaySound, PTL DEF Spec
=============================================================================

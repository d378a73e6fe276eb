-------------------------- MODULE CollectionService --------------------------
(***************************************************************************)
(* Who may use the collection file, and when: CollectionService and        *)
(* CollectionOwnerLock (collection_service.py, collection_lock.py), in the *)
(* processes that share one collection (the server and the maintenance     *)
(* tool, or two servers), with the callers that close and reopen it.       *)
(*                                                                         *)
(* A process has one event loop, which runs the lifecycle (open, close)    *)
(* and the calls of "Task", and one worker thread, which runs jobs in the  *)
(* order they were submitted.  A call waits for the asyncio lock, submits  *)
(* one job and awaits it.  Cancelling a call releases the lock; its job is *)
(* withdrawn if it has not started and else runs on, for nobody.           *)
(*                                                                         *)
(* Collection objects are numbered per process.  An object whose file is   *)
(* open is in "files".                                                     *)
(*                                                                         *)
(* A definition marked "mutant" is a plausible mistake in the code of the  *)
(* definition that follows it; no specification uses it.                   *)
(***************************************************************************)
EXTENDS Naturals, Sequences, FiniteSets, SequencesExt

CONSTANTS
  Process,        \* the processes that are given the same collection path
  Task,           \* the calls a process has in flight at once
  Ops,            \* the operations that are called (see Op)
  MaxGeneration,  \* bound: how often one process replaces its collection
  MaxCancels,     \* bound: how often one call of open() is cancelled
  MaxOrphans      \* bound: how many jobs of cancelled calls are left at once

VARIABLES
  owner,       \* the process that has the flock of <collection>.owner.lock
  life,        \* where the lifecycle task of each process stands
  cancels,     \* how often its open() was cancelled
  col,         \* CollectionService._col: an object, 0 if None
  made,        \* the latest Collection object of the process
  files,       \* the objects whose file is open
  generation,  \* CollectionService._generation
  lock,        \* the holder of CollectionService._lock
  waiting,     \* the tasks that wait for it, in the order they asked
  jobs,        \* the jobs of the worker, the one it is at first
  call         \* the call each task is in

perProcess == <<life, cancels, col, made, files, generation, lock, waiting, jobs, call>>
vars == <<owner, perProcess>>

\* "fn": run, run_op and backend_raw.  "backup": a job that exports, and so
\* closes and reopens the collection itself.  "import": a full import.
\* "export": the export screen, followed by "reopen", or by "report" (an error
\* page) if it failed.
Op == {"fn", "backup", "import", "export"}

Idle == [op |-> "none", stage |-> "idle"]
Job(by, kind, obj) == [by |-> by, kind |-> kind, obj |-> obj]

ASSUME OpsAssumption == Ops \subseteq Op

\* No call is taken for the lifecycle task or for nobody.
ASSUME NamesAssumption ==
  {"nobody", "main"} \cap Task = {} /\ "nobody" \notin Process

Init ==
  /\ owner = "nobody"
  /\ life = [p \in Process |-> "down"]
  /\ cancels = [p \in Process |-> 0]
  /\ col = [p \in Process |-> 0]
  /\ made = [p \in Process |-> 0]
  /\ files = [p \in Process |-> {}]
  /\ generation = [p \in Process |-> 0]
  /\ lock = [p \in Process |-> "nobody"]
  /\ waiting = [p \in Process |-> <<>>]
  /\ jobs = [p \in Process |-> <<>>]
  /\ call = [p \in Process |-> [t \in Task |-> Idle]]

Awaits(p, who) == \E i \in DOMAIN jobs[p] : jobs[p][i].by = who
Submit(p, job) == jobs' = [jobs EXCEPT ![p] = Append(@, job)]
SetCall(p, t, op, stage) == call' = [call EXCEPT ![p][t] = [op |-> op, stage |-> stage]]

\* The jobs nobody awaits any more run on.
Orphaned(s, who) ==
  [i \in DOMAIN s |-> IF s[i].by = who THEN [s[i] EXCEPT !.by = "nobody"] ELSE s[i]]
\* A task awaits one thing at a time: it has one place in a queue at most.
Without(s, places) == IF places = {} THEN s ELSE RemoveAt(s, CHOOSE i \in places : TRUE)
Withdrawn(s, who) == Without(s, {i \in DOMAIN s : s[i].by = who})
Orphans(p) == {i \in DOMAIN jobs[p] : jobs[p][i].by = "nobody"}

-----------------------------------------------------------------------------
(* The lifecycle of a service: open and close. *)

\* open: CollectionOwnerLock.acquire fails at once when another process has
\* the lock, "before opening Anki".
Open(p) ==
  /\ life[p] = "down"
  /\ col[p] = 0
  /\ jobs[p] = <<>>
  /\ owner = "nobody"
  /\ owner' = p
  /\ Submit(p, Job("main", "open", 0))
  /\ life' = [life EXCEPT ![p] = "opening"]
  /\ UNCHANGED <<cancels, col, made, files, generation, lock, waiting, call>>

\* The awaited open ends: with a collection, or with an exception.
OpenDone(p) ==
  /\ life[p] = "opening"
  /\ ~Awaits(p, "main")
  /\ IF made[p] \in files[p]
     THEN /\ col' = [col EXCEPT ![p] = made[p]]
          /\ generation' = [generation EXCEPT ![p] = @ + 1]
          /\ life' = [life EXCEPT ![p] = "up"]
          /\ UNCHANGED owner
     ELSE /\ owner' = "nobody"
          /\ life' = [life EXCEPT ![p] = "down"]
          /\ UNCHANGED <<col, generation>>
  /\ UNCHANGED <<cancels, made, files, lock, waiting, jobs, call>>

\* CancelledError out of the shielded await.
ReleaseWhenCancelled(p) ==                                  \* mutant
  /\ life[p] = "opening" /\ cancels[p] < MaxCancels
  /\ cancels' = [cancels EXCEPT ![p] = @ + 1]
  /\ life' = [life EXCEPT ![p] = "down"]
  /\ owner' = "nobody"
  /\ jobs' = [jobs EXCEPT ![p] = Orphaned(@, "main")]
  /\ UNCHANGED <<col, made, files, generation, lock, waiting, call>>
CancelOpen(p) ==
  /\ life[p] = "opening"
  /\ cancels[p] < MaxCancels
  /\ cancels' = [cancels EXCEPT ![p] = @ + 1]
  /\ life' = [life EXCEPT ![p] = "backing"]
  /\ UNCHANGED <<owner, col, made, files, generation, lock, waiting, jobs, call>>

\* "Keep ownership until its open has finished and that handle is closed."
BackOut(p) ==
  /\ life[p] = "backing"
  /\ ~Awaits(p, "main")
  /\ IF made[p] \in files[p]
     THEN /\ Submit(p, Job("main", "close", made[p]))
          /\ life' = [life EXCEPT ![p] = "disowning"]
          /\ UNCHANGED owner
     ELSE /\ owner' = "nobody"
          /\ life' = [life EXCEPT ![p] = "down"]
          /\ UNCHANGED jobs
  /\ UNCHANGED <<cancels, col, made, files, generation, lock, waiting, call>>

Disown(p) ==
  /\ life[p] = "disowning"
  /\ ~Awaits(p, "main")
  /\ owner' = "nobody"
  /\ life' = [life EXCEPT ![p] = "down"]
  /\ UNCHANGED <<cancels, col, made, files, generation, lock, waiting, jobs, call>>

\* These two awaits are not shielded: a second cancellation ends either, and
\* the finally clause releases the ownership.
CancelBackOut(p) ==
  /\ life[p] \in {"backing", "disowning"}
  /\ cancels[p] < MaxCancels
  /\ cancels' = [cancels EXCEPT ![p] = @ + 1]
  /\ owner' = "nobody"
  /\ life' = [life EXCEPT ![p] = "down"]
  /\ jobs' \in {[jobs EXCEPT ![p] = Orphaned(@, "main")],
                [jobs EXCEPT ![p] = Withdrawn(@, "main")]}
  /\ UNCHANGED <<col, made, files, generation, lock, waiting, call>>

\* close, once the servers have awaited or cancelled every request and the
\* background tasks were cancelled and awaited.
CloseWithoutLock(p) ==                                      \* mutant
  /\ life[p] = "up"
  /\ Submit(p, Job("main", "close", col[p]))
  /\ life' = [life EXCEPT ![p] = "closing"]
  /\ UNCHANGED <<owner, cancels, col, made, files, generation, lock, waiting, call>>
Close(p) ==
  /\ life[p] = "up"
  /\ \A t \in Task : call[p][t] = Idle
  /\ lock[p] = "nobody"
  /\ lock' = [lock EXCEPT ![p] = "main"]
  /\ Submit(p, Job("main", "close", col[p]))
  /\ life' = [life EXCEPT ![p] = "closing"]
  /\ UNCHANGED <<owner, cancels, col, made, files, generation, waiting, call>>

CloseDone(p) ==
  /\ life[p] = "closing"
  /\ ~Awaits(p, "main")
  /\ col' = [col EXCEPT ![p] = 0]
  /\ owner' = "nobody"
  /\ lock' = [lock EXCEPT ![p] = "nobody"]
  /\ life' = [life EXCEPT ![p] = "closed"]
  /\ UNCHANGED <<cancels, made, files, generation, waiting, jobs, call>>

\* The process exits, or is killed at any moment: the kernel closes its files
\* and drops its flock.  A new process may take its place.
Exit(p) ==
  /\ life[p] # "down" \/ jobs[p] # <<>> \/ cancels[p] # 0
  /\ owner' = IF owner = p THEN "nobody" ELSE owner
  /\ life' = [life EXCEPT ![p] = "down"]
  /\ cancels' = [cancels EXCEPT ![p] = 0]
  /\ col' = [col EXCEPT ![p] = 0]
  /\ made' = [made EXCEPT ![p] = 0]
  /\ files' = [files EXCEPT ![p] = {}]
  /\ generation' = [generation EXCEPT ![p] = 0]
  /\ lock' = [lock EXCEPT ![p] = "nobody"]
  /\ waiting' = [waiting EXCEPT ![p] = <<>>]
  /\ jobs' = [jobs EXCEPT ![p] = <<>>]
  /\ call' = [call EXCEPT ![p] = [t \in Task |-> Idle]]

-----------------------------------------------------------------------------
(* Calls: run, reopen and the export screen. *)

\* How many replacements of the collection are still to come.
Pending(p) ==
  Cardinality({t \in Task : call[p][t].op \in {"import", "export", "reopen"}})
    + Cardinality(Orphans(p))

Begin(p, t, op) ==
  /\ life[p] = "up"
  /\ call[p][t] = Idle
  /\ op \in {"import", "export"} => generation[p] + Pending(p) < MaxGeneration
  /\ SetCall(p, t, op, "wait")
  /\ waiting' = [waiting EXCEPT ![p] = Append(@, t)]
  /\ UNCHANGED <<owner, life, cancels, col, made, files, generation, lock, jobs>>

\* The lock once a task has entered, and once it has left.
TakenUnlessReopening(p, t) ==                               \* mutant
  IF call[p][t].op = "reopen" THEN lock ELSE [lock EXCEPT ![p] = t]
Taken(p, t) == [lock EXCEPT ![p] = t]
LeftUnlessFailed(p, t) ==                                   \* mutant
  IF lock[p] = t /\ call[p][t].stage # "failed"
  THEN [lock EXCEPT ![p] = "nobody"] ELSE lock
Left(p, t) == IF lock[p] = t THEN [lock EXCEPT ![p] = "nobody"] ELSE lock

\* "async with self._lock": the lock goes to the first that waits.  run raises
\* if the collection is not open, else it submits its job.
Grant(p) ==
  /\ lock[p] = "nobody"
  /\ waiting[p] # <<>>
  /\ LET t  == Head(waiting[p])
         op == call[p][t].op
     IN IF op # "reopen" /\ col[p] = 0
        THEN /\ SetCall(p, t, op, "failed")
             /\ UNCHANGED <<lock, jobs>>
        ELSE /\ lock' = Taken(p, t)
             /\ Submit(p, IF op = "reopen" THEN Job(t, "open", 0)
                          ELSE Job(t, IF op = "report" THEN "fn" ELSE op, col[p]))
             /\ SetCall(p, t, op, "await")
  /\ waiting' = [waiting EXCEPT ![p] = Tail(@)]
  /\ UNCHANGED <<owner, life, cancels, col, made, files, generation>>

\* The worker runs its first job and tells the call that awaits it.  Only open
\* and close can do anything with a collection that is not open.  An export
\* closes the collection before it can fail; a full import may fail before or
\* after it has replaced the file.  Reopening what was just closed works.
RunJob(p) ==
  /\ jobs[p] # <<>>
  /\ jobs' = [jobs EXCEPT ![p] = Tail(@)]
  /\ \E ok, replaces \in BOOLEAN :
       LET job  == Head(jobs[p])
           here == job.kind \in {"open", "close"} \/ job.obj \in files[p]
           new  == made[p] + 1
       IN /\ ok => here
          /\ job.kind = "close" \/ (job.kind = "open" /\ job.by \in Task) => ok
          /\ replaces => job.kind = "import" /\ here
          /\ job.kind = "import" /\ ok => replaces
          /\ made' = IF job.kind = "open" /\ ok THEN [made EXCEPT ![p] = new] ELSE made
          /\ files' = CASE job.kind = "open" /\ ok -> [files EXCEPT ![p] = @ \cup {new}]
                        [] job.kind \in {"close", "export"}
                             -> [files EXCEPT ![p] = @ \ {job.obj}]
                        [] OTHER -> files
          /\ generation' = IF replaces THEN [generation EXCEPT ![p] = @ + 1]
                                       ELSE generation
          /\ call' = IF job.by \in Task
                     THEN [call EXCEPT ![p][job.by].stage = IF ok THEN "done" ELSE "failed"]
                     ELSE call
  /\ UNCHANGED <<owner, life, cancels, col, lock, waiting>>

\* What a handler awaits after a call: the export screen reopens a collection
\* it has exported, and renders an error page if that failed.
NextOp(op, ok) ==
  CASE op = "export" /\ ok  -> "reopen"
    [] op = "export" /\ ~ok -> "report"
    [] OTHER -> "none"

\* The event loop resumes the call: it leaves the lock, and returns, raises or
\* goes on.  reopen stores the new collection before it leaves.
Resume(p, t) ==
  /\ call[p][t].stage \in {"done", "failed"}
  /\ lock' = Left(p, t)
  /\ LET op   == call[p][t].op
         next == NextOp(op, call[p][t].stage = "done")
     IN /\ IF next = "none"
           THEN /\ call' = [call EXCEPT ![p][t] = Idle]
                /\ UNCHANGED waiting
           ELSE /\ SetCall(p, t, next, "wait")
                /\ waiting' = [waiting EXCEPT ![p] = Append(@, t)]
        /\ IF op = "reopen"
           THEN /\ col' = [col EXCEPT ![p] = made[p]]
                /\ generation' = [generation EXCEPT ![p] = @ + 1]
           ELSE UNCHANGED <<col, generation>>
  /\ UNCHANGED <<owner, life, cancels, made, files, jobs>>

\* The tasks that wait for the lock when one of them is cancelled.
WaitingWithout(p, t) ==
  [waiting EXCEPT ![p] = Without(@, {i \in DOMAIN @ : @[i] = t})]

\* wait_for of /healthz, the shutdown timeout of the server, the cancelled
\* backup and notifier tasks.  Servers with an export screen have no timeout.
Cancel(p, t) ==
  /\ call[p][t].op \in {"fn", "backup", "import"}
  /\ Cardinality(Orphans(p)) < MaxOrphans
  /\ call' = [call EXCEPT ![p][t] = Idle]
  /\ waiting' = WaitingWithout(p, t)
  /\ lock' = Left(p, t)
  /\ jobs' \in {[jobs EXCEPT ![p] = Orphaned(@, t)], [jobs EXCEPT ![p] = Withdrawn(@, t)]}
  /\ UNCHANGED <<owner, life, cancels, col, made, files, generation>>

-----------------------------------------------------------------------------
Progress(p) ==
  \/ OpenDone(p) \/ BackOut(p) \/ Disown(p) \/ CloseDone(p)
  \/ Grant(p) \/ RunJob(p)
  \/ \E t \in Task : Resume(p, t)

Next ==
  \E p \in Process :
    \/ Open(p) \/ CancelOpen(p) \/ CancelBackOut(p) \/ Close(p) \/ Exit(p)
    \/ \E t \in Task : Cancel(p, t) \/ \E op \in Ops : Begin(p, t, op)
    \/ Progress(p)

\* The worker works, and the event loop runs what is ready; jobs end.
Fairness ==
  \A p \in Process :
    /\ WF_vars(OpenDone(p)) /\ WF_vars(BackOut(p)) /\ WF_vars(Disown(p))
    /\ WF_vars(CloseDone(p)) /\ WF_vars(Grant(p)) /\ WF_vars(RunJob(p))
    /\ \A t \in Task : WF_vars(Resume(p, t))

Spec == Init /\ [][Next]_vars /\ Fairness

-----------------------------------------------------------------------------
\* "A lifetime OS advisory lock is held through export/reopen and released on
\* close/process exit": a process whose collection file is open, or whose
\* worker has still to open it, owns the lock; so two never do at once
\* (collection_service.py:60-75, docs/PRODUCTION_READINESS.md:22-24).
UsesFile(p) == files[p] # {} \/ \E i \in DOMAIN jobs[p] : jobs[p][i].kind = "open"
OwnerHoldsWhileOpen == \A p \in Process : UsesFile(p) => owner = p

\* The same for the processes whose start was cancelled once at most: each
\* owns the lock while it uses the file, whatever calls and jobs are cancelled,
\* and whichever processes die (collection_service.py:60-75).
OwnerHoldsUnlessCancelledTwice ==
  \A p \in Process : cancels[p] <= 1 /\ UsesFile(p) => owner = p

\* Without the export screen no job is given a collection whose file is
\* closed: not after a cancelled call, a backup or a full import, and not
\* while the service closes (collection_service.py:96-150).
JobsFindItOpen ==
  \A p \in Process :
    jobs[p] # <<>> /\ Head(jobs[p]).kind \in Op => Head(jobs[p]).obj \in files[p]

\* While a call awaits its job nobody replaces the collection the job was
\* given, so what the job reads of the service (its generation) belongs to
\* that collection (collection_service.py:78-94, 107-113; adapter.py:269).
CallsKeepTheirCollection ==
  \A p \in Process : \A i \in DOMAIN jobs[p] :
    jobs[p][i].by \in Task /\ jobs[p][i].kind \in Op =>
      jobs[p][i].obj = col[p] /\ lock[p] = jobs[p][i].by

\* No call hangs: whatever is cancelled, fails or closes, every call of a
\* process ends (collection_service.py:96-113).
CallsReturn ==
  \A p \in Process, t \in Task : call[p][t] # Idle ~> call[p][t] = Idle

\* "The handler awaits service.reopen(), which revives it BEFORE returning":
\* when the export screen has answered, the collection is usable
\* (docs/superpowers/plans/2026-06-02-ankiweb-export-gui-e6b.md:392).
ExportLeavesItUsable ==
  [][\A p \in Process, t \in Task :
       /\ life[p] = "up" /\ life'[p] = "up"
       /\ call[p][t].op \in {"export", "reopen", "report"}
       /\ call'[p][t] = Idle
       => col'[p] \in files'[p]]_vars
=============================================================================

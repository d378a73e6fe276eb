------------------------------ MODULE Backups -------------------------------
(* Backup bundles on disk: the daily loop of the production server, the      *)
(* offline tool that backs up and restores, and the steps of a bundle with a *)
(* failure or a crash between any two.                                       *)
(*                                                                           *)
(* What a collection holds is the set of changes made to it (lessons         *)
(* imported, cards answered); a lesson leaves a receipt.  Times are ages by  *)
(* the wall clock, in units of which an interval has several; a retry takes  *)
(* less than one.                                                            *)
EXTENDS Integers, FiniteSets

CONSTANTS
  Changes,      \* changes that the collection may undergo
  Interval,     \* time between two daily backups
  Grace,        \* how much later one may be before health notices
  MaxCrashes,   \* BOUND: times that a process dies
  MaxTools,     \* BOUND: times that the tool is started
  MaxSpoilt,    \* BOUND: times that the files of a bundle are damaged
  MaxJumps      \* BOUND: times that the wall clock is set back, by a unit

ASSUME TimesAssumption == Interval \in Nat \ {0} /\ Grace \in Nat \ {0}

VARIABLES
  owner,        \* who owns the collection: the server, the tool or none
  pc,           \* its task that makes bundles
  wait,         \* what is left of its sleep
  last,         \* the age of last_success
  failed,       \* DailyBackups.failed
  lesson,       \* the change whose handler holds the adapter's lock, or none
  col,          \* the collection: the changes made to it
  receipts,     \* the receipts on disk
  draft,        \* the bundle being made
  bundles,      \* bundles with a manifest
  restore,      \* what the tool was started for, how far it is, from which
                \* bundle, what of that was damaged since, and (a history
                \* variable) the collection that the tool found
  target,       \* the directory that a restore makes
  faults        \* uses of the tool, crashes, damages and jumps of the clock so far

vars == <<owner, pc, wait, last, failed, lesson, col, receipts, draft, bundles, restore, target, faults>>

None == "none"
Missing == <<>>                         \* of a file
File(what) == <<what>>
Garbled == <<None, None>>               \* of receipts whose files were damaged
Old == Interval + Grace                 \* no age beyond this one makes a difference
Blank == [kind |-> None, age |-> 0, pkg |-> Missing, snap |-> Missing, receipts |-> Missing,
          manifest |-> FALSE, spoilt |-> "no"]
Blocked(report) == [there |-> TRUE, col |-> Missing, receipts |-> Missing, report |-> report]
NoTarget == [there |-> FALSE, col |-> Missing, receipts |-> Missing, report |-> FALSE]
Nothing == [op |-> None, step |-> None, bundle |-> Blank, found |-> {}, damaged |-> {}]

(* The files of a bundle are there and have the checksums of its manifest.   *)
Verified(b) ==
  /\ b.manifest /\ b.spoilt = "no"
  /\ Missing \notin {b.pkg, b.snap, b.receipts}
Healthy == ~failed /\ 0 <= last /\ last < Interval + Grace
Delay(age) == IF age < Interval THEN Interval - age ELSE 0

Making == {"export", "snapshot", "receipts", "manifest", "verify"}
OnDisk == bundles \cup (IF draft.manifest THEN {draft} ELSE {})

(* ---- operational_backup and create_bundle_locked ---- *)
Kind == IF owner = "server" THEN "daily" ELSE IF restore.op = "restore" THEN "pre-restore" ELSE "manual"
Begin ==
  /\ pc = "due" /\ lesson = None                        \* async with self._lock
  /\ pc' = "export" /\ draft' = [Blank EXCEPT !.kind = Kind]
  /\ UNCHANGED <<owner, wait, last, failed, lesson, col, receipts, bundles, restore, target, faults>>
Step(at, to, bundle) ==
  /\ pc = at /\ pc' = to /\ draft' = bundle
  /\ UNCHANGED <<owner, wait, last, failed, lesson, col, receipts, bundles, restore, target, faults>>
Export == Step("export", "snapshot", [draft EXCEPT !.pkg = File(col)])
Snapshot == Step("snapshot", "receipts", [draft EXCEPT !.snap = File(col)])
CopyReceipts == Step("receipts", "manifest", [draft EXCEPT !.receipts = File(receipts)])
WriteManifest == Step("manifest", "verify", [draft EXCEPT !.manifest = TRUE, !.age = 0])

(* The bundle is verified: the loop notes its time and sleeps; the tool      *)
(* closes the collection, and goes on with the restore or is done.           *)
Finish ==
  /\ pc = "verify" /\ Verified(draft)
  /\ bundles' = OnDisk /\ draft' = Blank
  /\ IF owner = "server"
     THEN /\ last' = draft.age /\ failed' = FALSE
          /\ pc' = "sleep" /\ wait' = Delay(draft.age)
          /\ UNCHANGED <<owner, restore>>
     ELSE /\ owner' = None /\ pc' = "off"
          /\ restore' = IF restore.op = "restore" THEN [restore EXCEPT !.step = "import"] ELSE Nothing
          /\ UNCHANGED <<last, failed, wait>>
  /\ UNCHANGED <<lesson, col, receipts, target, faults>>

(* Any step may raise: the disk is full, a receipt is not a file, a check    *)
(* fails.  The loop tries again after a while, the tool ends.                *)
FailsTo(next) ==
  /\ pc \in Making
  /\ bundles' = OnDisk /\ draft' = Blank
  /\ IF owner = "server" THEN pc' = next /\ failed' = TRUE /\ UNCHANGED <<owner, restore>>
     ELSE pc' = "off" /\ owner' = None /\ restore' = Nothing /\ UNCHANGED failed
  /\ UNCHANGED <<wait, last, lesson, col, receipts, target, faults>>
FailForGood == FailsTo("off")                                   \* mutant
Fail == FailsTo("retry")

(* ---- the daily loop ---- *)
Start ==
  /\ owner = None /\ owner' = "server"
  /\ pc' = "scan" /\ last' = Old /\ failed' = FALSE
  /\ bundles' = {IF b.spoilt = "late" THEN [b EXCEPT !.spoilt = "yes"] ELSE b : b \in bundles}
  /\ UNCHANGED <<wait, lesson, col, receipts, draft, restore, target, faults>>

(* The newest daily bundle that verifies counts.                             *)
CountingAny(bs) == {b \in bs : b.kind = "daily"}                \* mutant
Counting(bs) == {b \in bs : b.kind = "daily" /\ Verified(b)}
Scan ==
  /\ pc = "scan"
  /\ last' = IF Counting(bundles) = {} THEN Old
             ELSE (CHOOSE b \in Counting(bundles) : \A c \in Counting(bundles) : b.age <= c.age).age
  /\ pc' = "sleep" /\ wait' = Delay(last')
  /\ UNCHANGED <<owner, failed, lesson, col, receipts, draft, bundles, restore, target, faults>>
Wake ==
  /\ \/ pc = "sleep" /\ wait = 0 /\ pc' = "due" /\ UNCHANGED wait
     \/ pc = "retry" /\ pc' = "sleep" /\ wait' = Delay(last)
  /\ UNCHANGED <<owner, last, failed, lesson, col, receipts, draft, bundles, restore, target, faults>>

(* ---- the rest of the server: handlers that hold the adapter's lock ---- *)
Changed(c) ==
  /\ owner = "server" /\ lesson = None
  /\ c \notin col
  /\ col' = col \cup {c} /\ lesson' = c
  /\ UNCHANGED <<owner, pc, wait, last, failed, receipts, draft, bundles, restore, target, faults>>
ChangeMeanwhile(c) == Changed(c)                                \* mutant
Change(c) == pc \notin Making /\ Changed(c)
Receipt ==                              \* of a lesson, saved or not
  /\ lesson # None /\ lesson' = None
  /\ receipts' \in {receipts, receipts \cup {lesson}}
  /\ UNCHANGED <<owner, pc, wait, last, failed, col, draft, bundles, restore, target, faults>>

(* ---- tools/maintenance.py ---- *)
Apply(op, b) ==                         \* BOUND: one use of the tool at a time
  /\ faults.tools < MaxTools /\ faults' = [faults EXCEPT !.tools = @ + 1]
  /\ restore.op = None /\ owner = None /\ owner' = "tool"
  /\ restore' = [op |-> op, step |-> "backup", bundle |-> b, found |-> col, damaged |-> {}]
  /\ pc' = "due"
  /\ UNCHANGED <<wait, last, failed, lesson, col, receipts, draft, bundles, target>>
Backup == Apply("backup", Blank)
Restore(b) == Verified(b) /\ ~target.there /\ Apply("restore", b)     \* into a new directory

(* The restore itself opens only its target: the current collection has been *)
(* closed, and a server may be started and change it.                        *)
RestoreStep(at, to, t) ==
  /\ restore.step = at /\ restore' = [restore EXCEPT !.step = to] /\ target' = t
  /\ UNCHANGED <<owner, pc, wait, last, failed, lesson, col, receipts, draft, bundles, faults>>
(* The target is created, the package checked once more and imported into it.*)
(* Anki may import something else than it exported; the comparison with the  *)
(* snapshot of the bundle tells.                                             *)
Import ==
  /\ "package" \notin restore.damaged
  /\ \E c \in {restore.bundle.pkg} \cup {File(x) : x \in SUBSET Changes} :
       RestoreStep("import", "compare", [target EXCEPT !.there = TRUE, !.col = c])
CompareNothing == RestoreStep("compare", "unpack", target)      \* mutant
Compare ==
  /\ target.col = restore.bundle.snap
  /\ RestoreStep("compare", "unpack", target)
Unpack ==                               \* the receipts as they are: not checked again
  RestoreStep("unpack", "report",
    [target EXCEPT !.receipts = IF "receipts" \in restore.damaged THEN Garbled
                                                                   ELSE restore.bundle.receipts])
Report ==
  /\ restore.step = "report" /\ restore' = Nothing /\ target' = Blocked(TRUE)
  /\ UNCHANGED <<owner, pc, wait, last, failed, lesson, col, receipts, draft, bundles, faults>>
Restoring == {"import", "compare", "unpack", "report"}
GiveUp ==                               \* a difference, an exception, or the tool dies
  /\ restore.step \in Restoring /\ restore' = Nothing
  /\ \/ target' = Blocked(FALSE)
     \/ ~target.there /\ target' = target
  /\ UNCHANGED <<owner, pc, wait, last, failed, lesson, col, receipts, draft, bundles, faults>>
Discard ==                              \* a restore that failed is cleared away by hand
  /\ target.there /\ ~target.report /\ restore.op # "restore"
  /\ target' = NoTarget
  /\ UNCHANGED <<owner, pc, wait, last, failed, lesson, col, receipts, draft, bundles, restore, faults>>

(* ---- faults and time ---- *)
Crash ==                                \* of the process that owns the collection
  /\ owner # None /\ faults.crashes < MaxCrashes
  /\ faults' = [faults EXCEPT !.crashes = @ + 1]
  /\ owner' = None /\ pc' = "off" /\ lesson' = None
  /\ restore' = IF owner = "tool" THEN Nothing ELSE restore
  /\ wait' = 0 /\ last' = Old /\ failed' = FALSE
  /\ bundles' = OnDisk /\ draft' = Blank
  /\ UNCHANGED <<col, receipts, target>>
(* Files of a bundle are damaged, perhaps while the tool restores from it. A *)
(* damaged snapshot stops that as a damaged package does.                    *)
Spoil ==
  /\ faults.spoilt < MaxSpoilt
  /\ faults' = [faults EXCEPT !.spoilt = @ + 1]
  /\ \E b \in bundles :
       /\ b.spoilt = "no"
       /\ bundles' = (bundles \ {b}) \cup {[b EXCEPT !.spoilt = IF owner = "server" THEN "late" ELSE "yes"]}
       /\ \/ b # restore.bundle /\ UNCHANGED restore
          \/ /\ b = restore.bundle
             /\ \E what \in {"package", "receipts"} :
                  restore' = [restore EXCEPT !.damaged = @ \cup {what}]
  /\ UNCHANGED <<owner, pc, wait, last, failed, lesson, col, receipts, draft, target>>

(* BOUND: daily bundles older than Old, or known to be damaged, are not      *)
(* looked at any more; others, whose age is of no interest, go with time.    *)
Aged(by) ==
  LET older(a) == IF a >= Old \/ a + by < -1 THEN a ELSE a + by
      aged(b) == IF b.kind = "daily" THEN [b EXCEPT !.age = older(@)] ELSE b
      stays(b) == IF b.kind = "daily" THEN b.age < Old /\ b.spoilt # "yes" ELSE by < 0
  IN  /\ last' = older(last) /\ draft' = IF draft.manifest THEN aged(draft) ELSE draft
      /\ bundles' = {b \in {aged(b) : b \in bundles} : stays(b)}
      /\ UNCHANGED <<owner, pc, failed, lesson, col, receipts, restore, target>>
Tick ==                                 \* BOUND: a bundle and the tool take less than a unit of time
  /\ pc \notin Making /\ restore.op = None
  /\ Aged(1) /\ wait' = (IF wait > 0 THEN wait - 1 ELSE 0)
  /\ UNCHANGED faults
SetBack ==                              \* BOUND: not while the tool restores
  /\ restore.op # "restore"
  /\ faults.jumps < MaxJumps /\ faults' = [faults EXCEPT !.jumps = @ + 1]
  /\ Aged(-1) /\ UNCHANGED wait

Init ==
  /\ owner = None /\ pc = "off" /\ wait = 0 /\ last = Old /\ failed = FALSE
  /\ lesson = None /\ col = {} /\ receipts = {}
  /\ draft = Blank /\ bundles = {} /\ restore = Nothing /\ target = NoTarget
  /\ faults = [tools |-> 0, crashes |-> 0, spoilt |-> 0, jumps |-> 0]

Next ==
  \/ Begin \/ Export \/ Snapshot \/ CopyReceipts \/ WriteManifest \/ Finish \/ Fail
  \/ Start \/ Scan \/ Wake
  \/ (\E c \in Changes : Change(c)) \/ Receipt
  \/ Backup \/ (\E b \in bundles : Restore(b))
  \/ Import \/ Compare \/ Unpack \/ Report \/ GiveUp \/ Discard
  \/ Crash \/ Spoil \/ Tick \/ SetBack

(* The event loop runs, a restore comes to its end and time passes; a step   *)
(* of a backup may fail again and again, but not always.                     *)
Fairness ==
  /\ WF_vars(GiveUp \/ Tick) /\ WF_vars(Scan \/ Wake) /\ WF_vars(Receipt) /\ SF_vars(Begin)
  /\ SF_vars(Export) /\ SF_vars(Snapshot) /\ SF_vars(CopyReceipts) /\ SF_vars(WriteManifest)
  /\ SF_vars(Finish)
Spec == Init /\ [][Next]_vars /\ Fairness

(* ---- properties ---- *)
(* A bundle that verifies was taken at one moment: its package and the       *)
(* snapshot that audits it are of the same collection, and every receipt in  *)
(* it is of a lesson in that collection.  (operations.py:81-109)             *)
BundlesAreWhole ==
  \A b \in bundles : Verified(b) => b.pkg = b.snap /\ b.receipts[1] \subseteq b.pkg[1]

(* A server says that its backups are healthy only if there is a complete    *)
(* daily bundle not older than it should be, which was undamaged when the    *)
(* server last looked.  (operations.py:54-60, 77-78)                         *)
HealthIsTrue ==
  owner = "server" /\ Healthy =>
    \E b \in bundles :
      /\ b.kind = "daily" /\ b.pkg # Missing /\ b.spoilt # "yes"
      /\ 0 <= b.age /\ b.age < Interval + Grace

(* A report of a restore is there only if the restored collection is that of *)
(* a bundle, with its receipts, and a bundle holds what the tool found, even *)
(* if a server was started meanwhile or the bundle was damaged.  Only the    *)
(* receipts may be restored as they were damaged.                            *)
(* (tools/maintenance.py:38-70)                                              *)
ReportsAreTrue ==
  [][~target.report /\ target'.report =>
       /\ target.col = restore.bundle.pkg
       /\ \/ target.receipts = restore.bundle.receipts /\ target.receipts[1] \subseteq target.col[1]
          \/ target.receipts = Garbled /\ "receipts" \in restore.damaged
       /\ \E b \in bundles : b.kind = "pre-restore" /\ b.pkg = File(restore.found)]_target

(* A server that keeps running is healthy again and again, whatever failed,  *)
(* crashed or was damaged before.  (operations.py:62-75)                     *)
DailyGoesOn == <>[](owner = "server") => []<>Healthy
=============================================================================

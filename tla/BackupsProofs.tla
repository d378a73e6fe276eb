---------------------------- MODULE BackupsProofs ----------------------------
(***************************************************************************)
(* What the backups promise, for any number of changes, crashes, damaged   *)
(* bundles, uses of the tool and jumps of the clock.  The invariant says   *)
(* at which step of a bundle which of its files agrees with the collection *)
(* (no handler changes the collection meanwhile), that the tool keeps a    *)
(* bundle of the collection it found, whatever a server does to that       *)
(* during the restore, and which bundle the time of the last success       *)
(* belongs to.                                                             *)
(***************************************************************************)
EXTENDS Backups, WellFoundedInduction, TLAPS

Files == {Missing} \cup {File(x) : x \in SUBSET Changes}
Ages == {a \in Int : a >= -1}
Bundle == [kind : {None, "daily", "pre-restore", "manual"}, age : Ages,
           pkg : Files, snap : Files, receipts : Files,
           manifest : BOOLEAN, spoilt : {"no", "late", "yes"}]
Tasks == {"off", "scan", "sleep", "due", "retry"} \cup Making
Restores == [op : {None, "backup", "restore"}, step : {None, "backup"} \cup Restoring,
             bundle : Bundle, found : SUBSET Changes, damaged : SUBSET {"package", "receipts"}]
Targets == [there : BOOLEAN, col : Files, receipts : Files \cup {Garbled}, report : BOOLEAN]

Kinds ==
  /\ owner \in {None, "server", "tool"}
  /\ pc \in Tasks
  /\ wait \in Nat /\ last \in Ages /\ failed \in BOOLEAN
  /\ lesson \in Changes \cup {None}
  /\ col \in SUBSET Changes /\ receipts \in SUBSET Changes
  /\ draft \in Bundle /\ bundles \in SUBSET Bundle
  /\ restore \in Restores /\ target \in Targets

\* Only a running server has handlers, and none has the adapter's lock while a
\* bundle is made.  The tool owns the collection until it has its backup; only
\* then it restores.
Roles ==
  /\ owner = None => pc = "off"
  /\ owner = "server" => pc \in {"scan", "sleep", "due", "retry"} \cup Making
  /\ owner = "tool" => pc \in {"due"} \cup Making
  /\ owner = "tool" <=> restore.step = "backup"
  /\ restore.op = None <=> restore.step = None
  /\ restore.step \in Restoring => restore.op = "restore"
  /\ owner # "server" \/ pc \in Making => lesson = None

\* A receipt is written after the change it is of.
ChangesComeFirst == receipts \subseteq col /\ (lesson # None => lesson \in col)

\* What is copied so far agrees with the collection and the receipts on disk.
Drafted ==
  /\ pc \notin Making => draft = Blank
  /\ pc \in Making => draft.kind = Kind /\ draft.spoilt = "no"
  /\ pc \in {"snapshot", "receipts", "manifest", "verify"} => draft.pkg = File(col)
  /\ pc \in {"receipts", "manifest", "verify"} => draft.snap = File(col)
  /\ pc \in {"manifest", "verify"} => draft.receipts = File(receipts)
  /\ draft.manifest <=> pc = "verify"

\* A bundle taken at one moment, when the collection had the changes C and R
\* had receipts.
TakenAt(b, C, R) == b.pkg = File(C) /\ b.snap = File(C) /\ b.receipts = File(R)
Whole(b) == \E C \in SUBSET Changes : \E R \in SUBSET C : TakenAt(b, C, R)
AllWhole == \A b \in bundles : Whole(b)

\* The bundle that the tool made before it restores.
Safe(b) == b.kind = "pre-restore" /\ b.pkg = File(restore.found)

Restored ==
  /\ restore.op = "restore" => Whole(restore.bundle)
  /\ owner = "tool" => restore.found = col
  /\ restore.step \in Restoring => \E b \in bundles : Safe(b)
  /\ restore.step \in {"unpack", "report"} => target.col = restore.bundle.snap
  /\ restore.step = "report" =>
       \/ target.receipts = restore.bundle.receipts
       \/ target.receipts = Garbled /\ "receipts" \in restore.damaged

\* The time of the last success is that of a complete daily bundle.
Dates(b, when) == b.kind = "daily" /\ b.pkg # Missing /\ b.spoilt # "yes" /\ b.age = when
Dated == owner = "server" /\ last < Old => \E b \in bundles : Dates(b, last)

BackupsInv ==
  Kinds /\ Roles /\ ChangesComeFirst /\ Drafted /\ AllWhole /\ Restored /\ Dated

-----------------------------------------------------------------------------
LEMMA FileFacts ==
  /\ \A x : File(x) # Missing /\ File(x)[1] = x
  /\ \A x, y : File(x) = File(y) => x = y
BY DEF File, Missing

LEMMA BlankIsABundle ==
  /\ Blank \in Bundle /\ Blank.kind = None /\ Blank.age = 0 /\ ~Blank.manifest /\ Blank.spoilt = "no"
  /\ Nothing \in Restores /\ Nothing.op = None /\ Nothing.step = None
BY DEF Blank, Bundle, Ages, Files, Nothing, None, Restores

LEMMA OldIsLater == Old \in Nat /\ Old >= 2 /\ Old = Interval + Grace
BY TimesAssumption DEF Old

LEMMA InvInit == Init => BackupsInv
<1> SUFFICES ASSUME Init PROVE BackupsInv
  OBVIOUS
<1> USE DEF Init
<1>0. Missing \in Files /\ NoTarget \in Targets
  BY DEF NoTarget, Files, Targets
<1>a. last \in Ages /\ wait \in Nat
  BY OldIsLater DEF Ages
<1>b. col \in SUBSET Changes /\ receipts \in SUBSET Changes /\ bundles \in SUBSET Bundle
  OBVIOUS
<1>c. owner \in {None, "server", "tool"} /\ pc \in Tasks /\ lesson \in Changes \cup {None}
  BY DEF Tasks
<1>1. Kinds
  BY <1>0, <1>a, <1>b, <1>c, BlankIsABundle DEF Kinds
<1>2. Roles /\ ChangesComeFirst
  BY BlankIsABundle DEF Roles, ChangesComeFirst, None, Making, Restoring
<1>3. Drafted /\ AllWhole /\ Restored /\ Dated
  BY BlankIsABundle DEF Drafted, AllWhole, Restored, Dated, Making, Restoring, None
<1> QED BY <1>1, <1>2, <1>3 DEF BackupsInv

-----------------------------------------------------------------------------
(* The steps of a bundle. *)

LEMMA BeginKeeps == ASSUME BackupsInv, Begin PROVE BackupsInv'
<1> USE DEF BackupsInv, Begin
<1>0. Kind \in {"daily", "pre-restore", "manual"}
  BY DEF Kind
<1>a. Kind' = Kind
  BY DEF Kind
<1>b. draft' \in Bundle /\ draft'.kind = Kind' /\ draft'.spoilt = "no" /\ ~draft'.manifest
  BY <1>0, <1>a, BlankIsABundle DEF Bundle
<1>1. Kinds'
  BY <1>b DEF Kinds, Tasks, Making
<1>2. Roles' /\ ChangesComeFirst'
  BY DEF Roles, ChangesComeFirst, None, Making
<1>3. Drafted'
  BY <1>b DEF Drafted, Making
<1>4. AllWhole' /\ Restored' /\ Dated'
  BY DEF AllWhole, Restored, Dated, Restoring, Safe
<1> QED BY <1>1, <1>2, <1>3, <1>4

\* A step that copies one more file.
LEMMA StepKeeps ==
  ASSUME BackupsInv, NEW at \in Making, NEW to \in Making, NEW bundle, Step(at, to, bundle),
         bundle \in Bundle, bundle.kind = draft.kind, bundle.spoilt = draft.spoilt, Drafted'
  PROVE  BackupsInv'
<1> USE DEF BackupsInv, Step
<1>1. Kinds'
  BY DEF Kinds, Tasks, Making
<1>2. Roles' /\ ChangesComeFirst'
  BY DEF Roles, ChangesComeFirst, Making, None
<1>3. AllWhole' /\ Restored' /\ Dated'
  BY DEF AllWhole, Restored, Dated, Restoring, Making, Safe
<1> QED BY <1>1, <1>2, <1>3

LEMMA ExportKeeps == ASSUME BackupsInv, Export PROVE BackupsInv'
<1> USE DEF BackupsInv
<1> DEFINE d == [draft EXCEPT !.pkg = File(col)]
<1>1. Step("export", "snapshot", d)
  BY DEF Export
<1>2. /\ d \in Bundle /\ d.kind = draft.kind /\ d.spoilt = draft.spoilt
      /\ d.manifest = draft.manifest /\ d.pkg = File(col)
  BY DEF Kinds, Bundle, Files
<1>3. Drafted'
  BY <1>1, <1>2 DEF Drafted, Making, Step, Kind
<1> QED BY <1>1, <1>2, <1>3, StepKeeps DEF Making

LEMMA SnapshotKeeps == ASSUME BackupsInv, Snapshot PROVE BackupsInv'
<1> USE DEF BackupsInv
<1> DEFINE d == [draft EXCEPT !.snap = File(col)]
<1>1. Step("snapshot", "receipts", d)
  BY DEF Snapshot
<1>2. /\ d \in Bundle /\ d.kind = draft.kind /\ d.spoilt = draft.spoilt
      /\ d.manifest = draft.manifest /\ d.pkg = draft.pkg /\ d.snap = File(col)
  BY DEF Kinds, Bundle, Files
<1>3. Drafted'
  BY <1>1, <1>2 DEF Drafted, Making, Step, Kind
<1> QED BY <1>1, <1>2, <1>3, StepKeeps DEF Making

LEMMA CopyReceiptsKeeps == ASSUME BackupsInv, CopyReceipts PROVE BackupsInv'
<1> USE DEF BackupsInv
<1> DEFINE d == [draft EXCEPT !.receipts = File(receipts)]
<1>1. Step("receipts", "manifest", d)
  BY DEF CopyReceipts
<1>2. /\ d \in Bundle /\ d.kind = draft.kind /\ d.spoilt = draft.spoilt
      /\ d.manifest = draft.manifest /\ d.pkg = draft.pkg /\ d.snap = draft.snap
      /\ d.receipts = File(receipts)
  BY DEF Kinds, Bundle, Files
<1>3. Drafted'
  BY <1>1, <1>2 DEF Drafted, Making, Step, Kind
<1> QED BY <1>1, <1>2, <1>3, StepKeeps DEF Making

LEMMA WriteManifestKeeps == ASSUME BackupsInv, WriteManifest PROVE BackupsInv'
<1> USE DEF BackupsInv
<1> DEFINE d == [draft EXCEPT !.manifest = TRUE, !.age = 0]
<1>1. Step("manifest", "verify", d)
  BY DEF WriteManifest
<1>2. /\ d \in Bundle /\ d.kind = draft.kind /\ d.spoilt = draft.spoilt
      /\ d.manifest = TRUE /\ d.age = 0
      /\ d.pkg = draft.pkg /\ d.snap = draft.snap /\ d.receipts = draft.receipts
  <2>1. draft \in Bundle /\ 0 \in Ages
    BY DEF Kinds, Ages
  <2> QED BY <2>1 DEF Bundle
<1>3. Drafted'
  BY <1>1, <1>2 DEF Drafted, Making, Step, Kind
<1> QED BY <1>1, <1>2, <1>3, StepKeeps DEF Making

\* What is on disk when the steps end is whole, finished or not.
LEMMA OnDiskIsWhole ==
  ASSUME BackupsInv
  PROVE  /\ OnDisk \in SUBSET Bundle /\ bundles \subseteq OnDisk
         /\ \A b \in OnDisk : Whole(b)
         /\ pc = "verify" => draft \in OnDisk
<1> USE DEF BackupsInv
<1>1. OnDisk \in SUBSET Bundle /\ bundles \subseteq OnDisk /\ (draft.manifest => draft \in OnDisk)
  BY DEF Kinds, OnDisk
<1>2. draft.manifest => Whole(draft)
  <2>1. draft.manifest => TakenAt(draft, col, receipts)
    BY DEF Drafted, TakenAt
  <2> QED BY <2>1 DEF Whole, Kinds, ChangesComeFirst
<1> QED BY <1>1, <1>2 DEF OnDisk, AllWhole, Drafted

LEMMA FinishKeeps == ASSUME BackupsInv, Finish PROVE BackupsInv'
<1> USE DEF BackupsInv, Finish
<1>1. /\ draft \in Bundle /\ draft \in bundles' /\ bundles' \in SUBSET Bundle
      /\ draft.age \in Ages /\ Delay(draft.age) \in Nat
  BY OnDiskIsWhole, TimesAssumption DEF Kinds, Bundle, Ages, Delay
<1>a. restore \in Restores /\ owner \in {None, "server", "tool"} /\ restore.op # None
      => /\ [restore EXCEPT !.step = "import"] \in Restores
         /\ [restore EXCEPT !.step = "import"].step = "import"
         /\ [restore EXCEPT !.step = "import"].op = restore.op
  BY DEF Restores, Restoring
<1>2. Kinds'
  <2>1. restore' \in Restores
    BY <1>a, BlankIsABundle DEF Kinds, None
  <2> QED BY <1>1, <2>1, BlankIsABundle DEF Kinds, Tasks
<1>3. Roles' /\ ChangesComeFirst'
  <2>1. CASE owner = "server"
    BY <2>1 DEF Roles, ChangesComeFirst, Making, None
  <2>2. CASE owner # "server" /\ restore.op = "restore"
    BY <1>a, <2>2 DEF Kinds, Roles, ChangesComeFirst, Making, Restoring, None
  <2>3. CASE owner # "server" /\ restore.op # "restore"
    BY <2>3, BlankIsABundle DEF Roles, ChangesComeFirst, Making, Restoring, None
  <2> QED BY <2>1, <2>2, <2>3
<1>4. Drafted'
  BY BlankIsABundle DEF Drafted, Making
<1>5. AllWhole'
  BY OnDiskIsWhole DEF AllWhole
<1>6. Restored'
  <2>1. CASE owner = "tool" /\ restore.op = "restore"
    <3>1. restore' = [restore EXCEPT !.step = "import"] /\ restore \in Restores
      BY <2>1 DEF None, Kinds
    <3>2. /\ restore'.step = "import" /\ restore'.op = "restore"
          /\ restore'.bundle = restore.bundle /\ restore'.found = col
      BY <2>1, <3>1 DEF Restores, Restored
    <3>3. PICK d \in bundles' : d = draft
      BY <1>1
    <3>4. d.kind = "pre-restore" /\ d.pkg = File(col)
      BY <2>1, <3>3 DEF Drafted, Making, Kind
    <3>5. Safe(d)'
      BY <3>2, <3>4 DEF Safe
    <3> QED BY <2>1, <3>2, <3>3, <3>5 DEF Restored, None
  <2>2. CASE owner = "tool" /\ restore.op # "restore"
    BY <2>2, BlankIsABundle DEF Restored, Restoring, None
  <2>3. CASE owner = "server"
    <3>1. restore' = restore /\ owner' = owner /\ target' = target /\ bundles \subseteq bundles'
      BY <2>3, OnDiskIsWhole
    <3> QED BY <2>3, <3>1 DEF Restored, Safe
  <2> QED BY <2>1, <2>2, <2>3 DEF Kinds, Roles, Making, None
<1>7. Dated'
  BY <1>1 DEF Dated, Dates, Drafted, Making, Kind, Verified, None
<1> QED BY <1>2, <1>3, <1>4, <1>5, <1>6, <1>7

LEMMA FailKeeps == ASSUME BackupsInv, Fail PROVE BackupsInv'
<1> USE DEF BackupsInv, Fail, FailsTo
<1>1. Kinds'
  BY OnDiskIsWhole, BlankIsABundle DEF Kinds, Tasks
<1>2. Roles' /\ ChangesComeFirst'
  <2>1. CASE owner = "server"
    BY <2>1 DEF Roles, ChangesComeFirst, Making, None
  <2>2. CASE owner # "server"
    BY <2>2, BlankIsABundle DEF Roles, ChangesComeFirst, Making, Restoring, None
  <2> QED BY <2>1, <2>2
<1>3. Drafted'
  BY BlankIsABundle DEF Drafted, Making
<1>4. AllWhole' /\ Dated'
  BY OnDiskIsWhole DEF AllWhole, Dated, None
<1>5. Restored'
  <2>1. CASE owner = "server"
    BY <2>1, OnDiskIsWhole DEF Restored, Safe
  <2>2. CASE owner # "server"
    BY <2>2, BlankIsABundle DEF Restored, Restoring, None
  <2> QED BY <2>1, <2>2
<1> QED BY <1>1, <1>2, <1>3, <1>4, <1>5

-----------------------------------------------------------------------------
(* The daily loop and the handlers. *)

LEMMA StartKeeps == ASSUME BackupsInv, Start PROVE BackupsInv'
<1> USE DEF BackupsInv, Start
<1> DEFINE Seen(b) == IF b.spoilt = "late" THEN [b EXCEPT !.spoilt = "yes"] ELSE b
<1>1. ASSUME NEW b \in Bundle
      PROVE  /\ Seen(b) \in Bundle /\ Seen(b).pkg = b.pkg /\ Seen(b).snap = b.snap
             /\ Seen(b).receipts = b.receipts /\ Seen(b).kind = b.kind
  BY DEF Bundle
<1>2. bundles' = {Seen(b) : b \in bundles}
  OBVIOUS
<1> HIDE DEF Seen
<1>a. bundles' \in SUBSET Bundle
  BY <1>1, <1>2 DEF Kinds
<1>b. last' \in Ages /\ pc' \in Tasks
  BY OldIsLater DEF Tasks, Ages
<1>3. Kinds'
  BY <1>a, <1>b DEF Kinds
<1>4. Roles' /\ ChangesComeFirst'
  BY DEF Roles, ChangesComeFirst, Making, None
<1>5. Drafted' /\ Dated'
  BY OldIsLater, BlankIsABundle DEF Drafted, Dated, Roles, Making, Kind, None
<1>7. Restored'
  <2>1. ASSUME NEW b \in bundles, Safe(b) PROVE \E d \in bundles' : Safe(d)'
    <3>1. b \in Bundle
      BY DEF Kinds
    <3> QED BY <1>1, <1>2, <2>1, <3>1 DEF Safe
  <2> QED BY <2>1 DEF Restored, None
<1>6. AllWhole'
  <2>1. ASSUME NEW b \in bundles PROVE Whole(Seen(b))
    <3>1. b \in Bundle /\ Whole(b)
      BY DEF Kinds, AllWhole
    <3> QED BY <1>1, <3>1 DEF Whole, TakenAt
  <2> QED BY <1>2, <2>1 DEF AllWhole
<1> QED BY <1>3, <1>4, <1>5, <1>6, <1>7

\* Of the ages of bundles one is the least.
LEMMA YoungestExists ==
  ASSUME NEW bs \in SUBSET Bundle, bs # {}
  PROVE  \E b \in bs : \A c \in bs : b.age <= c.age
<1> DEFINE Below == {ss \in Nat \X Nat : ss[1] < ss[2]}
           counts == {b.age + 1 : b \in bs}
<1>1. OpToRel(<, Nat) = Below
  BY DEF OpToRel
<1>2. IsWellFoundedOn(OpToRel(<, Nat), Nat)
  BY NatLessThanWellFounded
<1>3. IsWellFoundedOn(Below, Nat)
  BY <1>1, <1>2
<1>4. counts \subseteq Nat /\ counts # {}
  BY DEF Bundle, Ages
<1> HIDE DEF Below
<1>5. PICK x \in counts : \A y \in counts : <<y, x>> \notin Below
  BY <1>3, <1>4, WFMin
<1>6. PICK b \in bs : x = b.age + 1
  OBVIOUS
<1>7. \A c \in bs : c.age \in Int /\ c.age + 1 \in counts /\ ~(c.age + 1 < x)
  BY <1>4, <1>5 DEF Below, Bundle, Ages
<1> QED BY <1>6, <1>7, SMTT(30)

LEMMA ScanKeeps == ASSUME BackupsInv, Scan PROVE BackupsInv'
<1> USE DEF BackupsInv, Scan
<1>1. CASE Counting(bundles) = {}
  <2>1. last' = Old /\ wait' = Delay(Old)
    BY <1>1
  <2>2. Kinds'
    BY <2>1, OldIsLater, TimesAssumption DEF Kinds, Tasks, Ages, Delay
  <2>3. Dated'
    BY <2>1, OldIsLater DEF Dated
  <2> QED BY <2>2, <2>3 DEF Roles, ChangesComeFirst, Drafted, AllWhole, Restored, Safe, Making, Restoring, Kind
<1>2. CASE Counting(bundles) # {}
  <2>1. Counting(bundles) \in SUBSET Bundle /\ Counting(bundles) \in SUBSET bundles
    BY DEF Counting, Kinds
  <2>2. PICK b \in Counting(bundles) : last' = b.age
    BY <1>2, <2>1, YoungestExists
  <2>3. b \in bundles /\ last' \in Ages /\ Delay(last') \in Nat
    BY <2>1, <2>2, TimesAssumption DEF Bundle, Ages, Delay
  <2>4. Kinds'
    BY <2>3 DEF Kinds, Tasks
  <2>5. Dated'
    BY <2>2, <2>3 DEF Dated, Dates, Counting, Verified
  <2> QED BY <2>4, <2>5 DEF Roles, ChangesComeFirst, Drafted, AllWhole, Restored, Safe, Making, Restoring, Kind
<1> QED BY <1>1, <1>2

LEMMA WakeKeeps == ASSUME BackupsInv, Wake PROVE BackupsInv'
<1> USE DEF BackupsInv, Wake
<1>1. Kinds'
  BY TimesAssumption DEF Kinds, Tasks, Ages, Delay
<1>2. Roles' /\ ChangesComeFirst' /\ Drafted'
  BY DEF Roles, ChangesComeFirst, Drafted, Making, Restoring, Kind, None
<1>3. AllWhole' /\ Restored' /\ Dated'
  BY DEF AllWhole, Restored, Dated, Restoring, Making, Safe
<1> QED BY <1>1, <1>2, <1>3

\* No bundle is being made when a handler changes the collection; a restore that
\* goes on has its backup of what it found.
LEMMA ChangeKeeps == ASSUME BackupsInv, NEW c \in Changes, Change(c) PROVE BackupsInv'
<1> USE DEF BackupsInv, Change, Changed
<1>1. Kinds'
  BY DEF Kinds
<1>2. Roles' /\ ChangesComeFirst'
  BY DEF Roles, ChangesComeFirst
<1>3. Drafted' /\ AllWhole' /\ Dated'
  BY DEF Drafted, AllWhole, Dated, Making, Kind
<1>4. Restored'
  BY DEF Restored, Safe
<1> QED BY <1>1, <1>2, <1>3, <1>4

LEMMA ReceiptKeeps == ASSUME BackupsInv, Receipt PROVE BackupsInv'
<1> USE DEF BackupsInv, Receipt
<1>1. Kinds'
  BY DEF Kinds
<1>2. Roles' /\ ChangesComeFirst'
  BY DEF Roles, ChangesComeFirst
<1>3. Drafted' /\ AllWhole' /\ Dated'
  BY DEF Roles, Drafted, AllWhole, Dated, Making, Kind
<1>4. Restored'
  BY DEF Restored, Safe
<1> QED BY <1>1, <1>2, <1>3, <1>4

-----------------------------------------------------------------------------
(* The tool. *)

\* The tool is started for a bundle that is whole, or for none.
LEMMA ApplyKeeps ==
  ASSUME BackupsInv, NEW op \in {"backup", "restore"}, NEW b \in Bundle, Apply(op, b),
         op = "restore" => Whole(b)
  PROVE  BackupsInv'
<1> USE DEF BackupsInv, Apply
<1>1. Kinds'
  <2>1. restore' \in Restores /\ pc' \in Tasks
    BY DEF Tasks, Restores, Kinds
  <2> QED BY <2>1 DEF Kinds
<1>2. Roles' /\ ChangesComeFirst'
  BY DEF Roles, ChangesComeFirst, Making, Restoring, None
<1>3. Drafted' /\ AllWhole' /\ Dated'
  BY DEF Drafted, Roles, AllWhole, Dated, Making, None
<1>4. Restored'
  BY DEF Restored, Restoring
<1> QED BY <1>1, <1>2, <1>3, <1>4

LEMMA BackupKeeps == ASSUME BackupsInv, Backup PROVE BackupsInv'
BY ApplyKeeps, BlankIsABundle DEF Backup

LEMMA RestoreKeeps == ASSUME BackupsInv, NEW b \in bundles, Restore(b) PROVE BackupsInv'
<1>1. b \in Bundle /\ Whole(b)
  BY DEF BackupsInv, Kinds, AllWhole
<1> QED BY <1>1, ApplyKeeps DEF Restore

\* Steps of a restore only write into its target.
LEMMA RestoreStepKeeps ==
  ASSUME BackupsInv, NEW at \in Restoring, NEW to \in Restoring, NEW t, RestoreStep(at, to, t),
         t \in Targets,
         to \in {"unpack", "report"} => t.col = restore.bundle.snap,
         to = "report" => \/ t.receipts = restore.bundle.receipts
                          \/ t.receipts = Garbled /\ "receipts" \in restore.damaged
  PROVE  BackupsInv'
<1> USE DEF BackupsInv, RestoreStep
<1>1. /\ restore' \in Restores /\ restore'.step = to /\ restore'.op = restore.op
      /\ restore'.bundle = restore.bundle /\ restore'.found = restore.found
      /\ restore'.damaged = restore.damaged
  BY DEF Restores, Kinds
<1>2. restore.op = "restore" /\ owner # "tool" /\ to # "backup" /\ to # None
  BY DEF Roles, Restoring, None
<1>3. Kinds'
  BY <1>1 DEF Kinds
<1>4. Roles' /\ ChangesComeFirst'
  BY <1>1, <1>2 DEF Roles, ChangesComeFirst, None
<1>5. Drafted' /\ AllWhole' /\ Dated'
  BY <1>1 DEF Drafted, AllWhole, Dated, Kind
<1>6. Restored'
  BY <1>1, <1>2 DEF Restored, Safe
<1> QED BY <1>3, <1>4, <1>5, <1>6

LEMMA RestoreStepsKeep ==
  ASSUME BackupsInv, Import \/ Compare \/ Unpack
  PROVE  BackupsInv'
<1>0. target \in Targets /\ restore.bundle \in Bundle
  BY DEF BackupsInv, Kinds, Restores
<1>1. CASE Import
  <2>1. PICK c \in Files : RestoreStep("import", "compare", [target EXCEPT !.there = TRUE, !.col = c])
    BY <1>0, <1>1 DEF Import, Files, Bundle
  <2>2. [target EXCEPT !.there = TRUE, !.col = c] \in Targets
    BY <1>0 DEF Targets
  <2> QED BY <2>1, <2>2, RestoreStepKeeps DEF Restoring
<1>2. CASE Compare
  BY <1>0, <1>2, RestoreStepKeeps DEF Compare, Restoring
<1>3. CASE Unpack
  <2> DEFINE what == IF "receipts" \in restore.damaged THEN Garbled ELSE restore.bundle.receipts
             t == [target EXCEPT !.receipts = what]
  <2>1. what \in Files \cup {Garbled}
    BY <1>0 DEF Bundle
  <2>2. t \in Targets /\ t.col = target.col /\ t.receipts = what
    BY <1>0, <2>1 DEF Targets
  <2>3. restore.step = "unpack" /\ target.col = restore.bundle.snap
    BY <1>3 DEF Unpack, RestoreStep, BackupsInv, Restored
  <2>4. RestoreStep("unpack", "report", t)
    BY <1>3 DEF Unpack
  <2> QED BY <2>2, <2>3, <2>4, RestoreStepKeeps DEF Restoring
<1> QED BY <1>1, <1>2, <1>3

\* The tool ends with its restore.
LEMMA EndKeeps == ASSUME BackupsInv, Report \/ GiveUp PROVE BackupsInv'
<1> USE DEF BackupsInv
<1>1. /\ restore.step \in Restoring /\ restore' = Nothing
      /\ UNCHANGED <<owner, pc, wait, last, failed, lesson, col, receipts, draft, bundles>>
      /\ target' \in {Blocked(TRUE), Blocked(FALSE), target}
  BY DEF Report, GiveUp, Restoring
<1>2. \A r \in BOOLEAN : Blocked(r) \in Targets
  BY DEF Blocked, Files, Targets
<1>3. owner # "tool"
  BY <1>1 DEF Roles, Restoring
<1>4. Kinds'
  BY <1>1, <1>2, BlankIsABundle DEF Kinds
<1>5. Roles' /\ ChangesComeFirst'
  BY <1>1, <1>3, BlankIsABundle DEF Roles, ChangesComeFirst, Restoring, None
<1>6. Drafted'
  <2>1. pc \in Making => Kind' = Kind
    BY <1>1, <1>3 DEF Kind, Roles, Kinds, Making, None
  <2> QED BY <1>1, <2>1 DEF Drafted, Making
<1>7. AllWhole' /\ Dated' /\ Restored'
  BY <1>1, <1>3, BlankIsABundle DEF AllWhole, Dated, Restored, Restoring, None
<1> QED BY <1>4, <1>5, <1>6, <1>7

LEMMA DiscardKeeps == ASSUME BackupsInv, Discard PROVE BackupsInv'
<1> USE DEF BackupsInv, Discard
<1>1. Kinds'
  <2>1. NoTarget \in Targets
    BY DEF NoTarget, Files, Targets
  <2> QED BY <2>1 DEF Kinds
<1>2. Roles' /\ ChangesComeFirst' /\ Drafted' /\ AllWhole' /\ Dated'
  BY DEF Roles, ChangesComeFirst, Drafted, AllWhole, Dated, Kind
<1>3. Restored'
  BY DEF Restored, Roles, Restoring, Safe
<1> QED BY <1>1, <1>2, <1>3

-----------------------------------------------------------------------------
(* Faults and time. *)

LEMMA CrashKeeps == ASSUME BackupsInv, Crash PROVE BackupsInv'
<1> USE DEF BackupsInv, Crash
<1>1. last' \in Ages /\ pc' \in Tasks /\ wait' \in Nat
  BY OldIsLater DEF Ages, Tasks
<1>2. Kinds'
  BY <1>1, OnDiskIsWhole, BlankIsABundle DEF Kinds
<1>3. Roles' /\ ChangesComeFirst'
  BY BlankIsABundle DEF Roles, ChangesComeFirst, Making, Restoring, None
<1>4. Drafted' /\ AllWhole' /\ Dated'
  BY OnDiskIsWhole, BlankIsABundle DEF Drafted, AllWhole, Dated, Making, None
<1>5. Restored'
  <2>1. CASE owner = "tool"
    BY <2>1, BlankIsABundle DEF Restored, Restoring, None
  <2>2. CASE owner # "tool"
    BY <2>2, OnDiskIsWhole DEF Restored, Safe, None
  <2> QED BY <2>1, <2>2
<1> QED BY <1>2, <1>3, <1>4, <1>5

LEMMA SpoilKeeps == ASSUME BackupsInv, Spoil PROVE BackupsInv'
<1> USE DEF BackupsInv
<1> DEFINE how == IF owner = "server" THEN "late" ELSE "yes"
<1>1. PICK b \in bundles : bundles' = (bundles \ {b}) \cup {[b EXCEPT !.spoilt = how]}
  BY DEF Spoil
<1>2. PICK d : d = [b EXCEPT !.spoilt = how]
  OBVIOUS
<1>3. /\ d \in Bundle /\ d.kind = b.kind /\ d.age = b.age /\ d.pkg = b.pkg /\ d.snap = b.snap
      /\ d.receipts = b.receipts /\ d.spoilt = how
  BY <1>2 DEF Kinds, Bundle
<1>4. bundles' = (bundles \ {b}) \cup {d}
  BY <1>1, <1>2
<1>a. /\ restore' \in Restores /\ restore'.step = restore.step /\ restore'.op = restore.op
      /\ restore'.bundle = restore.bundle /\ restore'.found = restore.found
      /\ restore.damaged \subseteq restore'.damaged
  <2>1. \/ restore' = restore
        \/ \E what \in {"package", "receipts"} : restore' = [restore EXCEPT !.damaged = @ \cup {what}]
    BY DEF Spoil
  <2>2. restore \in Restores
    BY DEF Kinds
  <2> QED BY <2>1, <2>2 DEF Restores
<1>5. Kinds'
  BY <1>3, <1>4, <1>a DEF Kinds, Spoil
<1>6. Roles' /\ ChangesComeFirst' /\ Drafted'
  BY <1>a DEF Roles, ChangesComeFirst, Drafted, Kind, Spoil
<1>7. AllWhole'
  BY <1>3, <1>4 DEF AllWhole, Whole, TakenAt
<1>8. Restored'
  <2>1. UNCHANGED <<owner, col, target>>
    BY DEF Spoil
  <2>2. ASSUME NEW c \in bundles, Safe(c) PROVE \E e \in bundles' : Safe(e)'
    BY <1>3, <1>4, <1>a, <2>2 DEF Safe
  <2> QED BY <1>a, <2>1, <2>2 DEF Restored
<1>9. Dated'
  BY <1>3, <1>4 DEF Dated, Dates, Spoil
<1> QED BY <1>5, <1>6, <1>7, <1>8, <1>9

\* The age of what is there after time has passed, or was set back.
Later(a, by) == IF a >= Old \/ a + by < -1 THEN a ELSE a + by

LEMMA LaterFacts ==
  ASSUME NEW a \in Ages, NEW by \in {1, -1}
  PROVE  /\ Later(a, by) \in Ages
         /\ Later(a, by) < Old => a < Old
BY OldIsLater DEF Ages, Later

\* Time touches no file, and a daily bundle is kept while it is of interest.
LEMMA AgedKeeps ==
  ASSUME BackupsInv, NEW by \in {1, -1}, Aged(by), wait' \in Nat, restore.op # "restore"
  PROVE  BackupsInv'
<1> USE DEF BackupsInv
<1> DEFINE aged(b) == IF b.kind = "daily" THEN [b EXCEPT !.age = Later(@, by)] ELSE b
           stays(b) == IF b.kind = "daily" THEN b.age < Old /\ b.spoilt # "yes" ELSE by < 0
<1>1. /\ last' = Later(last, by) /\ draft' = IF draft.manifest THEN aged(draft) ELSE draft
      /\ bundles' = {b \in {aged(b) : b \in bundles} : stays(b)}
      /\ UNCHANGED <<owner, pc, failed, lesson, col, receipts, restore, target>>
  BY DEF Aged, Later
<1>2. ASSUME NEW b \in Bundle
      PROVE  /\ aged(b) \in Bundle /\ aged(b).kind = b.kind
             /\ b.kind = "daily" => aged(b).age = Later(b.age, by)
             /\ aged(b).pkg = b.pkg /\ aged(b).snap = b.snap /\ aged(b).receipts = b.receipts
             /\ aged(b).manifest = b.manifest /\ aged(b).spoilt = b.spoilt
  BY LaterFacts DEF Bundle
<1> HIDE DEF aged
<1>3. ASSUME NEW b \in bundles
      PROVE  b \in Bundle /\ Whole(b) /\ Whole(aged(b))
  BY <1>2 DEF Kinds, AllWhole, Whole, TakenAt
<1>4. Kinds'
  <2>1. last' \in Ages /\ draft' \in Bundle /\ bundles' \in SUBSET Bundle
    BY <1>1, <1>2, <1>3, LaterFacts DEF Kinds
  <2> QED BY <1>1, <2>1 DEF Kinds
<1>5. Roles' /\ ChangesComeFirst'
  BY <1>1 DEF Roles, ChangesComeFirst
<1>6. Drafted'
  <2>1. CASE pc = "verify"
    <3>1. draft \in Bundle /\ draft.manifest
      BY <2>1 DEF Kinds, Drafted
    <3>2. draft' = aged(draft) /\ Kind' = Kind /\ pc' = pc /\ owner' = owner
      BY <1>1, <3>1 DEF Kind
    <3> QED BY <1>1, <1>2, <2>1, <3>1, <3>2 DEF Drafted, Making
  <2>2. CASE pc # "verify"
    BY <1>1, <2>2 DEF Drafted, Kind, Making
  <2> QED BY <2>1, <2>2
<1>7. AllWhole'
  BY <1>1, <1>3 DEF AllWhole
<1>8. Restored'
  BY <1>1 DEF Restored, Roles
<1>9. Dated'
  <2> SUFFICES ASSUME owner = "server", last' < Old
               PROVE  \E b \in bundles' : Dates(b, last')
    BY <1>1 DEF Dated
  <2>1. last < Old
    BY <1>1, LaterFacts DEF Kinds
  <2>2. PICK b \in bundles : Dates(b, last)
    BY <2>1 DEF Dated
  <2>3. PICK d : d = aged(b)
    OBVIOUS
  <2>4. Dates(d, last')
    BY <1>1, <1>2, <1>3, <2>2, <2>3 DEF Dates
  <2>5. d \in bundles'
    BY <1>1, <2>3, <2>4 DEF Dates, None
  <2> QED BY <2>4, <2>5
<1> QED BY <1>4, <1>5, <1>6, <1>7, <1>8, <1>9

LEMMA TimeKeeps == ASSUME BackupsInv, Tick \/ SetBack PROVE BackupsInv'
<1>1. CASE Tick
  <2>1. wait' \in Nat
    BY <1>1 DEF Tick, BackupsInv, Kinds
  <2> QED BY <1>1, <2>1, AgedKeeps DEF Tick, None
<1>2. CASE SetBack
  <2>1. wait' \in Nat
    BY <1>2 DEF SetBack, BackupsInv, Kinds
  <2> QED BY <1>2, <2>1, AgedKeeps DEF SetBack
<1> QED BY <1>1, <1>2

-----------------------------------------------------------------------------
LEMMA InvNext == ASSUME BackupsInv, [Next]_vars PROVE BackupsInv'
<1>1. ASSUME Next PROVE BackupsInv'
  BY <1>1, BeginKeeps, ExportKeeps, SnapshotKeeps, CopyReceiptsKeeps, WriteManifestKeeps,
     FinishKeeps, FailKeeps, StartKeeps, ScanKeeps, WakeKeeps, ChangeKeeps, ReceiptKeeps,
     BackupKeeps, RestoreKeeps, RestoreStepsKeep, EndKeeps, DiscardKeeps, CrashKeeps,
     SpoilKeeps, TimeKeeps DEF Next
<1>2. ASSUME UNCHANGED vars PROVE BackupsInv'
  BY <1>2 DEF vars, BackupsInv, Kinds, Roles, ChangesComeFirst, Drafted, Kind, AllWhole, Restored, Safe, Dated
<1> QED BY <1>1, <1>2

\* Every state has the files, the ages and the roles that the code gives them.
THEOREM BackupsKeepTheirShape == Spec => []BackupsInv
<1>1. BackupsInv /\ [Next]_vars => BackupsInv'
  BY InvNext
<1> QED BY InvInit, <1>1, PTL DEF Spec

\* A bundle that verifies was taken at one moment, whenever the server or the
\* tool died, failed, or imported lessons around it (operations.py:81-109).
THEOREM BundlesStayWhole == Spec => []BundlesAreWhole
<1>1. BackupsInv => BundlesAreWhole
  BY FileFacts DEF BackupsInv, AllWhole, Whole, TakenAt, BundlesAreWhole
<1> QED BY BackupsKeepTheirShape, <1>1, PTL

\* Health is reported only with a recent complete daily bundle on disk, also
\* after the wall clock was set back (operations.py:54-60, 77-78).
THEOREM HealthStaysTrue == Spec => []HealthIsTrue
<1>1. BackupsInv => HealthIsTrue
  <2> SUFFICES ASSUME BackupsInv, owner = "server", Healthy PROVE HealthIsTrue
    BY DEF HealthIsTrue
  <2>1. 0 <= last /\ last < Old
    BY OldIsLater DEF Healthy
  <2>2. PICK b \in bundles : Dates(b, last)
    BY <2>1 DEF BackupsInv, Dated
  <2> QED BY <2>1, <2>2, OldIsLater DEF HealthIsTrue, Dates
<1> QED BY BackupsKeepTheirShape, <1>1, PTL

\* A restore is reported only when its target holds what a whole bundle held,
\* and what the tool found is in a bundle as well, even if a server changes the
\* collection meanwhile, or the bundle is damaged; only receipts may be damaged
\* unnoticed (tools/maintenance.py:38-70).
THEOREM ReportsStayTrue == Spec => ReportsAreTrue
<1> DEFINE ReportIsTrue ==
      ~target.report /\ target'.report =>
        /\ target.col = restore.bundle.pkg
        /\ \/ target.receipts = restore.bundle.receipts /\ target.receipts[1] \subseteq target.col[1]
           \/ target.receipts = Garbled /\ "receipts" \in restore.damaged
        /\ \E b \in bundles : b.kind = "pre-restore" /\ b.pkg = File(restore.found)
<1>1. BackupsInv /\ [Next]_vars => [ReportIsTrue]_target
  <2> SUFFICES ASSUME BackupsInv, Next, ~target.report, target'.report
               PROVE  ReportIsTrue
    BY DEF vars
  <2>1. Report
    <3>1. CASE \/ Begin \/ Export \/ Snapshot \/ CopyReceipts \/ WriteManifest \/ Finish \/ Fail
               \/ Start \/ Scan \/ Wake
               \/ (\E c \in Changes : Change(c)) \/ Receipt
               \/ Backup \/ (\E b \in bundles : Restore(b))
               \/ Crash \/ Spoil \/ Tick \/ SetBack
      <4>1. target' = target
        BY <3>1 DEF Begin, Export, Snapshot, CopyReceipts, WriteManifest, Step, Finish, Fail, FailsTo,
             Start, Scan, Wake, Change, Changed, Receipt, Backup, Restore, Apply, Crash, Spoil, Tick,
             SetBack, Aged
      <4> QED BY <4>1
    <3>2. CASE Import \/ Compare \/ Unpack
      <4>1. target'.report = target.report
        BY <3>2 DEF Import, Compare, Unpack, RestoreStep, BackupsInv, Kinds, Targets
      <4> QED BY <4>1
    <3>3. CASE GiveUp \/ Discard
      <4>1. target'.report = target.report \/ target'.report = FALSE
        BY <3>3 DEF GiveUp, Discard, Blocked, NoTarget
      <4> QED BY <4>1
    <3> QED BY <3>1, <3>2, <3>3 DEF Next
  <2>2. restore.step = "report" /\ restore.op = "restore"
    BY <2>1 DEF Report, BackupsInv, Roles, Restoring
  <2>3. /\ target.col = restore.bundle.snap /\ Whole(restore.bundle) /\ \E b \in bundles : Safe(b)
        /\ \/ target.receipts = restore.bundle.receipts
           \/ target.receipts = Garbled /\ "receipts" \in restore.damaged
    BY <2>2 DEF BackupsInv, Restored, Restoring
  <2> QED BY <2>3, FileFacts DEF Whole, TakenAt, Safe
<1> QED BY BackupsKeepTheirShape, <1>1, PTL DEF Spec, ReportsAreTrue
=============================================================================

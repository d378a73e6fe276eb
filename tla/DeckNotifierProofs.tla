------------------------- MODULE DeckNotifierProofs -------------------------
(***************************************************************************)
(* What the notifier keeps of its receivers, for any decks, counts,        *)
(* addresses, edits and restarts.  The invariant says that the address of  *)
(* the baseline is the one the task works with, and what is known of the   *)
(* payload once the receiver has answered.                                 *)
(***************************************************************************)
EXTENDS DeckNotifier, TLAPS

USE NotifierAssumption

Config == [on : BOOLEAN, url : Url, scope : Scope, edit : Nat]
PcValues == {"start", "idle", "waiting", "fetching", "fetched", "posting", "answered"}

\* Counts of some of the decks.
Known(b) == DOMAIN b \subseteq Deck /\ b \in [DOMAIN b -> Due]

Kinds ==
  /\ tree \in [Deck -> Node]
  /\ conf \in Config /\ saved \in Config /\ cfg \in Config
  /\ changed \in BOOLEAN /\ resync \in BOOLEAN /\ lost \in BOOLEAN
  /\ Known(baseline) /\ Known(current) /\ Known(payload)
  /\ sig \in {NoSig} \cup [url : Url, scope : Scope]
  /\ pc \in PcValues
  /\ heard \in [Url -> [Deck -> Due]]
  /\ edits \in Nat /\ moves \in Nat /\ restarts \in Nat
  /\ promised \in Nat /\ seen \in Nat

Busy == {"fetching", "fetched", "posting", "answered"}

\* The task works with the configuration whose address the baseline is of.
OneAddress ==
  /\ pc \in Busy => sig = [url |-> cfg.url, scope |-> cfg.scope] /\ cfg.on
  /\ DOMAIN baseline # {} => sig.url \in Url
  /\ pc \notin {"posting", "answered"} => payload = Empty

\* What the receiver has answered to, it has applied.
AnsweredIsApplied ==
  pc = "answered" => \A d \in DOMAIN payload : heard[cfg.url][d] = payload[d]

NotifierInv == Kinds /\ OneAddress /\ AnsweredIsApplied /\ BaselineWasHeard

-----------------------------------------------------------------------------
LEMMA EmptyFacts == DOMAIN Empty = {} /\ Known(Empty)
BY DEF Empty, Known

LEMMA DefaultIsAConfig == Default \in Config
<1>1. (CHOOSE u \in Url : TRUE) \in Url
  OBVIOUS
<1> QED BY <1>1 DEF Default, Config, Scope

LEMMA SettingIsAConfig ==
  ASSUME NEW on \in BOOLEAN, NEW t \in Targets, NEW n \in Nat
  PROVE  Setting(on, t, n) \in Config
BY DEF Setting, Config, Scope

LEMMA InvInit == Init => NotifierInv
<1> SUFFICES ASSUME Init PROVE NotifierInv
  OBVIOUS
<1> USE DEF Init
<1>1. conf \in Config /\ cfg \in Config
  <2>1. conf = Default \/ \E t \in Targets : conf = Setting(TRUE, t, 0)
    OBVIOUS
  <2>2. \A t \in Targets : Setting(TRUE, t, 0) \in Config
    BY SettingIsAConfig
  <2> QED BY <2>1, <2>2, DefaultIsAConfig
<1>2. tree \in [Deck -> Node] /\ heard \in [Url -> [Deck -> Due]]
  <2>1. 0 \in Due /\ MaxDue \in Due
    BY DEF Due
  <2> QED BY <2>1 DEF Node
<1>3. Kinds
  BY <1>1, <1>2, EmptyFacts DEF Kinds, PcValues
<1>4. OneAddress /\ AnsweredIsApplied /\ BaselineWasHeard
  BY EmptyFacts DEF OneAddress, AnsweredIsApplied, BaselineWasHeard, Busy
<1> QED BY <1>3, <1>4 DEF NotifierInv

-----------------------------------------------------------------------------
(* What a cycle computes. *)

LEMMA CountsAreKnown ==
  ASSUME Kinds, NEW scope PROVE Known(Counts(tree, scope))
BY DEF Kinds, Node, Known, Counts, Watched

LEMMA ChangesAreKnown ==
  ASSUME NEW b, NEW cur, Known(b), Known(cur)
  PROVE  Known(Changes(b, cur))
BY DEF Known, Changes, Differing, ToZero, Gone, Due

LEMMA AckedFacts ==
  ASSUME NEW b, NEW cur, NEW sent, Known(b), Known(cur), Known(sent)
  PROVE  /\ Known(Acked(b, cur, sent))
         /\ DOMAIN Acked(b, cur, sent) \subseteq DOMAIN b \cup DOMAIN sent
         /\ \A d \in DOMAIN Acked(b, cur, sent) :
              Acked(b, cur, sent)[d] = IF d \in DOMAIN sent THEN sent[d] ELSE b[d]
BY DEF Known, Acked

LEMMA RestrictFacts ==
  ASSUME NEW b, Known(b), NEW S \in SUBSET DOMAIN b
  PROVE  /\ Known(Restrict(b, S)) /\ DOMAIN Restrict(b, S) = S
         /\ \A d \in S : Restrict(b, S)[d] = b[d]
BY DEF Known, Restrict

\* Once a post is acknowledged, the baseline gives every deck the counts of the
\* snapshot it was computed from: what changed, what is gone and what came back
\* (notifier.py:198-249).
THEOREM AckedIsTheSnapshot ==
  ASSUME NEW b, NEW cur, Known(b), Known(cur), NEW d \in Deck
  PROVE  Acknowledged(Acked(b, cur, Changes(b, cur)), d) = Acknowledged(cur, d)
<1> DEFINE sent == Changes(b, cur)
           acked == Acked(b, cur, sent)
<1>1. /\ DOMAIN sent = Differing(b, cur) \cup ToZero(b, cur)
      /\ \A e \in DOMAIN sent : sent[e] = IF e \in DOMAIN cur THEN cur[e] ELSE 0
  BY DEF Changes
<1>2. /\ DOMAIN acked = (DOMAIN b \cup DOMAIN sent) \ (DOMAIN sent \ DOMAIN cur)
      /\ \A e \in DOMAIN acked : acked[e] = IF e \in DOMAIN sent THEN sent[e] ELSE b[e]
  BY DEF Acked
<1> SUFFICES Acknowledged(acked, d) = Acknowledged(cur, d)
  OBVIOUS
<1> HIDE DEF sent, acked
<1>3. d \in DOMAIN sent <=> IF d \in DOMAIN cur THEN cur[d] # Acknowledged(b, d)
                            ELSE d \in DOMAIN b /\ b[d] # 0
  BY <1>1 DEF Differing, ToZero, Gone
<1>4. CASE d \in DOMAIN sent
  BY <1>1, <1>2, <1>4 DEF Acknowledged
<1>5. CASE d \notin DOMAIN sent
  BY <1>2, <1>3, <1>5 DEF Acknowledged
<1> QED BY <1>4, <1>5

-----------------------------------------------------------------------------
(* The task. *)

LEMMA CycleKeeps == ASSUME NotifierInv, Cycle PROVE NotifierInv'
<1> USE DEF NotifierInv, Cycle, world, bounds
<1>0. pc \notin Busy /\ payload = Empty /\ pc # "answered"
  BY DEF OneAddress, Busy
<1>1. CASE conf.on
  <2>1. /\ sig' = [url |-> conf.url, scope |-> conf.scope] /\ cfg' = conf /\ pc' = "fetching"
        /\ baseline' = Empty \/ (baseline' = baseline /\ sig' = sig)
    BY <1>1 DEF Rebaselines
  <2>2. Kinds'
    BY <1>1, <2>1, EmptyFacts DEF Kinds, PcValues, Config
  <2>3. OneAddress' /\ AnsweredIsApplied'
    BY <1>0, <1>1, <2>1, EmptyFacts DEF OneAddress, AnsweredIsApplied, Busy, Kinds, Config
  <2>4. BaselineWasHeard'
    BY <1>0, <2>1, EmptyFacts DEF BaselineWasHeard
  <2> QED BY <2>2, <2>3, <2>4
<1>2. CASE ~conf.on
  <2>1. Kinds'
    BY <1>2, EmptyFacts DEF Kinds, PcValues, Config
  <2>2. OneAddress' /\ AnsweredIsApplied' /\ BaselineWasHeard'
    BY <1>0, <1>2, EmptyFacts DEF OneAddress, AnsweredIsApplied, BaselineWasHeard, Busy
  <2> QED BY <2>1, <2>2
<1> QED BY <1>1, <1>2

LEMMA FetchKeeps == ASSUME NotifierInv, Fetch PROVE NotifierInv'
<1> USE DEF NotifierInv, Fetch, edited, world, bounds, ghosts
<1>1. Kinds'
  BY CountsAreKnown DEF Kinds, PcValues
<1>2. OneAddress' /\ AnsweredIsApplied' /\ BaselineWasHeard'
  BY DEF OneAddress, AnsweredIsApplied, BaselineWasHeard, Busy
<1> QED BY <1>1, <1>2

\* A cycle that ends without an answer, or whose answer is lost, leaves of the
\* baseline what it had.
LEMMA RestKeeps ==
  ASSUME NotifierInv, Rest, pc # "answered" \/ lost',
         lost' \in BOOLEAN, lost => lost',
         UNCHANGED <<edited, sig, world, bounds, promised, seen>>,
         Known(baseline'), DOMAIN baseline' \subseteq DOMAIN baseline,
         \A d \in DOMAIN baseline' : baseline'[d] = baseline[d]
  PROVE  NotifierInv'
<1> USE DEF NotifierInv, Rest, edited, world, bounds
<1>1. Kinds'
  BY EmptyFacts, DefaultIsAConfig DEF Kinds, PcValues
<1>2. OneAddress' /\ AnsweredIsApplied'
  BY DEF OneAddress, AnsweredIsApplied, Busy
<1>3. BaselineWasHeard'
  BY DEF BaselineWasHeard
<1> QED BY <1>1, <1>2, <1>3

LEMMA FailuresKeep == ASSUME NotifierInv, FetchFails \/ PostFails PROVE NotifierInv'
<1>1. Known(baseline) /\ lost \in BOOLEAN
  BY DEF NotifierInv, Kinds
<1> QED BY <1>1, RestKeeps DEF FetchFails, PostFails, ghosts

LEMMA ConsiderKeeps == ASSUME NotifierInv, Consider PROVE NotifierInv'
<1> USE DEF NotifierInv
<1> DEFINE silent == Gone(baseline, current) \ ToZero(baseline, current)
           kept == Restrict(baseline, DOMAIN baseline \ silent)
           todo == Changes(baseline, current)
<1>1. Known(baseline) /\ Known(current) /\ pc = "fetched"
  BY DEF Kinds, Consider
<1>2. /\ Known(kept) /\ DOMAIN kept \subseteq DOMAIN baseline
      /\ \A d \in DOMAIN kept : kept[d] = baseline[d]
  BY <1>1, RestrictFacts
<1>3. Known(todo)
  BY <1>1, ChangesAreKnown
<1>4. baseline' = kept /\ UNCHANGED <<edited, sig, world, bounds, ghosts>>
  BY DEF Consider
<1>5. CASE Rest
  <2>1. lost' = lost /\ promised' = promised /\ seen' = seen /\ lost \in BOOLEAN
    BY <1>4 DEF ghosts, Kinds
  <2> HIDE DEF kept, todo, NotifierInv
  <2>2. NotifierInv
    BY DEF NotifierInv
  <2> QED BY <1>1, <1>2, <1>4, <1>5, <2>1, <2>2, RestKeeps
<1>6. CASE pc' = "posting" /\ payload' = todo /\ UNCHANGED <<cfg, current>>
  <2> HIDE DEF kept, todo
  <2> USE <1>4, <1>6 DEF edited, world, bounds, ghosts
  <2>1. Kinds'
    BY <1>2, <1>3 DEF Kinds, PcValues
  <2>2. OneAddress' /\ AnsweredIsApplied'
    BY <1>1, <1>2 DEF OneAddress, AnsweredIsApplied, Busy
  <2>3. BaselineWasHeard'
    BY <1>1, <1>2 DEF BaselineWasHeard
  <2> QED BY <2>1, <2>2, <2>3
<1> QED BY <1>5, <1>6 DEF Consider

LEMMA DeliverKeeps == ASSUME NotifierInv, Deliver PROVE NotifierInv'
<1> USE DEF NotifierInv, Deliver, edited, bounds, ghosts
<1> DEFINE told == [d \in Deck |-> IF d \in DOMAIN payload THEN payload[d] ELSE heard[cfg.url][d]]
<1>1. cfg.url \in Url /\ Known(payload) /\ Known(baseline) /\ heard[cfg.url] \in [Deck -> Due]
  BY DEF Kinds, Config
<1>2. heard' = [heard EXCEPT ![cfg.url] = told]
  OBVIOUS
<1>3. /\ told \in [Deck -> Due]
      /\ \A d \in DOMAIN payload : told[d] = payload[d]
      /\ \A d \in Deck : d \notin DOMAIN payload => told[d] = heard[cfg.url][d]
  BY <1>1 DEF Known
<1> HIDE DEF told
<1>4. heard' \in [Url -> [Deck -> Due]] /\ heard'[cfg.url] = told
  BY <1>1, <1>2, <1>3 DEF Kinds
<1>5. Kinds'
  BY <1>4 DEF Kinds, PcValues
<1>6. OneAddress' /\ AnsweredIsApplied'
  BY <1>3, <1>4 DEF OneAddress, AnsweredIsApplied, Busy
<1>7. BaselineWasHeard'
  <2> SUFFICES ASSUME ~lost, NEW d \in DOMAIN baseline, d \notin DOMAIN payload
               PROVE  heard'[sig.url][d] = baseline[d]
    BY DEF BaselineWasHeard
  <2>1. heard[sig.url][d] = baseline[d] /\ sig.url = cfg.url /\ d \in Deck
    BY <1>1 DEF BaselineWasHeard, OneAddress, Busy, Known
  <2> QED BY <1>3, <1>4, <2>1
<1> QED BY <1>5, <1>6, <1>7

LEMMA AcknowledgeKeeps == ASSUME NotifierInv, Acknowledge PROVE NotifierInv'
<1> USE DEF NotifierInv, Acknowledge, Rest, edited, world, bounds, ghosts
<1>1. Known(baseline) /\ Known(current) /\ Known(payload)
  BY DEF Kinds
<1>2. /\ Known(baseline')
      /\ DOMAIN baseline' \subseteq DOMAIN baseline \cup DOMAIN payload
      /\ \A d \in DOMAIN baseline' : baseline'[d] = IF d \in DOMAIN payload THEN payload[d] ELSE baseline[d]
  BY <1>1, AckedFacts
<1>3. Kinds'
  BY <1>2, EmptyFacts, DefaultIsAConfig DEF Kinds, PcValues
<1>4. sig = [url |-> cfg.url, scope |-> cfg.scope] /\ cfg.url \in Url
  BY DEF OneAddress, Busy, Kinds, Config
<1>5. OneAddress' /\ AnsweredIsApplied'
  BY <1>4 DEF OneAddress, AnsweredIsApplied, Busy
<1>6. BaselineWasHeard'
  BY <1>2, <1>4 DEF BaselineWasHeard, AnsweredIsApplied
<1> QED BY <1>3, <1>5, <1>6

-----------------------------------------------------------------------------
(* The rest of the world. *)

\* What neither the task nor the receivers take part in.
LEMMA OthersKeep ==
  ASSUME NotifierInv, Kinds', UNCHANGED <<task, heard, lost>>
  PROVE  NotifierInv'
BY DEF NotifierInv, task, OneAddress, AnsweredIsApplied, BaselineWasHeard, Busy

LEMMA EditsKeep ==
  ASSUME NotifierInv, NEW on \in BOOLEAN, NEW target \in Targets,
         EditFails(on, target) \/ \E kind \in Edits : Edit(on, target, kind)
  PROVE  NotifierInv'
<1> USE DEF edited, task, world, bounds, ghosts
<1>1. edits' = edits + 1 /\ edits \in Nat /\ conf' = Setting(on, target, edits + 1)
  BY DEF EditFails, Edit, Edited, NotifierInv, Kinds
<1>2. conf' \in Config /\ edits' \in Nat /\ conf'.edit \in Nat
  BY <1>1, SettingIsAConfig DEF Config
<1>3. UNCHANGED <<task, heard, lost, tree, moves, restarts, seen>>
  BY DEF EditFails, Edit
<1>4. CASE EditFails(on, target)
  <2>1. Kinds'
    BY <1>2, <1>3, <1>4, DefaultIsAConfig DEF EditFails, NotifierInv, Kinds
  <2> QED BY <1>3, <2>1, OthersKeep
<1>5. ASSUME NEW kind \in Edits, Edit(on, target, kind) PROVE NotifierInv'
  <2>1. saved' \in Config /\ changed' \in BOOLEAN /\ resync' \in BOOLEAN /\ promised' \in Nat
    BY <1>2, <1>5 DEF Edit, Wakes, NotifierInv, Kinds
  <2>2. Kinds'
    BY <1>2, <1>3, <2>1 DEF NotifierInv, Kinds
  <2> QED BY <1>3, <2>2, OthersKeep
<1> QED BY <1>4, <1>5

LEMMA MoveTreeKeeps == ASSUME NotifierInv, NEW d \in Deck, MoveTree(d) PROVE NotifierInv'
<1> USE DEF MoveTree, edited, task, ghosts
<1>1. tree' \in [Deck -> Node] /\ moves' \in Nat
  BY DEF NotifierInv, Kinds
<1>2. Kinds'
  BY <1>1 DEF NotifierInv, Kinds
<1> QED BY <1>2, OthersKeep

LEMMA RestartKeeps == ASSUME NotifierInv, Restart PROVE NotifierInv'
<1> USE DEF NotifierInv, Restart, world
<1>1. saved.edit \in Nat /\ restarts' \in Nat
  BY DEF Kinds, Config
<1>2. Kinds'
  BY <1>1, EmptyFacts, DefaultIsAConfig DEF Kinds, PcValues
<1>3. OneAddress' /\ AnsweredIsApplied' /\ BaselineWasHeard'
  BY EmptyFacts DEF OneAddress, AnsweredIsApplied, BaselineWasHeard, Busy
<1> QED BY <1>2, <1>3

-----------------------------------------------------------------------------
LEMMA InvNext == ASSUME NotifierInv, [Next]_vars PROVE NotifierInv'
<1>1. ASSUME Next PROVE NotifierInv'
  BY <1>1, CycleKeeps, FetchKeeps, FailuresKeep, ConsiderKeeps, DeliverKeeps, AcknowledgeKeeps,
     EditsKeep, MoveTreeKeeps, RestartKeeps DEF Next
<1>2. ASSUME UNCHANGED vars PROVE NotifierInv'
  <2> USE <1>2 DEF vars, edited, task, world, bounds, ghosts
  <2>1. Kinds'
    BY DEF NotifierInv, Kinds
  <2> QED BY <2>1, OthersKeep
<1> QED BY <1>1, <1>2

\* The variables keep their types, and the baseline its address.
THEOREM NotifierKeepsItsShape == Spec => []NotifierInv
<1>1. NotifierInv /\ [Next]_vars => NotifierInv'
  BY InvNext
<1> QED BY InvInit, <1>1, PTL DEF Spec

\* The baseline is what its own receiver has applied, unless an answer was
\* lost, for any edits, failures and restarts (notifier.py:183-193, 237-249).
THEOREM BaselineStaysHeard == Spec => []BaselineWasHeard
<1>1. NotifierInv => BaselineWasHeard
  BY DEF NotifierInv
<1> QED BY NotifierKeepsItsShape, <1>1, PTL

\* No post starts towards a target that was edited while the snapshot was
\* awaited (notifier.py:232-235).
THEOREM NoTargetIsStale == Spec => NoStaleTarget
<1> DEFINE Fresh ==
      pc # "posting" /\ pc' = "posting" => conf.on /\ conf.url = cfg.url /\ conf.scope = cfg.scope
<1>1. NotifierInv /\ [Next]_vars => [Fresh]_vars
  <2> SUFFICES ASSUME NotifierInv, Next, pc # "posting", pc' = "posting"
               PROVE  conf.on /\ conf.url = cfg.url /\ conf.scope = cfg.scope
    OBVIOUS
  <2>1. Consider
    BY DEF Next, Cycle, Fetch, FetchFails, Rest, Deliver, Acknowledge, PostFails,
           EditFails, Edit, MoveTree, Restart, task
  <2>2. pc = "fetched" /\ conf = cfg
    BY <2>1 DEF Consider, Rest, Unedited
  <2> QED BY <2>2 DEF NotifierInv, OneAddress, Busy
<1> QED BY NotifierKeepsItsShape, <1>1, PTL DEF Spec, NoStaleTarget
=============================================================================

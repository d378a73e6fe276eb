---------------------------- MODULE DeckNotifier ----------------------------
(***************************************************************************)
(* The deck push notifier (notifier.py): a task that polls the deck tree   *)
(* and posts the decks whose counts differ from what the receiver last     *)
(* acknowledged, while the web form and AnkiConnect edit its configuration.*)
(*                                                                         *)
(* The task and the handlers that edit the configuration share one event   *)
(* loop: a step goes from one await to the next.  "pc" says what the task  *)
(* awaits; cfg, current and payload are its local variables.               *)
(*                                                                         *)
(* The counts (new, learn, review) of a deck are a number, 0 for (0,0,0).  *)
(* Intervals are left out: a wait with a timeout may end at any moment.    *)
(*                                                                         *)
(* A definition marked "mutant" is a plausible mistake in the code of the  *)
(* definition that follows it; no specification uses it.                   *)
(***************************************************************************)
EXTENDS Naturals, FiniteSets, Functions

CONSTANTS
  Deck,          \* full deck names
  Url,           \* the addresses of receivers
  MaxDue,        \* counts are 0..MaxDue
  Targets,       \* the combinations of address and scope that are configured
  Edits,         \* the kinds of edits made: subset of {"save", "resync"}
  MaxEdits,      \* bound: edits of the configuration
  MaxMoves,      \* bound: changes of the deck tree
  MaxRestarts    \* bound: restarts of the process

ASSUME NotifierAssumption ==
  /\ MaxDue \in Nat /\ MaxEdits \in Nat /\ MaxMoves \in Nat /\ MaxRestarts \in Nat
  /\ Url # {} /\ Targets \subseteq [url : Url, scope : {"leaf", "all"}]
  /\ Edits \subseteq {"save", "resync"}

VARIABLES
  tree,        \* the collection: where each deck is and what it has to study
  conf,        \* NotifierState.config
  saved,       \* what notify.json holds
  changed,     \* NotifierState.changed
  resync,      \* NotifierState.resync_pending
  baseline,    \* DeckNotifier.last_notified
  sig,         \* DeckNotifier._last_sig
  pc,          \* what the task awaits
  cfg, current, payload,   \* cfg of run, current and changes of _tick
  heard,       \* what each receiver last applied, per deck
  edits, moves, restarts,  \* how much of the bounds is used
  promised,    \* history variable: the latest edit that was reported as saved
  seen,        \* history variable: the latest edit the task has read
  lost         \* history variable: the answer to a post was lost

edited == <<conf, saved, changed, resync>>
task   == <<baseline, sig, pc, cfg, current, payload>>
world  == <<tree, heard>>
bounds == <<edits, moves, restarts>>
ghosts == <<promised, seen, lost>>
vars   == <<edited, task, world, bounds, ghosts>>

Due    == 0..MaxDue
Scope  == {"leaf", "all"}
Node   == [at : {"leaf", "parent", "gone"}, due : Due]
NoSig  == [url |-> "none", scope |-> "none"]
Empty  == <<>>

\* NotifyConfig(): what a missing or corrupt notify.json is read as.
Default == [on |-> FALSE, url |-> CHOOSE u \in Url : TRUE, scope |-> "leaf", edit |-> 0]

Setting(on, target, n) == [on |-> on, url |-> target.url, scope |-> target.scope, edit |-> n]

Init ==
  /\ tree \in [Deck -> {[at |-> "leaf", due |-> 0], [at |-> "leaf", due |-> MaxDue]}]
  /\ conf \in {Default} \cup {Setting(TRUE, t, 0) : t \in Targets}
  /\ saved = conf
  /\ changed = FALSE /\ resync = FALSE
  /\ baseline = Empty /\ sig = NoSig
  /\ pc = "start"
  /\ cfg = Default /\ current = Empty /\ payload = Empty
  /\ heard = [u \in Url |-> [d \in Deck |-> 0]]
  /\ edits = 0 /\ moves = 0 /\ restarts = 0
  /\ promised = 0 /\ seen = 0 /\ lost = FALSE

-----------------------------------------------------------------------------
(* What a cycle computes. *)

\* The decks of the snapshot that the scope takes in, with their counts.
Watched(t, scope) ==
  {d \in Deck : t[d].at = "leaf" \/ (scope = "all" /\ t[d].at = "parent")}
Counts(t, scope) == [d \in Watched(t, scope) |-> t[d].due]

Acknowledged(b, d) == IF d \in DOMAIN b THEN b[d] ELSE 0

\* Decks the receiver knows of that are no longer in the tree.
Gone(b, cur) == DOMAIN b \ DOMAIN cur

FlipsOnly(b, cur) ==                                        \* mutant
  {d \in DOMAIN cur : (cur[d] > 0) # (Acknowledged(b, d) > 0)}
Differing(b, cur) == {d \in DOMAIN cur : cur[d] # Acknowledged(b, d)}

NothingToZero(b, cur) == {}                                 \* mutant
ToZero(b, cur) == {d \in Gone(b, cur) : b[d] # 0}

Changes(b, cur) ==
  [d \in Differing(b, cur) \cup ToZero(b, cur) |->
     IF d \in DOMAIN cur THEN cur[d] ELSE 0]

\* The baseline after a post was acknowledged: what is gone is forgotten.
Acked(b, cur, sent) ==
  [d \in (DOMAIN b \cup DOMAIN sent) \ (DOMAIN sent \ DOMAIN cur) |->
     IF d \in DOMAIN sent THEN sent[d] ELSE b[d]]

-----------------------------------------------------------------------------
(* The task. *)

\* Does the new cycle start from an empty baseline?
ResyncsOnly == sig = NoSig \/ resync                        \* mutant
Rebaselines == [url |-> conf.url, scope |-> conf.scope] # sig \/ resync

\* A wait ends (by the event, or by its timeout unless the notifier was idle)
\* and the next cycle reads the configuration, all in one step.
Cycle ==
  /\ pc \in {"start", "waiting"} \/ (pc = "idle" /\ changed)
  /\ changed' = IF pc = "start" THEN changed ELSE FALSE
  /\ seen' = conf.edit
  /\ IF conf.on
     THEN /\ baseline' = IF Rebaselines THEN Empty ELSE baseline
          /\ sig' = [url |-> conf.url, scope |-> conf.scope]
          /\ resync' = FALSE
          /\ cfg' = conf
          /\ pc' = "fetching"
     ELSE /\ baseline' = Empty
          /\ sig' = NoSig
          /\ pc' = "idle"
          /\ UNCHANGED <<resync, cfg>>
  /\ UNCHANGED <<conf, saved, current, payload, world, bounds, promised, lost>>

\* The snapshot job, and the filter by scope after it.
Fetch ==
  /\ pc = "fetching"
  /\ current' = Counts(tree, cfg.scope)
  /\ pc' = "fetched"
  /\ UNCHANGED <<edited, baseline, sig, cfg, payload, world, bounds, ghosts>>

\* _tick returns or raises, its variables go, and the task waits.
Rest ==
  /\ pc' = "waiting"
  /\ cfg' = Default /\ current' = Empty /\ payload' = Empty

\* "A fetch/backend error must NOT kill the task."
FetchFails ==
  /\ pc = "fetching"
  /\ Rest
  /\ UNCHANGED <<edited, baseline, sig, world, bounds, ghosts>>

\* The configuration was not edited during the fetch (the very same object).
SameAddress == conf.url = cfg.url                           \* mutant
Unedited == conf = cfg

Consider ==
  /\ pc = "fetched"
  /\ LET silent == Gone(baseline, current) \ ToZero(baseline, current)
         kept == Restrict(baseline, DOMAIN baseline \ silent)
         todo == Changes(baseline, current)
     IN /\ baseline' = kept
        /\ IF todo = Empty \/ ~Unedited
           THEN Rest
           ELSE /\ pc' = "posting"
                /\ payload' = todo
                /\ UNCHANGED <<cfg, current>>
  /\ UNCHANGED <<edited, sig, world, bounds, ghosts>>

\* The receiver applies the payload and answers 200 {"ok": true}.
Deliver ==
  /\ pc = "posting"
  /\ heard' = [heard EXCEPT ![cfg.url] =
                 [d \in Deck |-> IF d \in DOMAIN payload THEN payload[d] ELSE @[d]]]
  /\ pc' = "answered"
  /\ UNCHANGED <<edited, baseline, sig, cfg, current, payload, tree, bounds, ghosts>>

Acknowledge ==
  /\ pc = "answered"
  /\ baseline' = Acked(baseline, current, payload)
  /\ Rest
  /\ UNCHANGED <<edited, sig, world, bounds, ghosts>>

\* Connection error, timeout, another status or body, before or after the
\* receiver has applied the payload: the baseline stays.
PostFails ==
  /\ pc \in {"posting", "answered"}
  /\ lost' = (lost \/ pc = "answered")
  /\ Rest
  /\ UNCHANGED <<edited, baseline, sig, world, bounds, promised, seen>>

-----------------------------------------------------------------------------
(* The handlers that edit the configuration; the collection; the process. *)

Edited(on, target) ==
  /\ edits < MaxEdits
  /\ edits' = edits + 1
  /\ conf' = Setting(on, target, edits + 1)

WakesForResync(again) == changed' = (changed \/ again)      \* mutant
Wakes(again) == changed' = TRUE

\* update, then request_resync for "Save & re-push all".
Edit(on, target, kind) ==
  /\ Edited(on, target)
  /\ saved' = conf'
  /\ resync' = (resync \/ kind = "resync")
  /\ Wakes(kind = "resync")
  /\ promised' = conf'.edit
  /\ UNCHANGED <<task, world, moves, restarts, seen, lost>>

\* save raises: the new configuration is in use but the task is not told, and
\* the file is as before or cut short.
EditFails(on, target) ==
  /\ Edited(on, target)
  /\ saved' \in {saved, Default}
  /\ UNCHANGED <<changed, resync, task, world, moves, restarts, ghosts>>

\* Cards are studied, added or moved; decks come, go, nest and empty.
MoveTree(d) ==
  /\ moves < MaxMoves
  /\ moves' = moves + 1
  /\ \E node \in Node \ {tree[d]} :
       /\ node.at = "gone" => node.due = 0
       /\ tree' = [tree EXCEPT ![d] = node]
  /\ UNCHANGED <<edited, task, heard, edits, restarts, ghosts>>

\* The process stops anywhere and starts again.
Restart ==
  /\ restarts < MaxRestarts
  /\ restarts' = restarts + 1
  /\ conf' = saved
  /\ changed' = FALSE /\ resync' = FALSE
  /\ baseline' = Empty /\ sig' = NoSig
  /\ pc' = "start"
  /\ cfg' = Default /\ current' = Empty /\ payload' = Empty
  /\ promised' = saved.edit /\ seen' = 0
  /\ UNCHANGED <<saved, world, edits, moves, lost>>

-----------------------------------------------------------------------------
Next ==
  \/ Cycle \/ Fetch \/ FetchFails \/ Consider
  \/ Deliver \/ Acknowledge \/ PostFails
  \/ \E on \in BOOLEAN, target \in Targets :
       EditFails(on, target) \/ \E kind \in Edits : Edit(on, target, kind)
  \/ \E d \in Deck : MoveTree(d)
  \/ Restart

\* The event loop and the worker run on.  Fetches and posts may fail again and
\* again, but not always.
Fairness ==
  /\ WF_vars(Cycle) /\ WF_vars(Consider)
  /\ SF_vars(Fetch) /\ SF_vars(Deliver) /\ SF_vars(Acknowledge)

Spec == Init /\ [][Next]_vars /\ Fairness

-----------------------------------------------------------------------------
\* "Don't POST to a stale target": a post starts only towards the address, and
\* under the configuration, that is in force at that moment, however it was
\* edited while the snapshot was awaited (notifier.py:232-235).
NoStaleTarget ==
  [][pc # "posting" /\ pc' = "posting" =>
       conf.on /\ conf.url = cfg.url /\ conf.scope = cfg.scope]_vars

\* As long as no answer was lost the baseline is what the receiver at the
\* present address was told, so that comparing with it is comparing with the
\* receiver: never what another receiver was told, nor what was posted in vain
\* (notifier.py:183-193, 237-249).
BaselineWasHeard ==
  ~lost => \A d \in DOMAIN baseline :
             (d \in DOMAIN payload /\ pc = "answered") \/ heard[sig.url][d] = baseline[d]

\* "Saving ... wakes the running task immediately": every saved edit is read
\* by the task, also when it was idle or busy (notifier.py:80-88, 258-263).
EditsTakeEffect ==
  \A n \in 1..MaxEdits : promised = n ~> seen >= n \/ promised < n

Settled == conf.on /\ conf.edit = promised

\* The receiver of the configuration in force knows the counts of every deck
\* that has something to study, whatever was edited, restarted, failed and
\* repeated before, unless answers were lost (notifier.py:198-249).
DueIsTold ==
  <>[](Settled /\ ~lost =>
         \A d \in Watched(tree, conf.scope) :
           tree[d].due # 0 => heard[conf.url][d] = tree[d].due)

\* The receiver takes no deck for due that has nothing left, is out of scope
\* or is gone.
NoPhantom ==
  \A d \in Deck : heard[conf.url][d] # 0 =>
    d \in Watched(tree, conf.scope) /\ heard[conf.url][d] = tree[d].due

\* While the baseline was never reset, the receiver eventually learns of every
\* deck that was emptied, deleted, renamed or got subdecks
\* (notifier.py:213-224).
EmptiedDecksAreZeroed ==
  <>[](Settled /\ ~lost /\ edits = 0 /\ restarts = 0 => NoPhantom)

\* "Otherwise an emptied deck leaves the receiver waking on a phantom due
\* forever": the same, whatever resets the baseline (notifier.py:213-218).
NoPhantomDue == <>[](Settled /\ ~lost => NoPhantom)
=============================================================================

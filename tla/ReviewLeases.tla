---------------------------- MODULE ReviewLeases ----------------------------
(***************************************************************************)
(* The review leases of the language trainer: the ReviewSessionStore of    *)
(* anki_core/review_sessions.py, the AnkiAdapter handlers that use it      *)
(* (anki_core/adapter.py) and what may happen to the collection while a    *)
(* handler awaits one of its jobs.                                         *)
(*                                                                         *)
(* Every handler runs under AnkiAdapter._lock and awaits jobs of the       *)
(* CollectionService, whose worker runs one job at a time.  A handler is   *)
(* therefore a chain of steps: "pc" says where the handler that holds the  *)
(* lock stands ("idle": the lock is free) and "req" what it works on.      *)
(* Between two steps the worker may run jobs of other parts of the program *)
(* (the reviewer screen, AnkiConnect, an export): they never take the      *)
(* adapter's lock.                                                         *)
(*                                                                         *)
(* Tokens are numbered in the order of their creation.  All leases have    *)
(* the same time to live, so they lapse in that order: "horizon" is the    *)
(* youngest token whose expires_at has passed.                             *)
(*                                                                         *)
(* A definition marked "mutant" is a plausible mistake in the code of the  *)
(* definition that follows it; no specification uses it.                   *)
(***************************************************************************)
EXTENDS Integers, Sequences, FiniteSets, Functions

CONSTANTS
  Client,        \* values of the X-Review-Client header, one per browser tab
  Language,      \* the languages the trainer has a deck for
  Card,          \* the cards of those decks
  deckOf,        \* the language whose exact deck a card was created in
  TerminalCap,   \* 4096: how many ended tokens the store remembers
  TerminalDrop,  \* 1024: how many it forgets at once beyond that
  MaxTokens,     \* bound: how many leases are ever created
  MaxChanges,    \* bound: how many changes are ever made to cards
  MaxHandles     \* bound: how many times the collection is opened

ASSUME BoundsAssumption ==
  /\ TerminalCap \in Nat \ {0}
  /\ TerminalDrop \in 1..TerminalCap
  /\ MaxTokens \in Nat
  /\ MaxChanges \in Nat
  /\ MaxHandles \in Nat \ {0}

ASSUME DeckAssumption == deckOf \in [Card -> Language]

VARIABLES
  store,       \* AnkiAdapter._sessions: the ReviewSessionStore
  issued,      \* how many tokens were created
  horizon,     \* tokens 1..horizon have outlived ttl_seconds
  pc, req,     \* the handler that holds AnkiAdapter._lock
  cards,       \* the scheduling state of each card, what _fingerprint reads
  history,     \* the changes made to cards and not undone, oldest first
  undoable,    \* how many of the latest of them Collection.undo can revert
  changes,     \* how many changes were ever made (makes new states new)
  generation,  \* CollectionService.generation
  handle,      \* which opening of the collection file is in use
  shown,       \* history variable: what the client of a token was shown
  applied      \* history variable: tokens whose answer the scheduler took

vars == <<store, issued, horizon, pc, req, cards, history, undoable, changes,
          generation, handle, shown, applied>>
storage    == <<cards, history, undoable, changes>>
collection == <<storage, generation, handle>>
ghosts     == <<shown, applied>>

(***************************************************************************)
(* Types.  A card is "ready" in its deck, "held" (suspended or buried),    *)
(* "moved" to another deck or "gone".  "sched" stands for its type, due,   *)
(* interval, repetitions and memory state: two values are equal only if    *)
(* an undo restored the earlier one.                                       *)
(***************************************************************************)
Token     == 1..MaxTokens
Place     == {"ready", "held", "moved", "gone"}
CardState == [sched : 0..MaxChanges, at : Place]
Ending    == {"expired", "consumed", "stale"}
Action    == {"suspend", "unsuspend", "bury"}
View      == [card : Card, seen : CardState, generation : 0..MaxHandles,
              handle : 1..MaxHandles]
Session   == [client : Client, language : Language, card : Card,
              fingerprint : CardState, generation : 0..MaxHandles,
              revealed : BOOLEAN]
Change    == [card : Card, before : CardState, by : 0..MaxTokens,
              handle : 1..MaxHandles]
NoRequest == [kind |-> "none"]

-----------------------------------------------------------------------------
(***************************************************************************)
(* ReviewSessionStore                                                      *)
(***************************************************************************)
EmptyStore ==
  [sessions |-> <<>>, cardTokens |-> <<>>, terminal |-> <<>>, retired |-> 0]

Live(st) == DOMAIN st.sessions

\* Of the first n tokens that ended, the store has forgotten this many: each
\* time the table would exceed TerminalCap entries the oldest TerminalDrop go.
Forgotten(n) ==
  IF n <= TerminalCap THEN 0
  ELSE TerminalDrop * ((n - TerminalCap + TerminalDrop - 1) \div TerminalDrop)

\* _remove for every token of S, in the order of the _sessions dict.
Remove(st, S, why) ==
  LET n      == st.retired + Cardinality(S)
      Rank(t) == Cardinality({u \in S : u <= t})
      ended  == [t \in DOMAIN st.terminal \cup S |->
                   IF t \in S THEN [why |-> why, at |-> st.retired + Rank(t)]
                              ELSE st.terminal[t]]
      freed  == {c \in DOMAIN st.cardTokens :
                   \E t \in S : st.sessions[t].card = c /\ st.cardTokens[c] = t}
  IN [sessions   |-> Restrict(st.sessions, Live(st) \ S),
      cardTokens |-> Restrict(st.cardTokens, DOMAIN st.cardTokens \ freed),
      terminal   |-> Restrict(ended, {t \in DOMAIN ended : ended[t].at > Forgotten(n)}),
      retired    |-> n]

Expire(st) == Remove(st, {t \in Live(st) : t <= horizon}, "expired")

\* The store with its two tables of live leases replaced.
WithLeases(st, sessions, cardTokens) ==
  [sessions |-> sessions, cardTokens |-> cardTokens,
   terminal |-> st.terminal, retired |-> st.retired]

Create(st, t, s) ==
  LET e == Expire(st) IN
  WithLeases(e,
    [u \in Live(e) \cup {t} |-> IF u = t THEN s ELSE e.sessions[u]],
    [c \in DOMAIN e.cardTokens \cup {s.card} |->
       IF c = s.card THEN t ELSE e.cardTokens[c]])

\* check sets session.revealed.
Revealed(st, t) ==
  WithLeases(st, [st.sessions EXCEPT ![t] = [@ EXCEPT !.revealed = TRUE]],
             st.cardTokens)

Consume(st, t) == Remove(st, {t}, "consumed")
Stale(st, t)   == Remove(st, {t}, "stale")

FreesTheCardOnly(st, c) ==                                  \* mutant
  WithLeases(st, st.sessions, Restrict(st.cardTokens, DOMAIN st.cardTokens \ {c}))
ReleaseCard(st, c) ==
  IF c \in DOMAIN st.cardTokens /\ st.cardTokens[c] \in Live(st)
  THEN Stale(st, st.cardTokens[c]) ELSE st

Leased(st, c) == c \in DOMAIN st.cardTokens

UnrevealedForClient(st, cl, lang) ==                        \* mutant
  {t \in Live(st) : /\ st.sessions[t].client = cl /\ st.sessions[t].language = lang
                    /\ ~st.sessions[t].revealed}
ForClient(st, cl, lang) ==
  {t \in Live(st) : st.sessions[t].client = cl /\ st.sessions[t].language = lang}

-----------------------------------------------------------------------------
(***************************************************************************)
(* Changes to cards and undo (Anki Core, called by the jobs).              *)
(***************************************************************************)
Changed(c, new, by) ==
  /\ changes < MaxChanges
  /\ changes' = changes + 1
  /\ cards' = [cards EXCEPT ![c] = new]
  /\ history' = Append(history, [card |-> c, before |-> cards[c], by |-> by,
                                 handle |-> handle])
  /\ undoable' = undoable + 1

\* The card's scheduling moves to a state it was never in.
Rescheduled(c, by) == Changed(c, [cards[c] EXCEPT !.sched = changes + 1], by)

Init ==
  /\ store = EmptyStore
  /\ issued = 0
  /\ horizon = 0
  /\ pc = "idle"
  /\ req = NoRequest
  /\ cards = [c \in Card |-> [sched |-> 0, at |-> "ready"]]
  /\ history = <<>>
  /\ undoable = 0
  /\ changes = 0
  /\ generation = 1
  /\ handle = 1
  /\ shown = <<>>
  /\ applied = {}

\* The handler returns or raises; "async with self._lock" releases the lock.
Return ==
  /\ pc' = "idle"
  /\ req' = NoRequest

-----------------------------------------------------------------------------
(***************************************************************************)
(* Requests.  The client id and the token of a request are whatever the    *)
(* browser sends: the tokens of other tabs and retries included.           *)
(***************************************************************************)

\* A request that gets no further than ReviewSessionStore.get: refused
\* (expired, consumed, stale, unknown, another client's, not revealed), or
\* tts_spec, or next_review when the client has a live session already.
LookUp ==
  /\ pc = "idle"
  /\ store' = Expire(store)
  /\ UNCHANGED <<issued, horizon, pc, req, collection, ghosts>>

NextReview(cl, lang) ==
  /\ pc = "idle"
  /\ ForClient(Expire(store), cl, lang) = {}
  /\ store' = Expire(store)
  /\ pc' = "load"
  /\ req' = [kind |-> "next", client |-> cl, language |-> lang]
  /\ UNCHANGED <<issued, horizon, collection, ghosts>>

\* The load job: the first queued card that is not leased.  Which ready cards
\* are due, and in which order, is Anki's choice.
LoadCard(c) ==
  /\ pc = "load"
  /\ issued < MaxTokens
  /\ cards[c].at = "ready"
  /\ deckOf[c] = req.language
  /\ ~Leased(Expire(store), c)
  /\ store' = Expire(store)
  /\ pc' = "create"
  /\ req' = [kind |-> "loaded", client |-> req.client, language |-> req.language,
             view |-> [card |-> c, seen |-> cards[c], generation |-> generation,
                       handle |-> handle]]
  /\ UNCHANGED <<issued, horizon, collection, ghosts>>

\* No card is due, every due card is leased, or the deck is missing or has
\* subdecks (ReviewConflict).
LoadNothing ==
  /\ pc = "load"
  /\ store' \in {store, Expire(store)}
  /\ Return
  /\ UNCHANGED <<issued, horizon, collection, ghosts>>

\* secrets.token_urlsafe: a token that was never used before.
SlotOfStore == Cardinality(Live(store)) + 1                 \* mutant
NewToken == issued + 1

CreateSession ==
  /\ pc = "create"
  /\ LET t == NewToken
         s == [client |-> req.client, language |-> req.language,
               card |-> req.view.card, fingerprint |-> req.view.seen,
               generation |-> req.view.generation, revealed |-> FALSE]
     IN /\ issued' = issued + 1
        /\ store' = Create(store, t, s)
        /\ shown' = [u \in DOMAIN shown \cup {t} |->
                       IF u = t THEN req.view ELSE shown[u]]
  /\ Return
  /\ UNCHANGED <<horizon, collection, applied>>

\* check: a card with an expected text awaits a comparison job, the others
\* reveal their back at once.
Check(t, cl) ==
  /\ pc = "idle"
  /\ t \in Live(Expire(store))
  /\ store.sessions[t].client = cl
  /\ \/ /\ store' = Expire(store)
        /\ pc' = "check"
        /\ req' = [kind |-> "check", token |-> t]
     \/ /\ store' = Revealed(Expire(store), t)
        /\ UNCHANGED <<pc, req>>
  /\ UNCHANGED <<issued, horizon, collection, ghosts>>

Reveal ==
  /\ pc = "check"
  /\ store' = Revealed(store, req.token)
  /\ Return
  /\ UNCHANGED <<issued, horizon, collection, ghosts>>

Answer(t, cl) ==
  /\ pc = "idle"
  /\ t \in Live(Expire(store))
  /\ store.sessions[t].client = cl
  /\ store.sessions[t].revealed
  /\ store' = Expire(store)
  /\ pc' = "answer"
  /\ req' = [kind |-> "answer", token |-> t]
  /\ UNCHANGED <<issued, horizon, collection, ghosts>>

\* What the mutate job of an answer checks before it calls the scheduler.
SameGeneration(s) ==                                        \* mutant
  /\ generation = s.generation
  /\ cards[s.card].at # "gone"
SameCard(s) == cards[s.card] = s.fingerprint /\ cards[s.card].at # "gone"  \* mutant
Current(s) ==
  /\ cards[s.card].at # "gone"
  /\ generation = s.generation
  /\ cards[s.card] = s.fingerprint

AnswerCard ==
  /\ pc = "answer"
  /\ LET s == store.sessions[req.token]
     IN /\ Current(s)
        /\ Rescheduled(s.card, req.token)
  /\ applied' = applied \cup {req.token}
  /\ pc' = "recorded"
  /\ UNCHANGED <<store, issued, horizon, req, generation, handle, shown>>

\* ReviewConflict out of the mutate job: the session is made stale.
AnswerConflict ==
  /\ pc = "answer"
  /\ LET s == store.sessions[req.token]
     IN \/ generation # s.generation
        \/ cards[s.card].at # "gone" /\ cards[s.card] # s.fingerprint
  /\ store' = Stale(store, req.token)
  /\ Return
  /\ UNCHANGED <<issued, horizon, collection, ghosts>>

\* run_op has told every subscriber.
AnswerDone ==
  /\ pc = "recorded"
  /\ store' = Consume(store, req.token)
  /\ Return
  /\ UNCHANGED <<issued, horizon, collection, ghosts>>

CardAction(c, action) ==
  /\ pc = "idle"
  /\ pc' = "act"
  /\ req' = [kind |-> "act", card |-> c, action |-> action]
  /\ UNCHANGED <<store, issued, horizon, collection, ghosts>>

\* suspend_cards, unsuspend_cards or bury_cards on a card of a language deck.
ActOnCard ==
  /\ pc = "act"
  /\ cards[req.card].at \in {"ready", "held"}
  /\ LET place == IF req.action = "unsuspend" THEN "ready" ELSE "held"
     IN \/ /\ cards[req.card].at # place
           /\ Changed(req.card, [cards[req.card] EXCEPT !.at = place], 0)
        \/ /\ cards[req.card].at = place
           /\ UNCHANGED storage
  /\ pc' = "acted"
  /\ UNCHANGED <<store, issued, horizon, req, generation, handle, ghosts>>

ActDone ==
  /\ pc = "acted"
  /\ store' = ReleaseCard(store, req.card)
  /\ Return
  /\ UNCHANGED <<issued, horizon, collection, ghosts>>

\* Any other exception: the job fails (the card is gone, is in another deck,
\* the collection is closed or refuses), or a subscriber of run_op raises
\* after the job has changed the collection.
Fail ==
  /\ pc \in {"load", "check", "answer", "recorded", "act", "acted"}
  /\ Return
  /\ UNCHANGED <<store, issued, horizon, collection, ghosts>>

\* operational_backup: the full export closes and reopens the collection
\* behind the same service generation; whatever happens, a new store follows.
Backup ==
  /\ pc = "idle"
  /\ pc' = "backup"
  /\ req' = [kind |-> "backup"]
  /\ UNCHANGED <<store, issued, horizon, collection, ghosts>>

BackupExport ==
  /\ pc = "backup"
  /\ handle < MaxHandles
  /\ handle' = handle + 1
  /\ undoable' = 0
  /\ pc' = "exported"
  /\ UNCHANGED <<store, issued, horizon, req, cards, history, changes,
                 generation, ghosts>>

BackupKeepsLeases ==                                        \* mutant
  /\ pc \in {"backup", "exported"}
  /\ Return
  /\ UNCHANGED <<store, issued, horizon, collection, ghosts>>
BackupDone ==
  /\ pc \in {"backup", "exported"}
  /\ store' = EmptyStore
  /\ Return
  /\ UNCHANGED <<issued, horizon, collection, ghosts>>

-----------------------------------------------------------------------------
(***************************************************************************)
(* The rest of the program, which shares the collection but not the lock.  *)
(***************************************************************************)

\* The reviewer screen, the browser or AnkiConnect answer, edit, suspend,
\* move or delete a card.
ChangeCard(c) ==
  /\ cards[c].at # "gone"
  /\ \/ Rescheduled(c, 0)
     \/ \E place \in Place \ {cards[c].at} :
          Changed(c, [cards[c] EXCEPT !.at = place], 0)
  /\ UNCHANGED <<store, issued, horizon, pc, req, generation, handle, ghosts>>

\* pycmd("undo") of the reviewer screen, guiUndo of AnkiConnect.
Undo ==
  /\ undoable > 0
  /\ LET last == history[Len(history)]
     IN cards' = [cards EXCEPT ![last.card] = last.before]
  /\ history' = SubSeq(history, 1, Len(history) - 1)
  /\ undoable' = undoable - 1
  /\ UNCHANGED <<store, issued, horizon, pc, req, changes, generation, handle,
                 ghosts>>

\* CollectionService.reopen, after the export screen has closed the collection.
Reopen ==
  /\ handle < MaxHandles
  /\ handle' = handle + 1
  /\ generation' = generation + 1
  /\ undoable' = 0
  /\ UNCHANGED <<store, issued, horizon, pc, req, cards, history, changes, ghosts>>

TimePasses ==
  /\ horizon < issued
  /\ horizon' \in (horizon + 1)..issued
  /\ UNCHANGED <<store, issued, pc, req, collection, ghosts>>

-----------------------------------------------------------------------------
Request ==
  \/ LookUp
  \/ \E cl \in Client, lang \in Language : NextReview(cl, lang)
  \/ \E cl \in Client, t \in 1..issued : Check(t, cl) \/ Answer(t, cl)
  \/ \E c \in Card, action \in Action : CardAction(c, action)
  \/ Backup

Handle ==
  \/ \E c \in Card : LoadCard(c)
  \/ LoadNothing \/ CreateSession \/ Reveal
  \/ AnswerCard \/ AnswerConflict \/ AnswerDone
  \/ ActOnCard \/ ActDone \/ Fail
  \/ BackupExport \/ BackupDone

Environment ==
  \/ \E c \in Card : ChangeCard(c)
  \/ Undo \/ Reopen \/ TimePasses

Next == Request \/ Handle \/ Environment

Spec == Init /\ [][Next]_vars

-----------------------------------------------------------------------------
Stage == {"idle", "load", "create", "check", "answer", "recorded", "act", "acted",
          "backup", "exported"}

RequestOK ==
  /\ pc \in Stage
  /\ pc \in {"load", "create"} => req.client \in Client /\ req.language \in Language
  /\ pc = "create" => req.view \in View /\ issued < MaxTokens
  /\ pc \in {"check", "answer", "recorded"} => req.token \in 1..issued
  /\ pc \in {"act", "acted"} => req.card \in Card /\ req.action \in Action

StoreOK(st, n) ==
  /\ st.sessions \in [DOMAIN st.sessions -> Session]
  /\ DOMAIN st.sessions \subseteq 1..n
  /\ st.cardTokens \in [DOMAIN st.cardTokens -> Token]
  /\ DOMAIN st.cardTokens \subseteq Card
  /\ st.terminal \in [DOMAIN st.terminal -> [why : Ending, at : Nat]]
  /\ DOMAIN st.terminal \subseteq 1..n
  /\ st.retired \in Nat

\* Every variable holds values of its kind.
TypeOK ==
  /\ StoreOK(store, issued)
  /\ issued \in 0..MaxTokens
  /\ horizon \in 0..issued
  /\ RequestOK
  /\ cards \in [Card -> CardState]
  /\ history \in Seq(Change)
  /\ undoable \in 0..Len(history)
  /\ changes \in 0..MaxChanges
  /\ generation \in 1..handle
  /\ handle \in 1..MaxHandles
  /\ shown \in [1..issued -> View]
  /\ applied \subseteq 1..issued

-----------------------------------------------------------------------------
(***************************************************************************)
(* Safety                                                                  *)
(***************************************************************************)

Exclusive(st) ==
  /\ \A t \in Live(st) :
       /\ st.sessions[t].card \in DOMAIN st.cardTokens
       /\ st.cardTokens[st.sessions[t].card] = t
  /\ \A c \in DOMAIN st.cardTokens :
       /\ st.cardTokens[c] \in Live(st)
       /\ st.sessions[st.cardTokens[c]].card = c

\* "In-memory leases prevent two clients from answering the same queued
\* card": the table from cards to tokens is exactly the inverse of the live
\* sessions, so no card has two, after any mix of expiry, answers, conflicts,
\* card actions and backups (review_sessions.py:53-126).
LeasesExclusive == Exclusive(store)

\* A reload, a second tab with the same client id or a retried request never
\* gives a client two live cards of one language (adapter.py:245-279).
OneSessionPerClient ==
  \A t, u \in Live(store) :
    /\ store.sessions[t].client = store.sessions[u].client
    /\ store.sessions[t].language = store.sessions[u].language
    => t = u

\* An answer is exactly once: whatever fails after the scheduler took it, and
\* however often the client retries, a token stands for at most one answer
\* that was not undone (adapter.py:298-330).
AtMostOnce ==
  \A i, j \in DOMAIN history :
    history[i].by = history[j].by /\ history[i].by # 0 => i = j

\* "A stale answer is never silently accepted or rescheduled": an answer
\* reached the very scheduling state its client was shown, through the same
\* opening of the collection (docs/PRODUCTION_READINESS.md:59-61).
AnswersWhatWasShown ==
  \A i \in DOMAIN history :
    LET t == history[i].by IN
    t # 0 => /\ t \in DOMAIN shown
             /\ history[i].card = shown[t].card
             /\ history[i].before = shown[t].seen
             /\ history[i].handle = shown[t].handle

\* A client told "already answered" can rely on it: the scheduler did take
\* that token's answer (review_sessions.py:91-92, adapter.py:321-326).
ConsumedWasApplied ==
  \A t \in DOMAIN store.terminal :
    store.terminal[t].why = "consumed" => t \in applied

\* While a handler awaits a job on behalf of a token nobody ends its session:
\* only holders of the adapter's lock touch the store (adapter.py:283-326).
SessionPinned ==
  pc \in {"check", "answer", "recorded"} => req.token \in Live(store)

\* An ended token stays ended, for the reason it first ended for: no token
\* that was issued and is not live becomes live again, and a remembered
\* reason changes only by being forgotten (review_sessions.py:83-95).
EndedForGood ==
  [][/\ \A t \in 1..issued : t \in Live(store)' => t \in Live(store)
     /\ \A t \in DOMAIN store.terminal \cap DOMAIN store'.terminal :
          store'.terminal[t] = store.terminal[t]]_vars

-----------------------------------------------------------------------------
(***************************************************************************)
(* The inductive invariant behind the theorems of ReviewLeasesProofs.      *)
(***************************************************************************)

\* The store's entry of a token is what its client was shown.
SessionsMatchViews ==
  \A t \in Live(store) :
    /\ store.sessions[t].card = shown[t].card
    /\ store.sessions[t].fingerprint = shown[t].seen
    /\ store.sessions[t].generation = shown[t].generation

\* Equal generations mean the same opening, except while a backup has
\* reopened the collection and not yet replaced the store.
GenerationIdentifiesHandle(v) ==
  /\ v.generation <= generation
  /\ v.generation = generation => v.handle = handle

HandlesTracked ==
  /\ pc # "exported" => \A t \in Live(store) : GenerationIdentifiesHandle(shown[t])
  /\ pc = "create" => GenerationIdentifiesHandle(req.view)

\* Since an answer the card's scheduling has only moved on: neither its state
\* now nor any state an undo can bring back is the one that was answered.
AnswersMovedOn ==
  \A i \in DOMAIN history : history[i].by # 0 =>
    /\ cards[history[i].card].sched > history[i].before.sched
    /\ \A j \in DOMAIN history :
         j > i /\ history[j].card = history[i].card
         => history[j].before.sched > history[i].before.sched

NothingFromTheFuture ==
  /\ \A c \in Card : cards[c].sched <= changes
  /\ \A i \in DOMAIN history : history[i].before.sched <= changes

\* What the handler that holds the lock relies on across its awaits.
HandlerRelies ==
  /\ SessionPinned
  /\ pc = "recorded" => req.token \in applied
  /\ pc \in {"load", "create"} => ForClient(store, req.client, req.language) = {}
  /\ pc = "create" => ~Leased(store, req.view.card)

LeaseInv ==
  /\ TypeOK
  /\ LeasesExclusive
  /\ OneSessionPerClient
  /\ ConsumedWasApplied
  /\ HandlerRelies
  /\ SessionsMatchViews
  /\ HandlesTracked
  /\ NothingFromTheFuture
  /\ AnswersWhatWasShown
  /\ AnswersMovedOn

-----------------------------------------------------------------------------
(***************************************************************************)
(* Refinement                                                              *)
(***************************************************************************)
LeaseOf(c) == IF c \in DOMAIN store.cardTokens THEN store.cardTokens[c] ELSE 0
Times(h, t) == Cardinality({i \in DOMAIN h : h[i].by = t})

Contract == INSTANCE ReviewContract
              WITH lease   <- [c \in Card |-> LeaseOf(c)],
                   counted <- [t \in Token |-> Times(history, t)]

\* The leases implement the contract: every step of every handler is a grant,
\* an end, a record or a retraction of the contract, or invisible to it.
ImplementsContract == Contract!Spec

=============================================================================

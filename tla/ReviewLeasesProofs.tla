------------------------ MODULE ReviewLeasesProofs ------------------------
(***************************************************************************)
(* Proofs about ReviewLeases: LeaseInv is inductive, and with it every     *)
(* safety property of the module that does not count ended tokens, and the *)
(* refinement of ReviewContract, hold for all values of the constants.     *)
(***************************************************************************)
EXTENDS ReviewLeases, FiniteSetTheorems, TLAPS

-----------------------------------------------------------------------------
(* The operators of the store. *)

\* r is a well-formed store from which exactly the tokens of S were removed.
Removed(st, m, S, why, r) ==
  /\ StoreOK(r, m)
  /\ Exclusive(r)
  /\ Live(r) = Live(st) \ S
  /\ \A t \in Live(r) : r.sessions[t] = st.sessions[t]
  /\ DOMAIN r.cardTokens \subseteq DOMAIN st.cardTokens
  /\ \A t \in DOMAIN r.terminal :
       \/ t \in S /\ r.terminal[t].why = why
       \/ t \in DOMAIN st.terminal \ S /\ r.terminal[t] = st.terminal[t]

\* Removing live tokens from a well-formed store leaves a well-formed store
\* without them, touches no other session, and files exactly them as ended.
LEMMA RemoveFacts ==
  ASSUME NEW st, NEW m \in Nat, StoreOK(st, m), Exclusive(st),
         NEW S \in SUBSET Live(st), NEW why \in Ending
  PROVE  Removed(st, m, S, why, Remove(st, S, why))
<1> DEFINE r == Remove(st, S, why)
           Rank(t) == Cardinality({u \in S : u <= t})
           ended == [t \in DOMAIN st.terminal \cup S |->
                       IF t \in S THEN [why |-> why, at |-> st.retired + Rank(t)]
                                  ELSE st.terminal[t]]
           freed == {c \in DOMAIN st.cardTokens :
                       \E t \in S : st.sessions[t].card = c /\ st.cardTokens[c] = t}
           n == st.retired + Cardinality(S)
           kept == {t \in DOMAIN ended : ended[t].at > Forgotten(n)}
<1>1. /\ r.sessions = [t \in Live(st) \ S |-> st.sessions[t]]
      /\ r.cardTokens = [c \in DOMAIN st.cardTokens \ freed |-> st.cardTokens[c]]
      /\ r.terminal = [t \in kept |-> ended[t]]
      /\ r.retired = n
  BY Zenon DEF Remove, Restrict
<1>2. IsFiniteSet(S) /\ \A t : IsFiniteSet({u \in S : u <= t})
  <2>1. S \subseteq 1..m
    BY DEF StoreOK, Live
  <2>2. IsFiniteSet(1..m)
    BY FS_Interval
  <2>3. IsFiniteSet(S)
    BY <2>1, <2>2, FS_Subset
  <2>4. \A t : {u \in S : u <= t} \subseteq S
    OBVIOUS
  <2> QED BY <2>3, <2>4, FS_Subset
<1>3. Cardinality(S) \in Nat /\ \A t : Rank(t) \in Nat
  BY <1>2, FS_CardinalityType
<1>4. ended \in [DOMAIN st.terminal \cup S -> [why : Ending, at : Nat]]
  <2> SUFFICES ASSUME NEW t \in DOMAIN st.terminal \cup S
               PROVE  (IF t \in S THEN [why |-> why, at |-> st.retired + Rank(t)]
                                  ELSE st.terminal[t]) \in [why : Ending, at : Nat]
    BY Zenon
  <2>1. CASE t \in S
    <3> HIDE DEF Rank
    <3>1. st.retired + Rank(t) \in Nat
      BY <1>3 DEF StoreOK
    <3> QED BY <3>1, <2>1, Zenon
  <2>2. CASE t \notin S
    BY <2>2 DEF StoreOK
  <2> QED BY <2>1, <2>2
<1>5. StoreOK(r, m)
  <2>1. r.sessions \in [DOMAIN r.sessions -> Session] /\ DOMAIN r.sessions \subseteq 1..m
    BY <1>1 DEF StoreOK, Live
  <2>2. r.cardTokens \in [DOMAIN r.cardTokens -> Token] /\ DOMAIN r.cardTokens \subseteq Card
    BY <1>1 DEF StoreOK
  <2>3. kept \subseteq DOMAIN st.terminal \cup S
    OBVIOUS
  <2>4. r.terminal \in [DOMAIN r.terminal -> [why : Ending, at : Nat]]
    BY <1>1, <1>4, <2>3
  <2>5. DOMAIN r.terminal \subseteq 1..m
    BY <1>1, <2>3 DEF StoreOK, Live
  <2>6. r.retired \in Nat
    BY <1>1, <1>3 DEF StoreOK
  <2> QED BY <1>1, <2>1, <2>2, <2>4, <2>5, <2>6 DEF StoreOK
<1>6. Live(r) = Live(st) \ S /\ \A t \in Live(r) : r.sessions[t] = st.sessions[t]
  BY <1>1 DEF Live
<1>7. Exclusive(r)
  <2>1. ASSUME NEW t \in Live(r)
        PROVE  /\ r.sessions[t].card \in DOMAIN r.cardTokens
               /\ r.cardTokens[r.sessions[t].card] = t
    BY <1>1, <1>6, <2>1, SMTT(30) DEF Exclusive
  <2>2. ASSUME NEW c \in DOMAIN r.cardTokens
        PROVE  r.cardTokens[c] \in Live(r) /\ r.sessions[r.cardTokens[c]].card = c
    BY <1>1, <1>6, <2>2, SMTT(30) DEF Exclusive
  <2> QED BY <2>1, <2>2 DEF Exclusive
<1>8. DOMAIN r.cardTokens \subseteq DOMAIN st.cardTokens
  BY <1>1
<1>9. ASSUME NEW t \in DOMAIN r.terminal
      PROVE  \/ t \in S /\ r.terminal[t].why = why
             \/ t \in DOMAIN st.terminal \ S /\ r.terminal[t] = st.terminal[t]
  BY <1>1, <1>9
<1> HIDE DEF r, ended, freed, kept
<1> QED BY <1>5, <1>6, <1>7, <1>8, <1>9 DEF Removed, r

\* What every operation that ends or reveals sessions leaves behind: no new
\* session, the others as they were, no new lease.
Shrunk(old, new) ==
  /\ Live(new) \subseteq Live(old)
  /\ \A t \in Live(new) :
       /\ new.sessions[t].client = old.sessions[t].client
       /\ new.sessions[t].language = old.sessions[t].language
       /\ new.sessions[t].card = old.sessions[t].card
       /\ new.sessions[t].fingerprint = old.sessions[t].fingerprint
       /\ new.sessions[t].generation = old.sessions[t].generation
  /\ DOMAIN new.cardTokens \subseteq DOMAIN old.cardTokens

\* No token was filed as consumed but, possibly, t.
NoneConsumedBut(old, new, t) ==
  \A u \in DOMAIN new.terminal :
    new.terminal[u].why = "consumed" =>
      u = t \/ (u \in DOMAIN old.terminal /\ old.terminal[u].why = "consumed")

\* _expire keeps the store well-formed and consumes nothing.
LEMMA ExpireFacts ==
  ASSUME NEW st, NEW m \in Nat, StoreOK(st, m), Exclusive(st)
  PROVE  LET r == Expire(st) IN
         /\ StoreOK(r, m)
         /\ Exclusive(r)
         /\ Shrunk(st, r)
         /\ \A t \in Live(r) : r.sessions[t] = st.sessions[t]
         /\ NoneConsumedBut(st, r, 0)
<1> DEFINE S == {t \in Live(st) : t <= horizon}
           r == Remove(st, S, "expired")
<1>1. S \in SUBSET Live(st) /\ "expired" \in Ending
  BY DEF Ending
<1>2. Expire(st) = r
  BY DEF Expire
<1> HIDE DEF S
<1>3. Removed(st, m, S, "expired", r)
  BY <1>1, RemoveFacts
<1> HIDE DEF r
<1>4. Shrunk(st, r)
  BY <1>3 DEF Removed, Shrunk
<1>5. NoneConsumedBut(st, r, 0)
  BY <1>3 DEF Removed, NoneConsumedBut
<1> QED BY <1>2, <1>3, <1>4, <1>5 DEF Removed

\* Ending one session: consume and stale.
LEMMA EndOneFacts ==
  ASSUME NEW st, NEW m \in Nat, StoreOK(st, m), Exclusive(st),
         NEW t \in Live(st), NEW why \in {"consumed", "stale"}
  PROVE  LET r == Remove(st, {t}, why) IN
         /\ StoreOK(r, m)
         /\ Exclusive(r)
         /\ Shrunk(st, r)
         /\ NoneConsumedBut(st, r, IF why = "consumed" THEN t ELSE 0)
         /\ Live(r) = Live(st) \ {t}
<1> DEFINE r == Remove(st, {t}, why)
<1>1. {t} \in SUBSET Live(st) /\ why \in Ending
  BY DEF Ending
<1>2. Removed(st, m, {t}, why, r)
  BY <1>1, RemoveFacts
<1> HIDE DEF r
<1>3. Shrunk(st, r)
  BY <1>2 DEF Removed, Shrunk
<1>4. NoneConsumedBut(st, r, IF why = "consumed" THEN t ELSE 0)
  BY <1>2 DEF Removed, NoneConsumedBut
<1> QED BY <1>2, <1>3, <1>4 DEF r, Removed

\* release_card ends the lease of a card, if there is one.
LEMMA ReleaseFacts ==
  ASSUME NEW st, NEW m \in Nat, StoreOK(st, m), Exclusive(st), NEW c
  PROVE  LET r == ReleaseCard(st, c) IN
         StoreOK(r, m) /\ Exclusive(r) /\ Shrunk(st, r) /\ NoneConsumedBut(st, r, 0)
<1>1. CASE c \in DOMAIN st.cardTokens /\ st.cardTokens[c] \in Live(st)
  <2> DEFINE r == Remove(st, {st.cardTokens[c]}, "stale")
  <2>1. ReleaseCard(st, c) = r
    BY <1>1 DEF ReleaseCard, Stale
  <2>2. /\ StoreOK(r, m) /\ Exclusive(r) /\ Shrunk(st, r)
        /\ NoneConsumedBut(st, r, IF "stale" = "consumed" THEN st.cardTokens[c] ELSE 0)
    BY <1>1, EndOneFacts
  <2> HIDE DEF r
  <2> QED BY <2>1, <2>2
<1>2. CASE ~(c \in DOMAIN st.cardTokens /\ st.cardTokens[c] \in Live(st))
  BY <1>2 DEF ReleaseCard, Shrunk, NoneConsumedBut
<1> QED BY <1>1, <1>2

\* Setting the revealed flag of a live session.
LEMMA RevealFacts ==
  ASSUME NEW st, NEW m \in Nat, StoreOK(st, m), Exclusive(st), NEW t \in Live(st)
  PROVE  LET r == Revealed(st, t) IN
         StoreOK(r, m) /\ Exclusive(r) /\ Shrunk(st, r) /\ NoneConsumedBut(st, r, 0)
<1> DEFINE r == Revealed(st, t)
<1>1. /\ r.sessions = [st.sessions EXCEPT ![t] = [@ EXCEPT !.revealed = TRUE]]
      /\ r.cardTokens = st.cardTokens /\ r.terminal = st.terminal
      /\ r.retired = st.retired
  BY DEF Revealed, WithLeases, StoreOK, Live
<1> HIDE DEF r
<1>2. Live(r) = Live(st)
  BY <1>1 DEF Live
<1>3. \A u \in Live(r) : /\ r.sessions[u] \in Session
                         /\ r.sessions[u].card = st.sessions[u].card
                         /\ r.sessions[u].client = st.sessions[u].client
                         /\ r.sessions[u].language = st.sessions[u].language
                         /\ r.sessions[u].fingerprint = st.sessions[u].fingerprint
                         /\ r.sessions[u].generation = st.sessions[u].generation
  <2> TAKE u \in Live(r)
  <2>1. u \in DOMAIN st.sessions /\ st.sessions[u] \in Session
    BY <1>2 DEF Live, StoreOK
  <2>2. r.sessions[u] = IF u = t THEN [st.sessions[u] EXCEPT !.revealed = TRUE]
                                 ELSE st.sessions[u]
    BY <1>1, <2>1
  <2> QED BY <2>1, <2>2 DEF Session
<1>4. StoreOK(r, m)
  BY <1>1, <1>2, <1>3 DEF StoreOK, Live
<1>5. Exclusive(r)
  BY <1>1, <1>2, <1>3 DEF Exclusive
<1>6. Shrunk(st, r) /\ NoneConsumedBut(st, r, 0)
  BY <1>1, <1>2, <1>3 DEF Shrunk, NoneConsumedBut
<1> QED BY <1>4, <1>5, <1>6 DEF r

\* create adds one session, on a card that was not leased.
LEMMA CreateFacts ==
  ASSUME NEW st, NEW m \in Nat, StoreOK(st, m), Exclusive(st), m + 1 \in Token,
         NEW s \in Session, s.card \notin DOMAIN st.cardTokens
  PROVE  LET r == Create(st, m + 1, s) IN
         /\ StoreOK(r, m + 1)
         /\ Exclusive(r)
         /\ Live(r) \subseteq Live(st) \cup {m + 1}
         /\ r.sessions[m + 1] = s
         /\ \A u \in Live(r) \ {m + 1} : r.sessions[u] = st.sessions[u]
         /\ NoneConsumedBut(st, r, 0)
         /\ m + 1 \notin Live(st)
         /\ s.card \in DOMAIN r.cardTokens /\ r.cardTokens[s.card] = m + 1
<1> DEFINE e == Expire(st)
           t == m + 1
           r == Create(st, t, s)
<1>1. /\ StoreOK(e, m) /\ Exclusive(e) /\ Shrunk(st, e)
      /\ \A u \in Live(e) : e.sessions[u] = st.sessions[u]
      /\ NoneConsumedBut(st, e, 0)
  BY ExpireFacts
<1> HIDE DEF e
<1>2. /\ r.sessions = [u \in DOMAIN e.sessions \cup {t} |-> IF u = t THEN s ELSE e.sessions[u]]
      /\ r.cardTokens = [c \in DOMAIN e.cardTokens \cup {s.card} |->
                           IF c = s.card THEN t ELSE e.cardTokens[c]]
      /\ r.terminal = e.terminal /\ r.retired = e.retired
  BY <1>1 DEF Create, WithLeases, Live, e
<1> HIDE DEF r
<1>3. t \notin Live(e) /\ t \notin Live(st) /\ s.card \notin DOMAIN e.cardTokens
  BY <1>1 DEF StoreOK, Live, Shrunk
<1>4. /\ Live(r) = Live(e) \cup {t} /\ r.sessions[t] = s
      /\ \A u \in Live(e) : r.sessions[u] = e.sessions[u]
  BY <1>2, <1>3 DEF Live
<1>5. StoreOK(r, m + 1)
  <2>1. r.sessions \in [DOMAIN r.sessions -> Session] /\ DOMAIN r.sessions \subseteq 1..(m + 1)
    BY <1>1, <1>2 DEF StoreOK
  <2>2. s.card \in Card
    BY DEF Session
  <2>3. r.cardTokens \in [DOMAIN r.cardTokens -> Token] /\ DOMAIN r.cardTokens \subseteq Card
    BY <1>1, <1>2, <2>2 DEF StoreOK
  <2>4. /\ r.terminal \in [DOMAIN r.terminal -> [why : Ending, at : Nat]]
        /\ DOMAIN r.terminal \subseteq 1..(m + 1) /\ r.retired \in Nat
    BY <1>1, <1>2 DEF StoreOK
  <2> QED BY <1>2, <2>1, <2>3, <2>4 DEF StoreOK
<1>6. Exclusive(r)
  <2> HIDE DEF t
  <2>1. ASSUME NEW u \in Live(r)
        PROVE  r.sessions[u].card \in DOMAIN r.cardTokens /\ r.cardTokens[r.sessions[u].card] = u
    <3>1. CASE u = t
      <4>1. r.sessions[u].card = s.card
        BY <1>4, <3>1
      <4> QED BY <1>2, <3>1, <4>1
    <3>2. CASE u # t
      <4>1. u \in Live(e) /\ r.sessions[u] = e.sessions[u]
        BY <1>4, <3>2
      <4>2. /\ e.sessions[u].card \in DOMAIN e.cardTokens
            /\ e.cardTokens[e.sessions[u].card] = u
        BY <1>1, <4>1 DEF Exclusive
      <4> QED BY <1>2, <1>3, <4>1, <4>2
    <3> QED BY <3>1, <3>2
  <2>2. ASSUME NEW c \in DOMAIN r.cardTokens
        PROVE  r.cardTokens[c] \in Live(r) /\ r.sessions[r.cardTokens[c]].card = c
    <3>1. CASE c = s.card
      BY <1>2, <1>4, <3>1
    <3>2. CASE c # s.card
      <4>1. c \in DOMAIN e.cardTokens /\ r.cardTokens[c] = e.cardTokens[c]
        BY <1>2, <3>2
      <4>2. e.cardTokens[c] \in Live(e) /\ e.sessions[e.cardTokens[c]].card = c
        BY <1>1, <4>1 DEF Exclusive
      <4> QED BY <1>4, <4>1, <4>2
    <3> QED BY <3>1, <3>2
  <2> QED BY <2>1, <2>2 DEF Exclusive
<1>7. NoneConsumedBut(st, r, 0)
  BY <1>1, <1>2 DEF NoneConsumedBut
<1>8. Live(r) \subseteq Live(st) \cup {t} /\ \A u \in Live(r) \ {t} : r.sessions[u] = st.sessions[u]
  BY <1>1, <1>4 DEF Shrunk
<1>9. s.card \in DOMAIN r.cardTokens /\ r.cardTokens[s.card] = t
  BY <1>2
<1> QED BY <1>3, <1>4, <1>5, <1>6, <1>7, <1>8, <1>9 DEF r

-----------------------------------------------------------------------------
(* The inductive invariant, one lemma per kind of step. *)

\* A handler's step that only ends or reveals sessions.
LEMMA StoreStep ==
  ASSUME LeaseInv,
         UNCHANGED <<issued, horizon, collection, ghosts>>,
         StoreOK(store', issued), Exclusive(store'), Shrunk(store, store'),
         \A t \in DOMAIN store'.terminal :
           store'.terminal[t].why = "consumed" => t \in applied,
         RequestOK', HandlerRelies',
         pc' = "create" => GenerationIdentifiesHandle(req'.view),
         pc = "exported" => pc' = "exported" \/ Live(store') = {}
  PROVE  LeaseInv'
<1> USE DEF collection, storage, ghosts
<1>1. TypeOK'
  BY DEF LeaseInv, TypeOK, StoreOK
<1>2. LeasesExclusive'
  BY DEF LeasesExclusive, Exclusive, Live
<1>3. OneSessionPerClient'
  BY DEF LeaseInv, OneSessionPerClient, Shrunk, Live
<1>4. ConsumedWasApplied'
  BY DEF ConsumedWasApplied
<1>5. SessionsMatchViews'
  BY DEF LeaseInv, SessionsMatchViews, Shrunk, Live
<1>6. HandlesTracked'
  BY DEF LeaseInv, HandlesTracked, GenerationIdentifiesHandle, Shrunk, Live
<1>7. NothingFromTheFuture' /\ AnswersWhatWasShown' /\ AnswersMovedOn'
  BY DEF LeaseInv, NothingFromTheFuture, AnswersWhatWasShown, AnswersMovedOn
<1> QED BY <1>1, <1>2, <1>3, <1>4, <1>5, <1>6, <1>7 DEF LeaseInv

\* A change of one card, by an answer or by anyone else: what the review
\* history says of answers stays true.
LEMMA ChangeStep ==
  ASSUME LeaseInv, NEW c \in Card, NEW new \in [sched : Nat, at : Place],
         NEW by \in 0..MaxTokens, Changed(c, new, by),
         UNCHANGED <<shown, handle>>,
         cards[c].sched <= new.sched, new.sched <= changes + 1,
         by # 0 => /\ by \in DOMAIN shown /\ shown[by].card = c
                   /\ shown[by].seen = cards[c] /\ shown[by].handle = handle
                   /\ cards[c].sched < new.sched
  PROVE  /\ cards' \in [Card -> CardState] /\ history' \in Seq(Change)
         /\ undoable' \in 0..Len(history') /\ changes' \in 0..MaxChanges
         /\ NothingFromTheFuture' /\ AnswersWhatWasShown' /\ AnswersMovedOn'
<1> DEFINE n == Len(history)
           e == [card |-> c, before |-> cards[c], by |-> by, handle |-> handle]
<1>1. /\ cards \in [Card -> CardState] /\ history \in Seq(Change)
      /\ undoable \in 0..n /\ changes \in 0..MaxChanges /\ handle \in 1..MaxHandles
      /\ NothingFromTheFuture /\ AnswersWhatWasShown /\ AnswersMovedOn
  BY DEF LeaseInv, TypeOK
<1>2. /\ changes < MaxChanges /\ changes' = changes + 1
      /\ cards' = [cards EXCEPT ![c] = new]
      /\ history' = Append(history, e)
      /\ undoable' = undoable + 1
  BY DEF Changed
<1>3. cards[c] \in CardState /\ e \in Change /\ new \in CardState /\ n \in Nat
  BY <1>1, <1>2, BoundsAssumption DEF CardState, Change
<1>4. /\ history' \in Seq(Change) /\ Len(history') = n + 1
      /\ DOMAIN history' = 1..(n + 1) /\ DOMAIN history = 1..n
      /\ \A i \in 1..n : history'[i] = history[i]
      /\ history'[n + 1] = e
  <2> HIDE DEF e
  <2> QED BY <1>1, <1>2, <1>3
<1>5. /\ \A d \in Card : cards[d].sched \in Nat
      /\ \A i \in 1..n : history[i].before.sched \in Nat /\ history[i].card \in Card
  <2>1. ASSUME NEW d \in Card PROVE cards[d].sched \in Nat
    BY <1>1 DEF CardState
  <2>2. ASSUME NEW i \in 1..n
        PROVE  history[i].before.sched \in Nat /\ history[i].card \in Card
    <3>1. history[i] \in Change
      BY <1>1, <1>4, <2>2
    <3> QED BY <3>1 DEF Change, CardState
  <2> QED BY <2>1, <2>2
<1>6. e.card = c /\ e.before = cards[c] /\ e.by = by /\ e.handle = handle
  OBVIOUS
<1> HIDE DEF n, e
<1>7. cards'[c] = new /\ \A d \in Card \ {c} : cards'[d] = cards[d]
  BY <1>1, <1>2
<1>8. NothingFromTheFuture'
  <2>1. ASSUME NEW d \in Card PROVE cards'[d].sched <= changes'
    <3>1. cards[d].sched <= changes /\ cards[d].sched \in Nat /\ changes \in Nat
      BY <1>1, <1>5 DEF NothingFromTheFuture
    <3> QED BY <1>2, <1>7, <3>1
  <2>2. ASSUME NEW i \in 1..(n + 1) PROVE history'[i].before.sched <= changes'
    <3>1. CASE i = n + 1
      BY <1>1, <1>2, <1>4, <1>5, <1>6, <3>1 DEF NothingFromTheFuture
    <3>2. CASE i \in 1..n
      <4>1. history[i].before.sched <= changes /\ history[i].before.sched \in Nat
        BY <1>1, <1>4, <1>5, <3>2 DEF NothingFromTheFuture
      <4> QED BY <1>1, <1>2, <1>4, <3>2, <4>1
    <3> QED BY <1>3, <3>1, <3>2
  <2> QED BY <1>4, <2>1, <2>2 DEF NothingFromTheFuture
<1>9. AnswersWhatWasShown'
  <2> SUFFICES ASSUME NEW i \in 1..(n + 1), history'[i].by # 0
               PROVE  /\ history'[i].by \in DOMAIN shown
                      /\ history'[i].card = shown[history'[i].by].card
                      /\ history'[i].before = shown[history'[i].by].seen
                      /\ history'[i].handle = shown[history'[i].by].handle
    BY <1>4 DEF AnswersWhatWasShown
  <2>1. CASE i = n + 1
    BY <1>4, <1>6, <2>1
  <2>2. CASE i \in 1..n
    BY <1>1, <1>4, <2>2 DEF AnswersWhatWasShown
  <2> QED BY <1>3, <2>1, <2>2
<1>10. AnswersMovedOn'
  <2> SUFFICES ASSUME NEW i \in 1..(n + 1), history'[i].by # 0
               PROVE  /\ cards'[history'[i].card].sched > history'[i].before.sched
                      /\ \A j \in 1..(n + 1) :
                           j > i /\ history'[j].card = history'[i].card
                           => history'[j].before.sched > history'[i].before.sched
    BY <1>4 DEF AnswersMovedOn
  <2>1. CASE i = n + 1
    BY <1>3, <1>4, <1>6, <1>7, <2>1
  <2>2. CASE i \in 1..n
    <3>1. /\ cards[history[i].card].sched > history[i].before.sched
          /\ \A j \in 1..n : j > i /\ history[j].card = history[i].card
                             => history[j].before.sched > history[i].before.sched
      BY <1>1, <1>4, <2>2 DEF AnswersMovedOn
    <3>2. cards'[history[i].card].sched >= cards[history[i].card].sched
      BY <1>4, <1>5, <1>7, <2>2
    <3>3. new.sched \in Nat /\ history[i].before.sched \in Nat
          /\ cards[history[i].card].sched \in Nat /\ cards'[history[i].card].sched \in Nat
      BY <1>4, <1>5, <1>7, <2>2
    <3>4. ASSUME NEW j \in 1..(n + 1), j > i, history'[j].card = history'[i].card
          PROVE  history'[j].before.sched > history'[i].before.sched
      <4>1. CASE j = n + 1
        BY <1>4, <1>6, <2>2, <3>1, <3>4, <4>1
      <4>2. CASE j \in 1..n
        BY <1>4, <2>2, <3>1, <3>4, <4>2
      <4> QED BY <4>1, <4>2, <1>3
    <3> QED BY <1>4, <2>2, <3>1, <3>2, <3>3, <3>4
  <2> QED BY <2>1, <2>2, <1>3
<1>11. /\ cards' \in [Card -> CardState] /\ changes' \in 0..MaxChanges
       /\ undoable' \in 0..Len(history')
  BY <1>1, <1>2, <1>3, <1>4, BoundsAssumption
<1> QED BY <1>4, <1>8, <1>9, <1>10, <1>11

\* A step of the collection that leaves the store and the handler's state.
LEMMA CollectionStep ==
  ASSUME LeaseInv,
         UNCHANGED <<store, issued, horizon, shown>>,
         applied \subseteq applied', applied' \subseteq 1..issued,
         cards' \in [Card -> CardState], history' \in Seq(Change),
         undoable' \in 0..Len(history'), changes' \in 0..MaxChanges,
         generation' \in 1..handle', handle' \in 1..MaxHandles,
         RequestOK', HandlerRelies', HandlesTracked',
         NothingFromTheFuture', AnswersWhatWasShown', AnswersMovedOn'
  PROVE  LeaseInv'
<1>1. TypeOK'
  BY DEF LeaseInv, TypeOK, StoreOK
<1>2. LeasesExclusive' /\ OneSessionPerClient' /\ SessionsMatchViews'
  BY DEF LeaseInv, LeasesExclusive, Exclusive, OneSessionPerClient,
         SessionsMatchViews, Live
<1>3. ConsumedWasApplied'
  BY DEF LeaseInv, ConsumedWasApplied
<1> QED BY <1>1, <1>2, <1>3 DEF LeaseInv

\* What _expire does to the store of a reachable state.
LEMMA ExpireNow ==
  ASSUME LeaseInv
  PROVE  /\ StoreOK(Expire(store), issued) /\ Exclusive(Expire(store))
         /\ Shrunk(store, Expire(store))
         /\ \A t \in Live(Expire(store)) :
              t \in Live(store) /\ Expire(store).sessions[t] = store.sessions[t]
         /\ \A t \in DOMAIN Expire(store).terminal :
              Expire(store).terminal[t].why = "consumed" => t \in applied
<1>1. issued \in Nat /\ StoreOK(store, issued) /\ Exclusive(store)
  BY BoundsAssumption DEF LeaseInv, TypeOK, LeasesExclusive
<1>2. /\ StoreOK(Expire(store), issued) /\ Exclusive(Expire(store))
      /\ Shrunk(store, Expire(store))
      /\ \A t \in Live(Expire(store)) : Expire(store).sessions[t] = store.sessions[t]
      /\ NoneConsumedBut(store, Expire(store), 0)
  BY <1>1, ExpireFacts
<1>3. ASSUME NEW t \in DOMAIN Expire(store).terminal,
             Expire(store).terminal[t].why = "consumed"
      PROVE  t \in applied
  <2>1. t \in 1..issued
    BY <1>2 DEF StoreOK
  <2>2. t \in DOMAIN store.terminal /\ store.terminal[t].why = "consumed"
    BY <1>1, <1>2, <1>3, <2>1 DEF NoneConsumedBut
  <2> QED BY <2>2 DEF LeaseInv, ConsumedWasApplied
<1> QED BY <1>2, <1>3 DEF Shrunk

\* A request that is turned away, or answered from the store.
LEMMA LookUpStep == ASSUME LeaseInv, LookUp PROVE LeaseInv'
<1>1. RequestOK' /\ HandlerRelies'
  BY DEF LookUp, LeaseInv, TypeOK, RequestOK, HandlerRelies, SessionPinned
<1> QED BY <1>1, ExpireNow, StoreStep DEF LookUp

LEMMA NextReviewStep ==
  ASSUME LeaseInv, NEW cl \in Client, NEW lang \in Language, NextReview(cl, lang)
  PROVE  LeaseInv'
<1>1. RequestOK'
  BY DEF NextReview, RequestOK, Stage
<1>2. HandlerRelies'
  BY DEF NextReview, HandlerRelies, SessionPinned, ForClient, Live
<1>3. pc = "idle" /\ pc' = "load"
  BY DEF NextReview
<1> QED BY <1>1, <1>2, <1>3, ExpireNow, StoreStep DEF NextReview

LEMMA LoadCardStep ==
  ASSUME LeaseInv, NEW c \in Card, LoadCard(c) PROVE LeaseInv'
<1>1. /\ pc = "load" /\ pc' = "create" /\ store' = Expire(store)
      /\ req'.client = req.client /\ req'.language = req.language
      /\ req'.view = [card |-> c, seen |-> cards[c], generation |-> generation,
                      handle |-> handle]
      /\ UNCHANGED <<issued, horizon, collection, ghosts>>
  BY DEF LoadCard
<1>2. req'.view \in View
  BY <1>1, BoundsAssumption DEF LeaseInv, TypeOK, View
<1>3. RequestOK'
  BY <1>1, <1>2 DEF LeaseInv, TypeOK, RequestOK, LoadCard, Stage
<1>4. ForClient(store, req.client, req.language) = {}
  BY <1>1 DEF LeaseInv, HandlerRelies
<1>5. ForClient(store', req'.client, req'.language) = {}
  BY <1>1, <1>4, ExpireNow DEF ForClient
<1>6. HandlerRelies'
  BY <1>1, <1>5 DEF HandlerRelies, SessionPinned, LoadCard
<1>7. GenerationIdentifiesHandle(req'.view)
  BY <1>1, BoundsAssumption DEF GenerationIdentifiesHandle, LeaseInv, TypeOK
<1> QED BY <1>1, <1>3, <1>6, <1>7, ExpireNow, StoreStep

LEMMA LoadNothingStep == ASSUME LeaseInv, LoadNothing PROVE LeaseInv'
<1>1. RequestOK' /\ HandlerRelies'
  BY DEF LoadNothing, Return, RequestOK, HandlerRelies, SessionPinned, Stage
<1>2. CASE store' = Expire(store)
  BY <1>1, <1>2, ExpireNow, StoreStep DEF LoadNothing, Return
<1>3. CASE store' = store
  <2>1. /\ StoreOK(store', issued) /\ Exclusive(store') /\ Shrunk(store, store')
        /\ \A t \in DOMAIN store'.terminal :
             store'.terminal[t].why = "consumed" => t \in applied
    BY <1>3 DEF LeaseInv, TypeOK, LeasesExclusive, Shrunk, ConsumedWasApplied
  <2> QED BY <1>1, <2>1, StoreStep DEF LoadNothing, Return
<1> QED BY <1>2, <1>3 DEF LoadNothing

LEMMA CheckStep ==
  ASSUME LeaseInv, NEW t \in 1..issued, NEW cl \in Client, Check(t, cl)
  PROVE  LeaseInv'
<1>1. pc = "idle" /\ t \in Live(Expire(store))
      /\ UNCHANGED <<issued, horizon, collection, ghosts>>
  BY DEF Check
<1>2. CASE store' = Expire(store) /\ pc' = "check" /\ req' = [kind |-> "check", token |-> t]
  <2>1. RequestOK' /\ HandlerRelies'
    BY <1>1, <1>2 DEF RequestOK, HandlerRelies, SessionPinned, Stage
  <2> QED BY <1>1, <1>2, <2>1, ExpireNow, StoreStep
<1>3. CASE store' = Revealed(Expire(store), t) /\ UNCHANGED <<pc, req>>
  <2>1. issued \in Nat
    BY DEF LeaseInv, TypeOK
  <2>2. /\ StoreOK(store', issued) /\ Exclusive(store')
        /\ Shrunk(Expire(store), store') /\ NoneConsumedBut(Expire(store), store', 0)
    BY <1>1, <1>3, <2>1, ExpireNow, RevealFacts
  <2>3. Shrunk(store, store')
    BY <2>2, ExpireNow DEF Shrunk
  <2>4. \A u \in DOMAIN store'.terminal :
          store'.terminal[u].why = "consumed" => u \in applied
    BY <2>1, <2>2, ExpireNow DEF NoneConsumedBut, StoreOK
  <2>5. RequestOK' /\ HandlerRelies'
    BY <1>1, <1>3 DEF LeaseInv, TypeOK, RequestOK, HandlerRelies, SessionPinned
  <2> QED BY <1>1, <1>3, <2>2, <2>3, <2>4, <2>5, StoreStep
<1> QED BY <1>2, <1>3 DEF Check

LEMMA RevealStep == ASSUME LeaseInv, Reveal PROVE LeaseInv'
<1>1. /\ issued \in Nat /\ StoreOK(store, issued) /\ Exclusive(store)
      /\ req.token \in Live(store) /\ pc = "check"
      /\ UNCHANGED <<issued, horizon, collection, ghosts>>
  BY DEF LeaseInv, TypeOK, LeasesExclusive, HandlerRelies, SessionPinned, Reveal
<1>2. /\ StoreOK(store', issued) /\ Exclusive(store')
      /\ Shrunk(store, store') /\ NoneConsumedBut(store, store', 0)
  BY <1>1, RevealFacts DEF Reveal
<1>3. \A u \in DOMAIN store'.terminal :
        store'.terminal[u].why = "consumed" => u \in applied
  BY <1>1, <1>2 DEF NoneConsumedBut, StoreOK, LeaseInv, ConsumedWasApplied
<1>4. RequestOK' /\ HandlerRelies' /\ pc' = "idle"
  BY DEF Reveal, Return, RequestOK, HandlerRelies, SessionPinned, Stage
<1> QED BY <1>1, <1>2, <1>3, <1>4, StoreStep

LEMMA AnswerStep ==
  ASSUME LeaseInv, NEW t \in 1..issued, NEW cl \in Client, Answer(t, cl)
  PROVE  LeaseInv'
<1>1. RequestOK' /\ HandlerRelies' /\ pc = "idle" /\ pc' = "answer"
  BY DEF Answer, RequestOK, HandlerRelies, SessionPinned, Stage
<1> QED BY <1>1, ExpireNow, StoreStep DEF Answer

\* Ending the session of the token that was answered.
LEMMA EndAnswered ==
  ASSUME LeaseInv, pc \in {"answer", "recorded"}, NEW why \in {"consumed", "stale"},
         why = "consumed" => req.token \in applied,
         store' = Remove(store, {req.token}, why), Return,
         UNCHANGED <<issued, horizon, collection, ghosts>>
  PROVE  LeaseInv'
<1>1. /\ issued \in Nat /\ StoreOK(store, issued) /\ Exclusive(store)
      /\ req.token \in Live(store)
  BY DEF LeaseInv, TypeOK, LeasesExclusive, HandlerRelies, SessionPinned
<1>2. /\ StoreOK(store', issued) /\ Exclusive(store') /\ Shrunk(store, store')
      /\ NoneConsumedBut(store, store', IF why = "consumed" THEN req.token ELSE 0)
  BY <1>1, EndOneFacts
<1>3. \A u \in DOMAIN store'.terminal :
        store'.terminal[u].why = "consumed" => u \in applied
  <2> SUFFICES ASSUME NEW u \in DOMAIN store'.terminal,
                      store'.terminal[u].why = "consumed"
               PROVE  u \in applied
    OBVIOUS
  <2>1. u \in 1..issued
    BY <1>2 DEF StoreOK
  <2>2. CASE u \in DOMAIN store.terminal /\ store.terminal[u].why = "consumed"
    BY <2>2 DEF LeaseInv, ConsumedWasApplied
  <2>3. CASE u = IF why = "consumed" THEN req.token ELSE 0
    BY <1>1, <2>1, <2>3
  <2> QED BY <1>2, <2>2, <2>3 DEF NoneConsumedBut
<1>4. RequestOK' /\ HandlerRelies' /\ pc' = "idle" /\ pc # "exported"
  BY DEF Return, RequestOK, HandlerRelies, SessionPinned, Stage
<1> QED BY <1>1, <1>2, <1>3, <1>4, StoreStep

LEMMA AnswerEndsStep ==
  ASSUME LeaseInv, AnswerConflict \/ AnswerDone PROVE LeaseInv'
<1>1. CASE AnswerConflict
  BY <1>1, EndAnswered DEF AnswerConflict, Stale
<1>2. CASE AnswerDone
  <2>1. req.token \in applied /\ pc = "recorded"
    BY <1>2 DEF AnswerDone, LeaseInv, HandlerRelies
  <2> QED BY <1>2, <2>1, EndAnswered DEF AnswerDone, Consume
<1> QED BY <1>1, <1>2

LEMMA CreateSessionStep == ASSUME LeaseInv, CreateSession PROVE LeaseInv'
<1> DEFINE t == issued + 1
           s == [client |-> req.client, language |-> req.language,
                 card |-> req.view.card, fingerprint |-> req.view.seen,
                 generation |-> req.view.generation, revealed |-> FALSE]
<1>1. /\ issued' = t /\ store' = Create(store, t, s)
      /\ shown' = [u \in DOMAIN shown \cup {t} |-> IF u = t THEN req.view ELSE shown[u]]
      /\ pc = "create" /\ pc' = "idle" /\ req' = NoRequest
      /\ UNCHANGED <<horizon, collection, applied>>
  BY DEF CreateSession, NewToken, Return
<1>2. /\ issued \in Nat /\ issued < MaxTokens /\ t \in Token /\ t \in 1..t
      /\ req.view \in View /\ req.client \in Client /\ req.language \in Language
      /\ StoreOK(store, issued) /\ Exclusive(store) /\ horizon \in 0..issued
      /\ shown \in [1..issued -> View] /\ applied \subseteq 1..issued
  BY <1>1, BoundsAssumption DEF LeaseInv, TypeOK, RequestOK, LeasesExclusive, Token
<1>3. s \in Session
  BY <1>2 DEF Session, View
<1>4. /\ s.card \notin DOMAIN store.cardTokens /\ s.card = req.view.card
      /\ s.fingerprint = req.view.seen /\ s.generation = req.view.generation
      /\ s.client = req.client /\ s.language = req.language
      /\ ForClient(store, s.client, s.language) = {}
  BY <1>1 DEF LeaseInv, HandlerRelies, Leased
<1> HIDE DEF s
<1>5. /\ StoreOK(store', t) /\ Exclusive(store')
      /\ Live(store') \subseteq Live(store) \cup {t}
      /\ store'.sessions[t] = s
      /\ \A u \in Live(store') \ {t} : store'.sessions[u] = store.sessions[u]
      /\ NoneConsumedBut(store, store', 0)
      /\ t \notin Live(store)
  BY <1>1, <1>2, <1>3, <1>4, CreateFacts
<1>6. /\ shown' \in [1..t -> View] /\ shown'[t] = req.view
      /\ \A u \in 1..issued : shown'[u] = shown[u]
  BY <1>1, <1>2
<1>7. Live(store) \subseteq 1..issued
  BY <1>2 DEF StoreOK, Live
<1> USE DEF collection, storage
<1>8. TypeOK'
  <2>1. RequestOK'
    BY <1>1 DEF RequestOK, Stage
  <2>2. horizon' \in 0..issued' /\ issued' \in 0..MaxTokens /\ applied' \subseteq 1..issued'
    BY <1>1, <1>2, BoundsAssumption
  <2> QED BY <1>1, <1>5, <1>6, <2>1, <2>2 DEF LeaseInv, TypeOK
<1>9. LeasesExclusive'
  BY <1>5 DEF LeasesExclusive, Exclusive, Live
<1>10. OneSessionPerClient'
  <2> SUFFICES ASSUME NEW a \in Live(store'), NEW b \in Live(store'),
                      store'.sessions[a].client = store'.sessions[b].client,
                      store'.sessions[a].language = store'.sessions[b].language
               PROVE  a = b
    BY DEF OneSessionPerClient, Live
  <2>1. \A u \in Live(store) :
          ~(store.sessions[u].client = s.client /\ store.sessions[u].language = s.language)
    BY <1>4 DEF ForClient
  <2>2. CASE a = t
    BY <1>5, <2>1, <2>2
  <2>3. CASE b = t
    BY <1>5, <2>1, <2>3
  <2>4. CASE a # t /\ b # t
    BY <1>5, <2>4 DEF LeaseInv, OneSessionPerClient
  <2> QED BY <2>2, <2>3, <2>4
<1>11. ConsumedWasApplied'
  <2> SUFFICES ASSUME NEW u \in DOMAIN store'.terminal,
                      store'.terminal[u].why = "consumed"
               PROVE  u \in applied
    BY <1>1 DEF ConsumedWasApplied
  <2>1. u # 0
    BY <1>2, <1>5 DEF StoreOK
  <2> QED BY <1>5, <2>1 DEF NoneConsumedBut, LeaseInv, ConsumedWasApplied
<1>12. SessionsMatchViews'
  <2> SUFFICES ASSUME NEW u \in Live(store')
               PROVE  /\ store'.sessions[u].card = shown'[u].card
                      /\ store'.sessions[u].fingerprint = shown'[u].seen
                      /\ store'.sessions[u].generation = shown'[u].generation
    BY DEF SessionsMatchViews, Live
  <2>1. CASE u = t
    BY <1>4, <1>5, <1>6, <2>1
  <2>2. CASE u # t
    BY <1>5, <1>6, <1>7, <2>2 DEF LeaseInv, SessionsMatchViews
  <2> QED BY <2>1, <2>2
<1>13. HandlesTracked'
  <2> SUFFICES ASSUME NEW u \in Live(store') PROVE GenerationIdentifiesHandle(shown'[u])
    BY <1>1 DEF HandlesTracked, Live, GenerationIdentifiesHandle
  <2>1. CASE u = t
    BY <1>1, <1>6, <2>1 DEF LeaseInv, HandlesTracked, GenerationIdentifiesHandle
  <2>2. CASE u # t
    BY <1>1, <1>5, <1>6, <1>7, <2>2 DEF LeaseInv, HandlesTracked, GenerationIdentifiesHandle
  <2> QED BY <2>1, <2>2
<1>14. NothingFromTheFuture' /\ AnswersMovedOn' /\ HandlerRelies'
  BY <1>1 DEF LeaseInv, NothingFromTheFuture, AnswersMovedOn, HandlerRelies, SessionPinned
<1>15. AnswersWhatWasShown'
  <2> SUFFICES ASSUME NEW i \in DOMAIN history, history[i].by # 0
               PROVE  /\ history[i].by \in DOMAIN shown'
                      /\ history[i].card = shown'[history[i].by].card
                      /\ history[i].before = shown'[history[i].by].seen
                      /\ history[i].handle = shown'[history[i].by].handle
    BY <1>1 DEF AnswersWhatWasShown
  <2>1. /\ history[i].by \in DOMAIN shown
        /\ history[i].card = shown[history[i].by].card
        /\ history[i].before = shown[history[i].by].seen
        /\ history[i].handle = shown[history[i].by].handle
    BY DEF LeaseInv, AnswersWhatWasShown
  <2> QED BY <1>2, <1>6, <2>1
<1> QED BY <1>8, <1>9, <1>10, <1>11, <1>12, <1>13, <1>14, <1>15 DEF LeaseInv

\* The answer job records an answer only of a session that is live, whose
\* card is still in the state that was shown.
LEMMA AnswerCardFacts ==
  ASSUME LeaseInv, AnswerCard
  PROVE  LET t == req.token
             c == shown[t].card
         IN /\ t \in 1..issued /\ t \in Live(store) /\ c \in Card
            /\ store.sessions[t].card = c
            /\ shown[t].seen = cards[c] /\ shown[t].handle = handle
            /\ Changed(c, [cards[c] EXCEPT !.sched = changes + 1], t)
<1> DEFINE t == req.token
           s == store.sessions[t]
<1>1. /\ t \in 1..issued /\ t \in Live(store) /\ pc = "answer"
  BY DEF LeaseInv, TypeOK, RequestOK, HandlerRelies, SessionPinned, AnswerCard
<1>2. /\ s.card = shown[t].card /\ s.fingerprint = shown[t].seen
      /\ s.generation = shown[t].generation
      /\ GenerationIdentifiesHandle(shown[t])
  BY <1>1 DEF LeaseInv, SessionsMatchViews, HandlesTracked
<1>3. s.card \in Card
  BY <1>1 DEF LeaseInv, TypeOK, StoreOK, Live, Session
<1>4. Current(s) /\ Rescheduled(s.card, t)
  BY DEF AnswerCard
<1> HIDE DEF s, t
<1>5. shown[t].handle = handle /\ shown[t].seen = cards[s.card]
  BY <1>2, <1>4 DEF Current, GenerationIdentifiesHandle
<1> QED BY <1>1, <1>2, <1>3, <1>4, <1>5 DEF Rescheduled, s, t

LEMMA AnswerCardStep == ASSUME LeaseInv, AnswerCard PROVE LeaseInv'
<1> DEFINE t == req.token
           c == shown[t].card
           new == [cards[c] EXCEPT !.sched = changes + 1]
<1>1. /\ t \in 1..issued /\ t \in Live(store) /\ c \in Card
      /\ shown[t].seen = cards[c] /\ shown[t].handle = handle
      /\ Changed(c, new, t)
  BY AnswerCardFacts
<1>2. /\ pc = "answer" /\ pc' = "recorded" /\ applied' = applied \cup {t}
      /\ UNCHANGED <<store, issued, horizon, req, generation, handle, shown>>
  BY DEF AnswerCard
<1>3. /\ cards[c] \in CardState /\ changes \in Nat /\ cards[c].sched <= changes
      /\ t \in DOMAIN shown /\ t \in 0..MaxTokens /\ t # 0
      /\ generation \in 1..handle /\ handle \in 1..MaxHandles
      /\ applied \subseteq 1..issued
  BY <1>1, BoundsAssumption DEF LeaseInv, TypeOK, NothingFromTheFuture
<1>4. new \in [sched : Nat, at : Place] /\ new.sched = changes + 1
      /\ cards[c].sched \in Nat
  BY <1>3 DEF CardState
<1> HIDE DEF new, c, t
<1>5. /\ cards' \in [Card -> CardState] /\ history' \in Seq(Change)
      /\ undoable' \in 0..Len(history') /\ changes' \in 0..MaxChanges
      /\ NothingFromTheFuture' /\ AnswersWhatWasShown' /\ AnswersMovedOn'
  <2>1. cards[c].sched < new.sched /\ new.sched <= changes + 1
    BY <1>3, <1>4
  <2> QED BY <1>1, <1>2, <1>3, <1>4, <2>1, ChangeStep DEF c
<1>6. RequestOK' /\ HandlerRelies' /\ HandlesTracked'
  BY <1>1, <1>2 DEF LeaseInv, TypeOK, RequestOK, Stage, HandlerRelies, SessionPinned,
     HandlesTracked, GenerationIdentifiesHandle, Live, t
<1> QED BY <1>1, <1>2, <1>3, <1>5, <1>6, CollectionStep

LEMMA CardActionSteps ==
  ASSUME LeaseInv,
         \/ \E c \in Card, action \in Action : CardAction(c, action)
         \/ Backup
  PROVE  LeaseInv'
<1>1. /\ StoreOK(store, issued) /\ Exclusive(store) /\ Shrunk(store, store)
      /\ \A t \in DOMAIN store.terminal :
           store.terminal[t].why = "consumed" => t \in applied
  BY DEF LeaseInv, TypeOK, LeasesExclusive, Shrunk, ConsumedWasApplied
<1>2. /\ RequestOK' /\ HandlerRelies' /\ pc = "idle" /\ pc' # "create"
      /\ UNCHANGED <<store, issued, horizon, collection, ghosts>>
  BY DEF CardAction, Backup, RequestOK, HandlerRelies, SessionPinned, Stage
<1> QED BY <1>1, <1>2, StoreStep

LEMMA ActOnCardStep == ASSUME LeaseInv, ActOnCard PROVE LeaseInv'
<1>1. /\ pc = "act" /\ pc' = "acted" /\ req.card \in Card /\ req.action \in Action
      /\ UNCHANGED <<store, issued, horizon, req, generation, handle, shown, applied>>
  BY DEF ActOnCard, ghosts, LeaseInv, TypeOK, RequestOK
<1>2. /\ cards \in [Card -> CardState] /\ changes \in Nat /\ 0 \in 0..MaxTokens
      /\ generation \in 1..handle /\ handle \in 1..MaxHandles
      /\ applied \subseteq 1..issued
      /\ \A c \in Card : cards[c].sched <= changes
      /\ history \in Seq(Change) /\ undoable \in 0..Len(history) /\ changes \in 0..MaxChanges
      /\ NothingFromTheFuture /\ AnswersWhatWasShown /\ AnswersMovedOn
  BY BoundsAssumption DEF LeaseInv, TypeOK, NothingFromTheFuture
<1>3. /\ cards' \in [Card -> CardState] /\ history' \in Seq(Change)
      /\ undoable' \in 0..Len(history') /\ changes' \in 0..MaxChanges
      /\ NothingFromTheFuture' /\ AnswersWhatWasShown' /\ AnswersMovedOn'
  <2>1. CASE UNCHANGED storage
    BY <1>1, <1>2, <2>1 DEF storage, NothingFromTheFuture, AnswersWhatWasShown, AnswersMovedOn
  <2>2. ASSUME NEW place \in Place,
               Changed(req.card, [cards[req.card] EXCEPT !.at = place], 0)
        PROVE  <1>3!:
    <3> DEFINE new == [cards[req.card] EXCEPT !.at = place]
    <3>1. new \in [sched : Nat, at : Place] /\ new.sched = cards[req.card].sched
          /\ new.sched \in Nat
      BY <1>1, <1>2 DEF CardState
    <3>2. cards[req.card].sched <= new.sched /\ new.sched <= changes + 1
      <4> HIDE DEF new
      <4> QED BY <1>1, <1>2, <3>1
    <3> HIDE DEF new
    <3> QED BY <1>1, <1>2, <2>2, <3>1, <3>2, ChangeStep DEF new
  <2> QED BY <2>1, <2>2 DEF ActOnCard, Place
<1>4. RequestOK' /\ HandlerRelies' /\ HandlesTracked'
  BY <1>1 DEF LeaseInv, TypeOK, RequestOK, Stage, HandlerRelies, SessionPinned,
     HandlesTracked, GenerationIdentifiesHandle, Live
<1> QED BY <1>1, <1>2, <1>3, <1>4, CollectionStep

LEMMA ActDoneStep == ASSUME LeaseInv, ActDone PROVE LeaseInv'
<1>1. /\ issued \in Nat /\ StoreOK(store, issued) /\ Exclusive(store)
      /\ UNCHANGED <<issued, horizon, collection, ghosts>>
  BY DEF LeaseInv, TypeOK, LeasesExclusive, ActDone
<1>2. /\ StoreOK(store', issued) /\ Exclusive(store') /\ Shrunk(store, store')
      /\ NoneConsumedBut(store, store', 0)
  BY <1>1, ReleaseFacts DEF ActDone
<1>3. \A u \in DOMAIN store'.terminal :
        store'.terminal[u].why = "consumed" => u \in applied
  BY <1>1, <1>2 DEF NoneConsumedBut, StoreOK, LeaseInv, ConsumedWasApplied
<1>4. RequestOK' /\ HandlerRelies' /\ pc' = "idle" /\ pc = "acted"
  BY DEF ActDone, Return, RequestOK, HandlerRelies, SessionPinned, Stage
<1> QED BY <1>1, <1>2, <1>3, <1>4, StoreStep

LEMMA FailStep == ASSUME LeaseInv, Fail PROVE LeaseInv'
<1>1. /\ StoreOK(store, issued) /\ Exclusive(store) /\ Shrunk(store, store)
      /\ \A t \in DOMAIN store.terminal :
           store.terminal[t].why = "consumed" => t \in applied
  BY DEF LeaseInv, TypeOK, LeasesExclusive, Shrunk, ConsumedWasApplied
<1>2. /\ RequestOK' /\ HandlerRelies' /\ pc' = "idle" /\ pc # "exported"
      /\ UNCHANGED <<store, issued, horizon, collection, ghosts>>
  BY DEF Fail, Return, RequestOK, HandlerRelies, SessionPinned, Stage
<1> QED BY <1>1, <1>2, StoreStep

LEMMA BackupExportStep == ASSUME LeaseInv, BackupExport PROVE LeaseInv'
<1>1. /\ pc = "backup" /\ pc' = "exported" /\ undoable' = 0
      /\ handle < MaxHandles /\ handle' = handle + 1
      /\ UNCHANGED <<store, issued, horizon, req, cards, history, changes,
                     generation, shown, applied>>
  BY DEF BackupExport, ghosts
<1>2. /\ handle' \in 1..MaxHandles /\ undoable' \in 0..Len(history')
      /\ cards' \in [Card -> CardState] /\ history' \in Seq(Change)
      /\ changes' \in 0..MaxChanges /\ generation' \in 1..handle'
      /\ applied \subseteq applied' /\ applied' \subseteq 1..issued
  BY <1>1, BoundsAssumption DEF LeaseInv, TypeOK
<1>3. NothingFromTheFuture' /\ AnswersWhatWasShown' /\ AnswersMovedOn'
  BY <1>1 DEF LeaseInv, NothingFromTheFuture, AnswersWhatWasShown, AnswersMovedOn
<1>4. RequestOK' /\ HandlerRelies' /\ HandlesTracked'
  BY <1>1 DEF RequestOK, Stage, HandlerRelies, SessionPinned, HandlesTracked
<1> QED BY <1>1, <1>2, <1>3, <1>4, CollectionStep

LEMMA BackupDoneStep == ASSUME LeaseInv, BackupDone PROVE LeaseInv'
<1>1. /\ store' = EmptyStore /\ Live(store') = {} /\ DOMAIN store'.terminal = {}
      /\ DOMAIN store'.cardTokens = {}
  BY DEF BackupDone, EmptyStore, Live
<1>2. StoreOK(store', issued) /\ Exclusive(store') /\ Shrunk(store, store')
  BY <1>1 DEF StoreOK, Exclusive, Shrunk, EmptyStore
<1>3. /\ RequestOK' /\ HandlerRelies' /\ pc' = "idle"
      /\ UNCHANGED <<issued, horizon, collection, ghosts>>
  BY DEF BackupDone, Return, RequestOK, HandlerRelies, SessionPinned, Stage
<1> QED BY <1>1, <1>2, <1>3, StoreStep

LEMMA ChangeCardStep == ASSUME LeaseInv, NEW c \in Card, ChangeCard(c) PROVE LeaseInv'
<1>1. UNCHANGED <<store, issued, horizon, pc, req, generation, handle, shown, applied>>
  BY DEF ChangeCard, ghosts
<1>2. /\ cards \in [Card -> CardState] /\ changes \in Nat /\ 0 \in 0..MaxTokens
      /\ generation \in 1..handle /\ handle \in 1..MaxHandles
      /\ applied \subseteq 1..issued
      /\ cards[c].sched <= changes /\ cards[c] \in CardState /\ cards[c].sched \in Nat
  BY BoundsAssumption DEF LeaseInv, TypeOK, NothingFromTheFuture, CardState
<1>3. PICK new \in [sched : Nat, at : Place] :
        /\ Changed(c, new, 0)
        /\ cards[c].sched <= new.sched /\ new.sched <= changes + 1
  <2>1. CASE Rescheduled(c, 0)
    <3> DEFINE new == [cards[c] EXCEPT !.sched = changes + 1]
    <3>1. new \in [sched : Nat, at : Place] /\ new.sched = changes + 1
      BY <1>2 DEF CardState
    <3>2. Changed(c, new, 0)
      BY <2>1 DEF Rescheduled
    <3> HIDE DEF new
    <3>3. cards[c].sched <= new.sched /\ new.sched <= changes + 1
      BY <1>2, <3>1
    <3> QED BY <3>1, <3>2, <3>3
  <2>2. ASSUME NEW place \in Place, Changed(c, [cards[c] EXCEPT !.at = place], 0)
        PROVE  \E new \in [sched : Nat, at : Place] :
                 /\ Changed(c, new, 0)
                 /\ cards[c].sched <= new.sched /\ new.sched <= changes + 1
    <3> DEFINE new == [cards[c] EXCEPT !.at = place]
    <3>1. new \in [sched : Nat, at : Place] /\ new.sched = cards[c].sched
      BY <1>2 DEF CardState
    <3>2. Changed(c, new, 0)
      BY <2>2
    <3> HIDE DEF new
    <3>3. cards[c].sched <= new.sched /\ new.sched <= changes + 1
      BY <1>2, <3>1
    <3> QED BY <3>1, <3>2, <3>3
  <2> QED BY <2>1, <2>2 DEF ChangeCard
<1>4. /\ cards' \in [Card -> CardState] /\ history' \in Seq(Change)
      /\ undoable' \in 0..Len(history') /\ changes' \in 0..MaxChanges
      /\ NothingFromTheFuture' /\ AnswersWhatWasShown' /\ AnswersMovedOn'
  BY <1>1, <1>2, <1>3, ChangeStep
<1>5. RequestOK' /\ HandlerRelies' /\ HandlesTracked'
  BY <1>1 DEF LeaseInv, TypeOK, RequestOK, HandlerRelies, SessionPinned,
     HandlesTracked, GenerationIdentifiesHandle, Live, ForClient
<1> QED BY <1>1, <1>2, <1>4, <1>5, CollectionStep

\* An undo brings back the state before the latest change, which is younger
\* than every answered state of that card: AnswersMovedOn is there for this.
LEMMA UndoStep == ASSUME LeaseInv, Undo PROVE LeaseInv'
<1> DEFINE n == Len(history)
           c == history[n].card
           old == history[n].before
<1>1. /\ undoable > 0 /\ undoable' = undoable - 1
      /\ cards' = [cards EXCEPT ![c] = old]
      /\ history' = SubSeq(history, 1, n - 1)
      /\ UNCHANGED <<store, issued, horizon, pc, req, changes, generation, handle,
                     shown, applied>>
  BY DEF Undo, ghosts
<1>2. /\ cards \in [Card -> CardState] /\ history \in Seq(Change) /\ n \in Nat
      /\ undoable \in 0..n /\ changes \in 0..MaxChanges
      /\ generation \in 1..handle /\ handle \in 1..MaxHandles
      /\ applied \subseteq 1..issued
  BY DEF LeaseInv, TypeOK
<1>3. n \in 1..n /\ DOMAIN history = 1..n /\ history[n] \in Change
  BY <1>1, <1>2
<1>4. c \in Card /\ old \in CardState
  BY <1>3 DEF Change
<1>5. /\ history' \in Seq(Change) /\ Len(history') = n - 1
      /\ DOMAIN history' = 1..(n - 1)
      /\ \A i \in 1..(n - 1) : history'[i] = history[i] /\ i \in 1..n /\ i < n
  BY <1>1, <1>2, <1>3
<1> HIDE DEF c, old
<1>6. cards'[c] = old /\ \A d \in Card \ {c} : cards'[d] = cards[d]
  BY <1>1, <1>2, <1>4
<1>7. NothingFromTheFuture'
  <2>1. old.sched <= changes
    BY <1>3 DEF LeaseInv, NothingFromTheFuture, old
  <2>2. \A d \in Card : cards'[d].sched <= changes
    BY <1>6, <2>1 DEF LeaseInv, NothingFromTheFuture
  <2>3. \A i \in 1..(n - 1) : history'[i].before.sched <= changes
    BY <1>3, <1>5 DEF LeaseInv, NothingFromTheFuture
  <2> QED BY <1>1, <1>5, <2>2, <2>3 DEF NothingFromTheFuture
<1>8. AnswersWhatWasShown'
  BY <1>1, <1>3, <1>5 DEF LeaseInv, AnswersWhatWasShown
<1>9. AnswersMovedOn'
  <2> SUFFICES ASSUME NEW i \in 1..(n - 1), history'[i].by # 0
               PROVE  /\ cards'[history'[i].card].sched > history'[i].before.sched
                      /\ \A j \in 1..(n - 1) :
                           j > i /\ history'[j].card = history'[i].card
                           => history'[j].before.sched > history'[i].before.sched
    BY <1>5 DEF AnswersMovedOn
  <2>1. history'[i] = history[i] /\ i \in DOMAIN history /\ i < n
    BY <1>3, <1>5
  <2>2. /\ cards[history[i].card].sched > history[i].before.sched
        /\ \A j \in 1..n : j > i /\ history[j].card = history[i].card
                           => history[j].before.sched > history[i].before.sched
    BY <1>3, <2>1 DEF LeaseInv, AnswersMovedOn
  <2>3. history[i].card \in Card
    <3>1. history[i] \in Change
      BY <1>2, <2>1
    <3> QED BY <3>1 DEF Change
  <2>4. cards'[history[i].card].sched > history[i].before.sched
    <3>1. CASE history[i].card = c
      <4>1. history[n].before.sched > history[i].before.sched
        BY <1>3, <2>1, <2>2, <3>1 DEF c
      <4> QED BY <1>6, <3>1, <4>1 DEF old
    <3>2. CASE history[i].card # c
      BY <1>6, <2>2, <2>3, <3>2
    <3> QED BY <3>1, <3>2
  <2> QED BY <1>5, <2>1, <2>2, <2>4
<1>10. cards' \in [Card -> CardState] /\ undoable' \in 0..Len(history')
  BY <1>1, <1>2, <1>4, <1>5
<1>11. RequestOK' /\ HandlerRelies' /\ HandlesTracked'
  BY <1>1 DEF LeaseInv, TypeOK, RequestOK, HandlerRelies, SessionPinned,
     HandlesTracked, GenerationIdentifiesHandle, Live, ForClient
<1> QED BY <1>1, <1>2, <1>5, <1>7, <1>8, <1>9, <1>10, <1>11, CollectionStep

LEMMA ReopenStep == ASSUME LeaseInv, Reopen PROVE LeaseInv'
<1>1. /\ handle < MaxHandles /\ handle' = handle + 1
      /\ generation' = generation + 1 /\ undoable' = 0
      /\ UNCHANGED <<store, issued, horizon, pc, req, cards, history, changes,
                     shown, applied>>
  BY DEF Reopen, ghosts
<1>2. /\ cards' \in [Card -> CardState] /\ history' \in Seq(Change)
      /\ undoable' \in 0..Len(history') /\ changes' \in 0..MaxChanges
      /\ handle' \in 1..MaxHandles /\ generation' \in 1..handle'
      /\ applied \subseteq applied' /\ applied' \subseteq 1..issued
  BY <1>1, BoundsAssumption DEF LeaseInv, TypeOK
<1>3. HandlesTracked'
  <2>1. ASSUME pc # "exported", NEW t \in Live(store)
        PROVE  GenerationIdentifiesHandle(shown[t])'
    <3>1. GenerationIdentifiesHandle(shown[t])
      BY <2>1 DEF LeaseInv, HandlesTracked
    <3>2. t \in 1..issued /\ shown \in [1..issued -> View]
      BY <2>1 DEF LeaseInv, TypeOK, StoreOK, Live
    <3>3. shown[t].generation \in Nat
      BY <3>2 DEF View
    <3> QED BY <1>1, <3>1, <3>3 DEF GenerationIdentifiesHandle, LeaseInv, TypeOK
  <2>2. ASSUME pc = "create" PROVE GenerationIdentifiesHandle(req.view)'
    <3>1. GenerationIdentifiesHandle(req.view)
      BY <2>2 DEF LeaseInv, HandlesTracked
    <3>2. req.view.generation \in Nat
      BY <2>2 DEF LeaseInv, TypeOK, RequestOK, View
    <3> QED BY <1>1, <3>1, <3>2 DEF GenerationIdentifiesHandle, LeaseInv, TypeOK
  <2> QED BY <1>1, <2>1, <2>2 DEF HandlesTracked, Live, GenerationIdentifiesHandle
<1>4. NothingFromTheFuture' /\ AnswersWhatWasShown' /\ AnswersMovedOn'
  BY <1>1 DEF LeaseInv, NothingFromTheFuture, AnswersWhatWasShown, AnswersMovedOn
<1>5. RequestOK' /\ HandlerRelies'
  BY <1>1 DEF LeaseInv, TypeOK, RequestOK, HandlerRelies, SessionPinned, Live, ForClient
<1> QED BY <1>1, <1>2, <1>3, <1>4, <1>5, CollectionStep

LEMMA TimePassesStep == ASSUME LeaseInv, TimePasses PROVE LeaseInv'
<1>1. /\ horizon' \in 0..issued
      /\ UNCHANGED <<store, issued, pc, req, cards, history, undoable, changes,
                     generation, handle, shown, applied>>
  BY DEF TimePasses, collection, storage, ghosts, LeaseInv, TypeOK
<1>2. TypeOK'
  BY <1>1 DEF LeaseInv, TypeOK, StoreOK, RequestOK
<1>3. /\ LeasesExclusive' /\ OneSessionPerClient' /\ ConsumedWasApplied'
      /\ SessionsMatchViews' /\ NothingFromTheFuture' /\ AnswersWhatWasShown'
      /\ AnswersMovedOn'
  BY <1>1 DEF LeaseInv, LeasesExclusive, Exclusive, OneSessionPerClient,
     ConsumedWasApplied, SessionsMatchViews, NothingFromTheFuture,
     AnswersWhatWasShown, AnswersMovedOn, Live
<1>4. HandlerRelies' /\ HandlesTracked'
  BY <1>1 DEF LeaseInv, HandlerRelies, SessionPinned, HandlesTracked,
     GenerationIdentifiesHandle, ForClient, Live
<1> QED BY <1>2, <1>3, <1>4 DEF LeaseInv

-----------------------------------------------------------------------------
(* The theorems. *)

\* A fresh process has no leases.
LEMMA InitInv == ASSUME Init PROVE LeaseInv
<1>1. StoreOK(store, issued) /\ LeasesExclusive /\ OneSessionPerClient
      /\ ConsumedWasApplied /\ SessionsMatchViews
  BY DEF Init, EmptyStore, StoreOK, LeasesExclusive, Exclusive, Live,
     OneSessionPerClient, ConsumedWasApplied, SessionsMatchViews
<1>2. cards \in [Card -> CardState]
  BY BoundsAssumption DEF Init, CardState, Place
<1>3. TypeOK
  BY <1>1, <1>2, BoundsAssumption DEF Init, TypeOK, RequestOK, Stage
<1>4. HandlerRelies /\ HandlesTracked /\ NothingFromTheFuture
      /\ AnswersWhatWasShown /\ AnswersMovedOn
  BY <1>1 DEF Init, EmptyStore, HandlerRelies, SessionPinned, HandlesTracked, Live,
     NothingFromTheFuture, AnswersWhatWasShown, AnswersMovedOn
<1> QED BY <1>1, <1>3, <1>4 DEF LeaseInv

\* No variable changes: the invariant has no other state to look at.
LEMMA StutterStep == ASSUME LeaseInv, UNCHANGED vars PROVE LeaseInv'
<1> USE DEF vars, storage
<1>1. TypeOK'
  BY DEF LeaseInv, TypeOK, StoreOK, RequestOK
<1>2. /\ LeasesExclusive' /\ OneSessionPerClient' /\ ConsumedWasApplied'
      /\ SessionsMatchViews' /\ NothingFromTheFuture' /\ AnswersWhatWasShown'
      /\ AnswersMovedOn'
  BY DEF LeaseInv, LeasesExclusive, Exclusive, OneSessionPerClient,
     ConsumedWasApplied, SessionsMatchViews, NothingFromTheFuture,
     AnswersWhatWasShown, AnswersMovedOn, Live
<1>3. HandlerRelies' /\ HandlesTracked'
  BY DEF LeaseInv, HandlerRelies, SessionPinned, HandlesTracked,
     GenerationIdentifiesHandle, ForClient, Live
<1> QED BY <1>1, <1>2, <1>3 DEF LeaseInv

LEMMA StepInv == ASSUME LeaseInv, [Next]_vars PROVE LeaseInv'
<1>1. CASE Request
  <2>1. ASSUME NEW cl \in Client, NEW lang \in Language, NextReview(cl, lang)
        PROVE  LeaseInv'
    BY <2>1, NextReviewStep
  <2>2. ASSUME NEW cl \in Client, NEW t \in 1..issued, Check(t, cl) PROVE LeaseInv'
    BY <2>2, CheckStep
  <2>3. ASSUME NEW cl \in Client, NEW t \in 1..issued, Answer(t, cl) PROVE LeaseInv'
    BY <2>3, AnswerStep
  <2> QED BY <1>1, <2>1, <2>2, <2>3, LookUpStep, CardActionSteps DEF Request
<1>2. CASE Handle
  <2>1. ASSUME NEW c \in Card, LoadCard(c) PROVE LeaseInv'
    BY <2>1, LoadCardStep
  <2> QED BY <1>2, <2>1, LoadNothingStep, CreateSessionStep, RevealStep, AnswerCardStep,
             AnswerEndsStep, ActOnCardStep, ActDoneStep, FailStep, BackupExportStep,
             BackupDoneStep DEF Handle
<1>3. CASE Environment
  <2>1. ASSUME NEW c \in Card, ChangeCard(c) PROVE LeaseInv'
    BY <2>1, ChangeCardStep
  <2> QED BY <1>3, <2>1, UndoStep, ReopenStep, TimePassesStep DEF Environment
<1> QED BY <1>1, <1>2, <1>3, StutterStep DEF Next

\* LeaseInv holds in every reachable state, for every number of clients,
\* cards, tokens, changes and openings.
THEOREM LeaseInvHolds == Spec => []LeaseInv
BY InitInv, StepInv, PTL DEF Spec

\* Type correctness.
THEOREM TypeCorrect == Spec => []TypeOK
<1>1. LeaseInv => TypeOK
  BY DEF LeaseInv
<1> QED BY <1>1, LeaseInvHolds, PTL

\* No two live sessions share a card, and the table of leases says so
\* (review_sessions.py:68-126).
THEOREM LeasesAreExclusive == Spec => []LeasesExclusive
<1>1. LeaseInv => LeasesExclusive
  BY DEF LeaseInv
<1> QED BY <1>1, LeaseInvHolds, PTL

\* A client has at most one live session of a language (adapter.py:245-279).
THEOREM ClientsAreResumed == Spec => []OneSessionPerClient
<1>1. LeaseInv => OneSessionPerClient
  BY DEF LeaseInv
<1> QED BY <1>1, LeaseInvHolds, PTL

\* "consumed" is only said of answers the scheduler took (adapter.py:321-326).
THEOREM ConsumedIsTrue == Spec => []ConsumedWasApplied
<1>1. LeaseInv => ConsumedWasApplied
  BY DEF LeaseInv
<1> QED BY <1>1, LeaseInvHolds, PTL

\* The session a handler works for outlives its awaits (adapter.py:283-326).
THEOREM SessionsArePinned == Spec => []SessionPinned
<1>1. LeaseInv => SessionPinned
  BY DEF LeaseInv, HandlerRelies
<1> QED BY <1>1, LeaseInvHolds, PTL

\* An answer meets the scheduling state and the opening of the collection its
\* client was shown (adapter.py:310-320).
THEOREM StaleAnswersAreRefused == Spec => []AnswersWhatWasShown
<1>1. LeaseInv => AnswersWhatWasShown
  BY DEF LeaseInv
<1> QED BY <1>1, LeaseInvHolds, PTL

\* Two answers of one token in the history would both have met the state that
\* token was shown, yet the card had moved on from it after the first.
THEOREM AnswersCountOnce == Spec => []AtMostOnce
<1>1. ASSUME LeaseInv PROVE AtMostOnce
  <2>1. history \in Seq(Change) /\ AnswersWhatWasShown /\ AnswersMovedOn
    BY <1>1 DEF LeaseInv, TypeOK
  <2>2. ASSUME NEW i \in DOMAIN history, NEW j \in DOMAIN history,
               history[i].by = history[j].by, history[i].by # 0, j > i
        PROVE  FALSE
    <3>1. history[i].card = history[j].card /\ history[i].before = history[j].before
      BY <2>1, <2>2 DEF AnswersWhatWasShown
    <3>2. history[j].before.sched > history[i].before.sched
      BY <2>1, <2>2, <3>1 DEF AnswersMovedOn
    <3>3. history[i].before.sched \in Nat
      <4>1. history[i] \in Change
        BY <2>1, <2>2
      <4> QED BY <4>1 DEF Change, CardState
    <3> QED BY <3>1, <3>2, <3>3
  <2>3. DOMAIN history \subseteq Nat
    BY <2>1
  <2>4. \A i, j \in DOMAIN history : i = j \/ i > j \/ j > i
    BY <2>3
  <2> QED BY <2>2, <2>4 DEF AtMostOnce
<1> QED BY <1>1, LeaseInvHolds, PTL

-----------------------------------------------------------------------------
(* ReviewLeases implements ReviewContract. *)

\* The tokens with an answer in the review history.
Counted == {history[i].by : i \in DOMAIN history} \ {0}

\* A history without two answers of one token says of each whether it counts.
LEMMA CountFacts ==
  ASSUME NEW h, \A i, j \in DOMAIN h : h[i].by = h[j].by /\ h[i].by # 0 => i = j
  PROVE  [t \in Token |-> Times(h, t)]
           = [t \in Token |-> IF t \in {h[i].by : i \in DOMAIN h} \ {0} THEN 1 ELSE 0]
<1> SUFFICES ASSUME NEW t \in Token
             PROVE  Times(h, t) = IF t \in {h[i].by : i \in DOMAIN h} \ {0} THEN 1 ELSE 0
  OBVIOUS
<1> DEFINE S == {i \in DOMAIN h : h[i].by = t}
<1>1. t # 0
  BY BoundsAssumption DEF Token
<1>2. CASE \A i \in DOMAIN h : h[i].by # t
  <2>1. S = {}
    BY <1>2
  <2> QED BY <1>2, <2>1, FS_EmptySet DEF Times
<1>3. ASSUME NEW i \in DOMAIN h, h[i].by = t
      PROVE  Times(h, t) = IF t \in {h[j].by : j \in DOMAIN h} \ {0} THEN 1 ELSE 0
  <2>1. S = {i}
    BY <1>1, <1>3
  <2> QED BY <1>1, <1>3, <2>1, FS_Singleton DEF Times
<1> QED BY <1>2, <1>3

LEMMA CountsNow ==
  ASSUME AtMostOnce, AtMostOnce'
  PROVE  /\ [t \in Token |-> Times(history, t)]
              = [t \in Token |-> IF t \in Counted THEN 1 ELSE 0]
         /\ [t \in Token |-> Times(history', t)]
              = [t \in Token |-> IF t \in Counted' THEN 1 ELSE 0]
BY CountFacts DEF AtMostOnce, Counted

\* The lease of a live session's card is that session.
LEMMA LeaseIsSession ==
  ASSUME LeaseInv, NEW c \in Card
  PROVE  /\ LeaseOf(c) # 0 => /\ c \in DOMAIN store.cardTokens
                              /\ LeaseOf(c) \in Live(store)
                              /\ store.sessions[LeaseOf(c)].card = c
         /\ \A t \in Live(store) : store.sessions[t].card = c => LeaseOf(c) = t
         /\ c \in DOMAIN store.cardTokens => LeaseOf(c) # 0
<1>1. Exclusive(store) /\ StoreOK(store, issued)
  BY DEF LeaseInv, LeasesExclusive, TypeOK
<1>2. \A t \in Live(store) : t # 0
  BY <1>1 DEF StoreOK, Live
<1> QED BY <1>1, <1>2 DEF Exclusive, LeaseOf

\* A token that holds the lease of a card whose state it was shown has no
\* answer in the review history.
LEMMA NotYetCounted ==
  ASSUME LeaseInv, NEW t \in 1..issued, NEW c \in Card,
         shown[t].card = c, shown[t].seen = cards[c]
  PROVE  t \notin Counted
<1> SUFFICES ASSUME NEW i \in DOMAIN history, history[i].by = t PROVE FALSE
  BY DEF Counted
<1>1. history[i] \in Change /\ t # 0 /\ cards[c] \in CardState
  BY DEF LeaseInv, TypeOK
<1>2. history[i].card = c /\ history[i].before = cards[c]
  BY <1>1 DEF LeaseInv, AnswersWhatWasShown
<1>3. cards[c].sched > history[i].before.sched
  BY <1>1, <1>2 DEF LeaseInv, AnswersMovedOn
<1> QED BY <1>1, <1>2, <1>3 DEF CardState

\* Ending sessions, on whatever ground, is an End of the contract.
LEMMA ShrinkMaps ==
  ASSUME LeaseInv, LeaseInv', AtMostOnce, AtMostOnce', Shrunk(store, store'),
         UNCHANGED <<issued, history>>
  PROVE  Contract!Next
<1> DEFINE D == {c \in Card : LeaseOf(c)' = 0}
<1>1. ASSUME NEW c \in Card, c \notin D PROVE LeaseOf(c)' = LeaseOf(c)
  <2> DEFINE t == store'.cardTokens[c]
  <2>1. Exclusive(store')
    BY DEF LeaseInv, LeasesExclusive, Exclusive, Live
  <2>2. LeaseOf(c)' = t /\ c \in DOMAIN store'.cardTokens
    BY <1>1 DEF LeaseOf
  <2>3. t \in Live(store') /\ store'.sessions[t].card = c
    BY <2>1, <2>2 DEF Exclusive
  <2>4. t \in Live(store) /\ store.sessions[t].card = c
    BY <2>3 DEF Shrunk
  <2> QED BY <2>2, <2>4, LeaseIsSession
<1>2. Counted' = Counted
  BY DEF Counted
<1>3. [c \in Card |-> LeaseOf(c)']
        = [c \in Card |-> IF c \in D THEN 0 ELSE [d \in Card |-> LeaseOf(d)][c]]
  BY <1>1
<1> HIDE DEF D
<1>4. Contract!End(D)
  BY <1>2, <1>3, CountsNow DEF Contract!End, Contract!Without
<1> QED BY <1>4 DEF Contract!Next, D

\* A new session is a Grant.
LEMMA CreateMaps ==
  ASSUME LeaseInv, LeaseInv', AtMostOnce, AtMostOnce', CreateSession
  PROVE  Contract!Next
<1> DEFINE t == issued + 1
           D == {c \in Card : LeaseOf(c)' = 0}
<1>0. req.view.card \in Card
  BY DEF LeaseInv, TypeOK, RequestOK, View, CreateSession
<1> PICK k \in Card : k = req.view.card
  BY <1>0
<1>1. /\ issued' = t /\ issued < MaxTokens /\ issued \in Nat
      /\ history' = history /\ k \notin DOMAIN store.cardTokens
  BY BoundsAssumption DEF LeaseInv, TypeOK, RequestOK, CreateSession, collection, storage,
     HandlerRelies, Leased
<1>2. /\ Live(store') \subseteq Live(store) \cup {t}
      /\ t \in Live(store') => store'.sessions[t].card = k
      /\ \A u \in Live(store') \ {t} : store'.sessions[u].card = store.sessions[u].card
      /\ LeaseOf(k)' = t
  <2> DEFINE s == [client |-> req.client, language |-> req.language,
                   card |-> req.view.card, fingerprint |-> req.view.seen,
                   generation |-> req.view.generation, revealed |-> FALSE]
  <2>1. /\ s \in Session /\ s.card = k /\ StoreOK(store, issued) /\ Exclusive(store)
        /\ t \in Token /\ store' = Create(store, t, s)
    BY <1>1 DEF LeaseInv, TypeOK, RequestOK, CreateSession, NewToken, View, Session, Token,
       LeasesExclusive
  <2> HIDE DEF s
  <2>2. /\ Live(store') \subseteq Live(store) \cup {t}
        /\ store'.sessions[t] = s
        /\ \A u \in Live(store') \ {t} : store'.sessions[u] = store.sessions[u]
        /\ s.card \in DOMAIN store'.cardTokens /\ store'.cardTokens[s.card] = t
    BY <1>1, <2>1, CreateFacts
  <2>3. LeaseOf(k)' = t
    BY <2>1, <2>2 DEF LeaseOf
  <2> QED BY <2>1, <2>2, <2>3
<1>3. ASSUME NEW c \in Card, c \notin D, c # k PROVE LeaseOf(c)' = LeaseOf(c)
  <2> DEFINE u == store'.cardTokens[c]
  <2>1. Exclusive(store')
    BY DEF LeaseInv, LeasesExclusive, Exclusive, Live
  <2>2. LeaseOf(c)' = u /\ c \in DOMAIN store'.cardTokens
    BY <1>3 DEF LeaseOf
  <2>3. u \in Live(store') /\ store'.sessions[u].card = c
    BY <2>1, <2>2 DEF Exclusive
  <2>4. u # t
    BY <1>2, <1>3, <2>3
  <2>5. u \in Live(store) /\ store.sessions[u].card = c
    BY <1>2, <2>3, <2>4
  <2> QED BY <2>2, <2>5, LeaseIsSession
<1>4. Counted' = Counted
  BY <1>1 DEF Counted
<1>5. LeaseOf(k) = 0
  BY <1>1 DEF LeaseOf
<1>6. D \in SUBSET Card
  OBVIOUS
<1>7. k \notin D
  BY <1>1, <1>2
<1>8. \A c \in D : LeaseOf(c)' = 0
  OBVIOUS
<1> HIDE DEF D
<1>9. [c \in Card |-> LeaseOf(c)']
        = [[c \in Card |-> IF c \in D THEN 0 ELSE [d \in Card |-> LeaseOf(d)][c]]
             EXCEPT ![k] = t]
  BY <1>1, <1>2, <1>3, <1>7, <1>8
<1>10. Contract!Grant(k, D)
  BY <1>1, <1>4, <1>5, <1>9, CountsNow DEF Contract!Grant, Contract!Without
<1> QED BY <1>1, <1>6, <1>10 DEF Contract!Next

\* An answer is a Record.
LEMMA AnswerMaps ==
  ASSUME LeaseInv, AtMostOnce, AtMostOnce', AnswerCard
  PROVE  Contract!Next
<1> DEFINE t == req.token
           c == shown[t].card
           new == [cards[c] EXCEPT !.sched = changes + 1]
<1>1. /\ t \in 1..issued /\ t \in Live(store) /\ c \in Card
      /\ store.sessions[t].card = c /\ shown[t].seen = cards[c]
      /\ Changed(c, new, t)
  BY AnswerCardFacts
<1>2. UNCHANGED <<store, issued>> /\ history \in Seq(Change) /\ t # 0
  BY <1>1 DEF AnswerCard, LeaseInv, TypeOK
<1>3. LeaseOf(c) = t /\ t \notin Counted
  BY <1>1, LeaseIsSession, NotYetCounted
<1>4. \A d \in Card : LeaseOf(d)' = LeaseOf(d)
  BY <1>2 DEF LeaseOf
<1> DEFINE n == Len(history)
           e == [card |-> c, before |-> cards[c], by |-> t, handle |-> handle]
<1>5. history' = Append(history, e) /\ e.by = t
  BY <1>1 DEF Changed
<1> HIDE DEF t, c, new, e
<1>6. /\ DOMAIN history = 1..n /\ DOMAIN history' = 1..(n + 1) /\ n \in Nat
      /\ \A i \in 1..n : history'[i] = history[i]
      /\ history'[n + 1] = e
  BY <1>2, <1>5
<1> HIDE DEF n
<1>7. Counted' = Counted \cup {t}
  BY <1>2, <1>5, <1>6 DEF Counted
<1>8. t \in Token
  <2>1. t \in 1..issued /\ issued \in 0..MaxTokens
    BY <1>1 DEF LeaseInv, TypeOK
  <2> QED BY <2>1, BoundsAssumption DEF Token
<1>9. [u \in Token |-> Times(history', u)]
        = [[u \in Token |-> Times(history, u)] EXCEPT ![t] = 1]
  BY <1>7, <1>8, CountsNow
<1>10. [u \in Token |-> Times(history, u)][t] = 0
  BY <1>3, <1>8, CountsNow
<1>11. Contract!Record(c)
  BY <1>1, <1>2, <1>3, <1>4, <1>9, <1>10 DEF Contract!Record
<1> QED BY <1>1, <1>11 DEF Contract!Next

\* A change that is no answer is invisible to the contract.
LEMMA ChangeMaps ==
  ASSUME LeaseInv, AtMostOnce, AtMostOnce',
         NEW c, NEW new, Changed(c, new, 0), UNCHANGED <<store, issued>>
  PROVE  UNCHANGED Contract!contractVars
<1> DEFINE n == Len(history)
           e == [card |-> c, before |-> cards[c], by |-> 0, handle |-> handle]
<1>1. history' = Append(history, e) /\ e.by = 0 /\ history \in Seq(Change)
  BY DEF Changed, LeaseInv, TypeOK
<1> HIDE DEF e
<1>2. /\ DOMAIN history = 1..n /\ DOMAIN history' = 1..(n + 1) /\ n \in Nat
      /\ \A i \in 1..n : history'[i] = history[i]
      /\ history'[n + 1] = e
  BY <1>1
<1> HIDE DEF n
<1>3. Counted' = Counted
  BY <1>1, <1>2 DEF Counted
<1>4. \A d \in Card : LeaseOf(d)' = LeaseOf(d)
  BY DEF LeaseOf
<1> QED BY <1>3, <1>4, CountsNow DEF Contract!contractVars

\* Undoing an answer is a Retract, because no other answer of that token counts.
LEMMA UndoMaps ==
  ASSUME LeaseInv, AtMostOnce, AtMostOnce', Undo
  PROVE  Contract!Next \/ UNCHANGED Contract!contractVars
<1> DEFINE n == Len(history)
           t == history[n].by
<1>1. /\ history' = SubSeq(history, 1, n - 1) /\ UNCHANGED <<store, issued>>
      /\ undoable > 0 /\ undoable \in 0..n /\ history \in Seq(Change) /\ n \in Nat
  BY DEF Undo, LeaseInv, TypeOK
<1>2. /\ n \in 1..n /\ DOMAIN history = 1..n /\ DOMAIN history' = 1..(n - 1)
      /\ \A i \in 1..(n - 1) : history'[i] = history[i] /\ i \in 1..n /\ i # n
  BY <1>1
<1>3. \A d \in Card : LeaseOf(d)' = LeaseOf(d)
  BY <1>1 DEF LeaseOf
<1>4. \A i \in 1..n : i = n \/ i \in 1..(n - 1)
  BY <1>1
<1> HIDE DEF n
<1>5. CASE t = 0
  <2>1. Counted' = Counted
    BY <1>2, <1>4, <1>5 DEF Counted
  <2> QED BY <1>1, <1>3, <2>1, CountsNow DEF Contract!contractVars
<1>6. CASE t # 0
  <2>1. \A i \in 1..(n - 1) : history[i].by # t
    BY <1>2, <1>6 DEF AtMostOnce
  <2>2. t \in Counted
    BY <1>2, <1>6 DEF Counted
  <2>3. Counted' = Counted \ {t}
    BY <1>2, <1>4, <2>1 DEF Counted
  <2>4. t \in Token
    <3>1. history[n] \in Change
      BY <1>1, <1>2
    <3> QED BY <1>6, <3>1, BoundsAssumption DEF Change, Token
  <2> HIDE DEF t
  <2>5. [u \in Token |-> Times(history', u)]
          = [[u \in Token |-> Times(history, u)] EXCEPT ![t] = 0]
    BY <2>3, <2>4, CountsNow
  <2>6. [u \in Token |-> Times(history, u)][t] = 1
    BY <2>2, <2>4, CountsNow
  <2>7. Contract!Retract(t)
    BY <1>1, <1>3, <2>5, <2>6 DEF Contract!Retract
  <2> QED BY <2>4, <2>7 DEF Contract!Next, Token
<1> QED BY <1>5, <1>6

\* All the other steps of the adapter leave a store with fewer sessions.
LEMMA ShrinkingSteps ==
  ASSUME LeaseInv,
         \/ LookUp
         \/ \E cl \in Client, lang \in Language : NextReview(cl, lang)
         \/ \E cl \in Client, t \in 1..issued : Check(t, cl) \/ Answer(t, cl)
         \/ \E c \in Card : LoadCard(c)
         \/ LoadNothing \/ Reveal \/ AnswerConflict \/ AnswerDone \/ ActDone \/ BackupDone
  PROVE  Shrunk(store, store') /\ UNCHANGED <<issued, history>>
<1> DEFINE Goal == Shrunk(store, store') /\ UNCHANGED <<issued, history>>
<1> USE DEF collection, storage
<1>1. Shrunk(store, store) /\ Shrunk(store, Expire(store))
  BY ExpireNow DEF Shrunk
<1>2. /\ issued \in Nat /\ StoreOK(store, issued) /\ Exclusive(store)
      /\ StoreOK(Expire(store), issued) /\ Exclusive(Expire(store))
      /\ HandlerRelies
  BY ExpireNow DEF LeaseInv, TypeOK, LeasesExclusive
<1>3. CASE LookUp \/ LoadNothing \/ \E c \in Card : LoadCard(c)
  BY <1>1, <1>3 DEF LookUp, LoadNothing, LoadCard
<1>4. CASE \E cl \in Client, lang \in Language : NextReview(cl, lang)
  BY <1>1, <1>4 DEF NextReview
<1>5. ASSUME NEW cl \in Client, NEW t \in 1..issued, Check(t, cl) PROVE Goal
  <2>1. t \in Live(Expire(store)) /\ UNCHANGED <<issued, history>>
    BY <1>5 DEF Check
  <2>2. Shrunk(Expire(store), Revealed(Expire(store), t))
    BY <1>2, <2>1, RevealFacts
  <2>3. Shrunk(store, Revealed(Expire(store), t))
    BY <1>1, <2>2 DEF Shrunk
  <2> QED BY <1>1, <1>5, <2>1, <2>3 DEF Check
<1>6. ASSUME NEW cl \in Client, NEW t \in 1..issued, Answer(t, cl) PROVE Goal
  BY <1>1, <1>6 DEF Answer
<1>7. CASE Reveal
  <2>1. req.token \in Live(store)
    BY <1>2, <1>7 DEF Reveal, HandlerRelies, SessionPinned
  <2> QED BY <1>2, <1>7, <2>1, RevealFacts DEF Reveal
<1>8. CASE AnswerConflict \/ AnswerDone
  <2>1. req.token \in Live(store)
    BY <1>2, <1>8 DEF AnswerConflict, AnswerDone, HandlerRelies, SessionPinned
  <2>2. /\ Shrunk(store, Remove(store, {req.token}, "stale"))
        /\ Shrunk(store, Remove(store, {req.token}, "consumed"))
    BY <1>2, <2>1, EndOneFacts
  <2> QED BY <1>8, <2>2 DEF AnswerConflict, AnswerDone, Stale, Consume
<1>9. CASE ActDone
  BY <1>2, <1>9, ReleaseFacts DEF ActDone
<1>10. CASE BackupDone
  BY <1>10 DEF BackupDone, EmptyStore, Shrunk, Live
<1> QED BY <1>3, <1>4, <1>5, <1>6, <1>7, <1>8, <1>9, <1>10

\* The steps that touch neither the leases nor the review history.
LEMMA InvisibleSteps ==
  ASSUME UNCHANGED <<store, issued, history>>
  PROVE  UNCHANGED Contract!contractVars
<1>1. \A d \in Card : LeaseOf(d)' = LeaseOf(d)
  BY DEF LeaseOf
<1> QED BY <1>1 DEF Contract!contractVars

LEMMA StepMaps ==
  ASSUME LeaseInv, LeaseInv', AtMostOnce, AtMostOnce', [Next]_vars
  PROVE  [Contract!Next]_(Contract!contractVars)
<1> DEFINE Goal == Contract!Next \/ UNCHANGED Contract!contractVars
<1> USE DEF collection, storage
<1>1. CASE Request
  <2>1. CASE \/ \E c \in Card, action \in Action : CardAction(c, action)
             \/ Backup
    BY <2>1, InvisibleSteps DEF CardAction, Backup
  <2>2. CASE \/ LookUp
             \/ \E cl \in Client, lang \in Language : NextReview(cl, lang)
             \/ \E cl \in Client, t \in 1..issued : Check(t, cl) \/ Answer(t, cl)
    BY <2>2, ShrinkingSteps, ShrinkMaps
  <2> QED BY <1>1, <2>1, <2>2 DEF Request
<1>2. CASE Handle
  <2>1. CASE \/ \E c \in Card : LoadCard(c)
             \/ LoadNothing \/ Reveal \/ AnswerConflict \/ AnswerDone \/ ActDone
             \/ BackupDone
    BY <2>1, ShrinkingSteps, ShrinkMaps
  <2>2. CASE Fail \/ BackupExport
    BY <2>2, InvisibleSteps DEF Fail, BackupExport
  <2>3. CASE ActOnCard
    <3>1. CASE UNCHANGED storage
      BY <2>3, <3>1, InvisibleSteps DEF ActOnCard
    <3>2. ASSUME NEW place,
                 Changed(req.card, [cards[req.card] EXCEPT !.at = place], 0)
          PROVE  Goal
      BY <2>3, <3>2, ChangeMaps DEF ActOnCard
    <3> QED BY <2>3, <3>1, <3>2 DEF ActOnCard
  <2> QED BY <1>2, <2>1, <2>2, <2>3, CreateMaps, AnswerMaps DEF Handle
<1>3. CASE Environment
  <2>1. ASSUME NEW c \in Card, ChangeCard(c) PROVE Goal
    <3>1. UNCHANGED <<store, issued>>
      BY <2>1 DEF ChangeCard
    <3>2. CASE Rescheduled(c, 0)
      BY <3>1, <3>2, ChangeMaps DEF Rescheduled
    <3>3. ASSUME NEW place, Changed(c, [cards[c] EXCEPT !.at = place], 0) PROVE Goal
      BY <3>1, <3>3, ChangeMaps
    <3> QED BY <2>1, <3>2, <3>3 DEF ChangeCard
  <2>2. CASE Reopen \/ TimePasses
    BY <2>2, InvisibleSteps DEF Reopen, TimePasses
  <2> QED BY <1>3, <2>1, <2>2, UndoMaps DEF Environment
<1>4. CASE UNCHANGED vars
  BY <1>4, InvisibleSteps DEF vars
<1> QED BY <1>1, <1>2, <1>3, <1>4 DEF Next

\* The adapter with its store implements the contract of the review API: cards
\* are leased exclusively and answers count at most once unless undone.
THEOREM LeasesImplementContract == Spec => ImplementsContract
<1>1. ASSUME Init PROVE Contract!Init
  <2>1. \A t \in Token : Times(history, t) = 0
    <3>1. \A t : {i \in DOMAIN history : history[i].by = t} = {}
      BY <1>1 DEF Init
    <3> QED BY <3>1, FS_EmptySet DEF Times
  <2> QED BY <1>1, <2>1 DEF Init, EmptyStore, LeaseOf, Token, Contract!Init
<1>2. LeaseInv /\ LeaseInv' /\ AtMostOnce /\ AtMostOnce' /\ [Next]_vars
        => [Contract!Next]_(Contract!contractVars)
  BY StepMaps
<1> QED BY <1>1, <1>2, LeaseInvHolds, AnswersCountOnce, PTL
        DEF Spec, ImplementsContract, Contract!Spec


-----------------------------------------------------------------------------
(* Ended tokens. *)

\* No live token is filed as ended.
Apart(st) == Live(st) \cap DOMAIN st.terminal = {}

\* From one store to the next, of the tokens up to m: none comes back to life,
\* and what is remembered of an ended one is what was remembered before.
Ends(old, new, m) ==
  /\ Apart(new)
  /\ \A t \in 1..m : t \in Live(new) => t \in Live(old)
  /\ \A t \in DOMAIN old.terminal \cap DOMAIN new.terminal : new.terminal[t] = old.terminal[t]

LEMMA RemoveEnds ==
  ASSUME NEW st, NEW m \in Nat, StoreOK(st, m), Exclusive(st), Apart(st),
         NEW S \in SUBSET Live(st), NEW why \in Ending
  PROVE  Ends(st, Remove(st, S, why), m)
<1> DEFINE r == Remove(st, S, why)
<1>1. Removed(st, m, S, why, r)
  BY RemoveFacts
<1> HIDE DEF r
<1>2. Live(r) = Live(st) \ S
      /\ \A t \in DOMAIN r.terminal :
            t \in S \/ (t \in DOMAIN st.terminal \ S /\ r.terminal[t] = st.terminal[t])
  BY <1>1 DEF Removed
<1>3. Ends(st, r, m)
  BY <1>2 DEF Ends, Apart
<1> QED BY <1>3 DEF r

LEMMA ExpireEnds ==
  ASSUME NEW st, NEW m \in Nat, StoreOK(st, m), Exclusive(st), Apart(st)
  PROVE  Ends(st, Expire(st), m)
<1>1. {t \in Live(st) : t <= horizon} \in SUBSET Live(st) /\ "expired" \in Ending
  BY DEF Ending
<1> QED BY <1>1, RemoveEnds DEF Expire

\* Neither a new session nor a revealed one touches what is remembered.
LEMMA LeasesEnd ==
  ASSUME NEW st, NEW m \in Nat, StoreOK(st, m), Exclusive(st), Apart(st),
         NEW new, new.terminal = Expire(st).terminal, Live(new) \subseteq Live(Expire(st)) \cup {m + 1}
  PROVE  Ends(st, new, m)
<1>1. Ends(st, Expire(st), m)
  BY ExpireEnds
<1>2. DOMAIN Expire(st).terminal \subseteq 1..m
  BY ExpireFacts DEF StoreOK
<1>3. m + 1 \notin 1..m
  OBVIOUS
<1> QED BY <1>1, <1>2, <1>3 DEF Ends, Apart

\* What every step does to the tokens that were issued before it.
LEMMA StepEnds == ASSUME LeaseInv, Apart(store), [Next]_vars PROVE Ends(store, store', issued)
<1>1. issued \in Nat /\ StoreOK(store, issued) /\ Exclusive(store)
  BY BoundsAssumption DEF LeaseInv, TypeOK, LeasesExclusive
<1>2. CASE UNCHANGED store
  BY <1>2 DEF Ends
<1>3. CASE store' = Expire(store)
  BY <1>1, <1>3, ExpireEnds
<1>4. CASE \E t \in Live(Expire(store)) : store' = Revealed(Expire(store), t)
  <2>1. PICK t \in Live(Expire(store)) : store' = Revealed(Expire(store), t)
    BY <1>4
  <2>2. store'.terminal = Expire(store).terminal /\ Live(store') = Live(Expire(store))
    BY <2>1 DEF Revealed, WithLeases, Live
  <2> QED BY <1>1, <2>2, LeasesEnd
<1>5. CASE Reveal
  <2>1. store'.terminal = store.terminal /\ Live(store') = Live(store)
    BY <1>5 DEF Reveal, Revealed, WithLeases, Live
  <2> QED BY <2>1 DEF Ends, Apart
<1>6. CASE CreateSession
  <2>1. /\ store'.terminal = Expire(store).terminal
        /\ Live(store') = Live(Expire(store)) \cup {issued + 1}
    BY <1>6 DEF CreateSession, NewToken, Create, WithLeases, Live
  <2> QED BY <1>1, <2>1, LeasesEnd
<1>7. CASE AnswerConflict \/ AnswerDone
  <2>1. {req.token} \in SUBSET Live(store)
    BY <1>7 DEF LeaseInv, HandlerRelies, SessionPinned, AnswerConflict, AnswerDone
  <2>2. \E why \in Ending : store' = Remove(store, {req.token}, why)
    BY <1>7 DEF AnswerConflict, AnswerDone, Stale, Consume, Ending
  <2> QED BY <1>1, <2>1, <2>2, RemoveEnds
<1>8. CASE ActDone
  <2>1. CASE req.card \in DOMAIN store.cardTokens /\ store.cardTokens[req.card] \in Live(store)
    <3>1. store' = Remove(store, {store.cardTokens[req.card]}, "stale") /\ "stale" \in Ending
      BY <1>8, <2>1 DEF ActDone, ReleaseCard, Stale, Ending
    <3>2. {store.cardTokens[req.card]} \in SUBSET Live(store)
      BY <2>1
    <3> QED BY <1>1, <3>1, <3>2, RemoveEnds
  <2>2. CASE ~(req.card \in DOMAIN store.cardTokens /\ store.cardTokens[req.card] \in Live(store))
    BY <1>2, <1>8, <2>2 DEF ActDone, ReleaseCard
  <2> QED BY <2>1, <2>2
<1>9. CASE BackupDone
  <2>1. store'.terminal = <<>> /\ Live(store') = {} /\ DOMAIN store'.terminal = {}
    BY <1>9 DEF BackupDone, EmptyStore, Live
  <2> QED BY <2>1 DEF Ends, Apart
<1>10. CASE Request
  <2>1. CASE LookUp \/ \E cl \in Client, lang \in Language : NextReview(cl, lang)
    BY <1>3, <2>1 DEF LookUp, NextReview
  <2>2. CASE \E cl \in Client, t \in 1..issued : Check(t, cl) \/ Answer(t, cl)
    BY <1>3, <1>4, <2>2 DEF Check, Answer
  <2>3. CASE Backup \/ \E c \in Card, action \in Action : CardAction(c, action)
    BY <1>2, <2>3 DEF Backup, CardAction
  <2> QED BY <1>10, <2>1, <2>2, <2>3 DEF Request
<1>11. CASE Handle
  <2>1. CASE \E c \in Card : LoadCard(c)
    BY <1>3, <2>1 DEF LoadCard
  <2>2. CASE LoadNothing
    BY <1>2, <1>3, <2>2 DEF LoadNothing
  <2>3. CASE AnswerCard \/ ActOnCard \/ Fail \/ BackupExport
    BY <1>2, <2>3 DEF AnswerCard, ActOnCard, Fail, BackupExport
  <2> QED BY <1>5, <1>6, <1>7, <1>8, <1>9, <1>11, <2>1, <2>2, <2>3 DEF Handle
<1>12. CASE Environment
  BY <1>2, <1>12 DEF Environment, ChangeCard, Undo, Reopen, TimePasses
<1> QED BY <1>2, <1>10, <1>11, <1>12 DEF Next, vars

\* An ended token stays ended, for the reason that is remembered of it, in every
\* run of the handlers (review_sessions.py:83-95).
THEOREM EndedTokensStayEnded == Spec => EndedForGood
<1> DEFINE A == /\ \A t \in 1..issued : t \in Live(store)' => t \in Live(store)
                /\ \A t \in DOMAIN store.terminal \cap DOMAIN store'.terminal :
                     store'.terminal[t] = store.terminal[t]
<1>1. Init => Apart(store)
  BY DEF Init, EmptyStore, Apart, Live
<1>2. LeaseInv /\ Apart(store) /\ [Next]_vars => Apart(store)' /\ A
  BY StepEnds DEF Ends, Apart, Live
<1> HIDE DEF A
<1>3. Spec => [][A]_vars
  BY <1>1, <1>2, LeaseInvHolds, PTL DEF Spec
<1> QED BY <1>3 DEF EndedForGood, A
=============================================================================

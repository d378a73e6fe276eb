------------------------- MODULE AuthSessionsProofs -------------------------
(***************************************************************************)
(* What AuthManager promises of the sessions it issues, for every lifetime *)
(* and any number of tokens, browsers and passwords.  The invariant says   *)
(* when the note of a session's last use may lag behind that use, and that *)
(* a session is revoked exactly when it was ended.  A second one, of the   *)
(* failed logins, says what a block comes from and how many logins that    *)
(* were admitted before it may still fail.                                 *)
(***************************************************************************)
EXTENDS AuthSessions, FiniteSetTheorems, TLAPS

USE SettingsAssumption

\* A use is noted at least every Touch seconds, and two notes fit into Idle.
LEMMA TouchFits ==
  Touch \in Nat /\ Touch >= 1 /\ (2 * Touch <= Idle \/ Touch = 1)
BY DEF Touch, Most, Least

Kinds ==
  /\ now \in Nat
  /\ password \in Password
  /\ sessions \in [DOMAIN sessions -> Session]
  /\ used \in [DOMAIN sessions -> Nat]
  /\ ended \subseteq DOMAIN sessions
  /\ leaving \subseteq DOMAIN sessions

\* What is noted of a session trails its last use by less than Touch.
Noted ==
  \A t \in DOMAIN sessions :
    /\ sessions[t].seen <= used[t] /\ used[t] <= now
    /\ used[t] - sessions[t].seen < Touch
    /\ sessions[t].expires = sessions[t].created + Absolute

\* The database knows which sessions were ended, and the others were issued
\* under the password in force.
EndedAreRevoked ==
  \A t \in DOMAIN sessions :
    /\ t \in ended <=> sessions[t].revoked
    /\ ~sessions[t].revoked => sessions[t].password = password

SessionsInv == Kinds /\ Noted /\ EndedAreRevoked

\* Revoking keeps everything else of every session.
LEMMA RevokedKeeps ==
  ASSUME sessions \in [DOMAIN sessions -> Session], NEW S
  PROVE  /\ Revoked(S) \in [DOMAIN sessions -> Session]
         /\ DOMAIN Revoked(S) = DOMAIN sessions
         /\ \A t \in DOMAIN sessions :
              /\ Revoked(S)[t].password = sessions[t].password
              /\ Revoked(S)[t].created = sessions[t].created
              /\ Revoked(S)[t].seen = sessions[t].seen
              /\ Revoked(S)[t].expires = sessions[t].expires
              /\ Revoked(S)[t].revoked <=> (t \in S \/ sessions[t].revoked)
<1>1. ASSUME NEW t \in DOMAIN sessions, t \in S
      PROVE  /\ Revoked(S)[t] = [sessions[t] EXCEPT !.revoked = TRUE]
             /\ sessions[t] \in Session
  BY <1>1 DEF Revoked
<1>2. ASSUME NEW t \in DOMAIN sessions, t \notin S
      PROVE  Revoked(S)[t] = sessions[t] /\ sessions[t] \in Session
  BY <1>2 DEF Revoked
<1>3. DOMAIN Revoked(S) = DOMAIN sessions
  BY DEF Revoked
<1>4. ASSUME NEW t \in DOMAIN sessions
      PROVE  /\ Revoked(S)[t] \in Session
             /\ Revoked(S)[t].password = sessions[t].password
             /\ Revoked(S)[t].created = sessions[t].created
             /\ Revoked(S)[t].seen = sessions[t].seen
             /\ Revoked(S)[t].expires = sessions[t].expires
             /\ Revoked(S)[t].revoked <=> (t \in S \/ sessions[t].revoked)
  <2>1. CASE t \in S
    BY <1>1, <2>1 DEF Session
  <2>2. CASE t \notin S
    BY <1>2, <2>2 DEF Session
  <2> QED BY <2>1, <2>2
<1>5. Revoked(S) \in [DOMAIN sessions -> Session]
  BY <1>4 DEF Revoked
<1> QED BY <1>3, <1>4, <1>5

\* No session has been issued when the server starts for the first time.
LEMMA InvInit == Init => SessionsInv
BY DEF Init, SessionsInv, Kinds, Noted, EndedAreRevoked

\* Steps that end some sessions and touch nothing else of them.
LEMMA EndingKeeps ==
  ASSUME SessionsInv, NEW S \in SUBSET DOMAIN sessions,
         sessions' = Revoked(S), ended' = ended \cup S,
         now' = now, used' = used, password' \in Password,
         leaving' \subseteq DOMAIN sessions,
         \A t \in DOMAIN sessions \ S : ~sessions[t].revoked => sessions[t].password = password'
  PROVE  SessionsInv'
<1> USE DEF SessionsInv
<1>1. Kinds' BY RevokedKeeps DEF Kinds
<1>2. Noted' BY RevokedKeeps DEF Kinds, Noted
<1>3. EndedAreRevoked' BY RevokedKeeps DEF Kinds, EndedAreRevoked
<1> QED BY <1>1, <1>2, <1>3

\* A request that is accepted: the use is noted, or was less than Touch ago.
LEMMA AcceptedKeeps ==
  ASSUME SessionsInv, NEW t \in DOMAIN sessions, Accepted(t),
         leaving' \subseteq DOMAIN sessions
  PROVE  SessionsInv'
<1> USE DEF SessionsInv
<1> DEFINE seen == IF now - sessions[t].seen >= Touch THEN now ELSE sessions[t].seen
<1>0. sessions[t] \in Session /\ seen \in Nat
  BY DEF Kinds, Session
<1>1. /\ DOMAIN sessions' = DOMAIN sessions
      /\ sessions'[t] = [sessions[t] EXCEPT !.seen = seen]
      /\ \A u \in DOMAIN sessions \ {t} : sessions'[u] = sessions[u]
      /\ sessions' = [u \in DOMAIN sessions |-> sessions'[u]]
  BY DEF Kinds, Accepted
<1>2. /\ sessions'[t] \in Session
      /\ sessions'[t].password = sessions[t].password
      /\ sessions'[t].created = sessions[t].created
      /\ sessions'[t].seen = seen
      /\ sessions'[t].expires = sessions[t].expires
      /\ sessions'[t].revoked = sessions[t].revoked
  BY <1>0, <1>1 DEF Session
<1>3. used' = [used EXCEPT ![t] = now] /\ now' = now /\ password' = password /\ ended' = ended
  BY DEF Accepted
<1>4. Kinds'
  <2>1. sessions' \in [DOMAIN sessions' -> Session]
    BY <1>1, <1>2 DEF Kinds
  <2> QED BY <1>1, <1>3, <2>1 DEF Kinds
<1>5. Noted'
  <2> SUFFICES ASSUME NEW u \in DOMAIN sessions
               PROVE  /\ sessions'[u].seen <= used'[u] /\ used'[u] <= now
                      /\ used'[u] - sessions'[u].seen < Touch
                      /\ sessions'[u].expires = sessions'[u].created + Absolute
    BY <1>1, <1>3, TouchFits DEF Noted, Touch
  <2>1. CASE u = t
    <3>1. used'[u] = now
      BY <1>3, <2>1 DEF Kinds
    <3> HIDE DEF seen
    <3>2. seen <= now /\ now - seen < Touch
      BY <1>0, TouchFits DEF Kinds, Noted, Session, seen
    <3>3. sessions[t].expires = sessions[t].created + Absolute
      BY DEF Noted
    <3>4. used'[u] - sessions'[u].seen < Touch /\ sessions'[u].seen <= used'[u]
      BY <1>0, <1>2, <2>1, <3>1, <3>2
    <3>5. used'[u] <= now
      BY <3>1 DEF Kinds
    <3> QED BY <1>2, <2>1, <3>3, <3>4, <3>5
  <2>2. CASE u # t
    <3>1. used'[u] = used[u] /\ sessions'[u] = sessions[u]
      BY <1>1, <1>3, <2>2 DEF Kinds
    <3> QED BY <3>1 DEF Noted
  <2> QED BY <2>1, <2>2
<1>6. EndedAreRevoked'
  BY <1>1, <1>2, <1>3 DEF EndedAreRevoked
<1> QED BY <1>4, <1>5, <1>6

\* A new session starts at the moment of its login.
LEMMA LoginKeeps ==
  ASSUME SessionsInv, NEW b \in Browser, NEW t \in Token, NEW previous,
         RightPassword(b, t, previous)
  PROVE  SessionsInv'
<1> USE DEF SessionsInv
<1> DEFINE new == [password |-> password, created |-> now, seen |-> now,
                   expires |-> now + Absolute, revoked |-> FALSE]
           old == Revoked(previous)
<1>1. /\ previous \subseteq DOMAIN sessions /\ t \notin DOMAIN sessions
      /\ sessions' = With(old, t, new)
      /\ used' = With(used, t, now)
      /\ ended' = ended \cup previous
      /\ now' = now /\ password' = password /\ leaving' = leaving
  BY DEF RightPassword
<1>2. new \in Session
  BY DEF Kinds, Session
<1>3. /\ old \in [DOMAIN sessions -> Session]
      /\ DOMAIN old = DOMAIN sessions
      /\ \A u \in DOMAIN sessions :
           /\ old[u].password = sessions[u].password
           /\ old[u].created = sessions[u].created
           /\ old[u].seen = sessions[u].seen
           /\ old[u].expires = sessions[u].expires
           /\ old[u].revoked <=> (u \in previous \/ sessions[u].revoked)
  BY RevokedKeeps DEF Kinds
<1> HIDE DEF old
<1>4. /\ DOMAIN sessions' = DOMAIN sessions \cup {t}
      /\ sessions'[t] = new
      /\ \A u \in DOMAIN sessions : sessions'[u] = old[u]
  <2> HIDE DEF new
  <2> QED BY <1>1, <1>3 DEF With
<1>5. /\ used'[t] = now
      /\ \A u \in DOMAIN sessions : used'[u] = used[u]
  <2>1. DOMAIN used = DOMAIN sessions
    BY DEF Kinds
  <2> QED BY <1>1, <2>1 DEF With
<1>6. Kinds'
  <2>1. sessions' \in [DOMAIN sessions' -> Session]
    <3> HIDE DEF new
    <3> QED BY <1>1, <1>2, <1>3, <1>4 DEF With
  <2>2. used' \in [DOMAIN sessions' -> Nat]
    <3>1. used \in [DOMAIN used -> Nat] /\ DOMAIN used = DOMAIN sessions /\ now \in Nat
      BY DEF Kinds
    <3> QED BY <1>1, <1>4, <3>1 DEF With
  <2> QED BY <1>1, <1>4, <2>1, <2>2 DEF Kinds
<1>7. Noted'
  <2>1. /\ new.seen = now /\ new.expires = new.created + Absolute
    BY DEF Kinds
  <2> HIDE DEF new
  <2> SUFFICES ASSUME NEW u \in DOMAIN sessions \cup {t}
               PROVE  /\ sessions'[u].seen <= used'[u] /\ used'[u] <= now
                      /\ used'[u] - sessions'[u].seen < Touch
                      /\ sessions'[u].expires = sessions'[u].created + Absolute
    BY <1>1, <1>4 DEF Noted, Touch
  <2>2. CASE u = t
    BY <1>4, <1>5, <2>1, <2>2, TouchFits DEF Kinds
  <2>3. CASE u \in DOMAIN sessions
    BY <1>3, <1>4, <1>5, <2>3 DEF Noted
  <2> QED BY <2>2, <2>3
<1>8. EndedAreRevoked'
  <2>1. ~new.revoked /\ new.password = password /\ t \notin ended'
    BY <1>1 DEF Kinds
  <2> HIDE DEF new
  <2> QED BY <1>1, <1>3, <1>4, <2>1 DEF EndedAreRevoked
<1> QED BY <1>6, <1>7, <1>8

\* Every step of the handlers, of the clock and of a restart keeps the invariant.
LEMMA InvNext == SessionsInv /\ [Next]_vars => SessionsInv'
<1> SUFFICES ASSUME SessionsInv, [Next]_vars
             PROVE  SessionsInv'
  OBVIOUS
<1>0. Kinds BY DEF SessionsInv
<1>1. CASE Tick
  <2>1. now' = now + 1 /\ UNCHANGED <<password, sessions, leaving, used, ended>>
    BY <1>1 DEF Tick
  <2> QED BY <2>1 DEF SessionsInv, Kinds, Noted, EndedAreRevoked, Session, Touch
<1>2. ASSUME NEW t \in DOMAIN sessions, Refuse(t)
      PROVE  SessionsInv'
  BY <1>0, <1>2, EndingKeeps DEF Refuse, Kinds, SessionsInv, EndedAreRevoked
<1>3. ASSUME NEW t \in DOMAIN sessions, Request(t)
      PROVE  SessionsInv'
  BY <1>0, <1>3, AcceptedKeeps DEF Request, Kinds
<1>4. ASSUME NEW t \in DOMAIN sessions, AskLogout(t)
      PROVE  SessionsInv'
  BY <1>0, <1>4, AcceptedKeeps DEF AskLogout, Kinds
<1>5. ASSUME NEW t \in DOMAIN sessions, Logout(t)
      PROVE  SessionsInv'
  BY <1>0, <1>5, EndingKeeps DEF Logout, Kinds, SessionsInv, EndedAreRevoked
<1>6. ASSUME NEW b \in Browser, Login(b) \/ WrongPassword(b)
      PROVE  SessionsInv'
  <2>1. UNCHANGED <<now, password, sessions, leaving, used, ended>>
    BY <1>6 DEF Login, WrongPassword
  <2> QED BY <2>1 DEF SessionsInv, Kinds, Noted, EndedAreRevoked, Touch
<1>7. ASSUME NEW b \in Browser, NEW t \in Token, NEW previous, RightPassword(b, t, previous)
      PROVE  SessionsInv'
  BY <1>7, LoginKeeps
<1>8. ASSUME NEW p \in Password, Restart(p)
      PROVE  SessionsInv'
  <2> DEFINE others == {t \in DOMAIN sessions : sessions[t].password # p}
  <2>1. /\ sessions' = Revoked(others) /\ ended' = ended \cup others
        /\ now' = now /\ used' = used /\ password' = p /\ leaving' = {}
    BY <1>8 DEF Restart, AfterStart
  <2> QED BY <2>1, EndingKeeps
<1>9. CASE UNCHANGED vars
  BY <1>9 DEF vars, SessionsInv, Kinds, Noted, EndedAreRevoked, Touch
<1> QED BY <1>1, <1>2, <1>3, <1>4, <1>5, <1>6, <1>7, <1>8, <1>9 DEF Next

\* In every state the notes trail the uses by less than Touch, and exactly the
\* ended sessions are revoked (auth.py:196-226, 243-253, 320-333).
THEOREM SessionsInvariant == Spec => []SessionsInv
<1> QED BY InvInit, InvNext, PTL DEF Spec

\* A session used at least every half of Idle stays valid until it is ended or
\* reaches its absolute age (auth.py:82, 211-226).
THEOREM ActiveSessionsStayHolds == Spec => []ActiveSessionsStay
<1>1. SessionsInv => ActiveSessionsStay
  <2> SUFFICES ASSUME SessionsInv, NEW t \in DOMAIN sessions, t \notin ended,
                      now < sessions[t].created + Absolute,
                      2 * (now - used[t]) <= Idle
               PROVE  ~Expired(sessions[t]) /\ ~Invalid(sessions[t])
    BY DEF ActiveSessionsStay
  <2>1. /\ sessions[t].seen \in Nat /\ used[t] \in Nat /\ now \in Nat
        /\ used[t] - sessions[t].seen < Touch
        /\ sessions[t].expires = sessions[t].created + Absolute
    BY DEF SessionsInv, Kinds, Noted, Session
  <2>2. now - sessions[t].seen < Idle
    BY <2>1, TouchFits
  <2>3. ~Expired(sessions[t])
    BY <2>1, <2>2 DEF Expired, SessionsInv, Kinds, Session
  <2>4. ~Invalid(sessions[t])
    BY DEF SessionsInv, EndedAreRevoked, Invalid
  <2> QED BY <2>3, <2>4
<1> QED BY <1>1, SessionsInvariant, PTL

\* A session that was refused, logged out or replaced, or whose password was
\* changed, is never accepted again (auth.py:209-220, 243-253, 320-333).
THEOREM EndedForGoodHolds == Spec => EndedForGood
<1>1. SessionsInv => \A t \in DOMAIN sessions : Accepted(t) => t \notin ended
  BY DEF SessionsInv, EndedAreRevoked, Accepted, Invalid
<1> QED BY <1>1, SessionsInvariant, PTL DEF EndedForGood

\* No session is accepted Idle or longer after its last use, or Absolute or
\* longer after its login, across restarts (auth.py:211-226).
THEOREM AcceptedInTimeHolds == Spec => AcceptedInTime
<1>1. SessionsInv => \A t \in DOMAIN sessions :
        Accepted(t) => now - used[t] < Idle /\ now < sessions[t].created + Absolute
  <2> SUFFICES ASSUME SessionsInv, NEW t \in DOMAIN sessions, Accepted(t)
               PROVE  now - used[t] < Idle /\ now < sessions[t].created + Absolute
    OBVIOUS
  <2>1. /\ sessions[t].seen \in Nat /\ sessions[t].created \in Nat
        /\ used[t] \in Nat /\ now \in Nat
        /\ sessions[t].seen <= used[t]
        /\ sessions[t].expires = sessions[t].created + Absolute
    BY DEF SessionsInv, Kinds, Noted, Session
  <2>2. ~Expired(sessions[t])
    BY DEF Accepted
  <2> QED BY <2>1, <2>2 DEF Expired
<1> QED BY <1>1, SessionsInvariant, PTL DEF AcceptedInTime

-----------------------------------------------------------------------------
(* Delays. *)

PowerIs(k, p) ==
  /\ (k = 0 => p = 1) /\ (k = 1 => p = 2) /\ (k = 2 => p = 4) /\ (k = 3 => p = 8) /\ (k = 4 => p = 16)
  /\ (k = 5 => p = 32) /\ (k = 6 => p = 64) /\ (k = 7 => p = 128) /\ (k = 8 => p = 256)
  /\ (k = 9 => p = 512) /\ (k = 10 => p = 1024) /\ (k = 11 => p = 2048) /\ (k = 12 => p = 4096)
  /\ (k = 13 => p = 8192) /\ (k = 14 => p = 16384)
  /\ (k = 15 => p = 32768) /\ (k = 16 => p = 65536)

\* The powers that the limit on the exponent leaves.
LEMMA Powers == ASSUME NEW k \in 0..16 PROVE PowerIs(k, 2^k)
<1>0. k = 0 => 2^k = 1 OBVIOUS
<1>1. k = 1 => 2^k = 2 OBVIOUS
<1>2. k = 2 => 2^k = 4 OBVIOUS
<1>3. k = 3 => 2^k = 8 OBVIOUS
<1>4. k = 4 => 2^k = 16 OBVIOUS
<1>5. k = 5 => 2^k = 32 OBVIOUS
<1>6. k = 6 => 2^k = 64 OBVIOUS
<1>7. k = 7 => 2^k = 128 OBVIOUS
<1>8. k = 8 => 2^k = 256 OBVIOUS
<1>9. k = 9 => 2^k = 512 OBVIOUS
<1>10. k = 10 => 2^k = 1024 OBVIOUS
<1>11. k = 11 => 2^k = 2048 OBVIOUS
<1>12. k = 12 => 2^k = 4096 OBVIOUS
<1>13. k = 13 => 2^k = 8192 OBVIOUS
<1>14. k = 14 => 2^k = 16384 OBVIOUS
<1>15. k = 15 => 2^k = 32768 OBVIOUS
<1>16. k = 16 => 2^k = 65536 OBVIOUS
<1> QED BY <1>0, <1>1, <1>2, <1>3, <1>4, <1>5, <1>6, <1>7, <1>8, <1>9, <1>10, <1>11, <1>12, <1>13, <1>14, <1>15, <1>16 DEF PowerIs

LEMMA PowersGrow ==
  ASSUME NEW j \in 0..16, NEW k \in 0..16, j <= k, NEW p \in Int, NEW q \in Int, p = 2^j, q = 2^k
  PROVE  1 <= p /\ p <= q
<1>1. PowerIs(j, p) /\ PowerIs(k, q)
  BY Powers
<1> QED BY <1>1 DEF PowerIs

LEMMA ProductsGrow ==
  ASSUME NEW m \in Nat, NEW p \in Int, NEW q \in Int, 1 <= p, p <= q
  PROVE  m * p \in Nat /\ m * q \in Nat /\ m * p <= m * q
OBVIOUS

\* A further failure never shortens the delay, and none exceeds MaxDelay.
LEMMA DelaysGrow ==
  ASSUME NEW m \in Nat, NEW n \in Nat, m <= n
  PROVE  Delay(m) \in Nat /\ Delay(n) \in Nat /\ Delay(m) <= Delay(n) /\ Delay(n) <= MaxDelay
<1>1. ASSUME NEW j \in Nat, NEW k \in Nat, MaxAttempts <= j, j <= k
      PROVE  Backoff(j) \in Nat /\ Backoff(k) \in Nat /\ Backoff(j) <= Backoff(k) /\ Backoff(k) <= MaxDelay
  <2>1. PICK x \in 0..16 : x = Least(j - MaxAttempts, 16)
    BY <1>1 DEF Least
  <2>2. PICK y \in 0..16 : y = Least(k - MaxAttempts, 16)
    BY <1>1 DEF Least
  <2>3. x <= y
    BY <1>1, <2>1, <2>2 DEF Least
  <2>4. PICK p \in Int : p = 2^x
    OBVIOUS
  <2>5. PICK q \in Int : q = 2^y
    OBVIOUS
  <2>6. 1 <= p /\ p <= q
    BY <2>3, <2>4, <2>5, PowersGrow
  <2>7. PICK a \in Nat : a = BaseDelay * p
    BY <2>6, ProductsGrow
  <2>8. PICK b \in Nat : b = BaseDelay * q
    BY <2>6, ProductsGrow
  <2>9. a <= b
    BY <2>6, <2>7, <2>8, ProductsGrow
  <2>10. Backoff(j) = Least(MaxDelay, a) /\ Backoff(k) = Least(MaxDelay, b)
    BY <2>1, <2>2, <2>4, <2>5, <2>7, <2>8 DEF Backoff
  <2> QED BY <2>9, <2>10 DEF Least
<1>2. CASE m >= MaxAttempts
  BY <1>1, <1>2 DEF Delay
<1>3. CASE m < MaxAttempts
  <2>1. Delay(m) = 0
    BY <1>3 DEF Delay
  <2>2. CASE n >= MaxAttempts
    BY <1>1, <2>1, <2>2 DEF Delay
  <2>3. CASE n < MaxAttempts
    BY <2>1, <2>3 DEF Delay
  <2> QED BY <2>2, <2>3
<1> QED BY <1>2, <1>3

-----------------------------------------------------------------------------
(* Failed logins. *)

Attempt == [failures : Nat, last : Nat, blocked : Nat]
At(r) == {b \in Browser : remoteOf[b] = r}

\* An address without failures is not blocked; a block starts at the last failure.
Counted ==
  /\ attempts \in [Remote -> Attempt] /\ slips \in [Remote -> Nat] /\ admitted \subseteq Browser
  /\ \A r \in Remote : LET a == attempts[r] IN
       \/ a.failures = 0 /\ a.blocked = 0
       \/ a.failures # 0 /\ a.last <= now /\ a.blocked = a.last + Delay(a.failures)

\* Since the address was last open a failure has used up an admitted login, and
\* each slip another one.
Spent(r) ==
  \/ slips[r] = 0 /\ ~Blocked(r)
  \/ slips[r] + Cardinality(At(r) \cap admitted) < Cardinality(At(r))

AttemptsInv == Counted /\ \A r \in Remote : Spent(r)

LEMMA AtFacts ==
  ASSUME NEW r, NEW A
  PROVE  /\ IsFiniteSet(At(r) \cap A) /\ Cardinality(At(r) \cap A) \in Nat /\ Cardinality(At(r)) \in Nat
         /\ Cardinality(At(r) \cap A) <= Cardinality(At(r))
<1>1. IsFiniteSet(At(r))
  BY WorldAssumption, FS_Subset DEF At
<1>2. At(r) \cap A \subseteq At(r)
  OBVIOUS
<1> QED BY <1>1, <1>2, FS_Subset, FS_CardinalityType

\* A login that ends leaves its address one admitted login less.
LEMMA LeftFacts ==
  ASSUME NEW b \in admitted, NEW r, admitted' = admitted \ {b}, b \in Browser
  PROVE  /\ r = remoteOf[b] =>
              Cardinality(At(r) \cap admitted') = Cardinality(At(r) \cap admitted) - 1
         /\ r # remoteOf[b] => At(r) \cap admitted' = At(r) \cap admitted
<1>1. CASE r = remoteOf[b]
  <2>1. b \in At(r) \cap admitted /\ At(r) \cap admitted' = (At(r) \cap admitted) \ {b}
    BY <1>1 DEF At
  <2>2. IsFiniteSet(At(r) \cap admitted)
    BY AtFacts
  <2>3. Cardinality((At(r) \cap admitted) \ {b}) = Cardinality(At(r) \cap admitted) - 1
    BY <2>1, <2>2, FS_RemoveElement
  <2> QED BY <1>1, <2>1, <2>3
<1>2. CASE r # remoteOf[b]
  BY <1>2 DEF At
<1> QED BY <1>1, <1>2

LEMMA AttemptsInit == Init => AttemptsInv
<1> SUFFICES ASSUME Init PROVE AttemptsInv
  OBVIOUS
<1>1. attempts \in [Remote -> Attempt] /\ slips \in [Remote -> Nat] /\ admitted = {} /\ now = 0
      /\ \A r \in Remote : attempts[r].failures = 0 /\ attempts[r].blocked = 0 /\ slips[r] = 0
  BY DEF Init, Attempt
<1> QED BY <1>1 DEF AttemptsInv, Counted, Spent, Blocked

\* What does not concern an address keeps what is known of it.
LEMMA SpentKeeps ==
  ASSUME NEW r, Spent(r), slips'[r] = slips[r], Blocked(r)' => Blocked(r),
         Cardinality(At(r) \cap admitted') <= Cardinality(At(r) \cap admitted), slips[r] \in Nat
  PROVE  Spent(r)'
<1>1. Cardinality(At(r) \cap admitted) \in Nat /\ Cardinality(At(r) \cap admitted') \in Nat /\ Cardinality(At(r)) \in Nat
  BY AtFacts
<1>2. (Cardinality(At(r) \cap admitted))' = Cardinality(At(r) \cap admitted')
      /\ (Cardinality(At(r)))' = Cardinality(At(r))
  BY DEF At
<1> QED BY <1>1, <1>2 DEF Spent

\* A step of one browser's login concerns its address alone.
LEMMA FailureKeeps ==
  ASSUME SessionsInv, AttemptsInv, NEW b \in Browser, WrongPassword(b) PROVE AttemptsInv'
<1> DEFINE r == remoteOf[b]
           n == FailuresOf(attempts[r])
           row == [failures |-> n, last |-> now, blocked |-> now + Delay(n)]
<1>0. now \in Nat /\ r \in Remote /\ Counted /\ attempts[r] \in Attempt /\ slips \in [Remote -> Nat]
  BY WorldAssumption DEF SessionsInv, Kinds, AttemptsInv, Counted
<1>1. /\ b \in admitted /\ admitted' = admitted \ {b} /\ now' = now
      /\ attempts' = [attempts EXCEPT ![r] = row]
      /\ slips' = [slips EXCEPT ![r] = IF Blocked(r) THEN @ + 1 ELSE @]
  BY DEF WrongPassword
<1>2. n \in Nat /\ n # 0
  BY <1>0 DEF FailuresOf, Attempt
<1>3. Delay(n) \in Nat
  BY <1>2, DelaysGrow
<1> HIDE DEF n
<1>4. row \in Attempt
  BY <1>0, <1>2, <1>3 DEF Attempt
<1>5. row.failures = n /\ row.last = now /\ row.blocked = now + Delay(n)
  OBVIOUS
<1> HIDE DEF row
<1>6. Counted'
  <2>1. attempts' \in [Remote -> Attempt] /\ attempts'[r] = row
        /\ \A q \in Remote \ {r} : attempts'[q] = attempts[q]
    BY <1>0, <1>1, <1>4 DEF Counted
  <2>2. slips' \in [Remote -> Nat]
    BY <1>0, <1>1
  <2>3. row.last <= now /\ row.failures # 0 /\ row.blocked = row.last + Delay(row.failures)
    BY <1>0, <1>2, <1>5
  <2> QED BY <1>0, <1>1, <2>1, <2>2, <2>3 DEF Counted, Delay, Backoff
<1>7. ASSUME NEW q \in Remote PROVE Spent(q)'
  <2>0. /\ slips[q] \in Nat /\ Cardinality(At(q) \cap admitted) \in Nat /\ Cardinality(At(q)) \in Nat
        /\ Cardinality(At(q) \cap admitted) <= Cardinality(At(q))
    BY <1>0, AtFacts
  <2>1. CASE q = r
    <3>1. Cardinality(At(q) \cap admitted') = Cardinality(At(q) \cap admitted) - 1
      BY <1>1, <2>1, LeftFacts
    <3>2. slips'[q] = IF Blocked(q) THEN slips[q] + 1 ELSE slips[q]
      BY <1>0, <1>1, <2>1
    <3>3. slips'[q] + Cardinality(At(q) \cap admitted') < Cardinality(At(q))
      <4>1. Spent(q)
        BY DEF AttemptsInv
      <4> QED BY <2>0, <3>1, <3>2, <4>1 DEF Spent
    <3> QED BY <3>3 DEF Spent, At
  <2>2. CASE q # r
    <3>1. attempts'[q] = attempts[q] /\ slips'[q] = slips[q]
      BY <1>0, <1>1, <2>2 DEF Counted
    <3>2. At(q) \cap admitted' = At(q) \cap admitted
      BY <1>1, <2>2, LeftFacts
    <3>3. Spent(q)
      BY DEF AttemptsInv
    <3>4. Cardinality(At(q) \cap admitted') <= Cardinality(At(q) \cap admitted)
      BY <2>0, <3>2
    <3>5. Blocked(q)' => Blocked(q)
      BY <1>1, <3>1 DEF Blocked
    <3> QED BY <2>0, <3>1, <3>3, <3>4, <3>5, SpentKeeps
  <2> QED BY <2>1, <2>2
<1> QED BY <1>6, <1>7 DEF AttemptsInv

LEMMA SuccessKeeps ==
  ASSUME SessionsInv, AttemptsInv, NEW b \in Browser, NEW t, NEW previous, RightPassword(b, t, previous)
  PROVE  AttemptsInv'
<1> DEFINE r == remoteOf[b]
           row == [failures |-> 0, last |-> 0, blocked |-> 0]
<1>0. now \in Nat /\ r \in Remote /\ Counted /\ slips \in [Remote -> Nat]
  BY WorldAssumption DEF SessionsInv, Kinds, AttemptsInv, Counted
<1>1. /\ b \in admitted /\ admitted' = admitted \ {b} /\ now' = now /\ slips' = slips
      /\ attempts' = [attempts EXCEPT ![r] = row]
  BY DEF RightPassword
<1>2. row \in Attempt /\ row.failures = 0 /\ row.blocked = 0
  BY DEF Attempt
<1> HIDE DEF row
<1>3. attempts' \in [Remote -> Attempt] /\ attempts'[r] = row
      /\ \A q \in Remote \ {r} : attempts'[q] = attempts[q]
  BY <1>0, <1>1, <1>2 DEF Counted
<1>4. Counted'
  BY <1>0, <1>1, <1>2, <1>3 DEF Counted, Delay, Backoff
<1>5. ASSUME NEW q \in Remote PROVE Spent(q)'
  <2>1. slips[q] \in Nat /\ Cardinality(At(q) \cap admitted) \in Nat
    BY <1>0, AtFacts
  <2>2. Blocked(q)' => Blocked(q)
    BY <1>0, <1>1, <1>2, <1>3 DEF Blocked
  <2>3. Cardinality(At(q) \cap admitted') <= Cardinality(At(q) \cap admitted)
    <3>1. CASE q = r
      BY <1>1, <2>1, <3>1, LeftFacts
    <3>2. CASE q # r
      <4>1. At(q) \cap admitted' = At(q) \cap admitted
        BY <1>1, <3>2, LeftFacts
      <4>2. Cardinality(At(q) \cap admitted') = Cardinality(At(q) \cap admitted)
        BY <4>1, Zenon
      <4> QED BY <2>1, <4>2
    <3> QED BY <3>1, <3>2
  <2>4. Spent(q)
    BY DEF AttemptsInv
  <2> QED BY <1>1, <2>1, <2>2, <2>3, <2>4, SpentKeeps
<1> QED BY <1>4, <1>5 DEF AttemptsInv

LEMMA AdmittedKeeps == ASSUME AttemptsInv, NEW b \in Browser, Login(b) PROVE AttemptsInv'
<1> DEFINE r == remoteOf[b]
<1>0. r \in Remote /\ Counted /\ slips \in [Remote -> Nat]
  BY WorldAssumption DEF AttemptsInv, Counted
<1>1. /\ ~Blocked(r) /\ admitted' = admitted \cup {b} /\ slips' = [slips EXCEPT ![r] = 0]
      /\ now' = now /\ attempts' = attempts
  BY DEF Login
<1>2. Counted'
  BY <1>0, <1>1 DEF Counted, Delay, Backoff
<1>3. ASSUME NEW q \in Remote PROVE Spent(q)'
  <2>1. CASE q = r
    <3>1. slips'[q] = 0 /\ ~Blocked(q)'
      BY <1>0, <1>1, <2>1 DEF Blocked
    <3> QED BY <3>1 DEF Spent
  <2>2. CASE q # r
    <3>1. slips'[q] = slips[q] /\ slips[q] \in Nat /\ (Blocked(q)' => Blocked(q))
      BY <1>0, <1>1, <2>2 DEF Blocked
    <3>2. At(q) \cap admitted' = At(q) \cap admitted
      BY <1>1, <2>2 DEF At
    <3>3. Cardinality(At(q) \cap admitted') <= Cardinality(At(q) \cap admitted)
      BY <3>2, AtFacts
    <3>4. Spent(q)
      BY DEF AttemptsInv
    <3> QED BY <3>1, <3>3, <3>4, SpentKeeps
  <2> QED BY <2>1, <2>2
<1> QED BY <1>2, <1>3 DEF AttemptsInv

\* Steps that record no attempt: the clock, a restart, requests.
LEMMA NoAttemptKeeps ==
  ASSUME SessionsInv, AttemptsInv, UNCHANGED <<attempts, slips>>, admitted' \in {admitted, {}},
         now' \in {now, now + 1}
  PROVE  AttemptsInv'
<1>0. now \in Nat /\ Counted /\ slips \in [Remote -> Nat] /\ attempts \in [Remote -> Attempt]
  BY DEF SessionsInv, Kinds, AttemptsInv, Counted
<1>1. Counted'
  BY <1>0 DEF Counted, Delay, Backoff, Attempt
<1>2. ASSUME NEW q \in Remote PROVE Spent(q)'
  <2>1. Blocked(q)' => Blocked(q)
    BY <1>0 DEF Blocked, Attempt
  <2>2. Cardinality(At(q) \cap admitted') <= Cardinality(At(q) \cap admitted)
    <3>0. Cardinality(At(q) \cap admitted) \in Nat
      BY AtFacts
    <3>1. CASE admitted' = admitted
      <4>1. Cardinality(At(q) \cap admitted') = Cardinality(At(q) \cap admitted)
        BY <3>1
      <4> QED BY <3>0, <4>1
    <3>2. CASE admitted' = {}
      <4>1. At(q) \cap admitted' = {}
        BY <3>2
      <4>2. Cardinality(At(q) \cap admitted') = 0
        BY <4>1, FS_EmptySet, Zenon
      <4> QED BY <3>0, <4>2
    <3> QED BY <1>0, <3>1, <3>2
  <2>3. Spent(q)
    BY DEF AttemptsInv
  <2> QED BY <1>0, <2>1, <2>2, <2>3, SpentKeeps
<1> QED BY <1>1, <1>2 DEF AttemptsInv

LEMMA AttemptsNext == ASSUME SessionsInv, AttemptsInv, [Next]_vars PROVE AttemptsInv'
<1>1. CASE \E b \in Browser : Login(b)
  BY <1>1, AdmittedKeeps
<1>2. CASE \E b \in Browser : WrongPassword(b)
  BY <1>2, FailureKeeps
<1>3. CASE \E b \in Browser, t \in Token, previous \in SUBSET DOMAIN sessions : RightPassword(b, t, previous)
  BY <1>3, SuccessKeeps
<1>4. CASE \/ Tick \/ UNCHANGED vars \/ \E p \in Password : Restart(p)
           \/ \E t \in DOMAIN sessions : Refuse(t) \/ Request(t) \/ AskLogout(t) \/ Logout(t)
  <2>1. UNCHANGED <<attempts, slips>> /\ admitted' \in {admitted, {}} /\ now' \in {now, now + 1}
    BY <1>4 DEF Tick, vars, Restart, Refuse, Request, AskLogout, Logout, Accepted
  <2> QED BY <2>1, NoAttemptKeeps
<1> QED BY <1>1, <1>2, <1>3, <1>4 DEF Next

\* In every state a block comes from the last failure, and logins that were
\* admitted before it are used up one by one (auth.py:133-172, app.py:169-177).
THEOREM AttemptsAreCounted == Spec => []AttemptsInv
BY AttemptsInit, AttemptsNext, SessionsInvariant, PTL DEF Spec

\* While an address is blocked only the logins that it was admitted before may
\* fail, each of them once (app.py:169-177).
THEOREM FewLoginsSlip == Spec => []FewSlips
<1>1. AttemptsInv => FewSlips
  <2> SUFFICES ASSUME AttemptsInv, NEW r \in Remote, slips[r] # 0 PROVE slips[r] < Cardinality(At(r))
    BY DEF FewSlips, At
  <2>1. slips[r] \in Nat /\ slips[r] + Cardinality(At(r) \cap admitted) < Cardinality(At(r))
    BY DEF AttemptsInv, Counted, Spent
  <2>2. Cardinality(At(r) \cap admitted) \in Nat /\ Cardinality(At(r)) \in Nat
    BY AtFacts
  <2> QED BY <2>1, <2>2
<1> QED BY <1>1, AttemptsAreCounted, PTL

\* A failure never shortens a block, for every setting in which the window
\* covers the longest delay (auth.py:147-168).
THEOREM BlocksNeverShrink == Spec => BlocksGrow
<1> DEFINE A == Window >= MaxDelay =>
                  \A b \in Browser : WrongPassword(b) =>
                    attempts'[remoteOf[b]].blocked >= attempts[remoteOf[b]].blocked
<1>1. ASSUME SessionsInv, AttemptsInv PROVE A
  <2> SUFFICES ASSUME Window >= MaxDelay, NEW b \in Browser, WrongPassword(b)
               PROVE  attempts'[remoteOf[b]].blocked >= attempts[remoteOf[b]].blocked
    OBVIOUS
  <2> DEFINE r == remoteOf[b]
             a == attempts[r]
             n == FailuresOf(a)
  <2>0. now \in Nat /\ r \in Remote /\ Counted /\ a \in Attempt
    BY <1>1, WorldAssumption DEF SessionsInv, Kinds, AttemptsInv, Counted
  <2>1. attempts'[r].blocked = now + Delay(n)
    BY <2>0 DEF WrongPassword, Counted
  <2>2. n \in Nat
    BY <2>0 DEF FailuresOf, Attempt
  <2>3. Delay(n) \in Nat
    BY <2>2, DelaysGrow
  <2>4. \/ a.failures = 0 /\ a.blocked = 0
        \/ a.failures # 0 /\ a.last <= now /\ a.blocked = a.last + Delay(a.failures)
    BY <2>0 DEF Counted
  <2>5. CASE a.blocked = 0
    BY <2>0, <2>1, <2>3, <2>5
  <2>6. CASE a.failures # 0 /\ a.last <= now /\ a.blocked = a.last + Delay(a.failures)
    <3>1. a.failures \in Nat /\ a.last \in Nat
      BY <2>0 DEF Attempt
    <3>2. Delay(a.failures) \in Nat /\ Delay(a.failures) <= MaxDelay
      BY <3>1, DelaysGrow
    <3>3. CASE now - a.last <= Window
      <4>1. n = a.failures + 1
        BY <2>6, <3>3 DEF FailuresOf
      <4>2. Delay(a.failures) <= Delay(n)
        <5>1. a.failures <= n
          BY <3>1, <4>1
        <5> HIDE DEF n, a
        <5> QED BY <2>2, <3>1, <5>1, DelaysGrow
      <4> HIDE DEF n
      <4> QED BY <2>0, <2>1, <2>3, <2>6, <3>1, <3>2, <4>2
    <3>4. CASE ~(now - a.last <= Window)
      <4> HIDE DEF n
      <4> QED BY <2>0, <2>1, <2>3, <2>6, <3>1, <3>2, <3>4
    <3> QED BY <3>3, <3>4
  <2> QED BY <2>4, <2>5, <2>6
<1> HIDE DEF A
<1>2. Spec => [][A]_vars
  BY <1>1, SessionsInvariant, AttemptsAreCounted, PTL
<1> QED BY <1>2 DEF BlocksGrow, A
=============================================================================

---------------------------- MODULE AuthSessions ----------------------------
(***************************************************************************)
(* Browser sessions and the limit on failed logins: AuthManager (auth.py)  *)
(* with the middleware and the login and logout handlers of app.py, over a *)
(* database that outlives the process.                                     *)
(*                                                                         *)
(* Every method of AuthManager is one transaction, and so one step.  A     *)
(* login is two: the handler asks whether the address may try, awaits the  *)
(* form, and then verifies the password.  A logout is two: the middleware  *)
(* authenticates, the handler revokes.  The clock does not run backwards.  *)
(* A browser may present any token ever issued, or keep it to itself.      *)
(*                                                                         *)
(* A definition marked "mutant" is a plausible mistake in the code of the  *)
(* definition that follows it; no specification uses it.                   *)
(***************************************************************************)
EXTENDS Integers, FiniteSets

CONSTANTS
  Token,         \* the session tokens that can be drawn
  Browser,       \* browsers, each with one login under way at most
  Remote,        \* client addresses
  remoteOf,      \* the address of each browser
  Password,      \* passwords that are configured, one per run of the server
  Idle, Absolute,                           \* session_*_seconds
  MaxAttempts, BaseDelay, MaxDelay, Window, \* login_*
  MaxTime        \* bound: the clock

\* What __init__ checks of the settings.
ASSUME SettingsAssumption ==
  /\ Idle \in Nat \ {0} /\ Absolute \in Nat /\ Idle <= Absolute
  /\ MaxAttempts \in Nat \ {0} /\ BaseDelay \in Nat \ {0}
  /\ MaxDelay \in Nat /\ BaseDelay <= MaxDelay /\ Window \in Nat \ {0}
ASSUME WorldAssumption ==
  /\ remoteOf \in [Browser -> Remote] /\ IsFiniteSet(Browser)
  /\ MaxTime \in Nat

VARIABLES
  now,
  password,    \* the one this run of the server is configured with
  sessions,    \* the table sessions, by token
  attempts,    \* the table login_attempts, by address; failures = 0: no row
  admitted,    \* the browsers whose login was allowed and awaits its form
  leaving,     \* the tokens with which a logout was admitted
  used,        \* history variable: when a token was issued or last accepted
  ended,       \* history variable: tokens that were refused, logged out,
               \* replaced, or whose password is no longer the one in force
  slips        \* history variable: failures while an address was blocked

vars == <<now, password, sessions, attempts, admitted, leaving, used, ended, slips>>

Least(a, b) == IF a < b THEN a ELSE b
Most(a, b)  == IF a > b THEN a ELSE b

WholeMinute == 60                                           \* mutant
Touch == Most(1, Least(60, Idle \div 2))

Init ==
  /\ now = 0
  /\ password \in Password
  /\ sessions = [t \in {} |-> t]
  /\ attempts = [r \in Remote |-> [failures |-> 0, last |-> 0, blocked |-> 0]]
  /\ admitted = {} /\ leaving = {}
  /\ used = [t \in {} |-> t] /\ ended = {}
  /\ slips = [r \in Remote |-> 0]

With(f, t, value) == [u \in DOMAIN f \cup {t} |-> IF u = t THEN value ELSE f[u]]
Revoked(tokens) ==
  [t \in DOMAIN sessions |->
     IF t \in tokens THEN [sessions[t] EXCEPT !.revoked = TRUE] ELSE sessions[t]]

-----------------------------------------------------------------------------
(* Sessions. *)

ExpiresAfterIdle(s) == now >= s.expires \/ now - s.seen > Idle + Touch     \* mutant
Expired(s) == now >= s.expires \/ now - s.seen >= Idle
Invalid(s) == s.revoked \/ s.password # password

\* authenticate: refused for good, or accepted, and then noted from time to time.
Refuse(t) ==
  /\ Expired(sessions[t]) \/ Invalid(sessions[t])
  /\ sessions' = Revoked({t})
  /\ ended' = ended \cup {t}
  /\ UNCHANGED <<now, password, attempts, admitted, leaving, used, slips>>

Accepted(t) ==
  /\ ~Expired(sessions[t]) /\ ~Invalid(sessions[t])
  /\ sessions' = [sessions EXCEPT ![t].seen = IF now - @ >= Touch THEN now ELSE @]
  /\ used' = [used EXCEPT ![t] = now]
  /\ UNCHANGED <<now, password, attempts, admitted, ended, slips>>

Request(t) == Accepted(t) /\ UNCHANGED leaving
AskLogout(t) == Accepted(t) /\ leaving' = leaving \cup {t}

\* revoke_session.
Logout(t) ==
  /\ t \in leaving
  /\ leaving' = leaving \ {t}
  /\ sessions' = Revoked({t})
  /\ ended' = ended \cup {t}
  /\ UNCHANGED <<now, password, attempts, admitted, used, slips>>

-----------------------------------------------------------------------------
(* Logins. *)

Blocked(r) == attempts[r].blocked > now

\* login_allowed; a refused login changes nothing.
LoginWhenever(b) ==                                         \* mutant
  /\ b \notin admitted
  /\ admitted' = admitted \cup {b}
  /\ UNCHANGED <<now, password, sessions, attempts, leaving, used, ended, slips>>
Login(b) ==
  /\ b \notin admitted
  /\ ~Blocked(remoteOf[b])
  /\ admitted' = admitted \cup {b}
  /\ slips' = [slips EXCEPT ![remoteOf[b]] = 0]
  /\ UNCHANGED <<now, password, sessions, attempts, leaving, used, ended>>

Backoff(n) == Least(MaxDelay, BaseDelay * 2 ^ Least(n - MaxAttempts, 16))
DelaysOnce(n) == IF n = MaxAttempts THEN Backoff(n) ELSE 0  \* mutant
Delay(n) == IF n >= MaxAttempts THEN Backoff(n) ELSE 0

\* record_login_failure.
FailuresOf(a) == IF a.failures # 0 /\ now - a.last <= Window THEN a.failures + 1 ELSE 1
WrongPassword(b) ==
  LET r == remoteOf[b]
      n == FailuresOf(attempts[r])
  IN /\ b \in admitted
     /\ admitted' = admitted \ {b}
     /\ attempts' = [attempts EXCEPT ![r] =
                       [failures |-> n, last |-> now, blocked |-> now + Delay(n)]]
     /\ slips' = [slips EXCEPT ![r] = IF Blocked(r) THEN @ + 1 ELSE @]
     /\ UNCHANGED <<now, password, sessions, leaving, used, ended>>

\* issue_session: the token the browser still has, if any, is revoked.
RightPassword(b, t, previous) ==
  /\ b \in admitted
  /\ admitted' = admitted \ {b}
  /\ previous \subseteq DOMAIN sessions /\ Cardinality(previous) <= 1
  /\ t \notin DOMAIN sessions
  /\ sessions' = With(Revoked(previous), t,
                      [password |-> password, created |-> now, seen |-> now,
                       expires |-> now + Absolute, revoked |-> FALSE])
  /\ used' = With(used, t, now)
  /\ ended' = ended \cup previous
  /\ attempts' = [attempts EXCEPT ![remoteOf[b]] =
                    [failures |-> 0, last |-> 0, blocked |-> 0]]
  /\ UNCHANGED <<now, password, leaving, slips>>

-----------------------------------------------------------------------------
\* The server is stopped, or dies, and starts with a password, perhaps a new
\* one: __init__ revokes the sessions of other passwords.
RevokesNothing(p) == sessions                               \* mutant
AfterStart(p) == Revoked({t \in DOMAIN sessions : sessions[t].password # p})
Restart(p) ==
  /\ password' = p
  /\ sessions' = AfterStart(p)
  /\ ended' = ended \cup {t \in DOMAIN sessions : sessions[t].password # p}
  /\ admitted' = {} /\ leaving' = {}
  /\ UNCHANGED <<now, attempts, used, slips>>

Tick ==
  /\ now < MaxTime
  /\ now' = now + 1
  /\ UNCHANGED <<password, sessions, attempts, admitted, leaving, used, ended, slips>>

Next ==
  \/ Tick
  \/ \E t \in DOMAIN sessions : Refuse(t) \/ Request(t) \/ AskLogout(t) \/ Logout(t)
  \/ \E b \in Browser :
       \/ Login(b) \/ WrongPassword(b)
       \/ \E t \in Token, previous \in SUBSET DOMAIN sessions : RightPassword(b, t, previous)
  \/ \E p \in Password : Restart(p)

Spec == Init /\ [][Next]_vars

-----------------------------------------------------------------------------
Session == [password : Password, created : Nat, seen : Nat, expires : Nat, revoked : BOOLEAN]

\* "Revocable, ... survive process restarts": a session that was refused once,
\* logged out, replaced, or whose password was changed is never accepted
\* again, not even when an earlier password comes back (auth.py:209-220,
\* 243-253, 320-333; README.md:176).
EndedForGood == [][\A t \in DOMAIN sessions : Accepted(t) => t \notin ended]_vars

\* "Have idle and absolute expiry": a session is accepted only within Idle of
\* its last use and within Absolute of its login, across restarts, although
\* its use is written down only now and then (auth.py:211-226, README.md:176).
AcceptedInTime ==
  [][\A t \in DOMAIN sessions :
       Accepted(t) => now - used[t] < Idle /\ now < sessions[t].created + Absolute]_vars

\* A session that is used often enough is not lost: unless it was ended or has
\* reached its absolute age, a request within half of Idle of the one before is
\* accepted, although not every use is written down (auth.py:82, 221-226).
ActiveSessionsStay ==
  \A t \in DOMAIN sessions \ ended :
    now < sessions[t].created + Absolute /\ 2 * (now - used[t]) <= Idle
      => ~Expired(sessions[t]) /\ ~Invalid(sessions[t])

\* A failed login never shortens a block, whichever logins were admitted
\* before it and however long they took, if the window covers the longest
\* delay, as it does by default (auth.py:147-168, config.py:63-66).
BlocksGrow ==
  [][Window >= MaxDelay =>
       \A b \in Browser : WrongPassword(b) =>
         attempts'[remoteOf[b]].blocked >= attempts[remoteOf[b]].blocked]_vars

\* Logins that were admitted before their address was blocked may still fail
\* afterwards, but each of them once: the others wait (app.py:169-177).
FewSlips ==
  \A r \in Remote : slips[r] < Cardinality({b \in Browser : remoteOf[b] = r}) \/ slips[r] = 0
=============================================================================

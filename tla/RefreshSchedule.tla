---------------------------- MODULE RefreshSchedule ----------------------------
(***************************************************************************)
(* When the background task of spawn_refresh (src/src/auth.rs) refreshes   *)
(* the cached token, against the time that token stays good at the server. *)
(*                                                                         *)
(* TokenRefresh says who may refresh and in which order; here an attempt   *)
(* is one interval between its start and its end, and what counts is how   *)
(* long everything takes.  Time is discrete, Second units to a second, and *)
(* every clock is a distance from now, so that no variable grows for ever. *)
(* A lifetime is counted by the identity provider from the moment it       *)
(* issues the token, by TokenLifetime from the moment the answer is        *)
(* installed, and the ticker runs on from wherever it was last reset.      *)
(***************************************************************************)
EXTENDS Integers

CONSTANTS
  Second,               \* units of time in a second
  Lifetimes,            \* expires_in values the IdP hands out, in seconds
  MaxLatency,           \* the longest a healthy IdP takes to answer, in units
  FetchTimeout,         \* OAUTH_HTTP_REQUEST_TIMEOUT, in units
  MaxCallers,           \* RPCs that refresh the token on their own at once
  IdpCanFail            \* whether the IdP can be down

ASSUME UnitsAssumption ==
  /\ Second \in Nat \ {0} /\ MaxLatency \in Nat /\ FetchTimeout \in Nat
  /\ MaxLatency <= FetchTimeout
ASSUME ScenarioAssumption ==
  /\ Lifetimes \subseteq Nat /\ Lifetimes # {}
  /\ MaxCallers \in Nat /\ IdpCanFail \in BOOLEAN

VARIABLES
  left,                 \* how long the server still accepts the cached token
  expires_in,           \* TokenLifetime::expires_in
  remaining,            \* TokenLifetime::remaining()
  timer,                \* until the ticker fires
  setFor,               \* a history: the lifetime the ticker was set for, or 0
  failures,             \* consecutive_failures
  permit,               \* refresh_notify holds a permit
  attempt,              \* who makes the attempt in flight
  joined,               \* the background task waits in the queue of refresh_lock
  ahead,                \* for that attempt and this many callers behind it
  elapsed,              \* since the attempt in flight began
  lost,                 \* its request or its answer is lost
  answered, life, age,  \* the IdP issued a token for it: expires_in, since when
  up, upFor             \* the IdP answers, and has done so for this long

schedule == <<timer, setFor, failures>>
cached == <<left, expires_in, remaining>>
answer == <<answered, life, age>>
queue == <<joined, ahead>>
flight == <<attempt, queue, elapsed, lost, answer>>
idp == <<up, upFor>>
vars == <<cached, schedule, permit, flight, idp>>

AtMost(a, b) == IF a <= b THEN a ELSE b
AtLeast(a, b) == IF a >= b THEN a ELSE b

-------------------------------------------------------------------------------
(* Mutated forms of the definitions below, each a bug this code could have;   *)
(* no specification uses them.                                                *)

\* The floor is applied last, as it was before the clamp was added.
FloorOnly(expiresIn) == AtLeast((expiresIn * 2) \div 3, 5)

-------------------------------------------------------------------------------
(* The schedule, in seconds *)

\* saturating_sub
Less(a, b) == IF a >= b THEN a - b ELSE 0

MIN_REFRESH_INTERVAL == 5
REFRESH_RETRY_MAX_DELAY == 30

refresh_interval(expiresIn) ==
  AtMost(AtLeast((expiresIn * 2) \div 3, MIN_REFRESH_INTERVAL),
         AtLeast(Less(expiresIn, 1), 1))

retry_backoff(n) == AtMost(2 ^ n, REFRESH_RETRY_MAX_DELAY)

\* consecutive_failures from which retry_backoff no longer grows.
FailuresCap == 5

\* What the powers of two are, which the proofs take from here.
ASSUME PowersAssumption == \A n \in 0..FailuresCap : 2 ^ n \in Nat

\* The delays jittered_retry_backoff can draw, the upper half of the ceiling, in
\* units and rounded outwards.
RetryDelays(n) ==
  ((retry_backoff(n) * Second) \div 2) .. (retry_backoff(n) * Second)

\* The slowest recovery once the IdP is back takes less than this: an attempt
\* that was lost to the outage, the backoff after it, one fetch of each caller
\* that came before the task and was dropped at the end of it, and the task's.
HealBound ==
  FetchTimeout + REFRESH_RETRY_MAX_DELAY * Second + (MaxCallers + 1) * MaxLatency + 1

TypeOK ==
  /\ left \in Nat /\ expires_in \in Lifetimes /\ remaining \in Nat
  /\ timer \in Nat /\ setFor \in Lifetimes \cup {0} /\ failures \in 0..FailuresCap
  /\ permit \in BOOLEAN
  /\ attempt \in {"none", "task", "caller"}
  /\ joined \in BOOLEAN /\ ahead \in 0..MaxCallers
  /\ elapsed \in 0..FetchTimeout /\ lost \in BOOLEAN
  /\ answered \in BOOLEAN /\ life \in Lifetimes \cup {0}
  /\ age \in 0..FetchTimeout
  /\ up \in BOOLEAN /\ upFor \in 0..HealBound

-------------------------------------------------------------------------------
Init ==
  /\ \E e \in Lifetimes, travel \in 0..MaxLatency :
       /\ left = Less(e * Second, travel)
       /\ expires_in = e /\ remaining = e * Second
       /\ timer = refresh_interval(e) * Second /\ setFor = e
  /\ failures = 0 /\ permit = FALSE
  /\ attempt = "none" /\ joined = FALSE /\ ahead = 0
  /\ elapsed = 0 /\ lost = FALSE
  /\ answered = FALSE /\ life = 0 /\ age = 0
  /\ up = TRUE /\ upFor = HealBound

\* The background task stands at its select!.
AtSelect == attempt # "task" /\ ~joined

NoAttempt ==
  /\ attempt' = "none" /\ joined' = FALSE /\ ahead' = 0
  /\ elapsed' = 0 /\ lost' = FALSE
  /\ answered' = FALSE /\ life' = 0 /\ age' = 0

\* What an attempt that failed means to the ticker, if the task waits for it.
BacksOff ==
  IF AtSelect
  THEN UNCHANGED schedule
  ELSE /\ failures' = AtMost(failures + 1, FailuresCap)
       /\ timer' \in RetryDelays(failures)
       /\ setFor' = 0

\* A mutated form of FetchFails; no specification uses it: a
\* failed refresh stamps the token it leaves in place as new.
FetchFailsStampsLifetime ==
  /\ attempt # "none" /\ lost
  /\ remaining' = remaining + 5 * Second
  /\ BacksOff
  /\ NoAttempt
  /\ UNCHANGED <<left, expires_in, permit, idp>>

-------------------------------------------------------------------------------
(* Attempts *)

\* A process has the lock, finds its generation current, and fetches.
Begin(who) ==
  /\ attempt' = who /\ elapsed' = 0 /\ lost' = ~up
  /\ answered' = FALSE /\ life' = 0 /\ age' = 0

\* The task's refresh_now makes an attempt, or queues for the lock behind the
\* one that is in flight, whose generation it reads before that is over.
RefreshNow ==
  \/ attempt = "none" /\ Begin("task") /\ UNCHANGED queue
  \/ /\ attempt = "caller"
     /\ joined' = TRUE /\ ahead' \in 0..(MaxCallers - 1)
     /\ UNCHANGED <<attempt, elapsed, lost, answer>>

Tick ==
  /\ AtSelect /\ timer = 0
  /\ RefreshNow
  /\ UNCHANGED <<cached, schedule, permit, idp>>

Notified ==
  /\ AtSelect /\ permit
  /\ permit' = FALSE
  /\ RefreshNow
  /\ UNCHANGED <<cached, schedule, idp>>

\* An RPC was refused, ensure_fresh found too little left, or the application
\* called refresh_auth_token: the ticker hears nothing of it.
CallerRefreshes ==
  /\ MaxCallers > 0
  /\ attempt = "none"
  /\ Begin("caller")
  /\ UNCHANGED <<queue, cached, schedule, permit, idp>>

\* A mutated form of CallerDropped; no specification uses it: the task waits for the
\* answer of the attempt it found, which never comes.
WaitsForTheDropped ==
  /\ attempt = "caller"
  /\ attempt' = "none" /\ elapsed' = 0 /\ lost' = FALSE
  /\ answered' = FALSE /\ life' = 0 /\ age' = 0
  /\ UNCHANGED <<queue, cached, schedule, permit, idp>>

\* The caller's future is dropped at an await, and the lock goes on with the
\* generation as it was: whoever is next fetches, a caller that was ahead of
\* the task and was not dropped too, or the task.
CallerDropped ==
  /\ attempt = "caller"
  /\ \/ ~joined /\ NoAttempt
     \/ joined /\ Begin("task") /\ joined' = FALSE /\ ahead' = 0
     \/ joined /\ Begin("caller") /\ ahead' \in 0..(ahead - 1) /\ UNCHANGED joined
  /\ UNCHANGED <<cached, schedule, permit, idp>>

RequestRefresh ==
  /\ permit' = TRUE
  /\ UNCHANGED <<cached, schedule, flight, idp>>

IdpIssues ==
  /\ attempt # "none" /\ ~lost /\ ~answered
  /\ answered' = TRUE /\ age' = 0
  /\ life' \in Lifetimes
  /\ UNCHANGED <<cached, schedule, permit, attempt, queue, elapsed, lost, idp>>

\* fetch_and_install returns Ok; if the task waits for it, it takes up the
\* healthy cadence again.
Install ==
  /\ attempt # "none" /\ answered /\ ~lost
  /\ left' = Less(life * Second, age)
  /\ expires_in' = life /\ remaining' = life * Second
  /\ IF AtSelect
     THEN UNCHANGED schedule
     ELSE failures' = 0 /\ timer' = refresh_interval(life) * Second /\ setFor' = life
  /\ NoAttempt
  /\ UNCHANGED <<permit, idp>>

\* fetch_and_install returns Err; if the task waits for it, it backs off.
FetchFails ==
  /\ attempt # "none" /\ lost
  /\ BacksOff
  /\ NoAttempt
  /\ UNCHANGED <<cached, permit, idp>>

-------------------------------------------------------------------------------
(* The environment *)

\* The IdP goes down, with the request in flight unless it was answered, and
\* perhaps with the answer too.
IdpGoesDown ==
  /\ IdpCanFail /\ up
  /\ up' = FALSE /\ upFor' = 0
  /\ lost' \in {attempt # "none", lost \/ (attempt # "none" /\ ~answered)}
  /\ UNCHANGED <<cached, schedule, permit, attempt, queue, elapsed, answer>>

IdpComesBack ==
  /\ ~up
  /\ up' = TRUE
  /\ UNCHANGED <<cached, schedule, permit, flight, upFor>>

\* Time stands still while the task has something to react to at its select!,
\* and while an attempt is at its deadline.
TimePasses ==
  /\ ~(AtSelect /\ (timer = 0 \/ permit))
  /\ attempt # "none" => elapsed < (IF lost THEN FetchTimeout ELSE MaxLatency)
  /\ left' = Less(left, 1) /\ remaining' = Less(remaining, 1)
  /\ timer' = Less(timer, 1)
  /\ elapsed' = IF attempt = "none" THEN 0 ELSE elapsed + 1
  /\ age' = IF answered THEN age + 1 ELSE 0
  /\ upFor' = IF up THEN AtMost(upFor + 1, HealBound) ELSE 0
  /\ UNCHANGED <<expires_in, setFor, failures>>
  /\ UNCHANGED <<permit, attempt, queue, lost, answered, life, up>>

-------------------------------------------------------------------------------
Next ==
  \/ Tick \/ Notified \/ CallerRefreshes \/ CallerDropped \/ RequestRefresh
  \/ IdpIssues \/ Install \/ FetchFails
  \/ IdpGoesDown \/ IdpComesBack \/ TimePasses

Spec == Init /\ [][Next]_vars

-------------------------------------------------------------------------------
(* Properties *)

\* The ticker was set for a lifetime whose interval is no longer than that of the
\* cached token, or it is set to a backoff.  Only an RPC's refresh can have it otherwise:
\* it installs a token of another lifetime and leaves the ticker as it is.
InStep == refresh_interval(setFor) <= refresh_interval(expires_in)

\* While nothing has failed, the ticker fires before the cached token expires,
\* whatever lifetimes the IdP reported and whoever installed the token, unless it
\* is out of step: the margin that refresh_interval promises.
NextRefreshBeforeExpiry ==
  AtSelect /\ failures = 0 /\ InStep => timer < left

\* Unless the IdP was down a moment ago or the ticker is out of step, the cached
\* token is good; and "a moment" is one timed-out attempt, one longest backoff and
\* a fetch each of the task and of the callers it had to queue behind, however long
\* the outage was, whichever attempts callers made meanwhile and dropped.
ValidOnceHealed == upFor = HealBound /\ InStep => left > 0

\* Where ensure_fresh finds its margin left and makes no request, the token it
\* sends the stream with is good.  STREAMING_TOKEN_REFRESH_MARGIN is 5 seconds.
STREAMING_TOKEN_REFRESH_MARGIN == 5

EnoughLeftIsValid ==
  remaining >= STREAMING_TOKEN_REFRESH_MARGIN * Second => left > 0

=============================================================================

------------------------------ MODULE ClientProofs ------------------------------
(***************************************************************************)
(* Proofs about Delays, for integers of any width and any policy, and      *)
(* about ClientBuild, for any number of builds and clones.                 *)
(***************************************************************************)
EXTENDS Delays, ClientBuild, TLAPS

-------------------------------------------------------------------------------
(* Delays *)

LEMMA MultiplesGrow ==
  ASSUME NEW a \in Nat, NEW b \in Nat, NEW c \in Nat, b <= c
  PROVE  a * b \in Nat /\ a * b <= a * c
OBVIOUS

LEMMA FactorGrows ==
  ASSUME NEW n \in Nat
  PROVE  /\ factor(n) \in Nat \ {0}
         /\ factor(n) <= factor(n + 1) /\ factor(n + 1) <= 2 * factor(n)
<1>1. FactorBits \in Nat \ {0}
  BY WidthAssumption
<1>2. FactorMax \in Nat \ {0}
  <2>1. FactorBits \in 0..FactorBits /\ FactorBits - 1 \in 0..FactorBits
    BY <1>1
  <2>2. 2 ^ ((FactorBits - 1) + 1) = 2 * 2 ^ (FactorBits - 1) /\ 2 ^ (FactorBits - 1) \in Nat \ {0}
    BY <2>1, PowersAssumption
  <2>3. (FactorBits - 1) + 1 = FactorBits
    BY <1>1
  <2> QED BY <2>2, <2>3 DEF FactorMax
<1>3. CASE n + 1 < FactorBits
  <2>1. n \in 0..FactorBits
    BY <1>1, <1>3
  <2>2. factor(n) = 2 ^ n /\ factor(n + 1) = 2 ^ (n + 1)
    <3>1. n < FactorBits /\ n + 1 < FactorBits
      BY <1>1, <1>3
    <3> QED BY <3>1, Zenon DEF factor
  <2> QED BY <2>1, <2>2, PowersAssumption
<1>4. CASE n + 1 = FactorBits
  <2>1. n \in 0..FactorBits
    BY <1>1, <1>4
  <2>2. factor(n) = 2 ^ n /\ factor(n + 1) = 2 ^ (n + 1) - 1
    BY <1>1, <1>4 DEF factor, FactorMax
  <2>3. 2 ^ n \in Nat \ {0} /\ 2 ^ (n + 1) = 2 * 2 ^ n
    BY <2>1, PowersAssumption
  <2> QED BY <2>2, <2>3
<1>5. CASE n >= FactorBits
  <2>1. factor(n) = FactorMax /\ factor(n + 1) = FactorMax
    BY <1>1, <1>5 DEF factor
  <2> QED BY <1>2, <2>1
<1> QED BY <1>1, <1>3, <1>4, <1>5

\* The ceiling neither shrinks nor more than doubles from one retry to the next.
LEMMA CeilingGrows ==
  ASSUME NEW p, p.base_delay \in Nat, p.max_delay \in Nat, NEW n \in Nat
  PROVE  /\ delay_ceiling(p, n) \in 0..p.max_delay
         /\ delay_ceiling(p, n) <= delay_ceiling(p, n + 1)
         /\ delay_ceiling(p, n + 1) <= 2 * delay_ceiling(p, n)
<1> DEFINE a == p.base_delay * factor(n)
           b == p.base_delay * factor(n + 1)
<1>1. /\ factor(n) \in Nat /\ factor(n + 1) \in Nat /\ 2 * factor(n) \in Nat
      /\ factor(n) <= factor(n + 1) /\ factor(n + 1) <= 2 * factor(n)
  BY FactorGrows
<1>2. a \in Nat /\ b \in Nat /\ a <= b
  BY <1>1, MultiplesGrow
<1>3. b <= p.base_delay * (2 * factor(n))
  BY <1>1, MultiplesGrow
<1>4. p.base_delay * (2 * factor(n)) = 2 * a
  BY <1>1
<1>5. DurationMax \in Nat
  BY WidthAssumption
<1>6. /\ delay_ceiling(p, n) = AtMost(AtMost(a, DurationMax), p.max_delay)
      /\ delay_ceiling(p, n + 1) = AtMost(AtMost(b, DurationMax), p.max_delay)
  BY DEF delay_ceiling, scaled
<1> HIDE DEF a, b
<1> QED BY <1>2, <1>3, <1>4, <1>5, <1>6 DEF AtMost

LEMMA JitterIsBelow ==
  ASSUME NEW cap \in Nat, NEW j \in jitter_numerator
  PROVE  full_jitter(cap, j) \in 0..cap
<1> DEFINE nanos == AtMost(cap, NanosMax)
           drawn == ((nanos + 1) * j) \div 2 ^ JITTER_BITS
<1>1. nanos \in 0..cap
  BY WidthAssumption DEF AtMost
<1>2. j \in Nat /\ 2 ^ JITTER_BITS \in Nat \ {0}
  BY PowersAssumption DEF jitter_numerator
<1> HIDE DEF nanos
<1>3. (nanos + 1) * j \in Nat
  BY <1>1, <1>2
<1>4. drawn \in Nat
  BY <1>2, <1>3
<1>5. full_jitter(cap, j) = AtMost(drawn, nanos)
  BY DEF full_jitter, nanos
<1> HIDE DEF drawn
<1> QED BY <1>1, <1>4, <1>5 DEF AtMost

\* A call in its retries: the ceiling is that of the sleep it is in or was last in.
CallInv ==
  /\ pc \in {"running", "sleeping", "ok", "failed"}
  /\ policy.base_delay \in Nat /\ policy.max_delay \in Nat /\ policy.max_attempts \in Nat
  /\ retry \in Nat /\ slept \in Nat /\ retry < attempts(policy)
  /\ pc = "sleeping" => retry + 1 < attempts(policy) /\ ceiling = delay_ceiling(policy, retry)
  /\ pc = "running" /\ retry > 0 => ceiling = delay_ceiling(policy, retry - 1)
  /\ slept <= (retry + (IF pc = "sleeping" THEN 1 ELSE 0)) * policy.max_delay

LEMMA CallStart == CallInit => CallInv
<1> SUFFICES ASSUME CallInit PROVE CallInv
  OBVIOUS
<1>1. /\ policy.base_delay \in BaseDelays /\ policy.max_delay \in MaxDelays
      /\ policy.max_attempts \in MaxAttempts
  BY DEF CallInit
<1>2. /\ policy.base_delay \in Nat /\ policy.max_delay \in Nat /\ policy.max_attempts \in Nat
  <2>1. DurationMax \in Nat /\ CountMax \in Nat
    BY WidthAssumption
  <2>2. /\ policy.base_delay \in 0..DurationMax /\ policy.max_delay \in 0..DurationMax
        /\ policy.max_attempts \in 0..CountMax
    BY <1>1, PolicyAssumption
  <2> QED BY <2>1, <2>2
<1>3. 0 < attempts(policy)
  BY <1>2 DEF attempts, AtLeast
<1>4. 0 * policy.max_delay = 0 /\ (0 + 0) * policy.max_delay = 0
  BY <1>2
<1> QED BY <1>2, <1>3, <1>4 DEF CallInit, CallInv

LEMMA CallStep == CallInv /\ [CallNext]_call => CallInv'
<1> SUFFICES ASSUME CallInv, [CallNext]_call PROVE CallInv'
  OBVIOUS
<1>1. CASE UNCHANGED call
  BY <1>1 DEF call, CallInv
<1>2. CASE OpSucceeds \/ OpFailsForGood
  BY <1>2 DEF OpSucceeds, OpFailsForGood, CallInv
<1>3. CASE OpFailsRetryably
  <2>1. /\ pc = "running" /\ pc' = "sleeping" /\ retry + 1 < attempts(policy)
        /\ ceiling' = delay_ceiling(policy, retry) /\ UNCHANGED <<policy, retry>>
    BY <1>3 DEF OpFailsRetryably
  <2>2. PICK j \in jitter_numerator :
          slept' = slept + full_jitter(delay_ceiling(policy, retry), j)
    BY <1>3 DEF OpFailsRetryably, delay
  <2>3. /\ delay_ceiling(policy, retry) \in 0..policy.max_delay
        /\ policy.max_delay \in Nat /\ slept \in Nat /\ retry \in Nat
        /\ slept <= retry * policy.max_delay
    BY <2>1, CeilingGrows DEF CallInv
  <2>4. full_jitter(delay_ceiling(policy, retry), j) \in 0..policy.max_delay
    BY <2>3, JitterIsBelow
  <2>5. slept' \in Nat /\ slept' <= (retry + 1) * policy.max_delay
    BY <2>2, <2>3, <2>4
  <2> QED BY <2>1, <2>5 DEF CallInv
<1>4. CASE Wake
  BY <1>4 DEF Wake, CallInv
<1> QED BY <1>1, <1>2, <1>3, <1>4 DEF CallNext

\* However the factor and the product overflow, the ceilings of a call's sleeps go up,
\* by no more than twice each time, and stop at max_delay.
THEOREM CeilingsDouble == CallSpec => DelaysDouble
<1>1. CallInv /\ [CallNext]_call =>
        [pc' = "sleeping" /\ pc # "sleeping" =>
           /\ ceiling' <= policy.max_delay
           /\ retry > 0 => ceiling <= ceiling' /\ ceiling' <= 2 * ceiling]_call
  <2> SUFFICES ASSUME CallInv, OpFailsRetryably
               PROVE  /\ ceiling' <= policy.max_delay
                      /\ retry > 0 => ceiling <= ceiling' /\ ceiling' <= 2 * ceiling
    BY DEF CallNext, OpSucceeds, OpFailsForGood, Wake
  <2>1. /\ policy.base_delay \in Nat /\ policy.max_delay \in Nat /\ retry \in Nat
        /\ ceiling' = delay_ceiling(policy, retry) /\ pc = "running"
        /\ retry > 0 => ceiling = delay_ceiling(policy, retry - 1)
    BY DEF CallInv, OpFailsRetryably
  <2>2. delay_ceiling(policy, retry) \in 0..policy.max_delay
    BY <2>1, CeilingGrows
  <2>3. ASSUME retry > 0 PROVE ceiling <= ceiling' /\ ceiling' <= 2 * ceiling
    <3>1. retry - 1 \in Nat /\ (retry - 1) + 1 = retry
      BY <2>1, <2>3
    <3>2. /\ delay_ceiling(policy, retry - 1) <= delay_ceiling(policy, (retry - 1) + 1)
          /\ delay_ceiling(policy, (retry - 1) + 1) <= 2 * delay_ceiling(policy, retry - 1)
      BY <2>1, <3>1, CeilingGrows
    <3> QED BY <2>1, <2>3, <3>1, <3>2
  <2> QED BY <2>1, <2>2, <2>3
<1> QED BY <1>1, CallStart, CallStep, PTL DEF CallSpec, DelaysDouble

\* A call is retried less than max_attempts times, and sleeps for no more than max_delay
\* a retry, whatever the jitter draws.
THEOREM SleepIsLimited == CallSpec => []SleepIsBounded
<1>1. CallInv => SleepIsBounded
  BY DEF CallInv, SleepIsBounded
<1> QED BY <1>1, CallStart, CallStep, PTL DEF CallSpec

-------------------------------------------------------------------------------
(* The ticker *)

TickerInv ==
  /\ expires_in \in 0..SecondsMax /\ consecutive_failures \in Nat /\ period \in Nat
  /\ TickerNeverPanics

\* A ticker whose clock reaches half as far as a lifetime can: an Instant counts in an
\* i64, expires_in in a u64.
RealClock ==
  /\ TicksPerSecond >= 2 /\ DurationMax >= 2
  /\ InstantMax >= 40 /\ SecondsMax <= 2 * InstantMax + 1

LEMMA IntervalFits ==
  ASSUME RealClock, NEW e \in 0..SecondsMax
  PROVE  refresh_interval(e) \in 1..(InstantMax - InstantMax \div 4)
BY WidthAssumption
   DEF RealClock, refresh_interval, saturating_double, MIN_REFRESH_INTERVAL, AtMost, AtLeast

LEMMA PeriodFits ==
  ASSUME NEW s \in 1..(InstantMax - InstantMax \div 4)
  PROVE  /\ s * TicksPerSecond \in Nat /\ s * TicksPerSecond > 0
         /\ s * TicksPerSecond <= (InstantMax - InstantMax \div 4) * TicksPerSecond
<1> DEFINE limit == InstantMax - InstantMax \div 4
<1>1. limit \in Nat /\ TicksPerSecond \in Nat \ {0} /\ s \in Nat \ {0} /\ s <= limit
  BY WidthAssumption
<1> HIDE DEF limit
<1>2. s * TicksPerSecond \in Nat /\ s * TicksPerSecond > 0
  BY <1>1
<1>3. TicksPerSecond * s <= TicksPerSecond * limit
  BY <1>1, MultiplesGrow
<1>4. s * TicksPerSecond <= limit * TicksPerSecond
  BY <1>1, <1>3
<1> QED BY <1>2, <1>4 DEF limit

LEMMA BackoffFits ==
  ASSUME RealClock, NEW n \in Nat, NEW d \in jittered_retry_backoff(n)
  PROVE  d \in 1..(30 * TicksPerSecond)
<1>1. TicksPerSecond \in Nat /\ DurationMax \in Nat /\ TicksPerSecond >= 2 /\ DurationMax >= 2
  BY WidthAssumption DEF RealClock
<1>2. factor(n) \in Nat /\ 1 <= factor(n)
  BY FactorGrows
<1>3. TicksPerSecond * 1 <= TicksPerSecond * factor(n) /\ TicksPerSecond * factor(n) \in Nat
  BY <1>1, <1>2, MultiplesGrow
<1>4. retry_backoff(n) = AtMost(AtMost(TicksPerSecond * factor(n), DurationMax), 30 * TicksPerSecond)
  <2>1. 1 * TicksPerSecond = TicksPerSecond
    BY <1>1
  <2> QED BY <2>1 DEF retry_backoff, scaled, REFRESH_RETRY_BASE_DELAY, REFRESH_RETRY_MAX_DELAY
<1>5. retry_backoff(n) \in 2..(30 * TicksPerSecond)
  <2> DEFINE product == TicksPerSecond * factor(n)
  <2>1. product \in Nat /\ TicksPerSecond <= product
    BY <1>1, <1>3
  <2> HIDE DEF product
  <2> QED BY <1>1, <1>4, <2>1 DEF AtMost, product
<1> DEFINE half == retry_backoff(n) \div 2
<1>6. half \in Nat /\ half >= 1 /\ retry_backoff(n) - half \in Nat
  BY <1>1, <1>5
<1>7. PICK j \in jitter_numerator : d = half + full_jitter(retry_backoff(n) - half, j)
  BY DEF jittered_retry_backoff
<1>8. full_jitter(retry_backoff(n) - half, j) \in 0..(retry_backoff(n) - half)
  BY <1>6, JitterIsBelow
<1> HIDE DEF half
<1> QED BY <1>1, <1>5, <1>6, <1>7, <1>8

LEMMA TickerStart == ASSUME RealClock PROVE TickerInit => TickerInv
<1> SUFFICES ASSUME TickerInit PROVE TickerInv
  OBVIOUS
<1>1. refresh_interval(expires_in) \in 1..(InstantMax - InstantMax \div 4)
  BY IntervalFits DEF TickerInit
<1>2. period = refresh_interval(expires_in) * TicksPerSecond
  BY <1>1, WidthAssumption DEF TickerInit, refresh_tick_period, AtLeast
<1> QED BY <1>1, <1>2, PeriodFits DEF TickerInit, TickerInv, TickerNeverPanics

LEMMA TickerStep == ASSUME RealClock PROVE TickerInv /\ [TickerNext]_ticker => TickerInv'
<1> SUFFICES ASSUME TickerInv, [TickerNext]_ticker PROVE TickerInv'
  OBVIOUS
<1>1. CASE RefreshSucceeds
  <2>1. refresh_interval(expires_in') \in 1..(InstantMax - InstantMax \div 4)
    BY <1>1, IntervalFits DEF RefreshSucceeds
  <2> QED BY <1>1, <2>1, PeriodFits DEF RefreshSucceeds, TickerInv, TickerNeverPanics
<1>2. CASE RefreshFails
  <2>1. period' \in 1..(30 * TicksPerSecond)
    BY <1>2, BackoffFits DEF RefreshFails, TickerInv
  <2>2. 30 \in 1..(InstantMax - InstantMax \div 4) /\ TicksPerSecond \in Nat
    BY WidthAssumption DEF RealClock
  <2>3. /\ 30 * TicksPerSecond \in Nat
        /\ 30 * TicksPerSecond <= (InstantMax - InstantMax \div 4) * TicksPerSecond
    BY <2>2, PeriodFits
  <2>4. (InstantMax - InstantMax \div 4) * TicksPerSecond \in Int
    BY WidthAssumption
  <2>5. TickerNeverPanics' /\ period' \in Nat
    BY <2>1, <2>3, <2>4 DEF TickerNeverPanics
  <2>6. consecutive_failures' \in Nat /\ expires_in' \in 0..SecondsMax
    BY <1>2, WidthAssumption DEF RefreshFails, TickerInv, AtMost
  <2> QED BY <2>5, <2>6 DEF TickerInv
<1>3. CASE UNCHANGED ticker
  BY <1>3 DEF ticker, TickerInv, TickerNeverPanics
<1> QED BY <1>1, <1>2, <1>3 DEF TickerNext

\* No lifetime an IdP can report and no outage sets the ticker to zero, or further ahead
\* than the first quarter of the clock can add up.
THEOREM BackgroundTaskNeverPanics ==
  ASSUME RealClock PROVE TickerSpec => []TickerNeverPanics
<1>1. TickerInv => TickerNeverPanics
  BY DEF TickerInv
<1> QED BY <1>1, TickerStart, TickerStep, PTL DEF TickerSpec

-------------------------------------------------------------------------------
(* Builds and the clients they return *)

Stages == {"idle", "dialing", "connected", "fetching", "ok", "failed", "gone"}
Variants == Errors \cup {"none"}
Tasks == {"none", "running", "aborted", "ended"}

BuildType ==
  /\ config \in Configs /\ environment \subseteq AuthValues
  /\ stage \in [Builds -> Stages] /\ error \in [Builds -> Variants]
  /\ sockets \subseteq Builds /\ posts \subseteq Builds
  /\ answer \in [Builds -> Answers \cup {NoAnswer}] /\ lifetime \in [Builds -> Nat]

ClientType == holders \in [Builds -> 0..MaxClones] /\ task \in [Builds -> Tasks]

LEMMA WholeSeconds ==
  ASSUME NEW v \in Nat
  PROVE  /\ truncate_seconds(v) \in Nat
         /\ truncate_seconds(v) * Parts \in (v - Parts + 1)..v
<1>1. Parts \in Nat \ {0}
  BY LifetimeAssumption
<1>2. \A p \in Nat \ {0} : v \div p \in Nat /\ (v \div p) * p \in (v - p + 1)..v
  BY SMTT(30)
<1> QED BY <1>1, <1>2 DEF truncate_seconds

LEMMA UsableSeconds ==
  ASSUME NEW a \in Answers, Usable(a)
  PROVE  /\ seconds(a) \in Nat
         /\ \/ a.form = "absent" /\ seconds(a) = ASSUMED_EXPIRES_IN_SECS
            \/ /\ a.form \in {"number", "text"}
               /\ seconds(a) * Parts \in (a.value - Parts + 1)..a.value
<1>1. CASE a.form = "absent"
  BY <1>1 DEF seconds, ASSUMED_EXPIRES_IN_SECS
<1>2. CASE a.form # "absent"
  <2>1. a.form \in {"number", "text"} /\ a.value >= 0
    BY <1>2 DEF Usable
  <2>2. a.value \in Int
    BY <2>1, LifetimeAssumption DEF Answers
  <2>3. a.value \in Nat /\ seconds(a) = truncate_seconds(a.value)
    BY <1>2, <2>1, <2>2 DEF seconds
  <2> QED BY <2>1, <2>3, WholeSeconds
<1> QED BY <1>1, <1>2

LEMMA BuildKeepsType ==
  ASSUME BuildType, ClientType, NEW b \in Builds, Build(b)
  PROVE  BuildType' /\ ClientType'
<1> USE DEF BuildType, ClientType, Stages, Variants, Errors, Tasks, client, Fail
<1>1. CASE Begin(b) \/ RefuseConfig(b) \/ Connected(b) \/ DialFails(b) \/ RefuseSetUp(b)
  BY <1>1 DEF Begin, RefuseConfig, Connected, DialFails, RefuseSetUp
<1>2. CASE Post(b) \/ FetchFails(b) \/ FetchTimesOut(b) \/ Cancel(b)
  BY <1>2 DEF Post, FetchFails, FetchTimesOut, Cancel
<1>3. CASE BuildWithoutAuth(b)
  BY <1>3, CloneAssumption DEF BuildWithoutAuth
<1>4. ASSUME NEW a \in Answers, RefuseToken(b, a) PROVE BuildType' /\ ClientType'
  BY <1>4 DEF RefuseToken
<1>5. ASSUME NEW a \in Answers, Finish(b, a) PROVE BuildType' /\ ClientType'
  <2>1. seconds(a) \in Nat
    BY <1>5, UsableSeconds DEF Finish
  <2> QED BY <1>5, <2>1, CloneAssumption DEF Finish
<1> QED BY <1>1, <1>2, <1>3, <1>4, <1>5 DEF Build

LEMMA HoldKeepsType ==
  ASSUME BuildType, ClientType, NEW b \in Builds, Hold(b)
  PROVE  BuildType' /\ ClientType'
<1>1. UNCHANGED <<config, environment, build>>
  BY DEF Hold, Clone, Drop, TaskEnds
<1>2. BuildType'
  BY <1>1 DEF BuildType, build
<1>3. ClientType'
  <2> USE DEF ClientType, Tasks
  <2>1. CASE Clone(b)
    BY <2>1, CloneAssumption DEF Clone
  <2>2. CASE Drop(b)
    BY <2>2, CloneAssumption DEF Drop, DropGuard
  <2>3. CASE TaskEnds(b)
    BY <2>3 DEF TaskEnds
  <2> QED BY <2>1, <2>2, <2>3 DEF Hold
<1> QED BY <1>2, <1>3

LEMMA BuildInit == Init => BuildType /\ ClientType
BY CloneAssumption DEF Init, BuildType, ClientType, Stages, Variants, Errors, Tasks

LEMMA BuildSteps == BuildType /\ ClientType /\ [Next]_vars => BuildType' /\ ClientType'
<1> SUFFICES ASSUME BuildType, ClientType, [Next]_vars PROVE BuildType' /\ ClientType'
  OBVIOUS
<1>1. CASE UNCHANGED vars \/ EnvironmentChanges
  BY <1>1 DEF BuildType, ClientType, vars, build, client, EnvironmentChanges
<1>2. ASSUME NEW b \in Builds, Build(b) \/ Hold(b) PROVE BuildType' /\ ClientType'
  BY <1>2, BuildKeepsType, HoldKeepsType
<1> QED BY <1>1, <1>2 DEF Next

\* Everything a build works with keeps its type.
THEOREM BuildTypeCorrect == Spec => []TypeOK
<1> DEFINE I == BuildType /\ ClientType
<1>1. I => TypeOK
  BY DEF BuildType, ClientType, TypeOK, Stages, Variants, Errors, Tasks
<1> QED BY <1>1, BuildInit, BuildSteps, PTL DEF Spec

\* Only a build that ended well has a client, and only one with authentication a task;
\* a token is asked for only with authentication.
TaskInv ==
  \A b \in Builds :
    /\ stage[b] # "ok" => holders[b] = 0 /\ task[b] = "none"
    /\ stage[b] = "fetching" => config.auth
    /\ task[b] = "running" <=> (config.auth /\ holders[b] > 0)
    /\ task[b] = "running" => ReportedLifetime(b)

LEMMA BuildStarts ==
  ASSUME BuildType, ClientType, TaskInv, NEW b \in Builds, Build(b)
  PROVE  TaskInv'
<1> USE DEF BuildType, ClientType, Stages, Variants, Errors, Tasks, client, Fail
<1>1. CASE Begin(b) \/ RefuseConfig(b) \/ Connected(b) \/ DialFails(b) \/ RefuseSetUp(b)
           \/ Post(b) \/ FetchFails(b) \/ FetchTimesOut(b) \/ Cancel(b)
  <2>1. /\ UNCHANGED <<config, answer, lifetime, holders, task>> /\ stage[b] # "ok"
        /\ \E s \in Stages \ {"ok"} :
             /\ stage' = [stage EXCEPT ![b] = s]
             /\ s = "fetching" => config.auth
    BY <1>1 DEF Begin, RefuseConfig, Connected, DialFails, RefuseSetUp, Post, MayFetch, FetchFails,
       FetchTimesOut, Cancel
  <2>2. \A c \in Builds : ReportedLifetime(c)' <=> ReportedLifetime(c)
    BY <2>1 DEF ReportedLifetime
  <2>3. \A c \in Builds :
          /\ stage'[c] # "ok" => stage[c] # "ok" \/ c = b
          /\ stage'[c] = "fetching" => stage[c] = "fetching" \/ config.auth
    BY <2>1
  <2> QED BY <2>1, <2>2, <2>3 DEF TaskInv
<1>2. ASSUME NEW a \in Answers, RefuseToken(b, a) PROVE TaskInv'
  <2>1. /\ UNCHANGED <<config, lifetime, holders, task>> /\ stage[b] = "fetching"
        /\ stage' = [stage EXCEPT ![b] = "failed"] /\ answer' = [answer EXCEPT ![b] = a]
    BY <1>2 DEF RefuseToken
  <2>2. task[b] # "running"
    BY <2>1 DEF TaskInv
  <2> QED BY <2>1, <2>2 DEF TaskInv, ReportedLifetime
<1>3. CASE BuildWithoutAuth(b)
  <2>1. /\ UNCHANGED <<config, answer, lifetime, task>> /\ stage[b] = "connected" /\ ~config.auth
        /\ stage' = [stage EXCEPT ![b] = "ok"] /\ holders' = [holders EXCEPT ![b] = 1]
    BY <1>3 DEF BuildWithoutAuth
  <2> QED BY <2>1 DEF TaskInv, ReportedLifetime
<1>4. ASSUME NEW a \in Answers, Finish(b, a) PROVE TaskInv'
  <2>1. /\ UNCHANGED config /\ stage[b] = "fetching" /\ stage' = [stage EXCEPT ![b] = "ok"]
        /\ answer' = [answer EXCEPT ![b] = a] /\ lifetime' = [lifetime EXCEPT ![b] = seconds(a)]
        /\ holders' = [holders EXCEPT ![b] = 1] /\ task' = [task EXCEPT ![b] = "running"]
    BY <1>4 DEF Finish
  <2>2. config.auth /\ ReportedLifetime(b)'
    <3>1. answer'[b] = a /\ lifetime'[b] = seconds(a)
      BY <2>1
    <3>2. \/ a.form = "absent" /\ seconds(a) = ASSUMED_EXPIRES_IN_SECS
          \/ /\ a.form \in {"number", "text"}
             /\ seconds(a) * Parts \in (a.value - Parts + 1)..a.value
      BY <1>4, UsableSeconds DEF Finish
    <3> QED BY <2>1, <3>1, <3>2 DEF TaskInv, ReportedLifetime
  <2>3. \A c \in Builds \ {b} : ReportedLifetime(c) => ReportedLifetime(c)'
    BY <2>1 DEF ReportedLifetime
  <2> QED BY <2>1, <2>2, <2>3 DEF TaskInv
<1> QED BY <1>1, <1>2, <1>3, <1>4 DEF Build

LEMMA HoldersStop ==
  ASSUME BuildType, ClientType, TaskInv, NEW b \in Builds, Hold(b)
  PROVE  TaskInv'
<1> USE DEF ClientType, Tasks
<1>0. /\ UNCHANGED <<config, stage, answer, lifetime>>
      /\ \A c \in Builds : ReportedLifetime(c)' <=> ReportedLifetime(c)
  BY DEF Hold, Clone, Drop, TaskEnds, build, ReportedLifetime
<1>1. CASE Clone(b)
  <2>1. UNCHANGED task /\ holders[b] > 0 /\ holders' = [holders EXCEPT ![b] = @ + 1]
    BY <1>1, CloneAssumption DEF Clone
  <2> QED BY <1>0, <2>1 DEF TaskInv
<1>2. CASE Drop(b)
  <2>1. /\ holders[b] \in Nat \ {0} /\ holders' = [holders EXCEPT ![b] = @ - 1]
        /\ IF holders[b] = 1
           THEN task' = [task EXCEPT ![b] = IF task[b] = "running" THEN "aborted" ELSE task[b]]
           ELSE UNCHANGED task
    BY <1>2, CloneAssumption DEF Drop, DropGuard, LastHolder
  <2> QED BY <1>0, <2>1 DEF TaskInv
<1>3. CASE TaskEnds(b)
  <2>1. UNCHANGED holders /\ task[b] = "aborted" /\ task' = [task EXCEPT ![b] = "ended"]
    BY <1>3 DEF TaskEnds
  <2> QED BY <1>0, <2>1 DEF TaskInv
<1> QED BY <1>1, <1>2, <1>3 DEF Hold

\* However many builds run at once, whichever of them fail or are dropped, a background
\* task runs for each client that is held, on the lifetime its token came with, and for
\* no other.
THEOREM HeldMeansRefreshed == Spec => []HeldClientsAreRefreshed
<1> DEFINE I == BuildType /\ ClientType /\ TaskInv
<1>1. Init => I
  <2>1. Init => TaskInv
    BY DEF Init, TaskInv
  <2> QED BY <2>1, BuildInit
<1>2. I /\ [Next]_vars => I'
  <2> SUFFICES ASSUME I, [Next]_vars PROVE TaskInv'
    BY BuildSteps
  <2>1. CASE UNCHANGED vars \/ EnvironmentChanges
    BY <2>1 DEF TaskInv, ReportedLifetime, vars, build, client, EnvironmentChanges
  <2>2. ASSUME NEW b \in Builds, Build(b) \/ Hold(b) PROVE TaskInv'
    BY <2>2, BuildStarts, HoldersStop
  <2> QED BY <2>1, <2>2 DEF Next
<1>3. I => HeldClientsAreRefreshed
  BY DEF TaskInv, HeldClientsAreRefreshed
<1> QED BY <1>1, <1>2, <1>3, PTL DEF Spec

===============================================================================

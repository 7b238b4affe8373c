--------------------------------- MODULE Delays ---------------------------------
(***************************************************************************)
(* How long the SDK waits: RociaDbClient::retry and RetryPolicy            *)
(* (src/src/retry.rs) between the attempts of a call, and the background   *)
(* task of spawn_refresh (src/src/auth.rs) between two refreshes.          *)
(*                                                                         *)
(* Durations are counted in ticks.  Every integer has the width of its     *)
(* type, as a constant, and every operation saturates, is checked or       *)
(* panics where the code's does.                                           *)
(***************************************************************************)
EXTENDS Integers

CONSTANTS
  TicksPerSecond,
  FactorBits,           \* bits of the u32 that holds the doubling factor
  DurationMax,          \* Duration::MAX
  NanosMax,             \* the longest Duration that full_jitter counts in a u64
  JITTER_BITS,          \* bits of the jitter's numerator
  SecondsMax,           \* u64::MAX, for expires_in
  InstantMax,           \* the latest Instant: i64::MAX seconds
  CountMax,             \* u32::MAX, for consecutive_failures and max_attempts
  BaseDelays, MaxDelays, MaxAttempts    \* the policies of the application

ASSUME WidthAssumption ==
  /\ TicksPerSecond \in Nat \ {0} /\ FactorBits \in Nat \ {0} /\ JITTER_BITS \in Nat
  /\ DurationMax \in Nat /\ NanosMax \in Nat /\ InstantMax \in Nat
  /\ SecondsMax \in Nat /\ CountMax \in Nat \ {0}
ASSUME PolicyAssumption ==
  /\ BaseDelays \subseteq 0..DurationMax /\ MaxDelays \subseteq 0..DurationMax
  /\ MaxAttempts \subseteq 0..CountMax

\* What the powers of two are, which the proofs take from here.
ASSUME PowersAssumption ==
  /\ 2 ^ JITTER_BITS \in Nat \ {0}
  /\ \A n \in 0..FactorBits : 2 ^ n \in Nat \ {0} /\ 2 ^ (n + 1) = 2 * 2 ^ n

VARIABLES
  pc,                   \* of the call: "running", "sleeping", "ok", "failed"
  policy,               \* the RetryPolicy it runs under
  retry,                \* the retries made
  ceiling,              \* delay_ceiling of the sleep it is in, or was last in
  slept,                \* history: the time spent asleep
  expires_in,           \* the lifetime the last token came with
  consecutive_failures,
  period                \* what the ticker was last set to

call == <<pc, policy, retry, ceiling, slept>>
ticker == <<expires_in, consecutive_failures, period>>

AtMost(a, b) == IF a <= b THEN a ELSE b
AtLeast(a, b) == IF a >= b THEN a ELSE b

FactorMax == 2 ^ FactorBits - 1

-------------------------------------------------------------------------------
(* Mutated forms of the definitions below, each a bug this code could have;   *)
(* no specification uses them.                                                *)

\* The factor starts again at one when it overflows, as wrapping_shl's does.
WrappedFactor(n) == 2 ^ (n % FactorBits)

\* The lifetime is doubled in full before it is divided.
UncheckedMargin(expiresIn) == expiresIn * 2

-------------------------------------------------------------------------------
(* RetryPolicy *)

attempts(p) == AtLeast(p.max_attempts, 1)

\* 1u32.checked_shl(n), or u32::MAX
factor(n) == IF n < FactorBits THEN 2 ^ n ELSE FactorMax

\* checked_mul, or Duration::MAX
scaled(base, n) == AtMost(base * factor(n), DurationMax)

delay_ceiling(p, n) == AtMost(scaled(p.base_delay, n), p.max_delay)

jitter_numerator == 0..(2 ^ JITTER_BITS - 1)

full_jitter(cap, numerator) ==
  LET nanos == AtMost(cap, NanosMax)
  IN  AtMost(((nanos + 1) * numerator) \div 2 ^ JITTER_BITS, nanos)

\* RetryPolicy::delay, any of the values it can draw.
delay(p, n) == {full_jitter(delay_ceiling(p, n), j) : j \in jitter_numerator}

-------------------------------------------------------------------------------
(* The background task *)

MIN_REFRESH_INTERVAL == 5
REFRESH_RETRY_BASE_DELAY == 1
REFRESH_RETRY_MAX_DELAY == 30

saturating_double(expiresIn) == AtMost(expiresIn * 2, SecondsMax)

refresh_interval(expiresIn) ==
  AtMost(AtLeast(saturating_double(expiresIn) \div 3, MIN_REFRESH_INTERVAL),
         AtLeast(expiresIn - 1, 1))

\* The first period has a floor of its own.
refresh_tick_period(interval) == AtLeast(interval, 1)

retry_backoff(n) ==
  AtMost(scaled(REFRESH_RETRY_BASE_DELAY * TicksPerSecond, n),
         REFRESH_RETRY_MAX_DELAY * TicksPerSecond)

jittered_retry_backoff(n) ==
  LET upper == retry_backoff(n) - retry_backoff(n) \div 2
  IN  {retry_backoff(n) \div 2 + full_jitter(upper, j) : j \in jitter_numerator}

-------------------------------------------------------------------------------
CallInit ==
  /\ pc = "running"
  /\ policy \in [base_delay: BaseDelays, max_delay: MaxDelays, max_attempts: MaxAttempts]
  /\ retry = 0 /\ ceiling = 0 /\ slept = 0

OpSucceeds ==
  /\ pc = "running"
  /\ pc' = "ok"
  /\ UNCHANGED <<policy, retry, ceiling, slept>>

\* The attempts are used up, or the status is not one the policy retries.
OpFailsForGood ==
  /\ pc = "running"
  /\ pc' = "failed"
  /\ UNCHANGED <<policy, retry, ceiling, slept>>

OpFailsRetryably ==
  /\ pc = "running" /\ retry + 1 < attempts(policy)
  /\ pc' = "sleeping"
  /\ ceiling' = delay_ceiling(policy, retry)
  /\ \E d \in delay(policy, retry) : slept' = slept + d
  /\ UNCHANGED <<policy, retry>>

Wake ==
  /\ pc = "sleeping"
  /\ pc' = "running"
  /\ retry' = retry + 1
  /\ UNCHANGED <<policy, ceiling, slept>>

CallNext == OpSucceeds \/ OpFailsForGood \/ OpFailsRetryably \/ Wake

CallSpec == CallInit /\ [][CallNext]_call

TickerInit ==
  /\ expires_in \in 0..SecondsMax
  /\ consecutive_failures = 0
  /\ period = refresh_tick_period(refresh_interval(expires_in)) * TicksPerSecond

RefreshSucceeds ==
  /\ expires_in' \in 0..SecondsMax
  /\ consecutive_failures' = 0
  /\ period' = refresh_interval(expires_in') * TicksPerSecond

RefreshFails ==
  /\ period' \in jittered_retry_backoff(consecutive_failures)
  /\ consecutive_failures' = AtMost(consecutive_failures + 1, CountMax)
  /\ UNCHANGED expires_in

TickerNext == RefreshSucceeds \/ RefreshFails

TickerSpec == TickerInit /\ [][TickerNext]_ticker

-------------------------------------------------------------------------------
(* Properties *)

\* From one sleep of a call to the next the ceiling neither shrinks nor more than
\* doubles, and none is above max_delay: an overflow, of the factor or of the
\* product, saturates and does not start the delays again from the bottom.
DelaysDouble ==
  [][pc' = "sleeping" /\ pc # "sleeping" =>
       /\ ceiling' <= policy.max_delay
       /\ retry > 0 => ceiling <= ceiling' /\ ceiling' <= 2 * ceiling]_call

\* Whatever lifetime the IdP reports and however long it is down, the ticker is never
\* set to zero, and never so far ahead that reset_after adds it up to more than an Instant
\* holds, in the first quarter of the clock: either would panic in the background task.
TickerNeverPanics ==
  /\ period > 0
  /\ period <= (InstantMax - InstantMax \div 4) * TicksPerSecond

\* A call never sleeps for more than max_delay a retry.
SleepIsBounded ==
  /\ retry < attempts(policy)
  /\ slept <= (retry + (IF pc = "sleeping" THEN 1 ELSE 0)) * policy.max_delay

=============================================================================

------------------------- MODULE RefreshScheduleProofs -------------------------
(***************************************************************************)
(* Proofs about RefreshSchedule, for any unit of time, lifetimes and       *)
(* latencies.                                                              *)
(***************************************************************************)
EXTENDS RefreshSchedule, TLAPS

LEMMA LessType ==
  ASSUME NEW a \in Nat, NEW b \in Nat PROVE Less(a, b) \in Nat
BY DEF Less

LEMMA IntervalType ==
  ASSUME NEW e \in Nat PROVE refresh_interval(e) \in Nat
<1>1. (e * 2) \div 3 \in Nat
  OBVIOUS
<1>2. Less(e, 1) \in Nat
  BY LessType
<1> QED BY <1>1, <1>2 DEF refresh_interval, AtMost, AtLeast, MIN_REFRESH_INTERVAL

\* What an attempt in flight and the clocks have to do with each other.
FlightInv ==
  /\ left \in Nat /\ remaining \in Nat /\ elapsed \in Nat /\ age \in Nat
  /\ life \in Nat /\ (answered => life \in Lifetimes)
  /\ attempt = "none" => ~lost /\ ~answered
  /\ ~lost => elapsed <= MaxLatency
  /\ age <= elapsed /\ (~answered => age = 0)

\* The client's idea of what is left is at most one latency too long.
SkewInv == remaining <= left + MaxLatency

LEMMA FlightInit == Init => FlightInv /\ SkewInv
<1> SUFFICES ASSUME Init PROVE FlightInv /\ SkewInv
  OBVIOUS
<1>1. PICK e \in Lifetimes, travel \in 0..MaxLatency :
        left = Less(e * Second, travel) /\ remaining = e * Second
  BY DEF Init
<1>2. e * Second \in Nat /\ travel \in Nat /\ travel <= MaxLatency
  BY UnitsAssumption, ScenarioAssumption
<1>3. left \in Nat /\ remaining \in Nat /\ remaining <= left + MaxLatency
  BY <1>1, <1>2, UnitsAssumption DEF Less
<1> QED BY <1>3, UnitsAssumption DEF Init, FlightInv, SkewInv

LEMMA FlightStep ==
  FlightInv /\ SkewInv /\ [Next]_vars => FlightInv' /\ SkewInv'
<1> SUFFICES ASSUME FlightInv, SkewInv, [Next]_vars
             PROVE  FlightInv' /\ SkewInv'
  OBVIOUS
<1> USE UnitsAssumption DEF cached, schedule, flight, queue, answer, idp
<1>1. CASE UNCHANGED vars
  BY <1>1 DEF vars, FlightInv, SkewInv
<1>2. ASSUME Tick PROVE FlightInv' /\ SkewInv'
  BY <1>2 DEF Tick, RefreshNow, Begin, FlightInv, SkewInv
<1>3. ASSUME Notified PROVE FlightInv' /\ SkewInv'
  BY <1>3 DEF Notified, RefreshNow, Begin, FlightInv, SkewInv
<1>4. ASSUME CallerRefreshes \/ CallerDropped PROVE FlightInv' /\ SkewInv'
  BY <1>4 DEF CallerRefreshes, CallerDropped, Begin, NoAttempt, FlightInv, SkewInv
<1>5. ASSUME RequestRefresh \/ IdpComesBack PROVE FlightInv' /\ SkewInv'
  BY <1>5 DEF RequestRefresh, IdpComesBack, FlightInv, SkewInv
<1>6. ASSUME IdpIssues PROVE FlightInv' /\ SkewInv'
  BY <1>6, ScenarioAssumption DEF IdpIssues, FlightInv, SkewInv
<1>7. ASSUME Install PROVE FlightInv' /\ SkewInv'
  <2>1. life * Second \in Nat /\ age \in Nat /\ age <= MaxLatency
    BY <1>7 DEF Install, FlightInv
  <2>2. left' = Less(life * Second, age) /\ remaining' = life * Second
    BY <1>7 DEF Install
  <2>3. left' \in Nat /\ remaining' \in Nat /\ SkewInv'
    BY <2>1, <2>2 DEF Less, SkewInv
  <2> QED BY <1>7, <2>3 DEF Install, NoAttempt, FlightInv
<1>8. ASSUME FetchFails PROVE FlightInv' /\ SkewInv'
  BY <1>8 DEF FetchFails, BacksOff, NoAttempt, FlightInv, SkewInv
<1>9. ASSUME IdpGoesDown PROVE FlightInv' /\ SkewInv'
  BY <1>9 DEF IdpGoesDown, FlightInv, SkewInv
<1>10. ASSUME TimePasses PROVE FlightInv' /\ SkewInv'
  <2>1. left' = Less(left, 1) /\ remaining' = Less(remaining, 1)
    BY <1>10 DEF TimePasses
  <2>2. left' \in Nat /\ remaining' \in Nat /\ SkewInv'
    BY <2>1 DEF Less, FlightInv, SkewInv
  <2>3. /\ elapsed' \in Nat /\ age' \in Nat /\ age' <= elapsed'
        /\ ~lost' => elapsed' <= MaxLatency
    BY <1>10 DEF TimePasses, FlightInv
  <2> QED BY <1>10, <2>2, <2>3 DEF TimePasses, FlightInv
<1> QED
  BY <1>1, <1>2, <1>3, <1>4, <1>5, <1>6, <1>7, <1>8, <1>9, <1>10 DEF Next

-------------------------------------------------------------------------------
(* Types *)

LEMMA DelaysType ==
  ASSUME NEW n \in 0..FailuresCap, NEW d \in RetryDelays(n) PROVE d \in Nat
<1>1. retry_backoff(n) \in Nat
  <2> DEFINE power == 2 ^ n
  <2>1. power \in Nat
    BY PowersAssumption
  <2> HIDE DEF power
  <2>2. AtMost(power, 30) \in Nat
    BY <2>1 DEF AtMost
  <2> QED BY <2>2 DEF retry_backoff, REFRESH_RETRY_MAX_DELAY, power
<1>2. /\ retry_backoff(n) * Second \in Nat
      /\ (retry_backoff(n) * Second) \div 2 \in Nat
  BY <1>1, UnitsAssumption
<1> QED BY <1>2 DEF RetryDelays

LEMMA HealBoundType == HealBound \in Nat
<1>1. (MaxCallers + 1) * MaxLatency \in Nat
  BY UnitsAssumption, ScenarioAssumption
<1> QED BY <1>1, UnitsAssumption DEF HealBound, REFRESH_RETRY_MAX_DELAY

\* TypeOK in the two parts that the provers take to: the flags and the numbers.
Flags ==
  /\ permit \in BOOLEAN /\ joined \in BOOLEAN /\ lost \in BOOLEAN
  /\ answered \in BOOLEAN /\ up \in BOOLEAN

Numbers ==
  /\ left \in Nat /\ expires_in \in Lifetimes /\ remaining \in Nat
  /\ timer \in Nat /\ setFor \in Lifetimes \cup {0} /\ failures \in 0..FailuresCap
  /\ attempt \in {"none", "task", "caller"} /\ ahead \in 0..MaxCallers
  /\ elapsed \in 0..FetchTimeout /\ life \in Lifetimes \cup {0}
  /\ age \in 0..FetchTimeout /\ upFor \in 0..HealBound

LEMMA Parts == TypeOK <=> Flags /\ Numbers
BY DEF TypeOK, Flags, Numbers

LEMMA FlagsStep == Flags /\ [Next]_vars => Flags'
<1> SUFFICES ASSUME Flags, [Next]_vars PROVE Flags'
  OBVIOUS
<1> USE DEF Flags, cached, schedule, flight, queue, answer, idp
<1>1. CASE UNCHANGED vars
  BY <1>1 DEF vars
<1>2. ASSUME Tick \/ Notified \/ CallerRefreshes \/ CallerDropped PROVE Flags'
  <2>1. CASE Tick
    BY <2>1, Zenon DEF Tick, RefreshNow, Begin
  <2>2. CASE Notified
    BY <2>2, Zenon DEF Notified, RefreshNow, Begin
  <2>3. CASE CallerRefreshes
    BY <2>3, Zenon DEF CallerRefreshes, Begin
  <2>4. CASE CallerDropped
    BY <2>4, Zenon DEF CallerDropped, Begin, NoAttempt
  <2> QED BY <1>2, <2>1, <2>2, <2>3, <2>4
<1>3. ASSUME RequestRefresh \/ IdpIssues \/ IdpComesBack PROVE Flags'
  BY <1>3 DEF RequestRefresh, IdpIssues, IdpComesBack
<1>4. ASSUME Install \/ FetchFails PROVE Flags'
  BY <1>4 DEF Install, FetchFails, BacksOff, NoAttempt
<1>5. ASSUME IdpGoesDown PROVE Flags'
  <2>1. lost' \in BOOLEAN
    <3>1. (attempt # "none") \in BOOLEAN
      OBVIOUS
    <3>2. (lost \/ (attempt # "none" /\ ~answered)) \in BOOLEAN
      OBVIOUS
    <3> QED BY <1>5, <3>1, <3>2, Zenon DEF IdpGoesDown
  <2> QED BY <1>5, <2>1, Zenon DEF IdpGoesDown
<1>6. ASSUME TimePasses PROVE Flags'
  BY <1>6 DEF TimePasses
<1> QED
  BY <1>1, <1>2, <1>3, <1>4, <1>5, <1>6 DEF Next

LEMMA NumbersStep == Numbers /\ FlightInv /\ [Next]_vars => Numbers'
<1> SUFFICES ASSUME Numbers, FlightInv, [Next]_vars PROVE Numbers'
  OBVIOUS
<1> USE UnitsAssumption, ScenarioAssumption, HealBoundType
    DEF cached, schedule, flight, queue, answer, idp, Numbers
<1>1. CASE UNCHANGED vars
  BY <1>1 DEF vars
<1>2. ASSUME Tick \/ Notified PROVE Numbers'
  BY <1>2 DEF Tick, Notified, RefreshNow, Begin
<1>3. ASSUME CallerRefreshes \/ RequestRefresh \/ CallerDropped PROVE Numbers'
  BY <1>3 DEF CallerRefreshes, RequestRefresh, CallerDropped, Begin, NoAttempt
<1>4. ASSUME IdpIssues PROVE Numbers'
  BY <1>4 DEF IdpIssues
<1>5. ASSUME Install PROVE Numbers'
  <2>1. life * Second \in Nat /\ refresh_interval(life) * Second \in Nat
    <3>1. life \in Nat /\ refresh_interval(life) \in Nat
      BY IntervalType DEF FlightInv
    <3> QED BY <3>1
  <2>2. left' \in Nat /\ remaining' \in Nat
    BY <1>5, <2>1 DEF Install, Less, FlightInv
  <2>3. /\ timer' \in Nat /\ failures' \in 0..FailuresCap
        /\ life \in Lifetimes /\ setFor' \in Lifetimes \cup {0}
    BY <1>5, <2>1 DEF Install, FailuresCap, FlightInv
  <2> QED BY <1>5, <2>2, <2>3 DEF Install, NoAttempt
<1>6. ASSUME FetchFails PROVE Numbers'
  <2>1. timer' \in Nat
    <3>1. CASE AtSelect
      BY <1>6, <3>1 DEF FetchFails, BacksOff
    <3>2. CASE ~AtSelect
      <4>1. timer' \in RetryDelays(failures)
        BY <1>6, <3>2 DEF FetchFails, BacksOff
      <4> QED BY <4>1, DelaysType
    <3> QED BY <3>1, <3>2
  <2>2. failures' \in 0..FailuresCap
    BY <1>6 DEF FetchFails, BacksOff, AtMost, FailuresCap
  <2>3. setFor' \in Lifetimes \cup {0}
    BY <1>6 DEF FetchFails, BacksOff
  <2> QED BY <1>6, <2>1, <2>2, <2>3 DEF FetchFails, NoAttempt
<1>7. ASSUME IdpGoesDown \/ IdpComesBack PROVE Numbers'
  BY <1>7 DEF IdpGoesDown, IdpComesBack
<1>8. ASSUME TimePasses PROVE Numbers'
  <2>1. left' \in Nat /\ remaining' \in Nat /\ timer' \in Nat
    BY <1>8 DEF TimePasses, Less
  <2>2. elapsed' \in 0..FetchTimeout
    BY <1>8 DEF TimePasses
  <2>3. age' \in 0..FetchTimeout
    <3>1. answered => attempt # "none" /\ age <= elapsed
      BY DEF FlightInv
    <3> QED BY <1>8, <2>2, <3>1 DEF TimePasses
  <2>4. upFor' \in 0..HealBound
    BY <1>8 DEF TimePasses, AtMost
  <2> QED BY <1>8, <2>1, <2>2, <2>3, <2>4 DEF TimePasses
<1> QED
  BY <1>1, <1>2, <1>3, <1>4, <1>5, <1>6, <1>7, <1>8 DEF Next

LEMMA NumbersInit == Init => Numbers
<1> SUFFICES ASSUME Init PROVE Numbers
  OBVIOUS
<1>1. PICK e \in Lifetimes, travel \in 0..MaxLatency :
        /\ left = Less(e * Second, travel) /\ remaining = e * Second
        /\ timer = refresh_interval(e) * Second /\ expires_in = e /\ setFor = e
  BY DEF Init
<1>2. e \in Nat /\ refresh_interval(e) \in Nat
  BY IntervalType, ScenarioAssumption
<1>3. e * Second \in Nat /\ refresh_interval(e) * Second \in Nat
  BY <1>2, UnitsAssumption
<1>4. left \in Nat /\ remaining \in Nat /\ timer \in Nat
  BY <1>1, <1>3, UnitsAssumption DEF Less
<1> QED
  BY <1>1, <1>4, UnitsAssumption, ScenarioAssumption, HealBoundType
  DEF Init, Numbers, FailuresCap

\* Every clock stays a distance from now that is not negative, and no attempt
\* outlasts OAUTH_HTTP_REQUEST_TIMEOUT, its answer's age included.
THEOREM TypeCorrect == Spec => []TypeOK
<1>1. Init => Numbers
  BY NumbersInit
<1>2. Init => Flags /\ FlightInv /\ SkewInv
  BY FlightInit DEF Init, Flags
<1>3. Flags /\ Numbers /\ FlightInv /\ SkewInv /\ [Next]_vars =>
        (Flags /\ Numbers /\ FlightInv /\ SkewInv)'
  BY FlagsStep, NumbersStep, FlightStep
<1> QED BY <1>1, <1>2, <1>3, Parts, PTL DEF Spec

-------------------------------------------------------------------------------
(* The margin of streams *)

\* With an IdP that answers within the margin of ensure_fresh, the token of a
\* stream that was opened without a refresh is one the server still accepts.
THEOREM StreamMarginCoversLatency ==
  ASSUME MaxLatency < STREAMING_TOKEN_REFRESH_MARGIN * Second
  PROVE  Spec => []EnoughLeftIsValid
<1>1. Init => FlightInv /\ SkewInv
  BY FlightInit
<1>2. FlightInv /\ SkewInv /\ [Next]_vars => (FlightInv /\ SkewInv)'
  BY FlightStep
<1>3. FlightInv /\ SkewInv => EnoughLeftIsValid
  <2>1. STREAMING_TOKEN_REFRESH_MARGIN * Second \in Nat
    BY UnitsAssumption DEF STREAMING_TOKEN_REFRESH_MARGIN
  <2> QED BY <2>1, UnitsAssumption DEF FlightInv, SkewInv, EnoughLeftIsValid
<1> QED BY <1>1, <1>2, <1>3, PTL DEF Spec

-------------------------------------------------------------------------------
(* The cadence of the background task, and the callers it queues behind *)

\* refresh_interval leaves a second, of any lifetime that has two.
LEMMA IntervalLeavesASecond ==
  ASSUME NEW e \in Nat, e >= 2
  PROVE  /\ refresh_interval(e) \in Nat
         /\ refresh_interval(e) * Second <= e * Second - Second
<1>1. refresh_interval(e) \in Nat /\ refresh_interval(e) <= e - 1
  <2>1. (e * 2) \div 3 \in Nat
    OBVIOUS
  <2>2. Less(e, 1) = e - 1 /\ AtLeast(Less(e, 1), 1) = e - 1
    BY DEF Less, AtLeast
  <2> HIDE DEF Less
  <2> QED BY <2>1, <2>2 DEF refresh_interval, AtMost, AtLeast, MIN_REFRESH_INTERVAL
<1>2. (e - 1) * Second = e * Second - Second
  BY UnitsAssumption
<1>3. \A a, b \in Nat : a <= b => a * Second <= b * Second
  BY UnitsAssumption
<1>4. refresh_interval(e) * Second <= (e - 1) * Second
  <2>1. e - 1 \in Nat
    OBVIOUS
  <2> QED BY <1>1, <1>3, <2>1
<1> QED BY <1>1, <1>2, <1>4

\* refresh_interval comes that much before the expiry and an answer under way.
RoomFor(margin) ==
  \A e \in Lifetimes : refresh_interval(e) * Second + MaxLatency + margin < e * Second

\* There is room for any latencies that are short: less than a second for lifetimes
\* of two seconds or more, where the floor and the clamp decide, or less than a third
\* of lifetimes of eight seconds or more, where two thirds do.
THEOREM IntervalLeavesRoom ==
  ASSUME NEW margin \in Nat,
         \A e \in Lifetimes : \/ e >= 2 /\ MaxLatency + margin < Second
                              \/ e >= 8 /\ 3 * (MaxLatency + margin) < e * Second
  PROVE  RoomFor(margin)
<1> SUFFICES ASSUME NEW e \in Lifetimes
             PROVE  refresh_interval(e) * Second + MaxLatency + margin < e * Second
  BY DEF RoomFor
<1> USE UnitsAssumption
<1>1. e \in Nat /\ refresh_interval(e) \in Nat
  BY ScenarioAssumption, IntervalType
<1>2. refresh_interval(e) * Second \in Nat /\ e * Second \in Nat
  BY <1>1
<1>3. CASE e >= 2 /\ MaxLatency + margin < Second
  <2>1. refresh_interval(e) * Second <= e * Second - Second
    BY <1>1, <1>3, IntervalLeavesASecond
  <2> QED BY <1>2, <1>3, <2>1
<1>4. CASE e >= 8 /\ 3 * (MaxLatency + margin) < e * Second
  <2>1. refresh_interval(e) * 3 <= e * 2
    <3>1. (e * 2) \div 3 \in Nat /\ (e * 2) \div 3 >= 5 /\ ((e * 2) \div 3) * 3 <= e * 2
      BY <1>1, <1>4
    <3>2. AtLeast((e * 2) \div 3, 5) = (e * 2) \div 3
      BY <3>1 DEF AtLeast
    <3>3. Less(e, 1) = e - 1 /\ AtLeast(Less(e, 1), 1) = e - 1
      BY <1>1, <1>4 DEF Less, AtLeast
    <3>4. refresh_interval(e) <= (e * 2) \div 3
      BY <1>1, <1>4, <3>1, <3>2, <3>3 DEF refresh_interval, AtMost, MIN_REFRESH_INTERVAL
    <3> QED BY <1>1, <3>1, <3>4
  <2>2. (refresh_interval(e) * 3) * Second <= (e * 2) * Second
    <3>1. \A a, b \in Nat : a <= b => a * Second <= b * Second
      OBVIOUS
    <3>2. refresh_interval(e) * 3 \in Nat /\ e * 2 \in Nat
      BY <1>1
    <3> QED BY <2>1, <3>1, <3>2
  <2>3. /\ (refresh_interval(e) * 3) * Second = 3 * (refresh_interval(e) * Second)
        /\ (e * 2) * Second = 2 * (e * Second)
    BY <1>1
  <2> QED BY <1>2, <1>4, <2>2, <2>3
<1> QED BY <1>3, <1>4

\* An answer that arrives now leaves more than the ticker is reset to.
LEMMA FreshTokenOutlivesTicker ==
  ASSUME NEW e \in Lifetimes, NEW delay \in 0..MaxLatency,
         NEW margin \in Nat, RoomFor(margin)
  PROVE  /\ refresh_interval(e) * Second \in Nat
         /\ Less(e * Second, delay) \in Nat
         /\ refresh_interval(e) * Second + margin < Less(e * Second, delay)
<1>1. e \in Nat /\ refresh_interval(e) \in Nat
  BY IntervalType, ScenarioAssumption
<1>2. e * Second \in Nat /\ refresh_interval(e) * Second \in Nat
  BY <1>1, UnitsAssumption
<1>3. refresh_interval(e) * Second + MaxLatency + margin < e * Second
  BY DEF RoomFor
<1> QED BY <1>2, <1>3, UnitsAssumption DEF Less

\* Of the fetches before the task's own, how many may still come to nothing; and how
\* long they take, with answers that are not late.
Turns == IF joined THEN ahead + 1 ELSE 0
Wait == Turns * MaxLatency
LongestQueue == MaxCallers * MaxLatency

\* The background task queues behind callers only, and not more than there are.
QueueInv == joined => attempt = "caller" /\ ahead < MaxCallers

LEMMA QueueStep == Flags /\ Numbers /\ QueueInv /\ [Next]_vars => QueueInv'
<1> SUFFICES ASSUME Flags, Numbers, QueueInv, [Next]_vars PROVE QueueInv'
  OBVIOUS
<1> USE ScenarioAssumption DEF cached, schedule, flight, queue, answer, idp, QueueInv
<1>1. CASE UNCHANGED vars
  BY <1>1 DEF vars
<1>2. ASSUME Tick \/ Notified PROVE QueueInv'
  <2>1. ~joined
    BY <1>2 DEF Tick, Notified, AtSelect
  <2>2. CASE joined' = joined
    BY <2>1, <2>2, Zenon
  <2>3. CASE attempt = "caller" /\ ahead' \in 0..(MaxCallers - 1) /\ attempt' = attempt
    BY <2>3
  <2> QED BY <1>2, <2>2, <2>3 DEF Tick, Notified, RefreshNow
<1>3. ASSUME CallerRefreshes PROVE QueueInv'
  BY <1>3 DEF CallerRefreshes, Begin
<1>4. ASSUME CallerDropped PROVE QueueInv'
  <2>1. CASE joined' = FALSE
    BY <2>1
  <2>2. CASE joined /\ Begin("caller") /\ ahead' \in 0..(ahead - 1) /\ UNCHANGED joined
    BY <2>2 DEF Begin, Numbers
  <2> QED BY <1>4, <2>1, <2>2 DEF CallerDropped, NoAttempt
<1>5. ASSUME RequestRefresh \/ IdpIssues \/ IdpGoesDown \/ IdpComesBack \/ TimePasses
      PROVE  QueueInv'
  BY <1>5 DEF RequestRefresh, IdpIssues, IdpGoesDown, IdpComesBack, TimePasses
<1>6. ASSUME Install \/ FetchFails PROVE QueueInv'
  BY <1>6 DEF Install, FetchFails, NoAttempt
<1> QED BY <1>1, <1>2, <1>3, <1>4, <1>5, <1>6 DEF Next

LEMMA TurnsTakeTime ==
  ASSUME NEW n \in Nat, NEW m \in Nat
  PROVE  /\ n * MaxLatency \in Nat
         /\ (n + 1) * MaxLatency = n * MaxLatency + MaxLatency
         /\ n <= m => n * MaxLatency <= m * MaxLatency
BY UnitsAssumption

LEMMA WaitType ==
  ASSUME Numbers, QueueInv
  PROVE  /\ Turns \in Nat /\ Wait \in Nat
         /\ LongestQueue \in Nat /\ Wait <= LongestQueue
<1>1. Turns \in Nat /\ Turns <= MaxCallers
  BY ScenarioAssumption DEF Numbers, QueueInv, Turns
<1> QED BY <1>1, TurnsTakeTime, ScenarioAssumption DEF Wait, LongestQueue

\* The ticker is that far ahead of the expiry, unless an attempt failed or the ticker
\* is out of step; and it was set for a lifetime, unless an attempt failed.
CadenceInv(margin) ==
  /\ failures = 0 => setFor \in Lifetimes /\ timer <= refresh_interval(setFor) * Second
  /\ AtSelect /\ failures = 0 /\ InStep => timer + margin < left

LEMMA CadenceInit ==
  ASSUME NEW margin \in Nat, RoomFor(margin)
  PROVE  Init => CadenceInv(margin)
<1> SUFFICES ASSUME Init PROVE CadenceInv(margin)
  OBVIOUS
<1>1. PICK e \in Lifetimes, travel \in 0..MaxLatency :
        /\ left = Less(e * Second, travel)
        /\ timer = refresh_interval(e) * Second /\ setFor = e
  BY DEF Init
<1>2. timer \in Nat /\ timer + margin < left
  BY <1>1, FreshTokenOutlivesTicker
<1>3. timer <= refresh_interval(setFor) * Second
  BY <1>1, <1>2
<1> QED BY <1>1, <1>2, <1>3 DEF CadenceInv

\* The token that an attempt installs outlives the ticker: the attempt resets it, or
\* it is in step, which says that it is not later than the attempt would have set it.
LEMMA InstallKeepsCadence ==
  ASSUME NEW margin \in Nat, RoomFor(margin), Numbers, FlightInv, CadenceInv(margin),
         Install
  PROVE  CadenceInv(margin)'
<1> USE UnitsAssumption
<1>1. life \in Lifetimes /\ age \in 0..MaxLatency
  BY DEF Install, FlightInv
<1>2. left' = Less(life * Second, age) /\ expires_in' = life
  BY DEF Install
<1>3. /\ refresh_interval(life) * Second \in Nat /\ left' \in Nat
      /\ refresh_interval(life) * Second + margin < left'
  BY <1>1, <1>2, FreshTokenOutlivesTicker
<1>4. CASE AtSelect
  <2>1. UNCHANGED <<timer, setFor, failures>>
    BY <1>4 DEF Install, schedule
  <2>2. SUFFICES ASSUME failures = 0, InStep'
                 PROVE  timer + margin < left'
    BY <2>1 DEF CadenceInv
  <2>3. /\ setFor \in Lifetimes /\ timer <= refresh_interval(setFor) * Second
        /\ refresh_interval(setFor) <= refresh_interval(life)
    BY <1>2, <2>1, <2>2 DEF CadenceInv, InStep
  <2>4. refresh_interval(setFor) \in Nat /\ refresh_interval(life) \in Nat
    BY <1>1, <2>3, IntervalType, ScenarioAssumption
  <2>5. \A a, b \in Nat : a <= b => a * Second \in Nat /\ a * Second <= b * Second
    OBVIOUS
  <2>6. /\ refresh_interval(setFor) * Second \in Nat
        /\ refresh_interval(setFor) * Second <= refresh_interval(life) * Second
    BY <2>3, <2>4, <2>5
  <2>7. timer \in Nat
    BY DEF Numbers
  <2> QED BY <1>3, <2>3, <2>6, <2>7
<1>5. CASE ~AtSelect
  <2>1. timer' = refresh_interval(life) * Second /\ setFor' = life
    BY <1>5 DEF Install
  <2>2. timer' + margin < left' /\ timer' <= refresh_interval(setFor') * Second
    BY <1>3, <2>1
  <2> QED BY <1>1, <2>1, <2>2 DEF CadenceInv
<1> QED BY <1>4, <1>5

LEMMA CadenceStep ==
  ASSUME NEW margin \in Nat, RoomFor(margin)
  PROVE  Numbers /\ FlightInv /\ QueueInv /\ CadenceInv(margin) /\ [Next]_vars =>
           CadenceInv(margin)'
<1> SUFFICES ASSUME Numbers, FlightInv, QueueInv, CadenceInv(margin), [Next]_vars
             PROVE  CadenceInv(margin)'
  OBVIOUS
<1> USE UnitsAssumption DEF cached, schedule, flight, queue, answer, idp
\* A step that leaves the ticker and the token alone, and does not bring the task back.
<1> DEFINE Idle == /\ UNCHANGED <<timer, setFor, failures, left, expires_in>>
                   /\ AtSelect' => AtSelect
<1>1. ASSUME Idle PROVE CadenceInv(margin)'
  <2>1. InStep' => InStep
    BY <1>1 DEF InStep
  <2> QED BY <1>1, <2>1 DEF CadenceInv
<1>2. CASE UNCHANGED vars
  BY <1>1, <1>2 DEF vars, AtSelect
<1>3. ASSUME Tick \/ Notified PROVE CadenceInv(margin)'
  BY <1>1, <1>3 DEF Tick, Notified
<1>4. ASSUME CallerRefreshes \/ CallerDropped PROVE CadenceInv(margin)'
  BY <1>1, <1>4 DEF CallerRefreshes, CallerDropped, Begin, NoAttempt, AtSelect
<1>5. ASSUME RequestRefresh \/ IdpComesBack \/ IdpIssues \/ IdpGoesDown
      PROVE  CadenceInv(margin)'
  BY <1>1, <1>5 DEF RequestRefresh, IdpComesBack, IdpIssues, IdpGoesDown, AtSelect
<1>6. ASSUME Install PROVE CadenceInv(margin)'
  BY <1>6, InstallKeepsCadence
<1>7. ASSUME FetchFails PROVE CadenceInv(margin)'
  <2>1. CASE AtSelect
    BY <1>1, <1>7, <2>1 DEF FetchFails, BacksOff
  <2>2. CASE ~AtSelect
    <3>1. failures' # 0
      BY <1>7, <2>2 DEF FetchFails, BacksOff, AtMost, FailuresCap, Numbers
    <3> QED BY <3>1 DEF CadenceInv
  <2> QED BY <2>1, <2>2
<1>8. ASSUME TimePasses PROVE CadenceInv(margin)'
  <2>1. /\ UNCHANGED <<failures, setFor, expires_in, attempt, joined>>
        /\ AtSelect' => AtSelect
        /\ InStep' => InStep
    BY <1>8 DEF TimePasses, AtSelect, InStep
  <2>2. timer' \in Nat /\ timer' <= timer
    BY <1>8 DEF TimePasses, Less, Numbers
  <2>3. failures = 0 => timer' <= refresh_interval(setFor) * Second
    <3>1. setFor \in Nat
      BY ScenarioAssumption DEF Numbers
    <3>2. refresh_interval(setFor) * Second \in Nat
      <4>1. refresh_interval(setFor) \in Nat
        BY <3>1, IntervalType
      <4> QED BY <4>1
    <3> QED BY <2>2, <3>2 DEF CadenceInv, Numbers
  <2>4. AtSelect /\ failures = 0 /\ InStep => timer' + margin < left'
    BY <1>8 DEF TimePasses, Less, CadenceInv, Numbers
  <2>5. failures' = 0 => setFor' \in Lifetimes /\ timer' <= refresh_interval(setFor') * Second
    BY <2>1, <2>3 DEF CadenceInv
  <2>6. AtSelect' /\ failures' = 0 /\ InStep' => timer' + margin < left'
    <3>1. failures' = failures
      BY <2>1
    <3> QED BY <2>1, <2>4, <3>1, Zenon
  <2> QED BY <2>5, <2>6 DEF CadenceInv
<1> QED
  BY <1>2, <1>3, <1>4, <1>5, <1>6, <1>7, <1>8 DEF Next

\* Whatever failed before, whoever installed the token and whichever callers were
\* dropped, the background task's next refresh is due before the cached token expires,
\* if refresh_interval leaves room for an answer and the ticker is not out of step.
THEOREM CadenceLeavesMargin ==
  ASSUME RoomFor(0)
  PROVE  Spec => []NextRefreshBeforeExpiry
<1>1. 0 \in Nat
  OBVIOUS
<1>2. Init => Flags /\ Numbers /\ FlightInv /\ SkewInv /\ QueueInv /\ CadenceInv(0)
  BY <1>1, NumbersInit, FlightInit, CadenceInit DEF Init, Flags, QueueInv
<1>3. /\ Flags /\ Numbers /\ FlightInv /\ SkewInv /\ QueueInv /\ CadenceInv(0)
      /\ [Next]_vars
      => (Flags /\ Numbers /\ FlightInv /\ SkewInv /\ QueueInv /\ CadenceInv(0))'
  BY <1>1, FlagsStep, NumbersStep, FlightStep, QueueStep, CadenceStep
<1>4. Numbers /\ CadenceInv(0) => NextRefreshBeforeExpiry
  BY DEF Numbers, CadenceInv, NextRefreshBeforeExpiry
<1> QED BY <1>2, <1>3, <1>4, PTL DEF Spec

-------------------------------------------------------------------------------
(* Recovery from an outage *)

\* A timed-out attempt and the longest backoff after it.
LongestWait == FetchTimeout + REFRESH_RETRY_MAX_DELAY * Second

\* The answer the task waits for comes within the bound, even if the callers before it
\* are dropped one after the other; or it comes before the cached token expires.
InTime == upFor + Wait <= LongestWait + LongestQueue + elapsed
BeforeExpiry == failures = 0 /\ (InStep => Wait + MaxLatency < left + elapsed)

\* An attempt that is lost while the IdP is up began before it came back; once it
\* failed, the backoff and the next attempt take it from there.
RecoveryInv ==
  /\ ~up => upFor = 0
  /\ lost => upFor <= elapsed
  /\ failures # 0 /\ AtSelect => upFor + timer <= LongestWait
  /\ ~AtSelect /\ ~lost => InTime \/ BeforeExpiry

LEMMA LongestWaitType ==
  /\ LongestWait \in Nat /\ FetchTimeout <= LongestWait
  /\ LongestQueue \in Nat
  /\ HealBound = LongestWait + LongestQueue + MaxLatency + 1
<1>1. /\ LongestQueue \in Nat
      /\ (MaxCallers + 1) * MaxLatency = LongestQueue + MaxLatency
  BY TurnsTakeTime, ScenarioAssumption DEF LongestQueue
<1> QED
  BY <1>1, UnitsAssumption DEF LongestWait, HealBound, REFRESH_RETRY_MAX_DELAY

\* No backoff is longer than REFRESH_RETRY_MAX_DELAY.
LEMMA BackoffIsCapped ==
  ASSUME NEW n \in 0..FailuresCap, NEW d \in RetryDelays(n)
  PROVE  d \in Nat /\ FetchTimeout + d <= LongestWait
<1>1. d \in Nat
  BY DelaysType
<1>2. retry_backoff(n) \in Nat /\ retry_backoff(n) <= 30
  <2> DEFINE power == 2 ^ n
  <2>1. power \in Nat
    BY PowersAssumption
  <2> HIDE DEF power
  <2>2. AtMost(power, 30) \in Nat /\ AtMost(power, 30) <= 30
    BY <2>1 DEF AtMost
  <2> QED BY <2>2 DEF retry_backoff, REFRESH_RETRY_MAX_DELAY, power
<1>3. \A a, b \in Nat : a <= b => a * Second <= b * Second
  BY UnitsAssumption
<1>4. /\ retry_backoff(n) * Second \in Nat
      /\ retry_backoff(n) * Second <= 30 * Second
  BY <1>2, <1>3, UnitsAssumption
<1>5. d <= retry_backoff(n) * Second
  BY <1>4, <1>1 DEF RetryDelays
<1> QED BY <1>1, <1>4, <1>5, UnitsAssumption DEF LongestWait, REFRESH_RETRY_MAX_DELAY

LEMMA RecoveryInit == Init => RecoveryInv
BY DEF Init, RecoveryInv, AtSelect

\* Sums of what is and what was, for the two ways in which an answer is in time.
LEMMA QueuedInTime ==
  ASSUME NEW u \in Nat, NEW w \in Nat, NEW e \in Nat, NEW t \in Nat,
         u + t <= LongestWait, w <= LongestQueue
  PROVE  u + w <= LongestWait + LongestQueue + e
BY LongestWaitType

LEMMA QueuedBeforeExpiry ==
  ASSUME NEW l \in Nat, NEW w \in Nat, NEW e \in Nat, NEW t \in Nat,
         t + (LongestQueue + MaxLatency) < l, w <= LongestQueue
  PROVE  w + MaxLatency < l + e
BY LongestWaitType, UnitsAssumption

LEMMA TurnInTime ==
  ASSUME NEW u \in Nat, NEW w \in Nat, NEW e \in Nat, NEW v \in Nat,
         u + w <= LongestWait + LongestQueue + e, e <= MaxLatency, v + MaxLatency <= w
  PROVE  u + v <= LongestWait + LongestQueue + 0
BY LongestWaitType, UnitsAssumption

LEMMA TurnBeforeExpiry ==
  ASSUME NEW l \in Nat, NEW w \in Nat, NEW e \in Nat, NEW v \in Nat,
         w + MaxLatency < l + e, e <= MaxLatency, v + MaxLatency <= w
  PROVE  v + MaxLatency < l + 0
BY UnitsAssumption

\* The task joins the queue, or finds nobody in it.
LEMMA WakeUpRecovers ==
  ASSUME Numbers, Numbers', FlightInv, QueueInv, QueueInv',
         CadenceInv(LongestQueue + MaxLatency), RecoveryInv, Tick \/ Notified
  PROVE  RecoveryInv'
<1> USE LongestWaitType
<1>1. /\ AtSelect
      /\ UNCHANGED <<left, expires_in, timer, setFor, failures, up, upFor>>
  BY DEF Tick, Notified, cached, schedule, idp
<1>2. ~AtSelect' /\ (lost' => upFor <= elapsed')
  <2>1. CASE attempt = "none" /\ Begin("task")
    <3>1. attempt' = "task" /\ elapsed' = 0 /\ lost' = (~up)
      BY <2>1 DEF Begin
    <3>2. lost' => upFor = 0
      BY <3>1, Zenon DEF RecoveryInv
    <3> QED BY <3>1, <3>2 DEF AtSelect
  <2>2. CASE attempt = "caller" /\ joined' = TRUE /\ UNCHANGED <<attempt, elapsed, lost>>
    BY <2>2 DEF RecoveryInv, AtSelect
  <2> QED BY <2>1, <2>2 DEF Tick, Notified, RefreshNow, answer
<1>3. Wait' \in Nat /\ Wait' <= LongestQueue
  <2>1. Turns' \in Nat /\ Turns' <= MaxCallers
    <3>1. ahead' \in Nat /\ (joined' => ahead' < MaxCallers)
      BY ScenarioAssumption DEF Numbers, QueueInv
    <3>2. CASE joined'
      <4>1. Turns' = ahead' + 1
        BY <3>2, Zenon DEF Turns
      <4>2. \A n \in Nat : n < MaxCallers => n + 1 \in Nat /\ n + 1 <= MaxCallers
        BY ScenarioAssumption
      <4> QED BY <3>1, <3>2, <4>1, <4>2
    <3>3. CASE ~joined'
      <4>1. Turns' = 0
        BY <3>3, Zenon DEF Turns
      <4> QED BY <4>1, ScenarioAssumption
    <3> QED BY <3>2, <3>3
  <2>2. \A n \in Nat : n <= MaxCallers =>
          n * MaxLatency \in Nat /\ n * MaxLatency <= LongestQueue
    BY TurnsTakeTime, ScenarioAssumption DEF LongestQueue
  <2>3. Wait' = Turns' * MaxLatency
    BY DEF Wait
  <2> QED BY <2>1, <2>2, <2>3
<1>4. upFor \in Nat /\ timer \in Nat /\ left \in Nat /\ elapsed' \in Nat
  BY DEF Numbers
<1>5. CASE failures = 0
  <2>1. ASSUME InStep PROVE Wait' + MaxLatency < left + elapsed'
    <3>1. timer + (LongestQueue + MaxLatency) < left
      BY <1>1, <1>5, <2>1 DEF CadenceInv
    <3> QED BY <1>3, <1>4, <3>1, QueuedBeforeExpiry
  <2>2. InStep' => InStep
    BY <1>1 DEF InStep
  <2>3. BeforeExpiry'
    BY <1>1, <1>5, <2>1, <2>2 DEF BeforeExpiry
  <2> QED BY <1>1, <1>2, <2>3 DEF RecoveryInv
<1>6. CASE failures # 0
  <2>1. upFor + timer <= LongestWait
    BY <1>1, <1>6 DEF RecoveryInv
  <2>2. upFor + Wait' <= LongestWait + LongestQueue + elapsed'
    BY <1>3, <1>4, <2>1, QueuedInTime
  <2>3. InTime'
    BY <1>1, <2>2 DEF InTime
  <2> QED BY <1>1, <1>2, <2>3 DEF RecoveryInv
<1> QED BY <1>5, <1>6

LEMMA OneFewer ==
  ASSUME NEW n \in Nat, NEW m \in 0..(n - 1)
  PROVE  m + 1 \in Nat /\ (m + 1) + 1 <= n + 1
OBVIOUS

\* A caller that is dropped costs the task one turn of those it had to wait for.
LEMMA DropRecovers ==
  ASSUME Numbers, Numbers', FlightInv, QueueInv, RecoveryInv, CallerDropped
  PROVE  RecoveryInv'
<1> USE LongestWaitType
<1>1. UNCHANGED <<left, expires_in, timer, setFor, failures, up, upFor>>
  BY DEF CallerDropped, cached, schedule, idp
<1>2. CASE ~joined /\ NoAttempt
  <2>1. AtSelect /\ AtSelect' /\ lost' = FALSE
    BY <1>2 DEF CallerDropped, NoAttempt, AtSelect
  <2> QED BY <1>1, <2>1 DEF RecoveryInv
<1>3. ASSUME joined, elapsed' = 0, lost' = (~up), Turns' \in Nat, Turns' + 1 <= Turns
      PROVE  RecoveryInv'
  <2>1. ~AtSelect /\ (lost' => upFor = 0)
    BY <1>3, Zenon DEF AtSelect, RecoveryInv
  <2>2. /\ Wait \in Nat /\ Wait <= LongestQueue /\ Turns \in Nat
    BY WaitType
  <2>3. \A n \in Nat : n + 1 <= Turns =>
          /\ n * MaxLatency \in Nat
          /\ n * MaxLatency + MaxLatency <= Turns * MaxLatency
    <3> TAKE n \in Nat
    <3>1. /\ n * MaxLatency \in Nat
          /\ (n + 1) * MaxLatency = n * MaxLatency + MaxLatency
      BY TurnsTakeTime
    <3>2. n + 1 <= Turns => (n + 1) * MaxLatency <= Turns * MaxLatency
      <4>1. n + 1 \in Nat
        OBVIOUS
      <4> QED BY <2>2, <4>1, TurnsTakeTime
    <3> QED BY <3>1, <3>2
  <2>4. Wait' = Turns' * MaxLatency /\ Wait = Turns * MaxLatency
    BY DEF Wait
  <2>5. Wait' \in Nat /\ Wait' + MaxLatency <= Wait
    BY <1>3, <2>3, <2>4
  <2>6. upFor \in Nat /\ left \in Nat /\ elapsed \in Nat
    BY DEF Numbers
  <2>7. InTime' \/ BeforeExpiry'
    <3>1. CASE lost
      <4>1. upFor + 0 <= LongestWait
        BY <2>6, <3>1, UnitsAssumption DEF RecoveryInv, Numbers
      <4>2. \A w \in Nat : w + MaxLatency <= Wait => w <= LongestQueue
        BY <2>2, UnitsAssumption
      <4>3. Wait' <= LongestQueue
        BY <2>5, <4>2
      <4>4. 0 \in Nat
        OBVIOUS
      <4>5. upFor + Wait' <= LongestWait + LongestQueue + 0
        BY <2>5, <2>6, <4>1, <4>3, <4>4, QueuedInTime
      <4> QED BY <1>1, <1>3, <4>5 DEF InTime
    <3>2. CASE ~lost
      <4>1. elapsed <= MaxLatency
        BY <3>2 DEF FlightInv
      <4>2. CASE InTime
        <5>1. upFor + Wait' <= LongestWait + LongestQueue + 0
          BY <2>2, <2>5, <2>6, <4>1, <4>2, TurnInTime DEF InTime
        <5> QED BY <1>1, <1>3, <5>1 DEF InTime
      <4>3. CASE BeforeExpiry
        <5>1. ASSUME InStep PROVE Wait' + MaxLatency < left + 0
          BY <2>2, <2>5, <2>6, <4>1, <4>3, <5>1, TurnBeforeExpiry DEF BeforeExpiry
        <5>2. InStep' => InStep
          BY <1>1 DEF InStep
        <5> QED BY <1>1, <1>3, <4>3, <5>1, <5>2 DEF BeforeExpiry
      <4> QED BY <2>1, <3>2, <4>2, <4>3 DEF RecoveryInv
    <3> QED BY <3>1, <3>2
  <2> QED
    <3>1. (~up)' => upFor' = 0
      BY <1>1, Zenon DEF RecoveryInv
    <3>2. lost' => upFor' <= elapsed'
      BY <1>1, <1>3, <2>1
    <3>3. failures' # 0 /\ AtSelect' => upFor' + timer' <= LongestWait
      <4>1. ~AtSelect'
        BY <1>3 DEF CallerDropped, Begin, AtSelect
      <4> QED BY <4>1
    <3> QED BY <2>7, <3>1, <3>2, <3>3 DEF RecoveryInv
<1>4. CASE joined /\ Begin("task") /\ joined' = FALSE /\ ahead' = 0
  <2>1. Turns' = 0 /\ Turns >= 1
    BY <1>4 DEF Turns, Numbers
  <2> QED BY <1>3, <1>4, <2>1, WaitType DEF Begin
<1>5. CASE /\ joined /\ Begin("caller") /\ ahead' \in 0..(ahead - 1)
           /\ UNCHANGED joined
  <2>1. Turns' \in Nat /\ Turns' + 1 <= Turns
    <3>1. joined /\ joined'
      BY <1>5, Zenon
    <3>2. ahead \in Nat /\ ahead' \in 0..(ahead - 1)
      BY <1>5, ScenarioAssumption DEF Numbers
    <3>3. Turns = ahead + 1 /\ Turns' = ahead' + 1
      BY <3>1, Zenon DEF Turns
    <3>4. ahead' + 1 \in Nat /\ (ahead' + 1) + 1 <= ahead + 1
      BY <3>2, OneFewer
    <3> QED BY <3>2, <3>3, <3>4
  <2> QED BY <1>3, <1>5, <2>1 DEF Begin
<1> QED BY <1>2, <1>4, <1>5 DEF CallerDropped

LEMMA TimeRecovers ==
  ASSUME Numbers, Numbers', FlightInv, QueueInv, RecoveryInv, TimePasses
  PROVE  RecoveryInv'
<1> USE LongestWaitType, UnitsAssumption
<1>1. /\ UNCHANGED <<failures, attempt, joined, ahead, lost, up, setFor, expires_in>>
      /\ ~up => upFor' = 0
      /\ upFor' \in Nat /\ upFor' <= upFor + 1
      /\ attempt # "none" => elapsed' = elapsed + 1
  BY HealBoundType DEF TimePasses, AtMost, Numbers, queue
<1>2. lost => upFor' <= elapsed'
  BY <1>1 DEF RecoveryInv, FlightInv, Numbers
<1>3. failures # 0 /\ AtSelect => upFor' + timer' <= LongestWait
  <2>1. SUFFICES ASSUME failures # 0, AtSelect
                 PROVE  upFor' + timer' <= LongestWait
    OBVIOUS
  <2>2. timer' = timer - 1 /\ timer \in Nat /\ upFor \in Nat
    BY <2>1 DEF TimePasses, Less, Numbers
  <2>3. upFor + timer <= LongestWait
    BY <2>1 DEF RecoveryInv
  <2>4. \A u \in Nat : u <= upFor + 1 => u + (timer - 1) <= LongestWait
    BY <2>2, <2>3
  <2> QED BY <1>1, <2>2, <2>4
<1>4. ASSUME ~AtSelect, ~lost PROVE InTime' \/ BeforeExpiry'
  <2>1. /\ Wait \in Nat /\ Wait' = Wait
        /\ elapsed' = elapsed + 1 /\ elapsed \in Nat /\ upFor \in Nat
    BY <1>1, <1>4, WaitType DEF Wait, Turns, AtSelect, QueueInv, Numbers
  <2>2. CASE InTime
    <3>1. upFor + Wait <= LongestWait + LongestQueue + elapsed
      BY <2>2 DEF InTime
    <3>2. \A u \in Nat : u <= upFor + 1 =>
            u + Wait <= LongestWait + LongestQueue + (elapsed + 1)
      BY <2>1, <3>1
    <3>3. upFor' + Wait' <= LongestWait + LongestQueue + elapsed'
      BY <1>1, <2>1, <3>2
    <3> QED BY <3>3 DEF InTime
  <2>3. CASE BeforeExpiry
    <3>1. left \in Nat /\ left' \in Nat /\ left' + 1 >= left
      BY DEF TimePasses, Less, Numbers
    <3>2. ASSUME InStep PROVE Wait' + MaxLatency < left' + elapsed'
      <4>1. Wait + MaxLatency < left + elapsed
        BY <2>3, <3>2 DEF BeforeExpiry
      <4>2. \A l \in Nat : l + 1 >= left => Wait + MaxLatency < l + (elapsed + 1)
        BY <2>1, <3>1, <4>1
      <4> QED BY <2>1, <3>1, <4>2
    <3>3. InStep' => InStep
      BY <1>1 DEF InStep
    <3> QED BY <1>1, <2>3, <3>2, <3>3 DEF BeforeExpiry
  <2> QED BY <1>4, <2>2, <2>3 DEF RecoveryInv
<1>5. (AtSelect' <=> AtSelect) /\ (lost' <=> lost) /\ failures' = failures
  BY <1>1 DEF AtSelect
<1>6. ~up' => upFor' = 0
  BY <1>1
<1> QED BY <1>1, <1>2, <1>3, <1>4, <1>5, <1>6 DEF RecoveryInv

LEMMA RecoveryStep ==
  /\ Flags /\ Numbers /\ Numbers' /\ FlightInv /\ QueueInv /\ QueueInv'
  /\ CadenceInv(LongestQueue + MaxLatency) /\ RecoveryInv
  /\ [Next]_vars
  => RecoveryInv'
<1> SUFFICES ASSUME Flags, Numbers, Numbers', FlightInv, QueueInv, QueueInv',
                    CadenceInv(LongestQueue + MaxLatency), RecoveryInv, [Next]_vars
             PROVE  RecoveryInv'
  OBVIOUS
<1> USE UnitsAssumption, LongestWaitType
    DEF cached, schedule, flight, queue, answer, idp
\* A step that leaves alone what RecoveryInv speaks of.
<1> DEFINE Aside == UNCHANGED <<left, expires_in, timer, setFor, failures, attempt,
                                joined, ahead, elapsed, lost, upFor>>
<1>1. ASSUME Aside, ~up' => upFor = 0 PROVE RecoveryInv'
  <2>1. (AtSelect' <=> AtSelect) /\ (InTime' <=> InTime) /\ (BeforeExpiry' <=> BeforeExpiry)
    BY <1>1 DEF AtSelect, InTime, BeforeExpiry, InStep, Wait, Turns
  <2> QED BY <1>1, <2>1 DEF RecoveryInv
<1>2. CASE UNCHANGED vars
  BY <1>1, <1>2 DEF vars, RecoveryInv
<1>3. ASSUME RequestRefresh \/ IdpIssues \/ IdpComesBack PROVE RecoveryInv'
  BY <1>1, <1>3 DEF RequestRefresh, IdpIssues, IdpComesBack, RecoveryInv
<1>4. ASSUME Tick \/ Notified PROVE RecoveryInv'
  BY <1>4, WakeUpRecovers
<1>5. ASSUME CallerDropped PROVE RecoveryInv'
  BY <1>5, DropRecovers
<1>6. ASSUME TimePasses PROVE RecoveryInv'
  BY <1>6, TimeRecovers
<1>7. ASSUME CallerRefreshes PROVE RecoveryInv'
  <2>1. /\ attempt = "none" /\ attempt' = "caller" /\ elapsed' = 0 /\ lost' = (~up)
        /\ UNCHANGED <<joined, timer, failures, up, upFor>>
    BY <1>7 DEF CallerRefreshes, Begin
  <2>2. ~joined
    BY <2>1 DEF QueueInv
  <2>3. lost' => upFor = 0
    BY <2>1, Zenon DEF RecoveryInv
  <2>4. AtSelect /\ AtSelect'
    BY <2>1, <2>2 DEF AtSelect
  <2> QED BY <2>1, <2>3, <2>4 DEF RecoveryInv
<1>8. ASSUME Install PROVE RecoveryInv'
  BY <1>8 DEF Install, NoAttempt, RecoveryInv, AtSelect
<1>9. ASSUME FetchFails PROVE RecoveryInv'
  <2>1. /\ attempt' = "none" /\ joined' = FALSE /\ lost' = FALSE /\ elapsed' = 0
        /\ UNCHANGED <<up, upFor>> /\ upFor <= elapsed
    BY <1>9 DEF FetchFails, NoAttempt, RecoveryInv
  <2>2. CASE AtSelect
    BY <1>9, <2>1, <2>2 DEF FetchFails, BacksOff, RecoveryInv, AtSelect
  <2>3. CASE ~AtSelect
    <3>1. timer' \in Nat /\ FetchTimeout + timer' <= LongestWait
      BY <1>9, <2>3, BackoffIsCapped DEF FetchFails, BacksOff, Numbers
    <3>2. \A d \in Nat : FetchTimeout + d <= LongestWait => upFor + d <= LongestWait
      BY <2>1 DEF Numbers
    <3>3. upFor + timer' <= LongestWait
      BY <3>1, <3>2
    <3> QED BY <2>1, <3>3 DEF RecoveryInv, AtSelect
  <2> QED BY <2>2, <2>3
<1>10. ASSUME IdpGoesDown PROVE RecoveryInv'
  <2>1. /\ upFor' = 0 /\ up' = FALSE
        /\ UNCHANGED <<timer, failures, attempt, joined, ahead, elapsed>>
    BY <1>10 DEF IdpGoesDown
  <2>2. failures # 0 /\ AtSelect => timer <= LongestWait
    BY DEF RecoveryInv, Numbers
  <2>3. AtSelect' <=> AtSelect
    BY <2>1 DEF AtSelect
  <2>4. InTime'
    <3>1. Wait' = Wait /\ Wait \in Nat /\ Wait <= LongestQueue /\ elapsed \in Nat
      BY <2>1, WaitType DEF Wait, Turns, Numbers
    <3>2. 0 + Wait <= LongestWait + LongestQueue + elapsed
      BY <3>1
    <3> QED BY <2>1, <3>1, <3>2 DEF InTime
  <2>5. 0 <= elapsed /\ timer \in Nat
    BY DEF Numbers
  <2> QED BY <2>1, <2>2, <2>3, <2>4, <2>5 DEF RecoveryInv
<1> QED
  BY <1>2, <1>3, <1>4, <1>5, <1>6, <1>7, <1>8, <1>9, <1>10 DEF Next

\* However long the IdP was down, however often it fails again, and whichever attempts
\* callers made meanwhile and dropped: once it has answered for HealBound, the cached
\* token is good unless the ticker is out of step.  refresh_interval has to leave room
\* for the answer that is under way when the ticker is set, for the task's own fetch,
\* and for one fetch of each caller that came before it.
THEOREM OutageIsHealed ==
  ASSUME RoomFor((MaxCallers + 1) * MaxLatency)
  PROVE  Spec => []ValidOnceHealed
<1> DEFINE margin == LongestQueue + MaxLatency
<1>1. margin \in Nat /\ RoomFor(margin)
  BY LongestWaitType, UnitsAssumption, ScenarioAssumption, TurnsTakeTime
  DEF LongestQueue
<1> DEFINE IInv == /\ Flags /\ Numbers /\ FlightInv /\ SkewInv /\ QueueInv
                   /\ CadenceInv(margin) /\ RecoveryInv
<1>2. Init => IInv
  <2>1. Init => Flags /\ QueueInv
    BY DEF Init, Flags, QueueInv
  <2>2. Init => CadenceInv(margin)
    BY <1>1, CadenceInit
  <2> QED BY <2>1, <2>2, NumbersInit, FlightInit, RecoveryInit
<1>3. IInv /\ [Next]_vars => IInv'
  <2> SUFFICES ASSUME IInv, [Next]_vars PROVE IInv'
    OBVIOUS
  <2>1. Flags' /\ Numbers' /\ FlightInv' /\ SkewInv' /\ QueueInv'
    BY FlagsStep, NumbersStep, FlightStep, QueueStep
  <2>2. CadenceInv(margin)'
    BY <1>1, CadenceStep
  <2>3. RecoveryInv'
    BY <2>1, RecoveryStep
  <2> QED BY <2>1, <2>2, <2>3
<1>4. IInv => ValidOnceHealed
  <2> SUFFICES ASSUME IInv, upFor = HealBound, InStep PROVE left > 0
    BY DEF ValidOnceHealed
  <2> USE UnitsAssumption, LongestWaitType
  <2>1. ~lost
    BY DEF RecoveryInv, Numbers
  <2>2. elapsed \in Nat /\ elapsed <= MaxLatency /\ left \in Nat /\ timer \in Nat
    BY <2>1 DEF FlightInv, Numbers
  <2>3. CASE AtSelect
    <3>1. failures = 0
      BY <2>2, <2>3 DEF RecoveryInv, Numbers
    <3>2. timer + margin < left
      BY <2>3, <3>1 DEF CadenceInv
    <3> QED BY <1>1, <2>2, <3>2
  <2>4. CASE ~AtSelect
    <3>1. Wait \in Nat
      BY WaitType
    <3>2. ~InTime
      BY <2>2, <3>1 DEF InTime
    <3>3. Wait + MaxLatency < left + elapsed
      BY <2>1, <2>4, <3>2 DEF RecoveryInv, BeforeExpiry
    <3> QED BY <2>2, <3>1, <3>3
  <2> QED BY <2>3, <2>4
<1> QED BY <1>2, <1>3, <1>4, PTL DEF Spec

\* With an IdP that never fails there is nothing to heal: unless the ticker is out of
\* step, the cached token is one the server accepts.
THEOREM HealthyTokenNeverExpires ==
  ASSUME RoomFor((MaxCallers + 1) * MaxLatency), ~IdpCanFail
  PROVE  Spec => [](InStep => left > 0)
<1> DEFINE Healthy == upFor = HealBound /\ up = TRUE
<1>1. Init => Healthy
  BY DEF Init
<1>2. Healthy /\ [Next]_vars => Healthy'
  <2> SUFFICES ASSUME Healthy, [Next]_vars PROVE Healthy'
    OBVIOUS
  <2> USE DEF idp
  <2>1. CASE UNCHANGED vars
    BY <2>1 DEF vars
  <2>2. ASSUME Tick \/ Notified \/ CallerRefreshes \/ CallerDropped \/ RequestRefresh
        PROVE  Healthy'
    BY <2>2 DEF Tick, Notified, CallerRefreshes, CallerDropped, RequestRefresh
  <2>3. ASSUME IdpIssues \/ Install \/ FetchFails PROVE Healthy'
    BY <2>3 DEF IdpIssues, Install, FetchFails
  <2>4. ASSUME IdpGoesDown \/ IdpComesBack PROVE FALSE
    BY <2>4 DEF IdpGoesDown, IdpComesBack
  <2>5. ASSUME TimePasses PROVE Healthy'
    BY <2>5, HealBoundType DEF TimePasses, AtMost
  <2> QED BY <2>1, <2>2, <2>3, <2>4, <2>5 DEF Next
<1>3. Healthy /\ ValidOnceHealed => (InStep => left > 0)
  BY DEF ValidOnceHealed
<1>4. Spec => []ValidOnceHealed
  BY OutageIsHealed
<1> QED BY <1>1, <1>2, <1>3, <1>4, PTL DEF Spec

=============================================================================

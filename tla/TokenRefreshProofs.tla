-------------------------- MODULE TokenRefreshProofs --------------------------
(***************************************************************************)
(* Proofs about TokenRefresh, for any number of tasks and any bounds.      *)
(***************************************************************************)
EXTENDS TokenRefresh, TLAPS

-------------------------------------------------------------------------------
(* Sequences *)

\* RemoveAt(q, i) is q without its i-th element, the others in their order.
LEMMA RemoveAtProperties ==
  ASSUME NEW S, NEW q \in Seq(S), NEW i \in 1..Len(q)
  PROVE  /\ RemoveAt(q, i) \in Seq(S)
         /\ Len(RemoveAt(q, i)) = Len(q) - 1
         /\ \A j \in 1..(Len(q) - 1) :
              RemoveAt(q, i)[j] = IF j < i THEN q[j] ELSE q[j + 1]
<1> DEFINE front == SubSeq(q, 1, i - 1)
           back == SubSeq(q, i + 1, Len(q))
<1>1. /\ front \in Seq(S) /\ Len(front) = i - 1
      /\ \A j \in 1..(i - 1) : front[j] = q[j]
  OBVIOUS
<1>2. /\ back \in Seq(S) /\ Len(back) = Len(q) - i
      /\ \A j \in 1..(Len(q) - i) : back[j] = q[i + j]
  OBVIOUS
<1>3. RemoveAt(q, i) = front \o back
  BY DEF RemoveAt
<1> HIDE DEF front, back
<1>4. front \o back \in Seq(S) /\ Len(front \o back) = Len(q) - 1
  BY <1>1, <1>2
<1>5. ASSUME NEW j \in 1..(Len(q) - 1)
      PROVE  (front \o back)[j] = IF j < i THEN q[j] ELSE q[j + 1]
  <2>1. CASE j < i
    BY <1>1, <1>2, <2>1
  <2>2. CASE ~(j < i)
    <3>1. (front \o back)[j] = back[j - (i - 1)]
      BY <1>1, <1>2, <2>2
    <3>2. j - (i - 1) \in 1..(Len(q) - i) /\ i + (j - (i - 1)) = j + 1
      BY <2>2
    <3> QED BY <1>2, <2>2, <3>1, <3>2
  <2> QED BY <2>1, <2>2
<1> QED BY <1>3, <1>4, <1>5

\* The head of a queue leaves; the others keep their order.
LEMMA TailProperties ==
  ASSUME NEW S, NEW q \in Seq(S), q # <<>>
  PROVE  /\ Head(q) \in S /\ Head(q) = q[1] /\ Len(q) >= 1
         /\ Tail(q) \in Seq(S) /\ Len(Tail(q)) = Len(q) - 1
         /\ \A j \in 1..(Len(q) - 1) : Tail(q)[j] = q[j + 1]
OBVIOUS

-------------------------------------------------------------------------------
(* Type correctness *)

\* An attempt that is over has an outcome.
OutcomeOK ==
  \A p \in Procs :
    pc[p] \in {"installed", "failed", "recorded", "bumped"} =>
      outcome[p] \in {"ok", "err"}

LEMMA HandOverType ==
  ASSUME TypeOK, HandOver
  PROVE  holder' \in Procs \cup {Nobody} /\ queue' \in Seq(Procs)
<1>1. queue \in Seq(Procs)
  BY DEF TypeOK
<1>2. CASE queue = <<>>
  BY <1>1, <1>2 DEF HandOver
<1>3. CASE queue # <<>>
  <2>1. Head(queue) \in Procs /\ Tail(queue) \in Seq(Procs)
    BY <1>1, <1>3, TailProperties
  <2> QED BY <1>3, <2>1 DEF HandOver
<1> QED BY <1>2, <1>3

LEMMA WithdrawType ==
  ASSUME NEW p \in Procs, TypeOK, Withdraw(p)
  PROVE  holder' \in Procs \cup {Nobody} /\ queue' \in Seq(Procs)
<1>1. CASE HandOver
  BY <1>1, HandOverType
<1>2. CASE \E i \in DOMAIN queue : queue' = RemoveAt(queue, i) /\ UNCHANGED holder
  BY <1>2, RemoveAtProperties DEF TypeOK
<1>3. CASE UNCHANGED lock
  BY <1>3 DEF TypeOK, lock
<1> QED BY <1>1, <1>2, <1>3 DEF Withdraw

LEMMA LeaveType ==
  ASSUME NEW p \in Procs, NEW to \in States, TypeOK, Leave(p, to)
  PROVE  /\ pc' \in [Procs -> States]
         /\ observed' \in [Procs -> Nat]
         /\ token' \in [Procs -> Nat]
         /\ enqueuedAt' \in [Procs -> Nat]
BY DEF TypeOK, Leave

LEMMA TypeInit == Init => TypeOK /\ OutcomeOK
<1>1. <<>> \in Seq(Procs)
  OBVIOUS
<1>2. ASSUME Init
      PROVE  /\ pc \in [Procs -> States] /\ observed \in [Procs -> Nat]
             /\ token \in [Procs -> Nat] /\ enqueuedAt \in [Procs -> Nat]
             /\ outcome \in [Procs -> {"none", "ok", "err"}]
             /\ calls \in [Callers -> Nat]
  BY <1>2 DEF Init, States
<1>3. Init => OutcomeOK
  BY DEF Init, OutcomeOK
<1>4. ASSUME Init
      PROVE  /\ holder \in Procs \cup {Nobody} /\ queue \in Seq(Procs)
             /\ lastAttemptFailure \in BOOLEAN /\ permit \in BOOLEAN
             /\ dropped \in BOOLEAN /\ lastOutcome \in {"ok", "err"}
  BY <1>1, <1>4 DEF Init
<1>5. ASSUME Init
      PROVE  /\ header \in Nat /\ lifetime \in Nat /\ fetchAttempts \in Nat
             /\ generation \in Nat /\ ticks \in Nat /\ requests \in Nat
             /\ issued \in Nat /\ completed \in Nat /\ owed \in Nat
  BY <1>5 DEF Init
<1> QED BY <1>2, <1>3, <1>4, <1>5 DEF TypeOK

LEMMA TypeStep == TypeOK /\ OutcomeOK /\ [Next]_vars => TypeOK'
<1> SUFFICES ASSUME TypeOK, OutcomeOK, [Next]_vars PROVE TypeOK'
  OBVIOUS
<1> USE DEF manager, lock, locals, bounds, environment, history
<1>1. CASE UNCHANGED vars
  BY <1>1 DEF TypeOK, vars
<1>2. ASSUME NEW c \in Callers, RefreshNow(c) PROVE TypeOK'
  BY <1>2 DEF TypeOK, RefreshNow, Goto, States, Procs
<1>3. ASSUME NEW c \in Callers, Cancel(c) PROVE TypeOK'
  <2>1. c \in Procs /\ "idle" \in States
    BY DEF Procs, States
  <2>2. holder' \in Procs \cup {Nobody} /\ queue' \in Seq(Procs)
    BY <1>3, <2>1, WithdrawType DEF Cancel
  <2>3. /\ pc' \in [Procs -> States] /\ observed' \in [Procs -> Nat]
        /\ token' \in [Procs -> Nat] /\ enqueuedAt' \in [Procs -> Nat]
    BY <1>3, <2>1, LeaveType DEF Cancel
  <2> QED BY <1>3, <2>2, <2>3 DEF TypeOK, Cancel
<1>4. ASSUME RequestRefresh PROVE TypeOK'
  BY <1>4 DEF TypeOK, RequestRefresh
<1>5. ASSUME NEW p \in Procs, Snapshot(p) PROVE TypeOK'
  BY <1>5 DEF TypeOK, Snapshot, Goto, States
<1>6. ASSUME NEW p \in Procs, Lock(p) PROVE TypeOK'
  <2>1. queue' \in Seq(Procs)
    <3>1. queue \in Seq(Procs)
      BY DEF TypeOK
    <3>2. queue' = queue \/ queue' = Append(queue, p)
      BY <1>6 DEF Lock
    <3> QED BY <3>1, <3>2
  <2>2. /\ pc \in [Procs -> States] /\ holder \in Procs \cup {Nobody}
        /\ enqueuedAt \in [Procs -> Nat] /\ completed \in Nat
    BY DEF TypeOK
  <2>3. pc' \in [Procs -> States]
    BY <1>6, <2>2 DEF Lock, Goto, States
  <2>4. holder' \in Procs \cup {Nobody}
    BY <1>6, <2>2 DEF Lock
  <2>5. enqueuedAt' \in [Procs -> Nat]
    BY <1>6, <2>2 DEF Lock
  <2> QED BY <1>6, <2>1, <2>3, <2>4, <2>5 DEF TypeOK, Lock
<1>7. ASSUME NEW p \in Procs, Resume(p) PROVE TypeOK'
  BY <1>7 DEF TypeOK, Resume, Goto, States
<1>8. ASSUME NEW p \in Procs, StartFetch(p) PROVE TypeOK'
  BY <1>8 DEF TypeOK, StartFetch, Goto, States
<1>9. ASSUME NEW p \in Procs, IdpIssues(p) PROVE TypeOK'
  BY <1>9 DEF TypeOK, IdpIssues, Goto, States
<1>10. ASSUME NEW p \in Procs, FetchFails(p) PROVE TypeOK'
  BY <1>10 DEF TypeOK, FetchFails, Goto, States
<1>11. ASSUME NEW p \in Procs, InstallLifetime(p) PROVE TypeOK'
  BY <1>11 DEF TypeOK, InstallLifetime, Goto, States
<1>12. ASSUME NEW p \in Procs, InstallHeader(p) PROVE TypeOK'
  BY <1>12 DEF TypeOK, InstallHeader, Goto, States
<1>13. ASSUME NEW p \in Procs, RecordOutcome(p) PROVE TypeOK'
  BY <1>13 DEF TypeOK, RecordOutcome, Goto, States
<1>14. ASSUME NEW p \in Procs, Bump(p) PROVE TypeOK'
  BY <1>14 DEF TypeOK, OutcomeOK, Bump, Goto, States
<1>15. ASSUME NEW p \in Procs, Coalesce(p) PROVE TypeOK'
  <2>1. holder' \in Procs \cup {Nobody} /\ queue' \in Seq(Procs)
    BY <1>15, HandOverType DEF Coalesce
  <2>2. /\ pc' \in [Procs -> States] /\ observed' \in [Procs -> Nat]
        /\ token' \in [Procs -> Nat] /\ enqueuedAt' \in [Procs -> Nat]
    BY <1>15, LeaveType DEF Coalesce, States
  <2> QED BY <1>15, <2>1, <2>2 DEF TypeOK, Coalesce
<1>16. ASSUME NEW p \in Procs, Unlock(p) PROVE TypeOK'
  <2>1. holder' \in Procs \cup {Nobody} /\ queue' \in Seq(Procs)
    BY <1>16, HandOverType DEF Unlock
  <2>2. /\ pc' \in [Procs -> States] /\ observed' \in [Procs -> Nat]
        /\ token' \in [Procs -> Nat] /\ enqueuedAt' \in [Procs -> Nat]
    BY <1>16, LeaveType DEF Unlock, States
  <2> QED BY <1>16, <2>1, <2>2 DEF TypeOK, Unlock
<1>17. ASSUME Tick PROVE TypeOK'
  BY <1>17 DEF TypeOK, Tick, Goto, States, Procs
<1>18. ASSUME Notified PROVE TypeOK'
  BY <1>18 DEF TypeOK, Notified, Goto, States, Procs
<1>19. ASSUME DropGuard PROVE TypeOK'
  BY <1>19 DEF TypeOK, DropGuard, Goto, States, Procs
<1>20. ASSUME TaskStops PROVE TypeOK'
  <2>1. Task \in Procs /\ "done" \in States
    BY DEF Procs, States
  <2>2. holder' \in Procs \cup {Nobody} /\ queue' \in Seq(Procs)
    BY <1>20, <2>1, WithdrawType DEF TaskStops
  <2>3. /\ pc' \in [Procs -> States] /\ observed' \in [Procs -> Nat]
        /\ token' \in [Procs -> Nat] /\ enqueuedAt' \in [Procs -> Nat]
    BY <1>20, <2>1, LeaveType DEF TaskStops
  <2> QED BY <1>20, <2>2, <2>3 DEF TypeOK, TaskStops
<1> QED
  BY <1>1, <1>2, <1>3, <1>4, <1>5, <1>6, <1>7, <1>8, <1>9, <1>10, <1>11, <1>12, <1>13, <1>14, <1>15, <1>16, <1>17, <1>18, <1>19, <1>20 DEF Next, Step

LEMMA OutcomeStep == TypeOK /\ OutcomeOK /\ [Next]_vars => OutcomeOK'
<1> SUFFICES ASSUME TypeOK, OutcomeOK, [Next]_vars PROVE OutcomeOK'
  OBVIOUS
<1> USE DEF manager, lock, locals, bounds, environment, history, OutcomeOK
<1>0. /\ pc \in [Procs -> States]
      /\ outcome \in [Procs -> {"none", "ok", "err"}]
  BY DEF TypeOK
<1>1. CASE UNCHANGED vars
  BY <1>1 DEF vars
<1>2. ASSUME NEW c \in Callers, RefreshNow(c) \/ Cancel(c) PROVE OutcomeOK'
  BY <1>0, <1>2 DEF RefreshNow, Cancel, Goto, Leave
<1>3. ASSUME RequestRefresh \/ Tick \/ Notified \/ DropGuard \/ TaskStops
      PROVE  OutcomeOK'
  BY <1>0, <1>3 DEF RequestRefresh, Tick, Notified, DropGuard, TaskStops, Goto, Leave
<1>4. ASSUME NEW p \in Procs, Step(p) PROVE OutcomeOK'
  <2>1. ASSUME Snapshot(p) PROVE OutcomeOK'
    BY <1>0, <2>1 DEF Snapshot, Goto
  <2>2. ASSUME Lock(p) \/ Resume(p) PROVE OutcomeOK'
    BY <1>0, <2>2 DEF Lock, Resume, Goto
  <2>3. ASSUME Coalesce(p) PROVE OutcomeOK'
    BY <1>0, <2>3 DEF Coalesce, Leave
  <2>4. ASSUME StartFetch(p) \/ IdpIssues(p) \/ InstallLifetime(p) PROVE OutcomeOK'
    BY <1>0, <2>4 DEF StartFetch, IdpIssues, InstallLifetime, Goto
  <2>5. ASSUME FetchFails(p) PROVE OutcomeOK'
    BY <1>0, <2>5 DEF FetchFails
  <2>6. ASSUME InstallHeader(p) PROVE OutcomeOK'
    BY <1>0, <2>6 DEF InstallHeader, Goto
  <2>7. ASSUME RecordOutcome(p) PROVE OutcomeOK'
    BY <1>0, <2>7 DEF RecordOutcome
  <2>8. ASSUME Bump(p) PROVE OutcomeOK'
    BY <1>0, <2>8 DEF Bump, Goto
  <2>9. ASSUME Unlock(p) PROVE OutcomeOK'
    BY <1>0, <2>9 DEF Unlock, Leave
  <2> QED
    BY <1>4, <2>1, <2>2, <2>3, <2>4, <2>5, <2>6, <2>7, <2>8, <2>9 DEF Step
<1> QED
  BY <1>1, <1>2, <1>3, <1>4 DEF Next

\* Every variable keeps its type, for any number of tasks.
THEOREM TypeCorrect == Spec => []TypeOK
<1>1. Init => TypeOK /\ OutcomeOK
  BY TypeInit
<1>2. TypeOK /\ OutcomeOK /\ [Next]_vars => (TypeOK /\ OutcomeOK)'
  BY TypeStep, OutcomeStep
<1> QED BY <1>1, <1>2, PTL DEF Spec

-------------------------------------------------------------------------------
(* refresh_lock *)

\* Who is between the comparison of the generations and the release holds the
\* lock; who waits for it is in the queue once, or was just handed the lock.
LockInv ==
  /\ \A p \in Procs : pc[p] \in Critical => holder = p
  /\ holder # Nobody => pc[holder] \in Critical \cup {"waiting"}
  /\ holder = Nobody => Len(queue) = 0
  /\ \A i \in 1..Len(queue) : pc[queue[i]] = "waiting" /\ queue[i] # holder
  /\ \A i, j \in 1..Len(queue) : queue[i] = queue[j] => i = j
  /\ \A p \in Procs :
       pc[p] = "waiting" => p = holder \/ \E i \in 1..Len(queue) : queue[i] = p

LEMMA LockInit == Init => LockInv
BY DEF Init, LockInv, Critical

\* A process moves without taking or leaving the lock or its queue.
LEMMA LockOutside ==
  ASSUME TypeOK, LockInv, NEW p \in Procs, NEW to \in States, UNCHANGED lock,
         pc' = [pc EXCEPT ![p] = to],
         pc[p] \notin Critical \cup {"waiting"},
         to \notin Critical \cup {"waiting"}
  PROVE  LockInv'
<1>1. /\ pc \in [Procs -> States] /\ holder \in Procs \cup {Nobody}
      /\ \A i \in 1..Len(queue) : queue[i] \in Procs
  BY DEF TypeOK
<1>2. \A q \in Procs : pc'[q] = IF q = p THEN to ELSE pc[q]
  BY <1>1
<1>3. holder' = holder /\ queue' = queue
  BY DEF lock
<1>4. \A q \in Procs : pc'[q] \in Critical => holder' = q
  BY <1>2, <1>3 DEF LockInv
<1>5. holder' # Nobody => pc'[holder'] \in Critical \cup {"waiting"}
  BY <1>1, <1>2, <1>3 DEF LockInv
<1>6. \A i \in 1..Len(queue') : pc'[queue'[i]] = "waiting" /\ queue'[i] # holder'
  BY <1>1, <1>2, <1>3 DEF LockInv
<1>7. \A q \in Procs :
        pc'[q] = "waiting" => q = holder' \/ \E i \in 1..Len(queue') : queue'[i] = q
  BY <1>2, <1>3 DEF LockInv
<1> QED BY <1>3, <1>4, <1>5, <1>6, <1>7 DEF LockInv

\* The holder goes on with its attempt.
LEMMA LockInside ==
  ASSUME TypeOK, LockInv, NEW p \in Procs, NEW to \in Critical, UNCHANGED lock,
         pc' = [pc EXCEPT ![p] = to], holder = p
  PROVE  LockInv'
BY DEF TypeOK, LockInv, lock, Critical

\* A process leaves, with the lock or its place in the queue if it has one.
LEMMA LockLeave ==
  ASSUME TypeOK, LockInv, NEW p \in Procs, NEW to \in {"idle", "done"},
         Withdraw(p), pc' = [pc EXCEPT ![p] = to]
  PROVE  LockInv'
<1> USE DEF Critical
<1>0. queue \in Seq(Procs) /\ pc \in [Procs -> States] /\ p # Nobody
  BY ProcsAssumption DEF TypeOK
<1>1. CASE holder = p /\ HandOver /\ queue = <<>>
  BY <1>0, <1>1 DEF HandOver, LockInv
<1>2. CASE holder = p /\ HandOver /\ queue # <<>>
  <2>1. /\ holder' = queue[1] /\ queue[1] \in Procs /\ Len(queue) >= 1
        /\ Len(queue') = Len(queue) - 1
        /\ \A j \in 1..(Len(queue) - 1) : queue'[j] = queue[j + 1]
    BY <1>0, <1>2, TailProperties DEF HandOver
  <2>2. \A q \in Procs : pc[q] \in Critical => q = p
    BY <1>2 DEF LockInv
  <2>3. /\ \A q \in Procs : pc'[q] = IF q = p THEN to ELSE pc[q]
        /\ \A i \in 1..Len(queue) : queue[i] \in Procs
    BY <1>0
  <2>4. \A i \in 1..Len(queue) : pc[queue[i]] = "waiting" /\ queue[i] # p
    BY <1>2 DEF LockInv
  <2>5. /\ \A q \in Procs : pc'[q] \in Critical => holder' = q
        /\ holder' # Nobody /\ pc'[holder'] = "waiting"
    BY <2>1, <2>2, <2>3, <2>4, ProcsAssumption
  <2>6. \A i \in 1..Len(queue') :
          /\ i + 1 \in 1..Len(queue) /\ queue'[i] = queue[i + 1]
    BY <1>0, <2>1
  <2>7. \A i \in 1..Len(queue') : pc'[queue'[i]] = "waiting" /\ queue'[i] # holder'
    <3>1. 1 \in 1..Len(queue)
      BY <1>0, <2>1
    <3>2. \A i \in 1..Len(queue') : queue[i + 1] # queue[1]
      BY <2>6, <3>1 DEF LockInv
    <3> QED BY <2>1, <2>3, <2>4, <2>6, <3>2
  <2>8. \A i, j \in 1..Len(queue') : queue'[i] = queue'[j] => i = j
    BY <2>6 DEF LockInv
  <2>9. ASSUME NEW q \in Procs, pc'[q] = "waiting"
        PROVE  q = holder' \/ \E i \in 1..Len(queue') : queue'[i] = q
    <3>1. PICK i \in 1..Len(queue) : queue[i] = q
      BY <1>2, <2>3, <2>9 DEF LockInv
    <3>2. CASE i = 1
      BY <2>1, <3>1, <3>2
    <3>3. CASE i # 1
      <4>1. i - 1 \in 1..Len(queue') /\ queue'[i - 1] = queue[i]
        BY <1>0, <2>1, <3>3
      <4> QED BY <3>1, <4>1
    <3> QED BY <3>2, <3>3
  <2> QED BY <2>5, <2>7, <2>8, <2>9 DEF LockInv
<1>3. CASE /\ \E i \in DOMAIN queue : queue[i] = p /\ queue' = RemoveAt(queue, i)
           /\ UNCHANGED holder
  <2>1. PICK i \in 1..Len(queue) : queue[i] = p /\ queue' = RemoveAt(queue, i)
    BY <1>0, <1>3
  <2>2. /\ Len(queue') = Len(queue) - 1
        /\ \A j \in 1..(Len(queue) - 1) :
             queue'[j] = IF j < i THEN queue[j] ELSE queue[j + 1]
    BY <1>0, <2>1, RemoveAtProperties
  <2>3. /\ \A q \in Procs : pc'[q] = IF q = p THEN to ELSE pc[q]
        /\ \A j \in 1..Len(queue) : queue[j] \in Procs
    BY <1>0
  <2>4. /\ pc[p] = "waiting" /\ holder # p /\ holder' = holder
        /\ \A j \in 1..Len(queue) : j # i => queue[j] # p
    BY <1>3, <2>1 DEF LockInv
  <2>5. /\ \A q \in Procs : pc'[q] \in Critical => holder' = q
        /\ holder' # Nobody => pc'[holder'] \in Critical \cup {"waiting"}
    <3>1. holder \in Procs \cup {Nobody}
      BY DEF TypeOK
    <3>2. /\ \A q \in Procs : pc[q] \in Critical => holder = q
          /\ holder # Nobody => pc[holder] \in Critical \cup {"waiting"}
      BY DEF LockInv
    <3> QED BY <2>3, <2>4, <3>1, <3>2
  <2>6. holder' = Nobody => Len(queue') = 0
    BY <2>1, <2>4, <2>2, <1>0 DEF LockInv
  <2>7. ASSUME NEW j \in 1..Len(queue')
        PROVE  LET k == IF j < i THEN j ELSE j + 1
               IN  k \in 1..Len(queue) /\ k # i /\ queue'[j] = queue[k]
    BY <1>0, <2>1, <2>2
  <2>8. \A j \in 1..Len(queue') : pc'[queue'[j]] = "waiting" /\ queue'[j] # holder'
    BY <2>3, <2>4, <2>7 DEF LockInv
  <2>9. \A j, k \in 1..Len(queue') : queue'[j] = queue'[k] => j = k
    BY <1>0, <2>1, <2>7 DEF LockInv
  <2>10. ASSUME NEW q \in Procs, pc'[q] = "waiting"
         PROVE  q = holder' \/ \E j \in 1..Len(queue') : queue'[j] = q
    <3>1. CASE q = holder
      BY <2>4, <3>1
    <3>2. CASE q # holder
      <4>1. PICK k \in 1..Len(queue) : queue[k] = q
        BY <2>3, <2>10, <3>2 DEF LockInv
      <4>2. q # p /\ k # i
        BY <2>1, <2>3, <2>10, <4>1
      <4>3. CASE k < i
        BY <1>0, <2>1, <2>2, <4>1, <4>3
      <4>4. CASE k > i
        <5>1. k - 1 \in 1..Len(queue') /\ ~(k - 1 < i) /\ (k - 1) + 1 = k
          BY <1>0, <2>1, <2>2, <4>4
        <5> QED BY <2>2, <4>1, <5>1
      <4> QED BY <4>2, <4>3, <4>4
    <3> QED BY <3>1, <3>2
  <2> QED BY <2>5, <2>6, <2>8, <2>9, <2>10 DEF LockInv
<1>4. CASE holder # p /\ p \notin ToSet(queue) /\ UNCHANGED lock
  <2>1. \A i \in 1..Len(queue) : queue[i] # p
    BY <1>0, <1>4 DEF ToSet
  <2> QED BY <1>0, <1>4, <2>1 DEF LockInv, lock
<1> QED BY <1>1, <1>2, <1>3, <1>4 DEF Withdraw

LEMMA LockStep == TypeOK /\ LockInv /\ [Next]_vars => LockInv'
<1> SUFFICES ASSUME TypeOK, LockInv, [Next]_vars PROVE LockInv'
  OBVIOUS
<1> USE DEF lock
<1>1. CASE UNCHANGED vars
  BY <1>1 DEF LockInv, vars
<1>2. ASSUME NEW c \in Callers, RefreshNow(c) PROVE LockInv'
  BY <1>2, LockOutside DEF RefreshNow, Goto, Critical, States, Procs
<1>3. ASSUME NEW c \in Callers, Cancel(c) PROVE LockInv'
  BY <1>3, LockLeave DEF Cancel, Leave, Procs
<1>4. ASSUME RequestRefresh \/ DropGuard PROVE LockInv'
  BY <1>4 DEF RequestRefresh, DropGuard, LockInv
<1>5. ASSUME Tick \/ Notified PROVE LockInv'
  BY <1>5, LockOutside DEF Tick, Notified, Goto, Critical, States, Procs
<1>6. ASSUME TaskStops PROVE LockInv'
  BY <1>6, LockLeave DEF TaskStops, Leave, Procs
<1>7. ASSUME NEW p \in Procs, Snapshot(p) PROVE LockInv'
  BY <1>7, LockOutside DEF Snapshot, Goto, Critical, States
<1>8. ASSUME NEW p \in Procs, Lock(p) PROVE LockInv'
  <2>1. CASE holder = Nobody
    <3>1. /\ holder' = p /\ queue' = queue /\ Len(queue) = 0
          /\ pc' = [pc EXCEPT ![p] = "locked"] /\ p # Nobody
      BY <1>8, <2>1, ProcsAssumption DEF Lock, Goto, LockInv
    <3>2. \A q \in Procs : pc[q] \notin Critical \cup {"waiting"}
      BY <2>1, <3>1, ProcsAssumption DEF LockInv
    <3> QED BY <3>1, <3>2 DEF LockInv, TypeOK, Critical
  <2>2. CASE holder # Nobody
    <3>1. /\ holder' = holder /\ queue' = Append(queue, p)
          /\ pc' = [pc EXCEPT ![p] = "waiting"] /\ pc[p] = "snapped"
          /\ queue \in Seq(Procs) /\ holder \in Procs
      BY <1>8, <2>2 DEF Lock, Goto, TypeOK
    <3>2. /\ Len(queue') = Len(queue) + 1 /\ queue'[Len(queue) + 1] = p
          /\ \A i \in 1..Len(queue) : queue'[i] = queue[i]
      BY <3>1
    <3>3. p # holder /\ \A i \in 1..Len(queue) : queue[i] # p
      BY <2>2, <3>1 DEF LockInv, Critical
    <3>4. \A q \in Procs : pc'[q] = IF q = p THEN "waiting" ELSE pc[q]
      BY <3>1 DEF TypeOK
    <3>5. \A i \in 1..Len(queue) : queue[i] \in Procs
      BY <3>1
    <3>6. /\ \A q \in Procs : pc'[q] \in Critical => holder' = q
          /\ holder' # Nobody => pc'[holder'] \in Critical \cup {"waiting"}
          /\ holder' = Nobody => Len(queue') = 0
      BY <2>2, <3>1, <3>3, <3>4 DEF LockInv, Critical
    <3>7. \A i \in 1..Len(queue') : pc'[queue'[i]] = "waiting" /\ queue'[i] # holder'
      BY <3>1, <3>2, <3>3, <3>4, <3>5 DEF LockInv
    <3>8. \A i, j \in 1..Len(queue') : queue'[i] = queue'[j] => i = j
      BY <3>1, <3>2, <3>3 DEF LockInv
    <3>9. ASSUME NEW q \in Procs, pc'[q] = "waiting"
          PROVE  q = holder' \/ \E i \in 1..Len(queue') : queue'[i] = q
      BY <3>1, <3>2, <3>4, <3>9 DEF LockInv
    <3> QED BY <3>6, <3>7, <3>8, <3>9 DEF LockInv
  <2> QED BY <2>1, <2>2
<1>9. ASSUME NEW p \in Procs, Resume(p) PROVE LockInv'
  BY <1>9, LockInside DEF Resume, Goto, Critical
<1>10. ASSUME NEW p \in Procs,
              StartFetch(p) \/ IdpIssues(p) \/ FetchFails(p) \/ InstallLifetime(p)
                \/ InstallHeader(p) \/ RecordOutcome(p) \/ Bump(p)
       PROVE  LockInv'
  <2>1. holder = p
    BY <1>10 DEF LockInv, Critical, StartFetch, IdpIssues, FetchFails,
       InstallLifetime, InstallHeader, RecordOutcome, Bump, Goto
  <2>2. PICK to \in Critical : pc' = [pc EXCEPT ![p] = to] /\ UNCHANGED lock
    BY <1>10 DEF Critical, StartFetch, IdpIssues, FetchFails, InstallLifetime,
       InstallHeader, RecordOutcome, Bump, Goto
  <2> QED BY <2>1, <2>2, LockInside
<1>11. ASSUME NEW p \in Procs, Coalesce(p) \/ Unlock(p) PROVE LockInv'
  <2>1. holder = p
    BY <1>11 DEF LockInv, Critical, Coalesce, Unlock
  <2> QED BY <1>11, <2>1, LockLeave DEF Coalesce, Unlock, Leave, Withdraw
<1> QED
  BY <1>1, <1>2, <1>3, <1>4, <1>5, <1>6, <1>7, <1>8, <1>9, <1>10, <1>11
  DEF Next, Step

-------------------------------------------------------------------------------
(* Tokens *)

\* The token in flight is newer than the cached one and is written to both
\* places, so between two attempts the recorded lifetime is the header's.
TokenInv ==
  /\ header <= issued
  /\ \A p \in Procs :
       pc[p] \in {"answered", "installing"} => header < token[p] /\ token[p] <= issued
  /\ \A p \in Procs : pc[p] = "installing" => lifetime = token[p]
  /\ LifetimeDescribesHeaderOutsideInstall

LEMMA TokenInit == Init => TokenInv
BY DEF Init, TokenInv, LifetimeDescribesHeaderOutsideInstall

LEMMA TokenStep == TypeOK /\ LockInv /\ TokenInv /\ [Next]_vars => TokenInv'
<1> SUFFICES ASSUME TypeOK, LockInv, TokenInv, [Next]_vars PROVE TokenInv'
  OBVIOUS
<1> USE DEF manager, lock, locals, bounds, environment, history,
            TokenInv, LifetimeDescribesHeaderOutsideInstall
<1>0. \A p, q \in Procs : pc[p] \in Critical /\ pc[q] \in Critical => p = q
  BY DEF LockInv
<1>1. CASE UNCHANGED vars
  BY <1>1 DEF vars
<1>2. ASSUME NEW p \in Procs, NEW to \in States \ {"answered", "installing"},
             pc' = [pc EXCEPT ![p] = to], pc[p] # "installing",
             UNCHANGED <<header, lifetime, issued>>,
             \A q \in Procs : q # p => token'[q] = token[q]
      PROVE  TokenInv'
  BY <1>2 DEF TypeOK
<1>3. ASSUME NEW c \in Callers, RefreshNow(c) PROVE TokenInv'
  BY <1>2, <1>3 DEF RefreshNow, Goto, States, Procs
<1>4. ASSUME NEW p \in Procs, Leave(p, "idle"), pc[p] # "installing",
             UNCHANGED <<manager, environment>>
      PROVE  TokenInv'
  BY <1>2, <1>4 DEF Leave, States, TypeOK
<1>5. ASSUME NEW c \in Callers, Cancel(c) PROVE TokenInv'
  BY <1>4, <1>5 DEF Cancel, Procs
<1>6. ASSUME NEW p \in Procs, Coalesce(p) \/ Unlock(p) PROVE TokenInv'
  BY <1>4, <1>6 DEF Coalesce, Unlock
<1>7. ASSUME RequestRefresh \/ DropGuard PROVE TokenInv'
  BY <1>7 DEF RequestRefresh, DropGuard
<1>8. ASSUME Tick \/ Notified PROVE TokenInv'
  BY <1>2, <1>8 DEF Tick, Notified, Goto, States, Procs
<1>9. ASSUME TaskStops PROVE TokenInv'
  BY <1>2, <1>9 DEF TaskStops, Leave, States, Procs, TypeOK
<1>10. ASSUME NEW p \in Procs,
              Snapshot(p) \/ Resume(p) \/ StartFetch(p) \/ FetchFails(p)
                \/ RecordOutcome(p) \/ Bump(p)
       PROVE  TokenInv'
  BY <1>2, <1>10 DEF Snapshot, Resume, StartFetch, FetchFails, RecordOutcome,
     Bump, Goto, States
<1>11. ASSUME NEW p \in Procs, Lock(p) PROVE TokenInv'
  BY <1>2, <1>11 DEF Lock, Goto, States
<1>12. ASSUME NEW p \in Procs, IdpIssues(p) PROVE TokenInv'
  BY <1>0, <1>12 DEF IdpIssues, Goto, TypeOK, Critical
<1>13. ASSUME NEW p \in Procs, InstallLifetime(p) PROVE TokenInv'
  BY <1>0, <1>13 DEF InstallLifetime, Goto, TypeOK, Critical
<1>14. ASSUME NEW p \in Procs, InstallHeader(p) PROVE TokenInv'
  BY <1>0, <1>14 DEF InstallHeader, Goto, TypeOK, Critical
<1> QED
  BY <1>1, <1>3, <1>5, <1>6, <1>7, <1>8, <1>9, <1>10, <1>11, <1>12, <1>13, <1>14
  DEF Next, Step

-------------------------------------------------------------------------------
(* Attempts and their outcomes *)

Attempting == {"fetching", "answered", "installing", "installed", "failed",
               "recorded"}

\* The generation the holder of the lock compared with stays current until it
\* completes its own attempt, and what is recorded of the latest attempt is
\* what it came to.
AttemptInv ==
  /\ completed = generation
  /\ \A p \in Procs :
       /\ observed[p] <= generation
       /\ pc[p] \in Closed => observed[p] = 0
       /\ pc[p] \in Attempting => observed[p] = generation
       /\ pc[p] = "bumped" => observed[p] < generation /\ outcome[p] = lastOutcome
       /\ pc[p] \in {"snapped", "waiting", "locked", "fetching", "answered",
                     "installing"} => outcome[p] = "none"
       /\ pc[p] = "installed" => outcome[p] = "ok"
       /\ pc[p] = "failed" => outcome[p] = "err"
       /\ pc[p] = "recorded" => (lastAttemptFailure <=> outcome[p] = "err")
  /\ (\A p \in Procs : pc[p] # "recorded") =>
       (lastAttemptFailure <=> lastOutcome = "err")

LEMMA AttemptInit == Init => AttemptInv
BY DEF Init, AttemptInv, Attempting, Closed

LEMMA AttemptStep ==
  TypeOK /\ OutcomeOK /\ LockInv /\ AttemptInv /\ [Next]_vars => AttemptInv'
<1> SUFFICES ASSUME TypeOK, OutcomeOK, LockInv, AttemptInv, [Next]_vars
             PROVE  AttemptInv'
  OBVIOUS
<1> USE DEF manager, lock, locals, bounds, environment, history, AttemptInv,
            Attempting, Closed
<1>0. \A p, q \in Procs : pc[p] \in Critical /\ pc[q] \in Critical => p = q
  BY DEF LockInv
<1>1. CASE UNCHANGED vars
  BY <1>1 DEF vars
<1>2. ASSUME NEW p \in Procs, NEW to \in {"idle", "begin", "done"},
             pc' = [pc EXCEPT ![p] = to], pc[p] # "recorded",
             observed'[p] = 0,
             \A q \in Procs : q # p => observed'[q] = observed[q],
             UNCHANGED <<manager, outcome, history>>
      PROVE  AttemptInv'
  BY <1>2 DEF TypeOK
<1>3. ASSUME RequestRefresh \/ DropGuard PROVE AttemptInv'
  BY <1>3 DEF RequestRefresh, DropGuard
<1>4. CASE \/ \E c \in Callers : RefreshNow(c) \/ Cancel(c)
           \/ Tick \/ Notified \/ TaskStops
  <2>1. ASSUME NEW c \in Callers, RefreshNow(c) PROVE AttemptInv'
    BY <1>2, <2>1 DEF RefreshNow, Goto, Procs
  <2>2. ASSUME NEW c \in Callers, Cancel(c) PROVE AttemptInv'
    BY <1>2, <2>2 DEF Cancel, Leave, Procs, TypeOK
  <2>3. ASSUME Tick \/ Notified PROVE AttemptInv'
    BY <1>2, <2>3 DEF Tick, Notified, Goto, Procs
  <2>4. ASSUME TaskStops PROVE AttemptInv'
    BY <1>2, <2>4 DEF TaskStops, Leave, Procs, TypeOK
  <2> QED BY <1>4, <2>1, <2>2, <2>3, <2>4
<1>5. ASSUME NEW p \in Procs, Snapshot(p) PROVE AttemptInv'
  BY <1>5 DEF Snapshot, Goto, TypeOK
<1>6. ASSUME NEW p \in Procs, Lock(p) PROVE AttemptInv'
  BY <1>6 DEF Lock, Goto, TypeOK
<1>7. ASSUME NEW p \in Procs, Resume(p) PROVE AttemptInv'
  BY <1>7 DEF Resume, Goto, TypeOK
<1>8. ASSUME NEW p \in Procs, StartFetch(p) PROVE AttemptInv'
  BY <1>8 DEF StartFetch, Goto, TypeOK
<1>9. ASSUME NEW p \in Procs, IdpIssues(p) PROVE AttemptInv'
  BY <1>9 DEF IdpIssues, Goto, TypeOK
<1>10. ASSUME NEW p \in Procs, FetchFails(p) PROVE AttemptInv'
  BY <1>10 DEF FetchFails, Goto, TypeOK
<1>11. ASSUME NEW p \in Procs, InstallLifetime(p) PROVE AttemptInv'
  BY <1>11 DEF InstallLifetime, Goto, TypeOK
<1>12. ASSUME NEW p \in Procs, InstallHeader(p) PROVE AttemptInv'
  BY <1>12 DEF InstallHeader, Goto, TypeOK
<1>13. ASSUME NEW p \in Procs, RecordOutcome(p) PROVE AttemptInv'
  BY <1>0, <1>13 DEF RecordOutcome, Goto, TypeOK, Critical, OutcomeOK
<1>14. ASSUME NEW p \in Procs, Bump(p) PROVE AttemptInv'
  BY <1>0, <1>14 DEF Bump, Goto, TypeOK, Critical, OutcomeOK
<1>15. ASSUME NEW p \in Procs, Coalesce(p) PROVE AttemptInv'
  BY <1>0, <1>15 DEF Coalesce, Leave, TypeOK, Critical, OutcomeOK
<1>16. ASSUME NEW p \in Procs, Unlock(p) PROVE AttemptInv'
  BY <1>16 DEF Unlock, Leave, TypeOK
<1> QED
  BY <1>1, <1>3, <1>4, <1>5, <1>6, <1>7, <1>8, <1>9, <1>10, <1>11, <1>12, <1>13,
     <1>14, <1>15, <1>16 DEF Next, Step

-------------------------------------------------------------------------------
(* Waiting *)

\* Once an attempt has completed since a process joined the queue, nobody
\* ahead of it has a current snapshot any more: they are all answered from
\* that attempt, and so is the process.
WaitInv ==
  /\ \A i \in 1..Len(queue) :
       /\ completed <= enqueuedAt[queue[i]] + 1
       /\ completed = enqueuedAt[queue[i]] + 1 =>
            /\ pc[holder] = "bumped" \/ observed[holder] < generation
            /\ \A j \in 1..(i - 1) : observed[queue[j]] < generation
  /\ holder # Nobody /\ pc[holder] = "waiting" =>
       completed <= enqueuedAt[holder] + 1

LEMMA WaitInit == Init => WaitInv
BY DEF Init, WaitInv

\* Nobody takes or leaves the lock and no attempt completes.
LEMMA WaitStay ==
  ASSUME TypeOK, LockInv, WaitInv, UNCHANGED <<lock, generation, completed>>,
         \A q \in Procs :
           /\ pc[q] \in Critical \cup {"waiting"} =>
                observed'[q] = observed[q] /\ enqueuedAt'[q] = enqueuedAt[q]
           /\ pc[q] = "bumped" => pc'[q] = "bumped"
           /\ pc'[q] = "waiting" => pc[q] = "waiting"
  PROVE  WaitInv'
<1>1. \A i \in 1..Len(queue) : queue[i] \in Procs /\ pc[queue[i]] = "waiting"
  <2>1. \A i \in 1..Len(queue) : queue[i] \in Procs
    BY DEF TypeOK
  <2>2. \A i \in 1..Len(queue) : pc[queue[i]] = "waiting"
    BY DEF LockInv
  <2> QED BY <2>1, <2>2
<1>2. \A i \in 1..Len(queue) :
        /\ enqueuedAt'[queue[i]] = enqueuedAt[queue[i]]
        /\ observed'[queue[i]] = observed[queue[i]]
  BY <1>1
<1>3. ASSUME NEW i \in 1..Len(queue) PROVE holder \in Procs
  BY <1>3 DEF TypeOK, LockInv
<1>4. holder \in Procs =>
        /\ pc[holder] \in Critical \cup {"waiting"}
        /\ observed'[holder] = observed[holder]
        /\ enqueuedAt'[holder] = enqueuedAt[holder]
        /\ pc[holder] = "bumped" => pc'[holder] = "bumped"
        /\ pc'[holder] = "waiting" => pc[holder] = "waiting"
  BY ProcsAssumption DEF LockInv
<1>5. ASSUME NEW i \in 1..Len(queue),
             completed = enqueuedAt[queue[i]] + 1
      PROVE  /\ pc'[holder] = "bumped" \/ observed'[holder] < generation
             /\ \A j \in 1..(i - 1) : observed'[queue[j]] < generation
  <2>1. pc[holder] = "bumped" \/ observed[holder] < generation
    BY <1>5 DEF WaitInv
  <2>2. ASSUME NEW j \in 1..(i - 1) PROVE observed'[queue[j]] < generation
    <3>1. j \in 1..Len(queue)
      BY DEF TypeOK
    <3> QED BY <1>2, <1>5, <3>1 DEF WaitInv
  <2> QED BY <1>3, <1>4, <2>1, <2>2
<1>6. \A i \in 1..Len(queue) : completed <= enqueuedAt'[queue[i]] + 1
  BY <1>2 DEF WaitInv
<1>7. holder # Nobody /\ pc'[holder] = "waiting" =>
        completed <= enqueuedAt'[holder] + 1
  BY <1>4 DEF WaitInv, TypeOK
<1> QED
  BY <1>2, <1>5, <1>6, <1>7 DEF WaitInv, lock

\* The lock, or a place in the queue, is given up.
LEMMA WaitLeave ==
  ASSUME TypeOK, LockInv, WaitInv, NEW p \in Procs, NEW to \in {"idle", "done"},
         Withdraw(p), Leave(p, to), UNCHANGED <<generation, completed>>
  PROVE  WaitInv'
<1>0. /\ queue \in Seq(Procs) /\ pc \in [Procs -> States]
      /\ observed \in [Procs -> Nat] /\ enqueuedAt \in [Procs -> Nat]
      /\ generation \in Nat /\ completed \in Nat /\ p # Nobody
      /\ \A i \in 1..Len(queue) : queue[i] \in Procs
  BY ProcsAssumption DEF TypeOK
<1>1. /\ \A q \in Procs : q # p =>
             pc'[q] = pc[q] /\ observed'[q] = observed[q] /\ enqueuedAt'[q] = enqueuedAt[q]
      /\ pc'[p] = to
  BY <1>0 DEF Leave
<1>2. CASE holder = p /\ HandOver /\ queue = <<>>
  <2>1. Len(queue') = 0 /\ holder' = Nobody
    BY <1>2 DEF HandOver
  <2> QED BY <2>1 DEF WaitInv
<1>3. CASE holder = p /\ HandOver /\ queue # <<>>
  <2>1. /\ holder' = queue[1] /\ queue[1] \in Procs /\ Len(queue) >= 1
        /\ Len(queue') = Len(queue) - 1
        /\ \A j \in 1..(Len(queue) - 1) : queue'[j] = queue[j + 1]
    <3>1. /\ holder' = Head(queue) /\ queue' = Tail(queue)
          /\ queue \in Seq(Procs) /\ queue # <<>>
      BY <1>0, <1>3 DEF HandOver
    <3> QED BY <3>1, TailProperties
  <2>2. \A i \in 1..Len(queue) : queue[i] # p
    BY <1>3 DEF LockInv
  <2>3. 1 \in 1..Len(queue) /\ completed <= enqueuedAt[queue[1]] + 1
    BY <1>0, <2>1 DEF WaitInv
  <2>4. ASSUME NEW i \in 1..Len(queue')
        PROVE  i + 1 \in 1..Len(queue) /\ queue'[i] = queue[i + 1]
    BY <1>0, <2>1
  <2>5. ASSUME NEW i \in 1..Len(queue')
        PROVE  /\ completed' <= enqueuedAt'[queue'[i]] + 1
               /\ completed' = enqueuedAt'[queue'[i]] + 1 =>
                    /\ observed'[holder'] < generation'
                    /\ \A j \in 1..(i - 1) : observed'[queue'[j]] < generation'
    <3>1. /\ queue'[i] = queue[i + 1] /\ i + 1 \in 1..Len(queue)
          /\ enqueuedAt'[queue'[i]] = enqueuedAt[queue[i + 1]]
      BY <1>0, <1>1, <2>2, <2>4
    <3>2. ASSUME completed = enqueuedAt[queue[i + 1]] + 1
          PROVE  \A j \in 1..i : observed'[queue[j]] < generation
      <4>1. \A j \in 1..((i + 1) - 1) : observed[queue[j]] < generation
        BY <3>1, <3>2 DEF WaitInv
      <4>2. \A j \in 1..i : j \in 1..Len(queue) /\ j \in 1..((i + 1) - 1)
        <5>1. Len(queue) \in Nat /\ i + 1 \in 1..Len(queue) /\ i \in Nat
          BY <1>0, <2>1, <3>1
        <5> QED BY <5>1
      <4> QED BY <1>0, <1>1, <2>2, <4>1, <4>2
    <3>3. ASSUME NEW j \in 1..(i - 1)
          PROVE  j + 1 \in 1..i /\ queue'[j] = queue[j + 1]
      <4>1. j + 1 \in 1..i /\ j \in 1..Len(queue')
        <5>1. Len(queue') \in Nat
          BY <1>0, <2>1
        <5> QED BY <5>1
      <4> QED BY <2>4, <4>1
    <3>4. completed <= enqueuedAt[queue[i + 1]] + 1
      BY <3>1 DEF WaitInv
    <3>5. holder' = queue[1] /\ 1 \in 1..i
      BY <1>0, <2>1
    <3> QED BY <3>1, <3>2, <3>3, <3>4, <3>5
  <2>6. completed' <= enqueuedAt'[holder'] + 1
    BY <1>1, <2>1, <2>2, <2>3
  <2> QED BY <2>5, <2>6 DEF WaitInv
<1>4. CASE /\ \E i \in DOMAIN queue : queue[i] = p /\ queue' = RemoveAt(queue, i)
           /\ UNCHANGED holder
  <2>1. PICK k \in 1..Len(queue) : queue[k] = p /\ queue' = RemoveAt(queue, k)
    BY <1>0, <1>4
  <2>2. /\ Len(queue') = Len(queue) - 1
        /\ \A j \in 1..(Len(queue) - 1) :
             queue'[j] = IF j < k THEN queue[j] ELSE queue[j + 1]
    BY <1>0, <2>1, RemoveAtProperties
  <2>3. /\ holder' = holder /\ holder # p /\ holder \in Procs
        /\ \A j \in 1..Len(queue) : j # k => queue[j] # p
    <3>1. holder' = holder /\ holder # p /\ pc[p] = "waiting"
      BY <1>4, <2>1 DEF LockInv
    <3>2. holder # Nobody
      BY <1>0, <2>1 DEF LockInv
    <3>3. \A j \in 1..Len(queue) : j # k => queue[j] # p
      BY <2>1 DEF LockInv
    <3> QED BY <3>1, <3>2, <3>3 DEF TypeOK
  <2> DEFINE At(j) == IF j < k THEN j ELSE j + 1
  <2>4. ASSUME NEW j \in 1..Len(queue')
        PROVE  /\ At(j) \in 1..Len(queue) /\ queue'[j] = queue[At(j)]
               /\ queue[At(j)] # p /\ queue[At(j)] \in Procs
               /\ \A i \in 1..(j - 1) : At(i) \in 1..(At(j) - 1)
    <3>1. /\ At(j) \in 1..Len(queue) /\ At(j) # k
          /\ \A i \in 1..(j - 1) : At(i) \in 1..(At(j) - 1)
      <4>1. /\ Len(queue) \in Nat /\ k \in 1..Len(queue) /\ j \in Nat /\ j >= 1
            /\ j <= Len(queue) - 1
        BY <1>0, <2>1, <2>2
      <4>2. At(j) \in 1..Len(queue) /\ At(j) # k
        BY <4>1
      <4>3. ASSUME NEW i \in 1..(j - 1) PROVE At(i) \in 1..(At(j) - 1)
        BY <4>1
      <4> QED BY <4>2, <4>3
    <3>2. queue'[j] = queue[At(j)]
      BY <1>0, <2>1, <2>2
    <3> QED BY <1>0, <2>3, <3>1, <3>2
  <2>5. ASSUME NEW j \in 1..Len(queue')
        PROVE  /\ completed' <= enqueuedAt'[queue'[j]] + 1
               /\ completed' = enqueuedAt'[queue'[j]] + 1 =>
                    /\ pc'[holder'] = "bumped" \/ observed'[holder'] < generation'
                    /\ \A i \in 1..(j - 1) : observed'[queue'[i]] < generation'
    <3>1. enqueuedAt'[queue'[j]] = enqueuedAt[queue[At(j)]] /\ At(j) \in 1..Len(queue)
      BY <1>1, <2>4
    <3> HIDE DEF At
    <3>2. ASSUME completed = enqueuedAt[queue[At(j)]] + 1
          PROVE  /\ pc'[holder'] = "bumped" \/ observed'[holder'] < generation
                 /\ \A i \in 1..(j - 1) : observed'[queue'[i]] < generation
      <4>1. pc[holder] = "bumped" \/ observed[holder] < generation
        BY <3>1, <3>2 DEF WaitInv
      <4>2. \A i \in 1..(At(j) - 1) : observed[queue[i]] < generation
        BY <3>1, <3>2 DEF WaitInv
      <4>3. ASSUME NEW i \in 1..(j - 1) PROVE observed'[queue'[i]] < generation
        <5>1. i \in 1..Len(queue') /\ At(i) \in 1..(At(j) - 1)
          <6>1. Len(queue') \in Nat
            BY <1>0, <2>1, <2>2
          <6>2. i \in 1..Len(queue')
            BY <6>1
          <6> QED BY <2>4, <6>2
        <5>2. queue'[i] = queue[At(i)] /\ queue[At(i)] # p /\ queue[At(i)] \in Procs
          BY <2>4, <5>1
        <5> QED BY <1>1, <4>2, <5>1, <5>2
      <4> QED BY <1>1, <2>3, <4>1, <4>3
    <3> QED BY <3>1, <3>2 DEF WaitInv
  <2>6. holder' # Nobody /\ pc'[holder'] = "waiting" =>
          completed' <= enqueuedAt'[holder'] + 1
    BY <1>1, <2>3 DEF WaitInv
  <2> QED BY <2>5, <2>6 DEF WaitInv
<1>5. CASE holder # p /\ p \notin ToSet(queue) /\ UNCHANGED lock
  <2>1. \A i \in 1..Len(queue) : queue[i] # p
    BY <1>0, <1>5 DEF ToSet
  <2>2. holder' = holder /\ queue' = queue
    BY <1>5 DEF lock
  <2>3. ASSUME NEW i \in 1..Len(queue)
        PROVE  /\ enqueuedAt'[queue[i]] = enqueuedAt[queue[i]]
               /\ observed'[queue[i]] = observed[queue[i]]
               /\ holder \in Procs
    <3>1. queue[i] \in Procs /\ queue[i] # p
      BY <1>0, <2>1
    <3>2. holder # Nobody
      BY <1>0 DEF LockInv
    <3> QED BY <1>1, <3>1, <3>2 DEF TypeOK
  <2>4. holder \in Procs =>
          /\ pc'[holder] = pc[holder] /\ observed'[holder] = observed[holder]
          /\ enqueuedAt'[holder] = enqueuedAt[holder]
    BY <1>1, <1>5
  <2>5. ASSUME NEW i \in 1..Len(queue), completed = enqueuedAt[queue[i]] + 1,
               NEW j \in 1..(i - 1)
        PROVE  observed'[queue[j]] < generation
    <3>1. j \in 1..Len(queue)
      BY <1>0
    <3> QED BY <2>3, <2>5, <3>1 DEF WaitInv
  <2>6. holder # Nobody => holder \in Procs
    BY DEF TypeOK
  <2> QED BY <2>2, <2>3, <2>4, <2>5, <2>6 DEF WaitInv
<1> QED BY <1>2, <1>3, <1>4, <1>5 DEF Withdraw

LEMMA WaitStep ==
  TypeOK /\ LockInv /\ AttemptInv /\ WaitInv /\ [Next]_vars => WaitInv'
<1> SUFFICES ASSUME TypeOK, LockInv, AttemptInv, WaitInv, [Next]_vars
             PROVE  WaitInv'
  OBVIOUS
<1> USE DEF manager, lock, locals, bounds, environment, history
<1>1. CASE UNCHANGED vars
  BY <1>1, WaitStay DEF vars
<1>2. ASSUME NEW c \in Callers, RefreshNow(c) PROVE WaitInv'
  BY <1>2, WaitStay DEF RefreshNow, Goto, TypeOK, Procs
<1>3. ASSUME NEW c \in Callers, Cancel(c) PROVE WaitInv'
  BY <1>3, WaitLeave DEF Cancel, Procs
<1>4. ASSUME RequestRefresh \/ DropGuard PROVE WaitInv'
  BY <1>4, WaitStay DEF RequestRefresh, DropGuard
<1>5. ASSUME Tick \/ Notified PROVE WaitInv'
  BY <1>5, WaitStay DEF Tick, Notified, Goto, TypeOK, Procs
<1>6. ASSUME TaskStops PROVE WaitInv'
  BY <1>6, WaitLeave DEF TaskStops, Procs
<1>7. ASSUME NEW p \in Procs, Snapshot(p) PROVE WaitInv'
  BY <1>7, WaitStay DEF Snapshot, Goto, TypeOK, Critical
<1>8. ASSUME NEW p \in Procs, Lock(p) PROVE WaitInv'
  <2>1. CASE holder = Nobody
    <3>1. /\ Len(queue') = 0 /\ holder' = p /\ pc'[p] = "locked"
      BY <1>8, <2>1 DEF Lock, Goto, LockInv, TypeOK
    <3> QED BY <3>1 DEF WaitInv
  <2>2. CASE holder # Nobody
    <3>1. /\ holder' = holder /\ queue' = Append(queue, p)
          /\ pc' = [pc EXCEPT ![p] = "waiting"] /\ pc[p] = "snapped"
          /\ queue \in Seq(Procs) /\ holder \in Procs
          /\ enqueuedAt' = [enqueuedAt EXCEPT ![p] = completed]
          /\ UNCHANGED <<observed, generation, completed>>
      BY <1>8, <2>2 DEF Lock, Goto, TypeOK
    <3>2. /\ Len(queue') = Len(queue) + 1 /\ queue'[Len(queue) + 1] = p
          /\ \A i \in 1..Len(queue) : queue'[i] = queue[i] /\ queue[i] \in Procs
      BY <3>1
    <3>3. p # holder /\ \A i \in 1..Len(queue) : queue[i] # p
      BY <2>2, <3>1 DEF LockInv, Critical
    <3>4. \A q \in Procs : q # p => pc'[q] = pc[q] /\ enqueuedAt'[q] = enqueuedAt[q]
      BY <3>1 DEF TypeOK
    <3>5. enqueuedAt'[p] = completed /\ completed \in Nat
      BY <3>1 DEF TypeOK
    <3>6. ASSUME NEW i \in 1..Len(queue')
          PROVE  /\ completed' <= enqueuedAt'[queue'[i]] + 1
                 /\ completed' = enqueuedAt'[queue'[i]] + 1 =>
                      /\ pc'[holder'] = "bumped" \/ observed'[holder'] < generation'
                      /\ \A j \in 1..(i - 1) : observed'[queue'[j]] < generation'
      <4>1. CASE i = Len(queue) + 1
        BY <3>1, <3>2, <3>5, <4>1
      <4>2. CASE i # Len(queue) + 1
        <5>1. i \in 1..Len(queue) /\ queue'[i] = queue[i]
          BY <3>1, <3>2, <4>2
        <5>2. enqueuedAt'[queue'[i]] = enqueuedAt[queue[i]]
          BY <3>2, <3>3, <3>4, <5>1
        <5>3. \A j \in 1..(i - 1) : queue'[j] = queue[j]
          BY <3>1, <3>2, <5>1
        <5> QED BY <3>1, <3>3, <3>4, <5>1, <5>2, <5>3 DEF WaitInv
      <4> QED BY <4>1, <4>2
    <3>7. holder' # Nobody /\ pc'[holder'] = "waiting" =>
            completed' <= enqueuedAt'[holder'] + 1
      BY <3>1, <3>3, <3>4 DEF WaitInv
    <3> QED BY <3>6, <3>7 DEF WaitInv
  <2> QED BY <2>1, <2>2
<1>9. ASSUME NEW p \in Procs,
             \/ Resume(p) \/ StartFetch(p) \/ IdpIssues(p) \/ FetchFails(p)
             \/ InstallLifetime(p) \/ InstallHeader(p) \/ RecordOutcome(p)
      PROVE  WaitInv'
  BY <1>9, WaitStay DEF Resume, StartFetch, IdpIssues, FetchFails,
     InstallLifetime, InstallHeader, RecordOutcome, Goto, TypeOK
<1>10. ASSUME NEW p \in Procs, Bump(p) PROVE WaitInv'
  <2>1. /\ pc[p] = "recorded" /\ pc' = [pc EXCEPT ![p] = "bumped"]
        /\ UNCHANGED <<holder, queue, observed, enqueuedAt>>
        /\ generation' = generation + 1 /\ completed' = completed + 1
    BY <1>10 DEF Bump, Goto
  <2>2. holder = p /\ observed[p] = generation /\ pc'[holder] = "bumped"
    BY <2>1 DEF LockInv, AttemptInv, Critical, Attempting, TypeOK
  <2>3. /\ \A q \in Procs : observed[q] < generation + 1
        /\ queue \in Seq(Procs) /\ generation \in Nat /\ completed \in Nat
        /\ enqueuedAt \in [Procs -> Nat]
    BY DEF AttemptInv, TypeOK
  <2>4. ASSUME NEW i \in 1..Len(queue) PROVE completed' <= enqueuedAt[queue[i]] + 1
    <3>1. enqueuedAt[queue[i]] \in Nat
      BY <2>3
    <3>2. completed <= enqueuedAt[queue[i]] + 1
      BY DEF WaitInv
    <3>3. completed # enqueuedAt[queue[i]] + 1
      BY <2>1, <2>2, <2>3 DEF WaitInv
    <3> QED BY <2>1, <2>3, <3>1, <3>2, <3>3
  <2>5. ASSUME NEW i \in 1..Len(queue), NEW j \in 1..(i - 1)
        PROVE  observed[queue[j]] < generation + 1
    <3>1. j \in 1..Len(queue)
      BY <2>3
    <3> QED BY <2>3, <3>1
  <2> QED BY <2>1, <2>2, <2>4, <2>5 DEF WaitInv
<1>11. ASSUME NEW p \in Procs, Coalesce(p) \/ Unlock(p) PROVE WaitInv'
  <2>1. holder = p
    BY <1>11 DEF LockInv, Critical, Coalesce, Unlock
  <2> QED BY <1>11, <2>1, WaitLeave DEF Coalesce, Unlock, Withdraw
<1> QED
  BY <1>1, <1>2, <1>3, <1>4, <1>5, <1>6, <1>7, <1>8, <1>9, <1>10, <1>11
  DEF Next, Step

-------------------------------------------------------------------------------
(* The theorems *)

IInv ==
  /\ TypeOK /\ OutcomeOK
  /\ LockInv
  /\ TokenInv
  /\ AttemptInv
  /\ WaitInv

LEMMA Inductive == Spec => []IInv
<1>1. Init => IInv
  BY TypeInit, LockInit, TokenInit, AttemptInit, WaitInit DEF IInv
<1>2. IInv /\ [Next]_vars => IInv'
  BY TypeStep, OutcomeStep, LockStep, TokenStep, AttemptStep, WaitStep DEF IInv
<1> QED BY <1>1, <1>2, PTL DEF Spec

\* fetch_and_install runs in one process at a time, the holder of the lock.
THEOREM FetchesAreSerialized ==
  Spec => [](\A p, q \in Procs : pc[p] \in Critical /\ pc[q] \in Critical => p = q)
<1>1. IInv => \A p, q \in Procs : pc[p] \in Critical /\ pc[q] \in Critical => p = q
  BY DEF IInv, LockInv
<1> QED BY <1>1, Inductive, PTL

\* However the tasks interleave, and whichever of them are cancelled, the
\* recorded lifetime is the cached token's outside one install's two writes.
THEOREM LifetimeDescribesCachedToken ==
  Spec => []LifetimeDescribesHeaderOutsideInstall
<1>1. IInv => LifetimeDescribesHeaderOutsideInstall
  BY DEF IInv, TokenInv
<1> QED BY <1>1, Inductive, PTL

\* However many tasks are queued, each sits through one completed attempt at
\* most.
THEOREM QueuedCallsWaitForOneAttempt == Spec => []WaitsForOneAttempt
<1>1. IInv => WaitsForOneAttempt
  <2> SUFFICES ASSUME IInv, NEW p \in Procs, pc[p] = "waiting"
               PROVE  completed <= enqueuedAt[p] + 1
    BY DEF WaitsForOneAttempt
  <2>1. p = holder \/ \E i \in 1..Len(queue) : queue[i] = p
    BY DEF IInv, LockInv
  <2> QED BY <2>1, ProcsAssumption DEF IInv, WaitInv
<1> QED BY <1>1, Inductive, PTL

\* No fetch, however slow, puts a token back that another has replaced.
THEOREM HeaderOnlyMovesForward == Spec => HeaderNeverGoesBack
<1>1. IInv /\ [Next]_vars => [header' # header => header' > header]_vars
  <2> SUFFICES ASSUME IInv, Next, header' # header
               PROVE  header' > header
    BY DEF vars, manager
  <2>1. PICK p \in Procs : InstallHeader(p)
    BY DEF Next, Step, RefreshNow, Cancel, RequestRefresh, Tick, Notified,
       DropGuard, TaskStops, Snapshot, Lock, Resume, Coalesce, StartFetch,
       IdpIssues, FetchFails, InstallLifetime, RecordOutcome, Bump, Unlock,
       manager
  <2> QED BY <2>1 DEF InstallHeader, Goto, IInv, TokenInv, TypeOK
<1> QED BY <1>1, Inductive, PTL DEF Spec, HeaderNeverGoesBack

-------------------------------------------------------------------------------
(* refresh_now implements its contract *)

LEMMA ContractInit == Init => Contract!Init
<1> SUFFICES ASSUME Init PROVE Contract!Init
  OBVIOUS
<1>1. OpenCalls = {} /\ FreshlyInstalled = FALSE
  BY DEF Init, OpenCalls, FreshlyInstalled, Closed
<1>2. Answers = [p \in Procs |-> "none"]
  BY DEF Init, Answers, Closed
<1> QED BY <1>1, <1>2 DEF Init, Contract!Init

\* A step that leaves a call open, or leaves it closed, is invisible.
LEMMA InvisibleMove ==
  ASSUME TypeOK, NEW p \in Procs, NEW to \in States,
         pc' = [pc EXCEPT ![p] = to], pc[p] \in Closed <=> to \in Closed,
         \A q \in Procs : q # p \/ pc[p] \in Closed => outcome'[q] = outcome[q],
         FreshlyInstalled' <=> FreshlyInstalled,
         UNCHANGED <<header, completed, lastOutcome, observed>>
  PROVE  UNCHANGED Contract!cvars
<1>1. \A q \in Procs : pc'[q] \in Closed <=> pc[q] \in Closed
  BY DEF TypeOK
<1>2. OpenCalls' = OpenCalls
  BY <1>1 DEF OpenCalls
<1>3. Answers' = Answers
  BY <1>1 DEF Answers
<1>4. FreshlyInstalled' = FreshlyInstalled
  BY DEF FreshlyInstalled
<1> QED BY <1>2, <1>3, <1>4 DEF Contract!cvars

\* A call that is closed leaves the others as they were.
LEMMA VisibleLeave ==
  ASSUME TypeOK, NEW p \in Procs, NEW to \in {"idle", "done"}, Leave(p, to),
         NEW a, outcome' = [outcome EXCEPT ![p] = a], pc[p] \notin Closed,
         pc[p] \notin {"installed", "recorded"}
  PROVE  /\ p \in OpenCalls /\ OpenCalls' = OpenCalls \ {p}
         /\ observed' = [observed EXCEPT ![p] = 0]
         /\ Answers' = [Answers EXCEPT ![p] = a]
         /\ FreshlyInstalled' = FreshlyInstalled
<1>1. /\ pc' = [pc EXCEPT ![p] = to] /\ to \in Closed
      /\ \A q \in Procs : pc'[q] = IF q = p THEN to ELSE pc[q]
      /\ \A q \in Procs : outcome'[q] = IF q = p THEN a ELSE outcome[q]
  BY DEF Leave, TypeOK, Closed
<1>2. p \in OpenCalls /\ OpenCalls' = OpenCalls \ {p}
  BY <1>1 DEF OpenCalls
<1>3. Answers' = [Answers EXCEPT ![p] = a]
  BY <1>1 DEF Answers
<1>4. FreshlyInstalled' = FreshlyInstalled
  BY <1>1 DEF FreshlyInstalled
<1> QED BY <1>2, <1>3, <1>4 DEF Leave

LEMMA ContractStep == IInv /\ [Next]_vars => [Contract!Next]_Contract!cvars
<1> SUFFICES ASSUME IInv, [Next]_vars
             PROVE  [Contract!Next]_Contract!cvars
  OBVIOUS
<1> USE DEF manager, lock, locals, bounds, environment, history
<1>0. /\ TypeOK /\ OutcomeOK /\ LockInv /\ TokenInv /\ AttemptInv
      /\ \A p, q \in Procs : pc[p] \in Critical /\ pc[q] \in Critical => p = q
  BY DEF IInv, LockInv
<1>1. ASSUME UNCHANGED <<pc, outcome, header, completed, lastOutcome, observed>>
      PROVE  UNCHANGED Contract!cvars
  BY <1>1 DEF Contract!cvars, OpenCalls, Answers, FreshlyInstalled
<1>2. ASSUME UNCHANGED vars \/ RequestRefresh \/ DropGuard
      PROVE  UNCHANGED Contract!cvars
  BY <1>1, <1>2 DEF vars, RequestRefresh, DropGuard
<1>3. ASSUME NEW p \in Procs, pc[p] = "idle", pc' = [pc EXCEPT ![p] = "begin"],
             UNCHANGED <<outcome, header, completed, lastOutcome, observed>>
      PROVE  UNCHANGED Contract!cvars
  <2>1. FreshlyInstalled' <=> FreshlyInstalled
    BY <1>0, <1>3 DEF FreshlyInstalled, TypeOK
  <2> QED BY <1>0, <1>3, <2>1, InvisibleMove DEF Closed, States
<1>4. ASSUME NEW c \in Callers, RefreshNow(c) PROVE UNCHANGED Contract!cvars
  BY <1>3, <1>4 DEF RefreshNow, Goto, Procs
<1>5. ASSUME Tick \/ Notified PROVE UNCHANGED Contract!cvars
  BY <1>3, <1>5 DEF Tick, Notified, Goto, Procs
<1>6. ASSUME NEW p \in Procs, Snapshot(p) PROVE Contract!Invoke(p)
  <2>1. /\ pc[p] = "begin" /\ pc' = [pc EXCEPT ![p] = "snapped"]
        /\ outcome' = [outcome EXCEPT ![p] = "none"]
        /\ observed' = [observed EXCEPT ![p] = generation]
    BY <1>6 DEF Snapshot, Goto
  <2>2. /\ \A q \in Procs : pc'[q] = IF q = p THEN "snapped" ELSE pc[q]
        /\ \A q \in Procs : outcome'[q] = IF q = p THEN "none" ELSE outcome[q]
    BY <1>0, <2>1 DEF TypeOK
  <2>3. p \notin OpenCalls /\ OpenCalls' = OpenCalls \cup {p}
    BY <2>1, <2>2 DEF OpenCalls, Closed
  <2>4. Answers' = [Answers EXCEPT ![p] = "none"]
    BY <2>2 DEF Answers, Closed
  <2>5. FreshlyInstalled' = FreshlyInstalled
    BY <2>1, <2>2 DEF FreshlyInstalled
  <2>6. generation = completed
    BY <1>0 DEF AttemptInv
  <2> QED BY <1>6, <2>1, <2>3, <2>4, <2>5, <2>6 DEF Snapshot, Contract!Invoke
<1>7. ASSUME NEW p \in Procs, NEW to \in States \ Closed, pc[p] \notin Closed,
             pc' = [pc EXCEPT ![p] = to],
             \A q \in Procs : q # p => outcome'[q] = outcome[q],
             pc[p] \in {"installed", "recorded"} /\ outcome[p] = "ok" <=>
               to \in {"installed", "recorded"} /\ outcome'[p] = "ok",
             UNCHANGED <<header, completed, lastOutcome, observed>>
      PROVE  UNCHANGED Contract!cvars
  <2>1. FreshlyInstalled' <=> FreshlyInstalled
    BY <1>0, <1>7 DEF FreshlyInstalled, TypeOK
  <2> QED BY <1>0, <1>7, <2>1, InvisibleMove
<1>8. ASSUME NEW p \in Procs,
             Lock(p) \/ Resume(p) \/ StartFetch(p) \/ IdpIssues(p) \/ InstallLifetime(p)
      PROVE  UNCHANGED Contract!cvars
  BY <1>7, <1>8 DEF Lock, Resume, StartFetch, IdpIssues, InstallLifetime, Goto,
     States, Closed
<1>9. ASSUME NEW p \in Procs, FetchFails(p) PROVE UNCHANGED Contract!cvars
  BY <1>0, <1>7, <1>9 DEF FetchFails, States, Closed, TypeOK
<1>10. ASSUME NEW p \in Procs, RecordOutcome(p) PROVE UNCHANGED Contract!cvars
  <2>1. pc[p] = "failed" => outcome[p] = "err"
    BY <1>0 DEF AttemptInv
  <2> QED BY <1>7, <1>10, <2>1 DEF RecordOutcome, States, Closed
<1>11. ASSUME NEW p \in Procs, InstallHeader(p) PROVE Contract!Install
  <2>1. /\ pc[p] = "installing" /\ pc' = [pc EXCEPT ![p] = "installed"]
        /\ outcome' = [outcome EXCEPT ![p] = "ok"] /\ header' = token[p]
    BY <1>11 DEF InstallHeader, Goto
  <2>2. /\ \A q \in Procs : pc'[q] = IF q = p THEN "installed" ELSE pc[q]
        /\ \A q \in Procs : outcome'[q] = IF q = p THEN "ok" ELSE outcome[q]
    BY <1>0, <2>1 DEF TypeOK
  <2>3. OpenCalls' = OpenCalls
    BY <2>1, <2>2 DEF OpenCalls, Closed
  <2>4. Answers' = Answers
    BY <2>1, <2>2 DEF Answers, Closed
  <2>5. FreshlyInstalled = FALSE
    BY <1>0, <2>1 DEF FreshlyInstalled, Critical
  <2>6. FreshlyInstalled' = TRUE
    BY <2>2 DEF FreshlyInstalled
  <2>7. header' \in Nat /\ header' > header
    BY <1>0, <2>1 DEF TokenInv, TypeOK
  <2> QED
    BY <1>11, <2>3, <2>4, <2>5, <2>6, <2>7 DEF InstallHeader, Contract!Install
<1>12. ASSUME NEW p \in Procs, Bump(p) PROVE Contract!Complete
  <2>1. /\ pc[p] = "recorded" /\ pc' = [pc EXCEPT ![p] = "bumped"]
        /\ lastOutcome' = outcome[p] /\ UNCHANGED <<outcome, header, observed>>
        /\ completed' = completed + 1
    BY <1>12 DEF Bump, Goto
  <2>2. \A q \in Procs : pc'[q] = IF q = p THEN "bumped" ELSE pc[q]
    BY <1>0, <2>1 DEF TypeOK
  <2>3. OpenCalls' = OpenCalls
    BY <2>1, <2>2 DEF OpenCalls, Closed
  <2>4. Answers' = Answers
    BY <2>1, <2>2 DEF Answers, Closed
  <2>5. FreshlyInstalled <=> outcome[p] = "ok"
    BY <1>0, <2>1 DEF FreshlyInstalled, Critical
  <2>6. FreshlyInstalled' = FALSE
    BY <1>0, <2>1, <2>2 DEF FreshlyInstalled, Critical
  <2>7. outcome[p] \in {"ok", "err"}
    BY <1>0, <2>1 DEF OutcomeOK
  <2> QED
    BY <2>1, <2>3, <2>4, <2>5, <2>6, <2>7 DEF Contract!Complete
<1>13. ASSUME NEW p \in Procs, Coalesce(p) PROVE Contract!Return(p)
  <2>1. /\ pc[p] = "locked" /\ Leave(p, "idle") /\ generation # observed[p]
        /\ outcome' = [outcome EXCEPT ![p] = IF lastAttemptFailure THEN "err" ELSE "ok"]
        /\ UNCHANGED <<header, completed, lastOutcome>>
    BY <1>13 DEF Coalesce
  <2>2. \A q \in Procs : pc[q] # "recorded"
    BY <1>0, <2>1 DEF Critical
  <2>3. (IF lastAttemptFailure THEN "err" ELSE "ok") = lastOutcome
    BY <1>0, <2>2 DEF AttemptInv, TypeOK
  <2>4. completed > observed[p]
    BY <1>0, <2>1 DEF AttemptInv, TypeOK
  <2> QED
    BY <1>0, <2>1, <2>3, <2>4, VisibleLeave
    DEF Closed, Contract!Return, Contract!Close
<1>14. ASSUME NEW p \in Procs, pc[p] \notin Closed \cup {"installed", "recorded"},
              NEW to \in {"idle", "done"}, Leave(p, to),
              UNCHANGED <<header, completed, lastOutcome, outcome>>
       PROVE  /\ p \in OpenCalls /\ OpenCalls' = OpenCalls \ {p}
              /\ observed' = [observed EXCEPT ![p] = 0]
              /\ Answers' = [Answers EXCEPT ![p] = outcome[p]]
              /\ FreshlyInstalled' = FreshlyInstalled
  <2>1. outcome' = [outcome EXCEPT ![p] = outcome[p]]
    BY <1>0, <1>14 DEF TypeOK
  <2> QED BY <1>0, <1>14, <2>1, VisibleLeave
<1>15. ASSUME NEW p \in Procs, Unlock(p) PROVE Contract!Return(p)
  <2>1. /\ pc[p] = "bumped" /\ Leave(p, "idle")
        /\ UNCHANGED <<header, completed, lastOutcome, outcome>>
    BY <1>15 DEF Unlock
  <2>2. completed > observed[p] /\ outcome[p] = lastOutcome
    BY <1>0, <2>1 DEF AttemptInv, TypeOK
  <2> QED
    BY <1>14, <2>1, <2>2 DEF Closed, Contract!Return, Contract!Close
<1>16. ASSUME NEW p \in Procs, NEW to \in {"idle", "done"}, Leave(p, to),
              pc[p] \in {"waiting", "fetching", "answered"},
              UNCHANGED <<header, completed, lastOutcome, outcome>>
       PROVE  Contract!Abandon(p)
  <2>1. Answers' = [Answers EXCEPT ![p] = outcome[p]]
    BY <1>14, <1>16 DEF Closed
  <2>2. outcome[p] = "none" /\ Answers[p] = "none"
    BY <1>0, <1>16 DEF AttemptInv, Answers, Closed
  <2>3. Answers' = Answers
    BY <2>1, <2>2 DEF Answers
  <2> QED BY <1>14, <1>16, <2>3 DEF Closed, Contract!Abandon, Contract!Close
<1>17. ASSUME NEW c \in Callers, Cancel(c)
       PROVE  c \in Procs /\ Contract!Abandon(c)
  BY <1>16, <1>17 DEF Cancel, Procs
<1>18. ASSUME TaskStops PROVE Contract!Abandon(Task) \/ UNCHANGED Contract!cvars
  <2>1. CASE pc[Task] # "idle"
    BY <1>16, <1>18, <2>1 DEF TaskStops, Procs
  <2>2. CASE pc[Task] = "idle"
    <3>1. /\ Task \in Procs /\ pc' = [pc EXCEPT ![Task] = "done"]
          /\ observed' = [observed EXCEPT ![Task] = 0] /\ observed[Task] = 0
          /\ UNCHANGED <<header, completed, lastOutcome, outcome>>
      BY <1>0, <1>18, <2>2 DEF TaskStops, Leave, Procs, AttemptInv, Closed
    <3>2. observed' = observed
      BY <1>0, <3>1 DEF TypeOK
    <3>3. FreshlyInstalled' <=> FreshlyInstalled
      BY <1>0, <2>2, <3>1 DEF FreshlyInstalled, TypeOK
    <3> QED BY <1>0, <2>2, <3>1, <3>2, <3>3, InvisibleMove DEF Closed, States
  <2> QED BY <2>1, <2>2
<1> QED
  BY <1>2, <1>4, <1>5, <1>6, <1>8, <1>9, <1>10, <1>11, <1>12, <1>13, <1>15, <1>17,
     <1>18 DEF Next, Step, Procs, Contract!Next

\* Every answer of refresh_now is the outcome of an attempt that completed
\* during the call, whatever the tasks do.
THEOREM RefreshNowImplementsContract == Spec => ImplementsContract
<1> QED
  BY Inductive, ContractInit, ContractStep, PTL
  DEF Spec, ImplementsContract, Contract!Spec


-------------------------------------------------------------------------------
(* Nothing is left behind *)

\* A call between its snapshot and its return.
Underway == {"snapped", "waiting", "locked"} \cup Attempting \cup {"bumped"}

\* An unanswered request is in the permit, or the background task is about to take a
\* snapshot, or took one from which the request is answered by the next attempt.
RequestInv ==
  /\ owed <= completed + 1
  /\ \/ dropped \/ permit \/ owed <= completed
     \/ pc[Task] = "begin"
     \/ pc[Task] \in Underway /\ owed <= observed[Task] + 1

LEMMA RequestInit == Init => RequestInv
BY DEF Init, RequestInv

LEMMA RequestStep == IInv /\ RequestInv /\ [Next]_vars => RequestInv'
<1> SUFFICES ASSUME IInv, RequestInv, [Next]_vars PROVE RequestInv'
  OBVIOUS
<1> USE DEF manager, lock, locals, bounds, environment, history, Underway, Attempting
<1>1. /\ Task \in Procs /\ Task \notin Callers
      /\ pc \in [Procs -> States] /\ observed \in [Procs -> Nat]
      /\ owed \in Nat /\ completed \in Nat /\ generation \in Nat
      /\ generation = completed
      /\ \A p \in Procs : observed[p] <= completed
      /\ \A p \in Procs : pc[p] = "bumped" => observed[p] < completed
  BY ProcsAssumption DEF IInv, TypeOK, AttemptInv, Procs
\* Whoever moves, the background task does not, and no request is made or answered.
<1>2. ASSUME pc'[Task] = pc[Task], observed'[Task] = observed[Task], permit' = permit,
             dropped => dropped', owed' = owed, completed' = completed
      PROVE  RequestInv'
  BY <1>2 DEF RequestInv
<1>3. CASE UNCHANGED vars
  BY <1>2, <1>3 DEF vars
<1>4. ASSUME NEW c \in Callers, RefreshNow(c) \/ Cancel(c) PROVE RequestInv'
  <2>1. pc'[Task] = pc[Task] /\ observed'[Task] = observed[Task]
    BY <1>1, <1>4 DEF RefreshNow, Goto, Cancel, Leave
  <2> QED BY <1>2, <1>4, <2>1 DEF RefreshNow, Cancel
<1>5. CASE RequestRefresh
  BY <1>1, <1>5 DEF RequestRefresh, RequestInv
<1>6. CASE Tick
  BY <1>1, <1>6 DEF Tick, Goto, RequestInv
<1>7. CASE Notified
  BY <1>1, <1>7 DEF Notified, Goto, RequestInv
<1>8. CASE DropGuard \/ TaskStops
  BY <1>1, <1>8 DEF DropGuard, TaskStops, RequestInv
<1>9. ASSUME NEW p \in Procs, Bump(p) PROVE RequestInv'
  <2>1. completed' = completed + 1 /\ owed' = owed
    BY <1>9 DEF Bump
  <2> QED BY <1>1, <2>1 DEF RequestInv
<1>10. ASSUME NEW p \in Procs, p # Task, Step(p), ~Bump(p) PROVE RequestInv'
  <2>1. pc'[Task] = pc[Task] /\ observed'[Task] = observed[Task]
    BY <1>1, <1>10 DEF Step, Snapshot, Lock, Resume, Coalesce, StartFetch, IdpIssues, FetchFails,
       InstallLifetime, InstallHeader, RecordOutcome, Unlock, Goto, Leave
  <2>2. UNCHANGED <<permit, dropped, owed, completed>>
    BY <1>10 DEF Step, Snapshot, Lock, Resume, Coalesce, StartFetch, IdpIssues, FetchFails,
       InstallLifetime, InstallHeader, RecordOutcome, Unlock
  <2> QED BY <1>2, <2>1, <2>2
<1>11. CASE Snapshot(Task)
  <2>1. /\ pc[Task] = "begin" /\ pc'[Task] = "snapped" /\ observed'[Task] = completed
        /\ owed' = owed /\ completed' = completed
    BY <1>1, <1>11 DEF Snapshot, Goto
  <2> QED BY <1>1, <2>1 DEF RequestInv
<1>12. CASE Coalesce(Task) \/ Unlock(Task)
  <2>1. /\ pc[Task] \in {"locked", "bumped"} /\ observed[Task] < completed
        /\ UNCHANGED <<permit, dropped, owed, completed>>
    BY <1>1, <1>12 DEF Coalesce, Unlock
  <2> QED BY <1>1, <2>1 DEF RequestInv
<1>13. CASE \/ Lock(Task) \/ Resume(Task) \/ StartFetch(Task) \/ IdpIssues(Task) \/ FetchFails(Task)
            \/ InstallLifetime(Task) \/ InstallHeader(Task) \/ RecordOutcome(Task)
  <2>1. /\ pc[Task] \in Underway /\ pc'[Task] \in Underway /\ observed'[Task] = observed[Task]
        /\ UNCHANGED <<permit, dropped, owed, completed>>
    BY <1>1, <1>13 DEF Lock, Resume, StartFetch, IdpIssues, FetchFails, InstallLifetime,
       InstallHeader, RecordOutcome, Goto
  <2> QED BY <1>1, <2>1 DEF RequestInv
<1> QED
  BY <1>3, <1>4, <1>5, <1>6, <1>7, <1>8, <1>9, <1>10, <1>11, <1>12, <1>13 DEF Next, Step

\* A request_refresh that no attempt has answered yet is not forgotten: while the guard
\* lives, the permit is there for the background task to take or the task is in a
\* refresh_now.  RequestsAreHonoured adds the fairness.
THEOREM NoRequestIsForgotten ==
  Spec => [](owed > completed /\ ~dropped => permit \/ pc[Task] \notin {"idle", "done"})
<1>1. IInv /\ RequestInv =>
        (owed > completed /\ ~dropped => permit \/ pc[Task] \notin {"idle", "done"})
  BY DEF IInv, TypeOK, RequestInv, Underway, Attempting
<1> QED BY <1>1, Inductive, RequestInit, RequestStep, PTL DEF Spec

\* Whoever waits for refresh_lock has it, or someone else who still runs does: no
\* process that has left keeps it, and it is never free while someone queues for it.
THEOREM NobodyIsLeftWaiting ==
  Spec => [](\A p \in Procs :
               pc[p] = "waiting" => holder \in Procs /\ pc[holder] \in Critical \cup {"waiting"})
<1>1. IInv => \A p \in Procs :
        pc[p] = "waiting" => holder \in Procs /\ pc[holder] \in Critical \cup {"waiting"}
  <2> SUFFICES ASSUME IInv, NEW p \in Procs, pc[p] = "waiting"
               PROVE  holder \in Procs /\ pc[holder] \in Critical \cup {"waiting"}
    OBVIOUS
  <2>1. holder # Nobody
    BY ProcsAssumption DEF IInv, LockInv
  <2> QED BY <2>1 DEF IInv, TypeOK, LockInv
<1> QED BY <1>1, Inductive, PTL

===============================================================================

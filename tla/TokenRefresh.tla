----------------------------- MODULE TokenRefresh -----------------------------
(***************************************************************************)
(* TokenManager (src/src/auth.rs): one cached bearer token shared by every *)
(* task of a client, and the ways those tasks have it refreshed.           *)
(*                                                                         *)
(* A caller is a task that calls refresh_now or ensure_fresh; Task is the  *)
(* background task of spawn_refresh.  A refresh_now call is one process    *)
(* step per access to shared state, because the tasks run on several       *)
(* threads: between two steps any other process may take any number of     *)
(* its own.  A step of pc "waiting", "fetching" or "answered" stands at an *)
(* .await, where a caller's future can be dropped and the background task  *)
(* can be aborted.                                                         *)
(*                                                                         *)
(* Tokens are numbered in the order in which the identity provider issued  *)
(* them; 0 is the one TokenManager::new fetched.  refresh_lock is tokio's  *)
(* Mutex, which is fair: a waiter that cannot have it joins a queue, and   *)
(* the release hands the lock to the head of the queue.                    *)
(***************************************************************************)
EXTENDS Naturals, Sequences, SequencesExt

CONSTANTS
  Callers,              \* tasks that make RPCs through a shared client
  Task,                 \* the background task spawned by spawn_refresh
  Nobody,               \* no process: the lock is free
  MaxCalls,             \* bound: calls each caller makes
  MaxTicks,             \* bound: how often the background timer fires
  MaxRequests           \* bound: how often request_refresh is called

Procs == Callers \cup {Task}

ASSUME ProcsAssumption == Task \notin Callers /\ Nobody \notin Procs
ASSUME BoundsAssumption ==
  MaxCalls \in Nat /\ MaxTicks \in Nat /\ MaxRequests \in Nat

VARIABLES
  \* TokenManagerInner
  header,               \* header_value: the token requests are sent with
  lifetime,             \* lifetime: the token whose lifetime is recorded
  fetchAttempts,        \* fetch_attempts
  generation,           \* refresh_generation
  lastAttemptFailure,   \* last_attempt_failure is Some
  holder, queue,        \* refresh_lock: who has it, who waits for it
  permit,               \* refresh_notify holds a permit
  \* the processes
  pc,
  observed,             \* observed_generation
  token,                \* the token in the IdP's answer
  outcome,              \* what the latest refresh_now came to
  calls, ticks, requests,
  dropped,              \* TokenRefreshGuard has been dropped
  \* the environment
  issued,               \* how many tokens the IdP has issued
  \* history
  completed,            \* attempts completed, whatever they came to
  lastOutcome,          \* outcome of the latest completed attempt
  enqueuedAt,           \* completed when the process joined the queue
  owed                  \* completed attempts that honour every request so far

lock == <<holder, queue>>
manager == <<header, lifetime, fetchAttempts, generation, lastAttemptFailure>>
bounds == <<calls, ticks, requests>>
environment == <<dropped, issued>>
locals == <<observed, token, enqueuedAt>>
history == <<completed, lastOutcome, owed>>
vars == <<manager, lock, permit, pc, locals, outcome, bounds, environment,
          history>>

States == {"idle", "begin", "snapped", "waiting", "locked", "fetching",
           "answered", "installing", "installed", "failed", "recorded",
           "bumped", "done"}

TypeOK ==
  /\ header \in Nat /\ lifetime \in Nat
  /\ fetchAttempts \in Nat /\ generation \in Nat
  /\ lastAttemptFailure \in BOOLEAN
  /\ holder \in Procs \cup {Nobody} /\ queue \in Seq(Procs)
  /\ permit \in BOOLEAN
  /\ pc \in [Procs -> States]
  /\ observed \in [Procs -> Nat]
  /\ token \in [Procs -> Nat]
  /\ outcome \in [Procs -> {"none", "ok", "err"}]
  /\ calls \in [Callers -> Nat] /\ ticks \in Nat /\ requests \in Nat
  /\ dropped \in BOOLEAN /\ issued \in Nat
  /\ completed \in Nat /\ lastOutcome \in {"ok", "err"}
  /\ enqueuedAt \in [Procs -> Nat]
  /\ owed \in Nat

-------------------------------------------------------------------------------
Init ==
  /\ header = 0 /\ lifetime = 0
  /\ fetchAttempts = 0 /\ generation = 0
  /\ lastAttemptFailure = FALSE
  /\ holder = Nobody /\ queue = <<>>
  /\ permit = FALSE
  /\ pc = [p \in Procs |-> "idle"]
  /\ observed = [p \in Procs |-> 0]
  /\ token = [p \in Procs |-> 0]
  /\ outcome = [p \in Procs |-> "none"]
  /\ calls = [c \in Callers |-> 0] /\ ticks = 0 /\ requests = 0
  /\ dropped = FALSE /\ issued = 0
  /\ completed = 0 /\ lastOutcome = "ok"
  /\ enqueuedAt = [p \in Procs |-> 0]
  /\ owed = 0

Goto(p, from, to) == pc[p] = from /\ pc' = [pc EXCEPT ![p] = to]

\* A call ends, or its future is dropped: its locals go with it.
Leave(p, to) ==
  /\ pc' = [pc EXCEPT ![p] = to]
  /\ observed' = [observed EXCEPT ![p] = 0]
  /\ token' = [token EXCEPT ![p] = 0]
  /\ enqueuedAt' = [enqueuedAt EXCEPT ![p] = 0]

\* Once its guard is dropped the background task is cancelled at the await it
\* stands at, or at the next one it reaches; it is not polled past it.
Polled(p) == ~(p = Task /\ dropped)

-------------------------------------------------------------------------------
(* refresh_lock *)

\* The permit is dropped: the head of the queue has the lock next.
HandOver ==
  IF queue = <<>>
  THEN holder' = Nobody /\ queue' = queue
  ELSE holder' = Head(queue) /\ queue' = Tail(queue)

\* A future that holds the lock, or waits for it, is dropped.
Withdraw(p) ==
  \/ holder = p /\ HandOver
  \/ /\ \E i \in DOMAIN queue : queue[i] = p /\ queue' = RemoveAt(queue, i)
     /\ UNCHANGED holder
  \/ /\ holder # p /\ p \notin ToSet(queue)
     /\ UNCHANGED lock

-------------------------------------------------------------------------------
(* Mutated forms of the definitions below, each a bug this code could have;   *)
(* no specification uses them.                                                *)

\* refresh_lock is not waited for: fetches run side by side.
LockNotExclusive(p) ==
  /\ Goto(p, "snapped", "locked")
  /\ holder' = p
  /\ UNCHANGED <<manager, queue, permit, locals, outcome, bounds, environment,
                 history>>

\* The header is built, and may fail, after the lifetime was written.
FetchFailsBetweenWrites(p) ==
  /\ Polled(p)
  /\ pc[p] \in {"fetching", "answered", "installing"}
  /\ pc' = [pc EXCEPT ![p] = "failed"]
  /\ outcome' = [outcome EXCEPT ![p] = "err"]
  /\ UNCHANGED <<manager, lock, permit, locals, bounds, environment, history>>

\* The generation counts successes only, as it once did.
BumpOnSuccess(p) ==
  /\ Goto(p, "recorded", "bumped")
  /\ generation' = IF outcome[p] = "ok" THEN generation + 1 ELSE generation
  /\ completed' = completed + 1
  /\ lastOutcome' = outcome[p]
  /\ UNCHANGED <<header, lifetime, fetchAttempts, lastAttemptFailure, lock,
                 permit, locals, outcome, bounds, environment, owed>>

\* A coalesced call reports success whatever the attempt came to.
CoalesceAsOk(p) ==
  /\ pc[p] = "locked"
  /\ generation # observed[p]
  /\ outcome' = [outcome EXCEPT ![p] = "ok"]
  /\ HandOver
  /\ Leave(p, "idle")
  /\ UNCHANGED <<manager, permit, bounds, environment, history>>

\* The aborted task leaves refresh_lock, or its place in the queue, behind.
AbortKeepsLock ==
  /\ dropped
  /\ pc[Task] \in {"idle", "waiting", "fetching", "answered"}
  /\ Leave(Task, "done")
  /\ UNCHANGED <<manager, lock, permit, outcome, bounds, environment, history>>

\* A notification is lost when the background task is not waiting for it.
RequestNotStored ==
  /\ requests < MaxRequests
  /\ requests' = requests + 1
  /\ permit' = (permit \/ pc[Task] = "idle")
  /\ owed' = completed + 1
  /\ UNCHANGED <<manager, lock, pc, locals, outcome, calls, ticks,
                 environment, completed, lastOutcome>>

\* The guard sends the shutdown message but does not abort the task.
TaskStopsAtSelect ==
  /\ dropped
  /\ pc[Task] = "idle"
  /\ Withdraw(Task)
  /\ Leave(Task, "done")
  /\ UNCHANGED <<manager, permit, outcome, bounds, environment, history>>

-------------------------------------------------------------------------------
(* The tasks of the application *)

\* An RPC that was refused or refresh_auth_token asks for a new token, or
\* ensure_fresh finds less than its margin left of the recorded lifetime.
\* (An ensure_fresh that finds enough left returns and changes nothing.)
RefreshNow(c) ==
  /\ calls[c] < MaxCalls
  /\ Goto(c, "idle", "begin")
  /\ calls' = [calls EXCEPT ![c] = @ + 1]
  /\ UNCHANGED <<manager, lock, permit, locals, outcome, ticks, requests,
                 environment, history>>

\* notify_one stores a permit when the background task is not waiting for it.
RequestRefresh ==
  /\ requests < MaxRequests
  /\ requests' = requests + 1
  /\ permit' = TRUE
  /\ owed' = completed + 1
  /\ UNCHANGED <<manager, lock, pc, locals, outcome, calls, ticks,
                 environment, completed, lastOutcome>>

\* The future of a call is dropped at an .await (a sibling of a concurrent
\* batch failed, a deadline expired): its lock or its place goes with it.
Cancel(c) ==
  /\ pc[c] \in {"waiting", "fetching", "answered"}
  /\ Withdraw(c)
  /\ Leave(c, "idle")
  /\ UNCHANGED <<manager, permit, outcome, bounds, environment, history>>

-------------------------------------------------------------------------------
(* refresh_now *)

Snapshot(p) ==
  /\ Goto(p, "begin", "snapped")
  /\ observed' = [observed EXCEPT ![p] = generation]
  /\ outcome' = [outcome EXCEPT ![p] = "none"]
  /\ UNCHANGED <<manager, lock, permit, token, enqueuedAt, bounds,
                 environment, history>>

Lock(p) ==
  /\ \/ /\ holder = Nobody
        /\ Goto(p, "snapped", "locked")
        /\ holder' = p
        /\ UNCHANGED <<queue, enqueuedAt>>
     \/ /\ holder # Nobody
        /\ Goto(p, "snapped", "waiting")
        /\ queue' = Append(queue, p)
        /\ enqueuedAt' = [enqueuedAt EXCEPT ![p] = completed]
        /\ UNCHANGED holder
  /\ UNCHANGED <<manager, permit, observed, token, outcome, bounds,
                 environment, history>>

Resume(p) ==
  /\ Polled(p)
  /\ holder = p
  /\ Goto(p, "waiting", "locked")
  /\ UNCHANGED <<manager, lock, permit, locals, outcome, bounds, environment,
                 history>>

\* An attempt completed since the snapshot: its answer is this call's.
Coalesce(p) ==
  /\ pc[p] = "locked"
  /\ generation # observed[p]
  /\ outcome' = [outcome EXCEPT ![p] = IF lastAttemptFailure THEN "err" ELSE "ok"]
  /\ HandOver
  /\ Leave(p, "idle")
  /\ UNCHANGED <<manager, permit, bounds, environment, history>>

StartFetch(p) ==
  /\ generation = observed[p]
  /\ Goto(p, "locked", "fetching")
  /\ fetchAttempts' = fetchAttempts + 1
  /\ UNCHANGED <<header, lifetime, generation, lastAttemptFailure, lock,
                 permit, locals, outcome, bounds, environment, history>>

\* The IdP issues a token; the answer is on its way and may yet be lost.
IdpIssues(p) ==
  /\ Goto(p, "fetching", "answered")
  /\ issued' = issued + 1
  /\ token' = [token EXCEPT ![p] = issued + 1]
  /\ UNCHANGED <<manager, lock, permit, observed, enqueuedAt, outcome, bounds,
                 dropped, history>>

\* The request, the answer or the header built from it is no good: nothing
\* has been written yet.
FetchFails(p) ==
  /\ Polled(p)
  /\ pc[p] \in {"fetching", "answered"}
  /\ pc' = [pc EXCEPT ![p] = "failed"]
  /\ outcome' = [outcome EXCEPT ![p] = "err"]
  /\ UNCHANGED <<manager, lock, permit, locals, bounds, environment, history>>

InstallLifetime(p) ==
  /\ Polled(p)
  /\ Goto(p, "answered", "installing")
  /\ lifetime' = token[p]
  /\ UNCHANGED <<header, fetchAttempts, generation, lastAttemptFailure, lock,
                 permit, locals, outcome, bounds, environment, history>>

InstallHeader(p) ==
  /\ Goto(p, "installing", "installed")
  /\ header' = token[p]
  /\ outcome' = [outcome EXCEPT ![p] = "ok"]
  /\ UNCHANGED <<lifetime, fetchAttempts, generation, lastAttemptFailure,
                 lock, permit, locals, bounds, environment, history>>

RecordOutcome(p) ==
  /\ pc[p] \in {"installed", "failed"}
  /\ pc' = [pc EXCEPT ![p] = "recorded"]
  /\ lastAttemptFailure' = (outcome[p] = "err")
  /\ UNCHANGED <<header, lifetime, fetchAttempts, generation, lock, permit,
                 locals, outcome, bounds, environment, history>>

\* Failed attempts count too: the waiters must not repeat them one by one.
Bump(p) ==
  /\ Goto(p, "recorded", "bumped")
  /\ generation' = generation + 1
  /\ completed' = completed + 1
  /\ lastOutcome' = outcome[p]
  /\ UNCHANGED <<header, lifetime, fetchAttempts, lastAttemptFailure, lock,
                 permit, locals, outcome, bounds, environment, owed>>

Unlock(p) ==
  /\ pc[p] = "bumped"
  /\ HandOver
  /\ Leave(p, "idle")
  /\ UNCHANGED <<manager, permit, outcome, bounds, environment, history>>

-------------------------------------------------------------------------------
(* The background task.  At "idle" it stands at its select!. *)

Tick ==
  /\ ~dropped /\ ticks < MaxTicks
  /\ Goto(Task, "idle", "begin")
  /\ ticks' = ticks + 1
  /\ UNCHANGED <<manager, lock, permit, locals, outcome, calls, requests,
                 environment, history>>

Notified ==
  /\ ~dropped /\ permit
  /\ Goto(Task, "idle", "begin")
  /\ permit' = FALSE
  /\ UNCHANGED <<manager, lock, locals, outcome, bounds, environment, history>>

\* TokenRefreshGuard::drop: the shutdown message and the abort.
DropGuard ==
  /\ ~dropped
  /\ dropped' = TRUE
  /\ UNCHANGED <<manager, lock, permit, pc, locals, outcome, bounds, issued,
                 history>>

\* The task breaks out of its select!, or is cancelled at another await.
TaskStops ==
  /\ dropped
  /\ pc[Task] \in {"idle", "waiting", "fetching", "answered"}
  /\ Withdraw(Task)
  /\ Leave(Task, "done")
  /\ UNCHANGED <<manager, permit, outcome, bounds, environment, history>>

-------------------------------------------------------------------------------
Step(p) ==
  \/ Snapshot(p) \/ Lock(p) \/ Resume(p) \/ Coalesce(p)
  \/ StartFetch(p) \/ IdpIssues(p) \/ FetchFails(p)
  \/ InstallLifetime(p) \/ InstallHeader(p)
  \/ RecordOutcome(p) \/ Bump(p) \/ Unlock(p)

Next ==
  \/ \E c \in Callers : RefreshNow(c) \/ Cancel(c)
  \/ RequestRefresh
  \/ \E p \in Procs : Step(p)
  \/ Tick \/ Notified
  \/ DropGuard \/ TaskStops

\* A started call keeps running: the executor polls it, and the HTTP client's
\* own timeout ends a fetch that is not answered.  Nothing makes anyone call,
\* cancel, tick or drop the guard.
Fairness ==
  /\ \A p \in Procs : WF_vars(Step(p))
  /\ WF_vars(Notified)
  /\ WF_vars(TaskStops)

Spec == Init /\ [][Next]_vars
FairSpec == Spec /\ Fairness

-------------------------------------------------------------------------------
(* Safety *)

\* From the comparison of the generations to the release, one process at a
\* time: the one that holds refresh_lock.
Critical == {"locked", "fetching", "answered", "installing", "installed",
             "failed", "recorded", "bumped"}

\* A header is replaced only by a token issued after it: a slow fetch cannot
\* land on top of a faster one (the doc of refresh_generation and refresh_now).
HeaderNeverGoesBack == [][header' # header => header' > header]_vars

\* The recorded lifetime is the cached token's whenever no process stands
\* between the two writes of fetch_and_install, whatever failed or was
\* cancelled before: an unlocked ensure_fresh is misled in that window only.
LifetimeDescribesHeaderOutsideInstall ==
  (\A p \in Procs : pc[p] # "installing") => lifetime = header

\* A process in the queue of refresh_lock sits through the round trip of at
\* most one attempt that completes, failed or not, before it is answered or
\* makes its own request (the hazard refresh_generation was changed for).
WaitsForOneAttempt ==
  \A p \in Procs : pc[p] = "waiting" => completed <= enqueuedAt[p] + 1

\* The refinement mapping: a call is open from its snapshot of the generation
\* on, and its answer is known to nobody before it returns.
Closed == {"idle", "begin", "done"}

OpenCalls == {p \in Procs : pc[p] \notin Closed}

Answers == [p \in Procs |-> IF pc[p] \in Closed THEN outcome[p] ELSE "none"]

FreshlyInstalled ==
  \E p \in Procs : pc[p] \in {"installed", "recorded"} /\ outcome[p] = "ok"

Contract == INSTANCE RefreshContract WITH
  installed <- header, fresh <- FreshlyInstalled, last <- lastOutcome,
  openedAt <- observed, open <- OpenCalls, answer <- Answers

\* Every answer is the outcome of an attempt that completed during the call.
ImplementsContract == Contract!Spec

(* Liveness *)

\* Every refresh_now ends, even when a holder of the lock, or a process the
\* lock was just handed to, is cancelled or aborted.
CallsReturn == \A c \in Callers : pc[c] # "idle" ~> pc[c] = "idle"

MaxAttempts == Cardinality(Callers) * MaxCalls + MaxTicks + MaxRequests

\* A request_refresh is followed by an attempt that completes after it, also when
\* it comes while the background task is busy: unless the guard is dropped.
RequestsAreHonoured ==
  \A n \in 1..MaxAttempts : owed = n ~> (completed >= n \/ dropped)

\* Dropping the guard ends the background task for good.
GuardStopsTask == dropped ~> [](pc[Task] = "done")

=============================================================================

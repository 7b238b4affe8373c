----------------------------- MODULE DocumentWrite -----------------------------
(***************************************************************************)
(* One logical write: put_document (src/src/document.rs) under a           *)
(* RetryPolicy (src/src/retry.rs), each of its RPCs through unary          *)
(* (src/src/lib.rs), against a server that deduplicates on the operation   *)
(* and the request_id.                                                     *)
(*                                                                         *)
(* put_document makes one RPC, or two when it binds a graph node: PutDoc,  *)
(* then PutNode, under one request_id.  unary replays an RPC once when it  *)
(* was refused as UNAUTHENTICATED; retry runs the whole call again while   *)
(* it fails with a status of its policy; and the application may issue the *)
(* whole call again by hand.  A request whose client stopped waiting, at a *)
(* deadline, because the connection broke or because the future was        *)
(* dropped, stays on the wire: the server may still execute it, at any     *)
(* time, also after a later one.                                           *)
(***************************************************************************)
EXTENDS Naturals

CONSTANTS
  HasBinding,           \* put_document is given a NodeBinding
  AuthEnabled,          \* the client has a token manager
  RequestTimeout,       \* RociaDbBuilder::request_timeout is set
  RetryUnavailable,     \* RetryPolicy::retry_unavailable
  MaxAttempts,          \* RetryPolicy::max_attempts
  MaxCalls              \* bound: how often the application issues the call

ASSUME OptionsAssumption ==
  /\ HasBinding \in BOOLEAN /\ AuthEnabled \in BOOLEAN
  /\ RequestTimeout \in BOOLEAN /\ RetryUnavailable \in BOOLEAN
ASSUME LimitsAssumption == MaxAttempts \in Nat /\ MaxCalls \in Nat

VARIABLES
  supplied,             \* the application supplies the request_id
  pc,
  rpc,                  \* which RPC of the call is being made
  replayed,             \* it was replayed after an UNAUTHENTICATED
  attempt,              \* runs of the closure retry was given, this one included
  key,                  \* request_id: 0, or the latest of those the SDK minted
  status,               \* what the last attempt at an RPC came to
  reply,                \* what the server answered the request waited for
  sends,                \* requests sent so far; the last one is waited for
  calls,                \* how often the application has issued the call
  base,                 \* history: sends when it last did
  wire,                 \* requests the server has yet to deal with
  markers,              \* the server's idempotency markers
  applied               \* history: executions of PutDoc and of PutNode

client == <<pc, rpc, replayed, attempt, key, status>>
caller == <<supplied, calls, base>>
server == <<markers, applied>>
vars == <<client, reply, sends, caller, wire, server>>

LastRpc == IF HasBinding THEN 2 ELSE 1
Rpcs == 1..LastRpc

Refusals == {"UNAUTHENTICATED", "ABORTED", "UNAVAILABLE", "FAILED"}
Statuses == Refusals \cup {"OK", "DEADLINE_EXCEEDED"}

Requests == [rpc : Rpcs, key : Nat, n : Nat]

TypeOK ==
  /\ supplied \in BOOLEAN
  /\ pc \in {"idle", "ready", "sent", "refreshing", "sleeping", "done", "gone"}
  /\ rpc \in Rpcs /\ replayed \in BOOLEAN
  /\ attempt \in Nat /\ key \in Nat
  /\ status \in Statuses \cup {"none"} /\ reply \in Statuses \cup {"none"}
  /\ sends \in Nat /\ calls \in Nat /\ base \in Nat
  /\ wire \subseteq Requests
  /\ markers \subseteq Rpcs \X Nat
  /\ applied \in [Rpcs -> Nat]

Init ==
  /\ supplied \in BOOLEAN
  /\ pc = "idle" /\ rpc = 1 /\ replayed = FALSE /\ attempt = 0 /\ key = 0
  /\ status = "none" /\ reply = "none"
  /\ sends = 0 /\ calls = 0 /\ base = 0
  /\ wire = {} /\ markers = {} /\ applied = [r \in Rpcs |-> 0]

attempts == IF MaxAttempts = 0 THEN 1 ELSE MaxAttempts

-------------------------------------------------------------------------------
(* Mutated forms of the definitions below, each a bug this code could have;   *)
(* no specification uses them.                                                *)

\* Every run of the closure mints a key of its own.
KeyPerRun == key' = key + 1

\* The node is written although the document was not.
NextRpcWhateverCame(st) ==
  /\ st # "UNAUTHENTICATED" /\ rpc < LastRpc
  /\ pc' = "ready" /\ rpc' = rpc + 1 /\ replayed' = FALSE
  /\ UNCHANGED <<attempt, key>>

\* The call returns with the document written and the node not.
OkAfterTheDocument(st) ==
  /\ st = "OK"
  /\ pc' = "done"
  /\ UNCHANGED <<rpc, replayed, attempt, key>>

\* The replay is sent without remembering that it was one.
RefreshForgetsReplay ==
  /\ pc = "refreshing" /\ pc' = "ready"
  /\ UNCHANGED <<rpc, replayed, attempt, key, status, reply, sends, caller, wire,
                 server>>

\* The outer timeout is not armed: a server that never answers is waited for.
NoTimeout == FALSE /\ UNCHANGED vars

-------------------------------------------------------------------------------
(* RociaDbClient::retry and put_document *)

\* put_document takes the caller's request_id or mints one of its own.
NewKey == IF supplied THEN key' = key ELSE key' = key + 1

BeginRun == pc' = "ready" /\ rpc' = 1 /\ replayed' = FALSE /\ NewKey

\* The application issues the call, for the first time or because it was told, or
\* fears, that the last one failed.
Call ==
  /\ calls < MaxCalls
  /\ pc \in {"idle", "gone"} \/ (pc = "done" /\ status # "OK")
  /\ BeginRun
  /\ attempt' = 1
  /\ calls' = calls + 1 /\ base' = sends
  /\ UNCHANGED <<supplied, status, reply, sends, wire, server>>

Send ==
  /\ pc = "ready"
  /\ pc' = "sent"
  /\ sends' = sends + 1
  /\ wire' = wire \cup {[rpc |-> rpc, key |-> key, n |-> sends + 1]}
  /\ reply' = "none"
  /\ UNCHANGED <<rpc, replayed, attempt, key, status, caller, server>>

should_retry(st) ==
  st = "ABORTED" \/ (RetryUnavailable /\ st = "UNAVAILABLE")

\* The RPC succeeded and there is another one.
NextRpc(st) ==
  /\ st = "OK" /\ rpc < LastRpc
  /\ pc' = "ready" /\ rpc' = rpc + 1 /\ replayed' = FALSE
  /\ UNCHANGED <<attempt, key>>

ReturnOk(st) ==
  /\ st = "OK" /\ rpc = LastRpc
  /\ pc' = "done"
  /\ UNCHANGED <<rpc, replayed, attempt, key>>

\* refresh_for_replay: the token is refreshed, once, before the RPC fails.
Replayable(st) == st = "UNAUTHENTICATED" /\ AuthEnabled /\ ~replayed

RefreshToken(st) ==
  /\ Replayable(st)
  /\ pc' = "refreshing"
  /\ UNCHANGED <<rpc, replayed, attempt, key>>

\* The call fails: retry sleeps and runs it again, or returns the error.
FailRun(st) ==
  /\ st # "OK" /\ ~Replayable(st)
  /\ pc' = IF attempt < attempts /\ should_retry(st) THEN "sleeping" ELSE "done"
  /\ UNCHANGED <<rpc, replayed, attempt, key>>

AttemptEnds(st) ==
  /\ pc = "sent"
  /\ status' = st
  /\ NextRpc(st) \/ ReturnOk(st) \/ RefreshToken(st) \/ FailRun(st)
  /\ UNCHANGED <<reply, sends, caller, wire, server>>

Receive == reply # "none" /\ AttemptEnds(reply)

\* tokio's timeout, or tonic's, runs out.
DeadlinePasses == RequestTimeout /\ AttemptEnds("DEADLINE_EXCEEDED")

ConnectionBreaks == AttemptEnds("UNAVAILABLE")

RefreshSucceeds ==
  /\ pc = "refreshing"
  /\ pc' = "ready" /\ replayed' = TRUE
  /\ UNCHANGED <<rpc, attempt, key, status, reply, sends, caller, wire, server>>

\* The original UNAUTHENTICATED is returned, which retry does not retry.
RefreshFails ==
  /\ pc = "refreshing"
  /\ pc' = "done"
  /\ UNCHANGED <<rpc, replayed, attempt, key, status, reply, sends, caller, wire,
                 server>>

RunAgain ==
  /\ pc = "sleeping"
  /\ BeginRun
  /\ attempt' = attempt + 1
  /\ UNCHANGED <<status, reply, sends, caller, wire, server>>

\* The future of the whole call is dropped.
Cancel ==
  /\ pc \in {"sent", "refreshing", "sleeping"}
  /\ pc' = "gone"
  /\ UNCHANGED <<rpc, replayed, attempt, key, status, reply, sends, caller, wire,
                 server>>

-------------------------------------------------------------------------------
(* The server *)

\* The answer reaches the client if it still waits for this request.
Answer(m, st) ==
  /\ wire' = wire \ {m}
  /\ reply' = IF pc = "sent" /\ m.n = sends THEN st ELSE reply
  /\ UNCHANGED <<client, sends, caller>>

\* The request's token, its deadline, its contents, a conflict or a duplicate that
\* is still being executed speak against it.
Refuse(m) ==
  /\ \E st \in Refusals : Answer(m, st)
  /\ UNCHANGED server

\* The write is executed and its marker kept; confirming the marker may meet a
\* conflict of its own, which the client sees as ABORTED.
Execute(m) ==
  /\ <<m.rpc, m.key>> \notin markers
  /\ markers' = markers \cup {<<m.rpc, m.key>>}
  /\ applied' = [applied EXCEPT ![m.rpc] = @ + 1]
  /\ \E st \in {"OK", "ABORTED"} : Answer(m, st)

RecognizeReplay(m) ==
  /\ <<m.rpc, m.key>> \in markers
  /\ Answer(m, "OK")
  /\ UNCHANGED server

Lose(m) ==
  /\ wire' = wire \ {m}
  /\ UNCHANGED <<client, reply, sends, caller, server>>

-------------------------------------------------------------------------------
Client ==
  \/ Send \/ Receive \/ DeadlinePasses \/ RefreshSucceeds \/ RefreshFails
  \/ RunAgain

Next ==
  \/ Call \/ Client \/ ConnectionBreaks \/ Cancel
  \/ \E m \in wire : Refuse(m) \/ Execute(m) \/ RecognizeReplay(m) \/ Lose(m)

\* The executor polls the call, its timers fire, and a refresh ends because the
\* HTTP client's own timeout ends it.  The server need not do anything.
Fairness ==
  /\ WF_vars(Send) /\ WF_vars(DeadlinePasses) /\ WF_vars(RunAgain)
  /\ WF_vars(RefreshSucceeds \/ RefreshFails)

Spec == Init /\ [][Next]_vars
FairSpec == Spec /\ Fairness

-------------------------------------------------------------------------------
(* Properties *)

\* The two writes as WriteContract knows them: PutDoc comes before PutNode.
Promise ==
  INSTANCE WriteContract WITH
    Writes <- Rpcs,
    Before <- {<<1, 2>>},
    keys <- IF supplied THEN 1 ELSE key,
    times <- applied,
    acknowledged <- IF pc = "done" /\ status = "OK" THEN Rpcs ELSE {}

\* However often the call is replayed, retried and issued again, and however late
\* its requests arrive: a request_id executes a write once at most, be it the one
\* the application supplies or that of one run; the node never gets ahead of the
\* document; and Ok is the truth.
ImplementsWriteContract == Promise!Spec

\* In particular each write is executed once at most under a request_id of the
\* application's.
AtMostOnce == supplied => \A r \in Rpcs : applied[r] <= 1

\* A call that returned Ok wrote the document, and the node if it binds one.
OkMeansApplied ==
  pc = "done" /\ status = "OK" => \A r \in Rpcs : applied[r] >= 1

\* The two writes are not atomic, but the node is never the one that is there
\* without the other.
NodeNeedsDocument == HasBinding /\ applied[2] >= 1 => applied[1] >= 1

\* Once the call has returned Ok no request of it that is still under way can write
\* any more under the application's request_id: a later write by anyone else stands.
AcknowledgedIsFinal ==
  [][supplied /\ pc = "done" /\ status = "OK" => applied' = applied]_applied

\* One call sends each of its RPCs at most twice per attempt of the policy.
WireBound == sends - base <= 2 * LastRpc * attempts

\* With a request_timeout every call returns, whatever the server does or leaves.
CallEnds == pc \notin {"idle", "done", "gone"} ~> pc \in {"done", "gone"}

=============================================================================

------------------------------ MODULE GraphBatch ------------------------------
(***************************************************************************)
(* A batch of graph writes: put_nodes and add_edges (src/src/graph.rs),    *)
(* which differ in the RPC they make only.                                 *)
(*                                                                         *)
(* The items of a batch are grouped by the id they write.  Up to           *)
(* CONCURRENT_REQUESTS groups run side by side; within a group an item is  *)
(* sent once the one before it was acknowledged.  The first error ends the *)
(* batch and drops what is in flight, which stays on the wire; the         *)
(* application may submit the same items again.                            *)
(*                                                                         *)
(* An item's RPC is one request here.  unary may send it twice, the second *)
(* time after an UNAUTHENTICATED answer, which says that the first one was *)
(* not executed and is off the wire.                                       *)
(***************************************************************************)
EXTENDS Naturals, FiniteSets

CONSTANTS
  Ids,                  \* node ids, or edge ids
  Size,                 \* number of items
  id,                   \* id[i]: what the item at position i writes
  CONCURRENT_REQUESTS,
  CallerKeys,           \* the application supplies every request_id
  RequestTimeout,       \* RociaDbBuilder::request_timeout is set
  MaxRuns               \* bound: how often the batch is submitted

Items == 1..Size

ASSUME BatchAssumption == Size \in Nat /\ id \in [Items -> Ids]
ASSUME LimitAssumption == CONCURRENT_REQUESTS \in Nat \ {0} /\ MaxRuns \in Nat
ASSUME OptionAssumption == CallerKeys \in BOOLEAN /\ RequestTimeout \in BOOLEAN

VARIABLES
  pc,                   \* of the call: put_nodes or add_edges
  run,                  \* how often the batch has been submitted
  group,                \* what each group is doing
  todo,                 \* the items of each group that are not acknowledged
  reply,                \* what the server answered the group's request
  wire,                 \* requests the server has yet to deal with
  markers,              \* the server's idempotency markers
  stored,               \* the item whose value the server has under an id
  applied               \* history: how often each item was executed

client == <<pc, run, group, todo>>
server == <<markers, stored, applied>>
vars == <<client, reply, wire, server>>

\* The items that write n.
ItemsOf(n) == {i \in Items : id[i] = n}

Written == {n \in Ids : ItemsOf(n) # {}}

Requests == [item : Items, key : Nat, run : Nat]

TypeOK ==
  /\ pc \in {"idle", "running", "ok", "failed", "gone"}
  /\ run \in Nat
  /\ group \in [Ids -> {"queued", "ready", "sent", "done"}]
  /\ todo \in [Ids -> SUBSET Items]
  /\ reply \in [Ids -> {"none", "ok", "err"}]
  /\ wire \subseteq Requests
  /\ markers \subseteq Items \X Nat
  /\ stored \in [Ids -> 0..Size]
  /\ applied \in [Items -> Nat]
  /\ \A n \in Ids : group[n] \in {"queued", "ready", "sent"} => todo[n] # {}

Init ==
  /\ pc = "idle" /\ run = 0
  /\ group = [n \in Ids |-> "done"]
  /\ todo = [n \in Ids |-> {}]
  /\ reply = [n \in Ids |-> "none"]
  /\ wire = {} /\ markers = {}
  /\ stored = [n \in Ids |-> 0] /\ applied = [i \in Items |-> 0]

Running == {n \in Ids : group[n] \in {"ready", "sent"}}

-------------------------------------------------------------------------------
(* Mutated forms of the definitions below, each a bug this code could have;   *)
(* no specification uses them.                                                *)

\* The groups do not keep the order of the batch.
AnyOfTheGroup(i, n) == i \in todo[n]

\* Every submission mints its keys, the application's own included.
KeyPerRun == run

\* A group that failed is done: the batch goes on without it.
FailedGroupIsDone(n) ==
  /\ group[n] = "sent" /\ reply[n] = "err"
  /\ group' = [group EXCEPT ![n] = "done"]
  /\ UNCHANGED <<pc, run, todo, reply, wire, server>>

\* Nothing ends an RPC the server does not answer.
NoTimeout(n) == FALSE /\ UNCHANGED vars

-------------------------------------------------------------------------------
(* The batch *)

\* A request_id the application supplied is the item's own; one the SDK mints
\* is new with every submission.
RequestKey == IF CallerKeys THEN 0 ELSE run

\* build_put_node_requests and group_preserving_order.
Submit ==
  /\ run < MaxRuns /\ pc \in {"idle", "failed", "gone"}
  /\ pc' = "running" /\ run' = run + 1
  /\ group' = [n \in Ids |-> IF n \in Written THEN "queued" ELSE "done"]
  /\ todo' = [n \in Ids |-> ItemsOf(n)]
  /\ UNCHANGED <<reply, wire, server>>

MayStart == Cardinality(Running) < CONCURRENT_REQUESTS

\* The groups come from a HashMap: any of them may be the next one.
StartGroup(n) ==
  /\ group[n] = "queued" /\ MayStart
  /\ group' = [group EXCEPT ![n] = "ready"]
  /\ UNCHANGED <<pc, run, todo, reply, wire, server>>

\* group_preserving_order: a group has its items in the order of the batch.
IsNext(i, n) == i \in todo[n] /\ \A j \in todo[n] : i <= j

Send(n) ==
  /\ group[n] = "ready"
  /\ group' = [group EXCEPT ![n] = "sent"]
  /\ \E i \in Items :
       /\ IsNext(i, n)
       /\ wire' = wire \cup {[item |-> i, key |-> RequestKey, run |-> run]}
  /\ UNCHANGED <<pc, run, todo, reply, server>>

AfterAnItem(n) == IF todo'[n] = {} THEN "done" ELSE "ready"

Acknowledged(n) ==
  /\ group[n] = "sent" /\ reply[n] = "ok"
  /\ \E i \in Items :
       /\ IsNext(i, n)
       /\ todo' = [todo EXCEPT ![n] = @ \ {i}]
  /\ group' = [group EXCEPT ![n] = AfterAnItem(n)]
  /\ reply' = [reply EXCEPT ![n] = "none"]
  /\ UNCHANGED <<pc, run, wire, server>>

\* The call is over, and the futures of all its groups are dropped.
End(how) ==
  /\ pc' = how
  /\ group' = [n \in Ids |-> "done"]
  /\ todo' = [n \in Ids |-> {}]
  /\ reply' = [n \in Ids |-> "none"]
  /\ UNCHANGED <<run, wire, server>>

GroupFails(n) == group[n] = "sent" /\ reply[n] = "err" /\ End("failed")

DeadlinePasses(n) == RequestTimeout /\ group[n] = "sent" /\ End("failed")

ConnectionBreaks == Running # {} /\ End("failed")

Finish ==
  /\ pc = "running" /\ \A n \in Ids : group[n] = "done"
  /\ End("ok")

\* The future of the call is dropped.
Cancel == pc = "running" /\ End("gone")

-------------------------------------------------------------------------------
(* The server *)

\* The answer reaches the group that waits for it, unless its batch is over.
Answer(m, st) ==
  /\ wire' = wire \ {m}
  /\ reply' = IF m.run = run /\ group[id[m.item]] = "sent"
              THEN [reply EXCEPT ![id[m.item]] = st] ELSE reply
  /\ UNCHANGED client

\* The item is invalid, an endpoint of the edge is missing, the triplet is taken,
\* the write conflicts, or a duplicate of it is still being executed.
Refuse(m) == Answer(m, "err") /\ UNCHANGED server

\* The write is executed and its marker kept; confirming the marker may fail.
Execute(m) ==
  /\ <<m.item, m.key>> \notin markers
  /\ markers' = markers \cup {<<m.item, m.key>>}
  /\ stored' = [stored EXCEPT ![id[m.item]] = m.item]
  /\ applied' = [applied EXCEPT ![m.item] = @ + 1]
  /\ \E st \in {"ok", "err"} : Answer(m, st)

RecognizeReplay(m) ==
  /\ <<m.item, m.key>> \in markers
  /\ Answer(m, "ok")
  /\ UNCHANGED server

Lose(m) == wire' = wire \ {m} /\ UNCHANGED <<client, reply, server>>

-------------------------------------------------------------------------------
Group(n) ==
  \/ StartGroup(n) \/ Send(n) \/ Acknowledged(n)
  \/ GroupFails(n) \/ DeadlinePasses(n)

Next ==
  \/ Submit \/ Finish \/ Cancel \/ ConnectionBreaks
  \/ \E n \in Ids : Group(n)
  \/ \E m \in wire : Refuse(m) \/ Execute(m) \/ RecognizeReplay(m) \/ Lose(m)

\* The executor polls the call and its timers fire.  The server need not answer.
Fairness == WF_vars(Finish) /\ \A n \in Ids : WF_vars(Group(n))

Spec == Init /\ [][Next]_vars
FairSpec == Spec /\ Fairness

-------------------------------------------------------------------------------
(* Properties *)

\* The server takes the items of an id one by one in the order of the batch, however
\* late the requests of an abandoned submission arrive: where the batch is submitted
\* again, that takes the application's own keys, which the server knows an item by.
InOrder ==
  [][\A n \in Ids :
       \/ stored'[n] = stored[n]
       \/ /\ stored'[n] \in ItemsOf(n) /\ stored'[n] > stored[n]
          /\ \A i \in ItemsOf(n) : i > stored[n] => i >= stored'[n]]_stored

\* The items as WriteContract knows them: those of an id come in the order of the batch.
Promise ==
  INSTANCE WriteContract WITH
    Writes <- Items,
    Before <- {p \in Items \X Items : id[p[1]] = id[p[2]] /\ p[1] < p[2]},
    supplied <- CallerKeys,
    keys <- IF CallerKeys THEN 1 ELSE run,
    times <- applied,
    acknowledged <- IF pc = "ok" THEN Items ELSE {}

\* A batch that is submitted again after a failure executes what never landed and
\* nothing twice (the doc of put_nodes and add_edges) under the application's keys,
\* and nothing more than once a submission otherwise; no item gets ahead of one of the
\* same id before it; and Ok is the truth.
ImplementsWriteContract == Promise!Spec

\* In particular each item is executed once at most under the application's keys.
AppliedOnce == CallerKeys => \A i \in Items : applied[i] <= 1

\* Ok means that the last item of each id is what the server has, and will have (the doc
\* of put_nodes and add_edges), after a failed submission too if the keys are the
\* application's own.
LastItemWins ==
  pc = "ok" => \A n \in Written :
    stored[n] \in ItemsOf(n) /\ \A i \in ItemsOf(n) : i <= stored[n]

\* No submission has more than CONCURRENT_REQUESTS requests at the server, those it
\* abandoned when it failed included.
WireBound ==
  \A r \in 1..run : Cardinality({m \in wire : m.run = r}) <= CONCURRENT_REQUESTS

\* With a request_timeout every batch ends, whatever the server does or leaves.
BatchEnds == pc = "running" ~> pc # "running"

===============================================================================

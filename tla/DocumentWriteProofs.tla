-------------------------- MODULE DocumentWriteProofs --------------------------
(***************************************************************************)
(* Proofs about DocumentWrite, for any policy, any number of calls and any *)
(* choice of the client's options.                                         *)
(***************************************************************************)
EXTENDS DocumentWrite, Integers, FiniteSetTheorems, TLAPS

LEMMA RpcsFacts ==
  /\ 1 \in Rpcs /\ LastRpc \in Nat /\ (HasBinding => 2 \in Rpcs)
  /\ \A r \in Rpcs : r \in Nat /\ (r < LastRpc => r + 1 \in Rpcs /\ r = 1)
  /\ \A r \in Rpcs : r <= LastRpc /\ (r # LastRpc => r < LastRpc)
BY DEF Rpcs, LastRpc

-------------------------------------------------------------------------------
(* Type correctness *)

LEMMA TypeInit == Init => TypeOK
<1> SUFFICES ASSUME Init PROVE TypeOK
  OBVIOUS
<1>1. applied \in [Rpcs -> Nat]
  BY DEF Init
<1>2. markers \subseteq Rpcs \X Nat /\ wire \subseteq Requests
  BY DEF Init
<1> QED BY <1>1, <1>2, RpcsFacts DEF Init, TypeOK

\* How an attempt ends leaves the client's variables in their types.
LEMMA AttemptEndsType ==
  ASSUME TypeOK, NEW st \in Statuses, AttemptEnds(st)
  PROVE  TypeOK'
<1>1. /\ rpc \in Rpcs /\ replayed \in BOOLEAN
      /\ (rpc < LastRpc => rpc + 1 \in Rpcs)
  BY RpcsFacts DEF TypeOK
<1>2. /\ pc' \in {"ready", "refreshing", "sleeping", "done"}
      /\ rpc' \in Rpcs /\ replayed' \in BOOLEAN /\ attempt' = attempt /\ key' = key
  <2>1. CASE NextRpc(st)
    BY <1>1, <2>1 DEF NextRpc
  <2>2. CASE ReturnOk(st) \/ RefreshToken(st) \/ FailRun(st)
    BY <1>1, <2>2 DEF ReturnOk, RefreshToken, FailRun
  <2> QED BY <2>1, <2>2 DEF AttemptEnds
<1>3. /\ UNCHANGED <<supplied, reply, sends, calls, base, wire, markers, applied>>
      /\ status' = st
  BY DEF AttemptEnds, caller, server
<1>4. /\ attempt \in Nat /\ key \in Nat /\ reply \in Statuses \cup {"none"}
      /\ sends \in Nat /\ calls \in Nat /\ base \in Nat /\ supplied \in BOOLEAN
      /\ wire \subseteq Requests /\ markers \subseteq Rpcs \X Nat
      /\ applied \in [Rpcs -> Nat]
  BY DEF TypeOK
<1> QED BY <1>2, <1>3, <1>4 DEF TypeOK

LEMMA AnswerType ==
  ASSUME TypeOK, NEW m \in wire, NEW st \in Statuses, Answer(m, st),
         markers' \subseteq Rpcs \X Nat, applied' \in [Rpcs -> Nat]
  PROVE  TypeOK'
BY DEF TypeOK, Answer, client, caller

LEMMA TypeStep == TypeOK /\ [Next]_vars => TypeOK'
<1> SUFFICES ASSUME TypeOK, [Next]_vars PROVE TypeOK'
  OBVIOUS
<1> USE DEF client, caller, server
<1>1. CASE UNCHANGED vars
  BY <1>1 DEF vars, TypeOK
<1>2. ASSUME Call \/ RunAgain PROVE TypeOK'
  <2>1. /\ pc' = "ready" /\ rpc' \in Rpcs /\ replayed' = FALSE
        /\ key' \in Nat /\ attempt' \in Nat /\ calls' \in Nat /\ base' \in Nat
    BY <1>2, RpcsFacts DEF Call, RunAgain, BeginRun, NewKey, TypeOK
  <2>2. UNCHANGED <<supplied, status, reply, sends, wire, markers, applied>>
    BY <1>2 DEF Call, RunAgain
  <2> QED BY <2>1, <2>2 DEF TypeOK
<1>3. ASSUME Send PROVE TypeOK'
  <2>1. [rpc |-> rpc, key |-> key, n |-> sends + 1] \in Requests
    BY DEF TypeOK, Requests
  <2> QED BY <1>3, <2>1 DEF Send, TypeOK
<1>4. ASSUME Receive PROVE TypeOK'
  BY <1>4, AttemptEndsType DEF Receive, TypeOK
<1>5. ASSUME DeadlinePasses \/ ConnectionBreaks PROVE TypeOK'
  BY <1>5, AttemptEndsType DEF DeadlinePasses, ConnectionBreaks, Statuses, Refusals
<1>6. ASSUME RefreshSucceeds \/ RefreshFails \/ Cancel PROVE TypeOK'
  BY <1>6 DEF RefreshSucceeds, RefreshFails, Cancel, TypeOK
<1>7. ASSUME NEW m \in wire, Refuse(m) PROVE TypeOK'
  BY <1>7, AnswerType DEF Refuse, TypeOK, Statuses
<1>8. ASSUME NEW m \in wire, Execute(m) PROVE TypeOK'
  <2>1. m.rpc \in Rpcs /\ m.key \in Nat
    BY DEF TypeOK, Requests
  <2>2. markers' \subseteq Rpcs \X Nat /\ applied' \in [Rpcs -> Nat]
    BY <1>8, <2>1 DEF Execute, TypeOK
  <2> QED BY <1>8, <2>2, AnswerType DEF Execute, Statuses, Refusals
<1>9. ASSUME NEW m \in wire, RecognizeReplay(m) PROVE TypeOK'
  BY <1>9, AnswerType DEF RecognizeReplay, TypeOK, Statuses
<1>10. ASSUME NEW m \in wire, Lose(m) PROVE TypeOK'
  BY <1>10 DEF Lose, TypeOK
<1> QED
  BY <1>1, <1>2, <1>3, <1>4, <1>5, <1>6, <1>7, <1>8, <1>9, <1>10 DEF Next, Client

\* Every variable keeps its type, whatever the policy and the options are.
THEOREM TypeCorrect == Spec => []TypeOK
BY TypeInit, TypeStep, PTL DEF Spec

-------------------------------------------------------------------------------
(* A request_id executes a write once *)

\* The request_ids that the call has used so far, and those under which the RPC r was
\* executed.
Minted == IF supplied THEN {0} ELSE 1..key
KeysOf(r) == {k \in Nat : <<r, k>> \in markers}

\* An RPC was executed as often as there are request_ids it was executed under.
KeyInv ==
  /\ supplied => key = 0
  /\ pc # "idle" => key \in Minted
  /\ \A m \in wire : m.key \in Minted
  /\ \A r \in Rpcs : KeysOf(r) \subseteq Minted /\ applied[r] = Cardinality(KeysOf(r))

LEMMA MintedFacts ==
  ASSUME TypeOK
  PROVE  /\ Minted \subseteq Nat /\ IsFiniteSet(Minted)
         /\ Cardinality(Minted) = IF supplied THEN 1 ELSE key
<1>1. key \in Nat
  BY DEF TypeOK
<1>2. CASE supplied
  BY <1>2, FS_Singleton DEF Minted
<1>3. CASE ~supplied
  <2>1. IsFiniteSet(1..key) /\ Cardinality(1..key) = IF 1 > key THEN 0 ELSE key - 1 + 1
    BY <1>1, FS_Interval
  <2>2. Cardinality(1..key) = key
    BY <1>1, <2>1
  <2> QED BY <1>1, <1>3, <2>1, <2>2 DEF Minted
<1> QED BY <1>2, <1>3

LEMMA KeyInit == Init => KeyInv
<1> SUFFICES ASSUME Init PROVE KeyInv
  OBVIOUS
<1>1. \A r \in Rpcs : KeysOf(r) = {} /\ applied[r] = 0
  BY DEF Init, KeysOf
<1> QED BY <1>1, FS_EmptySet DEF Init, KeyInv

LEMMA KeyStep == TypeOK /\ KeyInv /\ [Next]_vars => KeyInv'
<1> SUFFICES ASSUME TypeOK, KeyInv, [Next]_vars PROVE KeyInv'
  OBVIOUS
<1> USE DEF client, caller, server
<1>1. ASSUME UNCHANGED <<supplied, key, markers, applied>>, wire' \subseteq wire,
             pc = "idle" => pc' = "idle"
      PROVE  KeyInv'
  <2>1. Minted' = Minted /\ \A r : KeysOf(r)' = KeysOf(r)
    BY <1>1 DEF Minted, KeysOf
  <2> QED BY <1>1, <2>1 DEF KeyInv
<1>2. ASSUME Call \/ RunAgain PROVE KeyInv'
  <2>1. /\ UNCHANGED <<supplied, wire, markers, applied>> /\ key \in Nat
        /\ IF supplied THEN key' = key ELSE key' = key + 1
    BY <1>2 DEF Call, RunAgain, BeginRun, NewKey, TypeOK
  <2>2. key' \in Minted' /\ Minted \subseteq Minted' /\ \A r : KeysOf(r)' = KeysOf(r)
    BY <2>1 DEF Minted, KeysOf, KeyInv
  <2> QED BY <2>1, <2>2 DEF KeyInv
<1>3. ASSUME Send PROVE KeyInv'
  <2>1. /\ pc # "idle" /\ UNCHANGED <<supplied, key, markers, applied>>
        /\ wire' = wire \cup {[rpc |-> rpc, key |-> key, n |-> sends + 1]}
    BY <1>3 DEF Send
  <2>2. Minted' = Minted /\ \A r : KeysOf(r)' = KeysOf(r)
    BY <2>1 DEF Minted, KeysOf
  <2> QED BY <2>1, <2>2 DEF KeyInv
<1>4. ASSUME NEW st, AttemptEnds(st) PROVE KeyInv'
  BY <1>1, <1>4 DEF AttemptEnds, NextRpc, ReturnOk, RefreshToken, FailRun
<1>5. ASSUME RefreshSucceeds \/ RefreshFails \/ Cancel PROVE KeyInv'
  BY <1>1, <1>5 DEF RefreshSucceeds, RefreshFails, Cancel
<1>6. ASSUME NEW m \in wire, Refuse(m) \/ RecognizeReplay(m) \/ Lose(m) PROVE KeyInv'
  BY <1>1, <1>6 DEF Refuse, RecognizeReplay, Lose, Answer
<1>7. ASSUME NEW m \in wire, Execute(m) PROVE KeyInv'
  <2>1. /\ m.key \in Minted /\ m.rpc \in Rpcs /\ m.key \in Nat
        /\ <<m.rpc, m.key>> \notin markers /\ markers' = markers \cup {<<m.rpc, m.key>>}
        /\ applied' = [applied EXCEPT ![m.rpc] = @ + 1]
        /\ UNCHANGED <<supplied, key, pc>> /\ wire' \subseteq wire
    BY <1>7 DEF Execute, Answer, KeyInv, TypeOK, Requests
  <2>2. Minted' = Minted
    BY <2>1 DEF Minted
  <2>3. ASSUME NEW r \in Rpcs
        PROVE  KeysOf(r)' \subseteq Minted /\ applied'[r] = Cardinality(KeysOf(r)')
    <3>1. CASE r = m.rpc
      <4>1. KeysOf(r)' = KeysOf(r) \cup {m.key} /\ m.key \notin KeysOf(r)
        BY <2>1, <3>1 DEF KeysOf
      <4>2. IsFiniteSet(KeysOf(r))
        BY MintedFacts, FS_Subset DEF KeyInv
      <4>3. Cardinality(KeysOf(r)') = Cardinality(KeysOf(r)) + 1
        BY <4>1, <4>2, FS_AddElement
      <4>4. applied'[r] = applied[r] + 1
        BY <2>1, <3>1 DEF TypeOK
      <4> QED BY <2>1, <4>1, <4>3, <4>4 DEF KeyInv
    <3>2. CASE r # m.rpc
      <4>1. applied'[r] = applied[r] /\ KeysOf(r)' = KeysOf(r)
        BY <2>1, <3>2 DEF TypeOK, KeysOf
      <4> QED BY <4>1 DEF KeyInv
    <3> QED BY <3>1, <3>2
  <2> QED BY <2>1, <2>2, <2>3 DEF KeyInv
<1> QED
  BY <1>1, <1>2, <1>3, <1>4, <1>5, <1>6, <1>7
     DEF Next, vars, Client, Receive, DeadlinePasses, ConnectionBreaks

\* Under a request_id of the caller's the document and the node are written once
\* at most, for any number of replays, retries, calls and late requests.
THEOREM CallerKeyWritesOnce == Spec => []AtMostOnce
<1>1. ASSUME TypeOK, KeyInv PROVE AtMostOnce
  <2> SUFFICES ASSUME supplied, NEW r \in Rpcs PROVE applied[r] <= 1
    BY DEF AtMostOnce
  <2>1. Cardinality(KeysOf(r)) <= Cardinality(Minted)
    BY <1>1, MintedFacts, FS_Subset DEF KeyInv
  <2> QED BY <1>1, <2>1, MintedFacts DEF KeyInv
<1> QED BY <1>1, TypeInit, TypeStep, KeyInit, KeyStep, PTL DEF Spec

-------------------------------------------------------------------------------
(* Ok means written, and the document comes first *)

\* What the server's markers and the requests under way say of its executions.
ServerInv ==
  /\ \A r \in Rpcs, k \in Nat : <<r, k>> \in markers => applied[r] >= 1
  /\ \A r \in Rpcs, k \in Nat : <<r, k>> \in markers => <<1, k>> \in markers
  /\ \A m \in wire : m.rpc # 1 => <<1, m.key>> \in markers
  /\ \A r \in Rpcs : applied[r] >= 1 => applied[1] >= 1

\* What the client may conclude from where it stands and what it was told.
ClientInv ==
  /\ rpc # 1 => <<1, key>> \in markers
  /\ \A m \in wire : m.n <= sends
  /\ pc = "sent" => \A m \in wire : m.n = sends => m.rpc = rpc /\ m.key = key
  /\ pc = "sent" /\ reply = "OK" => <<rpc, key>> \in markers
  /\ pc = "refreshing" => status # "OK"
  /\ pc = "done" /\ status = "OK" => \A r \in Rpcs : applied[r] >= 1

LEMMA ProgressInit == Init => ServerInv /\ ClientInv
BY DEF Init, ServerInv, ClientInv

\* An attempt ends: Ok only if the server said so.
LEMMA ProgressAttemptEnds ==
  ASSUME TypeOK, ServerInv, ClientInv, NEW st, AttemptEnds(st),
         st = "OK" => reply = "OK"
  PROVE  ServerInv' /\ ClientInv'
<1> USE DEF caller, server
<1>1. /\ pc = "sent" /\ UNCHANGED <<reply, sends, wire, markers, applied, key>>
      /\ status' = st
  BY DEF AttemptEnds, NextRpc, ReturnOk, RefreshToken, FailRun
<1>2. ServerInv'
  BY <1>1 DEF ServerInv
<1>3. rpc \in Rpcs /\ key \in Nat
  BY DEF TypeOK
<1>4. st = "OK" => applied[rpc] >= 1 /\ applied[1] >= 1 /\ <<1, key>> \in markers
  BY <1>1, <1>3, RpcsFacts DEF ServerInv, ClientInv
<1>5. CASE NextRpc(st)
  <2>1. pc' = "ready" /\ <<1, key'>> \in markers'
    BY <1>1, <1>4, <1>5 DEF NextRpc
  <2> QED BY <1>1, <1>2, <2>1 DEF ClientInv
<1>6. CASE ReturnOk(st)
  <2>1. pc' = "done" /\ rpc' = rpc /\ rpc = LastRpc /\ st = "OK"
    BY <1>6 DEF ReturnOk
  <2>2. \A r \in Rpcs : r = 1 \/ r = LastRpc
    BY RpcsFacts
  <2>3. \A r \in Rpcs : applied'[r] >= 1
    BY <1>1, <1>4, <2>1, <2>2
  <2> QED BY <1>1, <1>2, <2>1, <2>3 DEF ClientInv
<1>7. CASE RefreshToken(st) \/ FailRun(st)
  <2>1. /\ pc' \in {"refreshing", "sleeping", "done"} /\ rpc' = rpc /\ st # "OK"
    BY <1>7 DEF RefreshToken, Replayable, FailRun
  <2> QED BY <1>1, <1>2, <2>1 DEF ClientInv
<1> QED BY <1>5, <1>6, <1>7 DEF AttemptEnds

\* The server is done with a request, having executed it or not.
LEMMA ProgressAnswer ==
  ASSUME TypeOK, ServerInv, ClientInv, NEW m \in wire, NEW st \in Statuses,
         Answer(m, st), markers \subseteq markers',
         \A r \in Rpcs : applied'[r] >= applied[r], applied' \in [Rpcs -> Nat],
         st = "OK" => <<m.rpc, m.key>> \in markers', ServerInv'
  PROVE  ClientInv'
<1>1. /\ wire' \subseteq wire /\ UNCHANGED <<pc, rpc, key, status, sends>>
      /\ reply' = IF pc = "sent" /\ m.n = sends THEN st ELSE reply
  BY DEF Answer, client
<1>2. 1 \in Rpcs /\ \A r \in Rpcs : applied[r] \in Nat /\ applied'[r] \in Nat
  BY RpcsFacts DEF TypeOK
<1>3. \A r \in Rpcs : applied[r] >= 1 => applied'[r] >= 1
  BY <1>2
<1>4. pc' = "sent" /\ reply' = "OK" => <<rpc', key'>> \in markers'
  <2>1. CASE pc = "sent" /\ m.n = sends
    BY <1>1, <2>1 DEF ClientInv
  <2>2. CASE ~(pc = "sent" /\ m.n = sends)
    BY <1>1, <2>2 DEF ClientInv
  <2> QED BY <2>1, <2>2
<1>5. rpc' # 1 => <<1, key'>> \in markers'
  BY <1>1 DEF ClientInv
<1>6. pc' = "done" /\ status' = "OK" => \A r \in Rpcs : applied'[r] >= 1
  BY <1>1, <1>3 DEF ClientInv
<1>7. /\ \A x \in wire' : x.n <= sends'
      /\ pc' = "sent" => \A x \in wire' : x.n = sends' => x.rpc = rpc' /\ x.key = key'
      /\ pc' = "refreshing" => status' # "OK"
  BY <1>1 DEF ClientInv
<1> QED BY <1>4, <1>5, <1>6, <1>7 DEF ClientInv

LEMMA ProgressStep ==
  TypeOK /\ ServerInv /\ ClientInv /\ [Next]_vars => ServerInv' /\ ClientInv'
<1> SUFFICES ASSUME TypeOK, ServerInv, ClientInv, [Next]_vars
             PROVE  ServerInv' /\ ClientInv'
  OBVIOUS
<1> USE DEF client, caller, server
<1>1. CASE UNCHANGED vars
  BY <1>1 DEF vars, ServerInv, ClientInv
<1>2. ASSUME Call \/ RunAgain PROVE ServerInv' /\ ClientInv'
  <2>1. /\ pc' = "ready" /\ rpc' = 1
        /\ UNCHANGED <<sends, wire, markers, applied>>
    BY <1>2 DEF Call, RunAgain, BeginRun
  <2> QED BY <2>1 DEF ServerInv, ClientInv
<1>3. ASSUME Send PROVE ServerInv' /\ ClientInv'
  <2>1. /\ pc' = "sent" /\ reply' = "none" /\ sends' = sends + 1 /\ sends \in Nat
        /\ UNCHANGED <<rpc, key, markers, applied>>
        /\ wire' = wire \cup {[rpc |-> rpc, key |-> key, n |-> sends + 1]}
    BY <1>3 DEF Send, TypeOK
  <2>2. \A m \in wire : m.n \in Nat /\ m.n <= sends
    BY DEF ClientInv, TypeOK, Requests
  <2>3. \A m \in wire : m.n <= sends' /\ m.n # sends'
    BY <2>1, <2>2
  <2>4. ServerInv'
    BY <2>1 DEF ServerInv, ClientInv
  <2>5. \A m \in wire' : m.n <= sends' /\ (m.n = sends' => m.rpc = rpc /\ m.key = key)
    BY <2>1, <2>3
  <2> QED BY <2>1, <2>4, <2>5 DEF ClientInv
<1>4. ASSUME Receive PROVE ServerInv' /\ ClientInv'
  BY <1>4, ProgressAttemptEnds DEF Receive
<1>5. ASSUME DeadlinePasses \/ ConnectionBreaks PROVE ServerInv' /\ ClientInv'
  BY <1>5, ProgressAttemptEnds DEF DeadlinePasses, ConnectionBreaks
<1>6. ASSUME RefreshSucceeds \/ RefreshFails \/ Cancel PROVE ServerInv' /\ ClientInv'
  <2>1. /\ pc' \in {"ready", "gone"} \/ (pc = "refreshing" /\ pc' = "done")
        /\ UNCHANGED <<rpc, key, status, reply, sends, wire, markers, applied>>
    BY <1>6 DEF RefreshSucceeds, RefreshFails, Cancel
  <2> QED BY <2>1 DEF ServerInv, ClientInv
<1>7. ASSUME NEW m \in wire, Refuse(m) \/ RecognizeReplay(m)
      PROVE  ServerInv' /\ ClientInv'
  <2>1. UNCHANGED <<markers, applied>> /\ wire' \subseteq wire
    BY <1>7 DEF Refuse, RecognizeReplay, Answer
  <2>2. ServerInv'
    BY <2>1 DEF ServerInv
  <2>3. \A r \in Rpcs : applied[r] \in Nat /\ applied'[r] >= applied[r]
    BY <2>1 DEF TypeOK
  <2>4. applied' \in [Rpcs -> Nat] /\ markers \subseteq markers'
    BY <2>1 DEF TypeOK
  <2>5. PICK st \in Statuses :
          Answer(m, st) /\ (st = "OK" => <<m.rpc, m.key>> \in markers')
    BY <1>7, <2>1 DEF Refuse, RecognizeReplay, Refusals, Statuses
  <2> QED BY <2>2, <2>3, <2>4, <2>5, ProgressAnswer
<1>8. ASSUME NEW m \in wire, Execute(m) PROVE ServerInv' /\ ClientInv'
  <2>1. /\ m.rpc \in Rpcs /\ m.key \in Nat /\ 1 \in Rpcs
        /\ markers' = markers \cup {<<m.rpc, m.key>>}
        /\ applied' = [applied EXCEPT ![m.rpc] = @ + 1]
    BY <1>8, RpcsFacts DEF Execute, TypeOK, Requests
  <2>2. /\ \A r \in Rpcs : applied[r] \in Nat
        /\ \A r \in Rpcs : applied'[r] = IF r = m.rpc THEN applied[r] + 1 ELSE applied[r]
    BY <2>1 DEF TypeOK
  <2>3. \A r \in Rpcs : applied'[r] >= applied[r] /\ applied'[r] \in Nat
    BY <2>2
  <2>4. applied'[m.rpc] >= 1
    BY <2>1, <2>2
  <2>5. \A r \in Rpcs : applied[r] >= 1 => applied'[r] >= 1
    BY <2>2
  <2>6. applied'[1] >= 1
    <3>1. m.rpc # 1 => applied[1] >= 1
      BY <2>1 DEF ServerInv
    <3> QED BY <2>1, <2>4, <2>5, <3>1
  <2>7. wire' \subseteq wire
    BY <1>8 DEF Execute, Answer
  <2>8. ASSUME NEW r \in Rpcs, NEW k \in Nat, <<r, k>> \in markers'
        PROVE  applied'[r] >= 1
    <3>1. CASE <<r, k>> \in markers
      BY <2>5, <3>1 DEF ServerInv
    <3>2. CASE <<r, k>> = <<m.rpc, m.key>>
      BY <2>4, <3>2
    <3> QED BY <2>1, <2>8, <3>1, <3>2
  <2>9. ServerInv'
    <3>1. \A x \in wire' : x.rpc # 1 => <<1, x.key>> \in markers'
      BY <2>1, <2>7 DEF ServerInv
    <3>2. \A r \in Rpcs, k \in Nat : <<r, k>> \in markers' => <<1, k>> \in markers'
      BY <2>1 DEF ServerInv
    <3> QED BY <2>6, <2>8, <3>1, <3>2 DEF ServerInv
  <2>10. applied' \in [Rpcs -> Nat] /\ markers \subseteq markers'
    BY <2>1 DEF TypeOK
  <2>11. PICK st \in Statuses : Answer(m, st)
    BY <1>8 DEF Execute, Statuses, Refusals
  <2> QED BY <2>1, <2>3, <2>9, <2>10, <2>11, ProgressAnswer
<1>9. ASSUME NEW m \in wire, Lose(m) PROVE ServerInv' /\ ClientInv'
  BY <1>9 DEF Lose, ServerInv, ClientInv
<1> QED
  BY <1>1, <1>2, <1>3, <1>4, <1>5, <1>6, <1>7, <1>8, <1>9 DEF Next, Client

\* A call that returned Ok wrote all it was to write, also when its Ok is that of
\* a replay, and whatever became of the requests before it.
THEOREM OkIsTrue == Spec => []OkMeansApplied
<1>1. ClientInv => OkMeansApplied
  BY DEF ClientInv, OkMeansApplied
<1> QED
  BY <1>1, TypeInit, TypeStep, ProgressInit, ProgressStep, PTL DEF Spec

\* A node is never bound to a document that this call has not written, whatever
\* is retried or arrives late.
THEOREM DocumentComesFirst == Spec => []NodeNeedsDocument
<1>1. ServerInv => NodeNeedsDocument
  BY RpcsFacts DEF ServerInv, NodeNeedsDocument
<1> QED
  BY <1>1, TypeInit, TypeStep, ProgressInit, ProgressStep, PTL DEF Spec

-------------------------------------------------------------------------------
(* The two writes implement WriteContract *)

WriteInv == TypeOK /\ KeyInv /\ ServerInv /\ ClientInv

LEMMA WriteInvInit == Init => WriteInv
BY TypeInit, KeyInit, ProgressInit DEF WriteInv

LEMMA WriteInvStep == WriteInv /\ [Next]_vars => WriteInv'
BY TypeStep, KeyStep, ProgressStep DEF WriteInv

\* What the server executes next it has executed under fewer request_ids than the call
\* has used, and a node under fewer than its document.
LEMMA ExecutesAnother ==
  ASSUME WriteInv, NEW m \in wire, Execute(m)
  PROVE  /\ m.rpc \in Rpcs
         /\ applied[m.rpc] < IF supplied THEN 1 ELSE key
         /\ m.rpc = 2 => applied[1] > applied[2]
<1>1. /\ m.rpc \in Rpcs /\ m.key \in Nat /\ m.key \in Minted
      /\ <<m.rpc, m.key>> \notin markers
      /\ m.rpc # 1 => <<1, m.key>> \in markers
  BY DEF Execute, WriteInv, TypeOK, Requests, KeyInv, ServerInv
<1>2. ASSUME NEW S, IsFiniteSet(S), KeysOf(m.rpc) \subseteq S, m.key \in S
      PROVE  applied[m.rpc] < Cardinality(S)
  <2>1. KeysOf(m.rpc) # S
    BY <1>1, <1>2 DEF KeysOf
  <2>2. Cardinality(KeysOf(m.rpc)) < Cardinality(S)
    BY <1>2, <2>1, FS_Subset, FS_CardinalityType
  <2> QED BY <1>1, <2>2 DEF WriteInv, KeyInv
<1>3. applied[m.rpc] < Cardinality(Minted)
  BY <1>1, <1>2, MintedFacts DEF WriteInv, KeyInv
<1>4. ASSUME m.rpc = 2 PROVE applied[1] > applied[2]
  <2>1. KeysOf(2) \subseteq KeysOf(1) /\ m.key \in KeysOf(1) /\ 1 \in Rpcs
    BY <1>1, <1>4, RpcsFacts DEF KeysOf, WriteInv, ServerInv
  <2>2. IsFiniteSet(KeysOf(1)) /\ applied[1] = Cardinality(KeysOf(1))
    BY <2>1, MintedFacts, FS_Subset DEF WriteInv, KeyInv
  <2>3. applied[2] < Cardinality(KeysOf(1))
    BY <1>2, <1>4, <2>1, <2>2
  <2> QED BY <2>1, <2>2, <2>3, RpcsFacts DEF WriteInv, TypeOK
<1> QED BY <1>1, <1>3, <1>4, MintedFacts DEF WriteInv

LEMMA ContractInit == Init => Promise!Init
BY DEF Init, Promise!Init

\* A step of the client's is a new request_id, a return or nothing to the promise; the
\* server's execution of a request is one of the write.
LEMMA ContractStep ==
  ASSUME WriteInv, WriteInv', [Next]_vars
  PROVE  [Promise!Next]_(Promise!wvars)
<1> DEFINE keys == IF supplied THEN 1 ELSE key
           acknowledged == IF pc = "done" /\ status = "OK" THEN Rpcs ELSE {}
<1> USE DEF client, caller, server
<1>1. ASSUME UNCHANGED <<supplied, key, applied>>, ~(pc = "done" /\ status = "OK")
      PROVE  Promise!Acknowledge
  <2>1. acknowledged' \in SUBSET Rpcs /\ acknowledged = {}
    BY <1>1, RpcsFacts DEF Rpcs, LastRpc
  <2>2. \A w \in acknowledged' : applied[w] >= 1
    BY <1>1 DEF WriteInv, ClientInv
  <2> QED BY <1>1, <2>1, <2>2 DEF Promise!Acknowledge
<1>2. ASSUME UNCHANGED <<supplied, key, applied, pc, status>>
      PROVE  UNCHANGED Promise!wvars
  BY <1>2 DEF Promise!wvars, Rpcs, LastRpc
<1>3. ASSUME Call \/ RunAgain PROVE [Promise!Next]_(Promise!wvars)
  <2>1. /\ acknowledged = {} /\ acknowledged' = {} /\ UNCHANGED <<supplied, applied>>
        /\ key' = IF supplied THEN key ELSE key + 1
    BY <1>3 DEF Call, RunAgain, BeginRun, NewKey
  <2>2. CASE supplied
    BY <2>1, <2>2 DEF Promise!wvars
  <2>3. CASE ~supplied
    BY <2>1, <2>3 DEF Promise!Next, Promise!UseNewKey
  <2> QED BY <2>2, <2>3
<1>4. ASSUME Send \/ RefreshSucceeds \/ RefreshFails \/ Cancel
      PROVE  Promise!Acknowledge
  BY <1>1, <1>4 DEF Send, RefreshSucceeds, RefreshFails, Cancel
<1>5. ASSUME NEW st, AttemptEnds(st) PROVE Promise!Acknowledge
  BY <1>1, <1>5 DEF AttemptEnds, NextRpc, ReturnOk, RefreshToken, FailRun
<1>6. ASSUME NEW m \in wire, Refuse(m) \/ RecognizeReplay(m) \/ Lose(m)
      PROVE  UNCHANGED Promise!wvars
  BY <1>2, <1>6 DEF Refuse, RecognizeReplay, Lose, Answer
<1>7. ASSUME NEW m \in wire, Execute(m) PROVE Promise!Next
  <2>1. /\ UNCHANGED <<supplied, key, pc, status>>
        /\ applied' = [applied EXCEPT ![m.rpc] = @ + 1]
    BY <1>7 DEF Execute, Answer
  <2>2. \A v \in Rpcs : <<v, m.rpc>> \in {<<1, 2>>} => applied[v] > applied[m.rpc]
    BY <1>7, ExecutesAnother
  <2>3. Promise!Execute(m.rpc)
    BY <1>7, <2>1, <2>2, ExecutesAnother DEF Promise!Execute
  <2> QED BY <1>7, <2>3, ExecutesAnother DEF Promise!Next
<1> QED
  BY <1>2, <1>3, <1>4, <1>5, <1>6, <1>7
     DEF Next, vars, Client, Receive, DeadlinePasses, ConnectionBreaks, Promise!Next

\* put_document under its policy implements the contract, with a request_id of the
\* application's and without one.
THEOREM PutDocumentImplementsContract == Spec => ImplementsWriteContract
BY WriteInvInit, WriteInvStep, ContractInit, ContractStep, PTL
   DEF Spec, ImplementsWriteContract, Promise!Spec

\* Under a request_id of the caller's nothing is written after the Ok.
THEOREM NothingAfterOk == Spec => AcknowledgedIsFinal
<1>1. ASSUME WriteInv, [Next]_vars
      PROVE  [supplied /\ pc = "done" /\ status = "OK" => applied' = applied]_applied
  <2> SUFFICES ASSUME supplied, pc = "done", status = "OK", NEW m \in wire, Execute(m)
               PROVE  FALSE
    BY <1>1 DEF Next, Client, Call, Send, Receive, DeadlinePasses, ConnectionBreaks,
       AttemptEnds, RefreshSucceeds, RefreshFails, RunAgain, Cancel, Refuse,
       RecognizeReplay, Lose, server, vars
  <2>1. m.rpc \in Rpcs /\ applied[m.rpc] < 1
    BY <1>1, ExecutesAnother
  <2>2. applied[m.rpc] >= 1 /\ applied[m.rpc] \in Nat
    BY <1>1, <2>1 DEF WriteInv, ClientInv, TypeOK
  <2> QED BY <2>1, <2>2
<1> QED BY <1>1, WriteInvInit, WriteInvStep, PTL DEF Spec, AcknowledgedIsFinal


-------------------------------------------------------------------------------
(* Replays and retries are bounded *)

\* What a run of the closure may have sent when it makes the RPC rpc: two requests for
\* each RPC before it, the replay's original and the request that is out.
Spent == 2 * (rpc - 1) + (IF replayed THEN 1 ELSE 0) + (IF pc = "ready" THEN 0 ELSE 1)

\* The runs before this one made every RPC twice.
BoundInv ==
  /\ attempt <= attempts /\ (pc # "idle" => attempt >= 1)
  /\ pc = "sleeping" => attempt < attempts
  /\ pc = "refreshing" => ~replayed
  /\ sends - base <= 2 * LastRpc * (attempt - 1) + Spent \/ pc = "idle"
  /\ pc = "idle" => sends = base

LEMMA AttemptsFacts == attempts \in Nat /\ attempts >= 1
BY LimitsAssumption DEF attempts

LEMMA Above ==
  ASSUME NEW a \in Int, NEW b \in Int, NEW c \in Int, NEW s \in Int, NEW t \in Int,
         a - b <= c + s, s <= t
  PROVE  a - b <= c + t
OBVIOUS

LEMMA BoundInit == Init => BoundInv
BY AttemptsFacts DEF Init, BoundInv

LEMMA BoundAttemptEnds ==
  ASSUME TypeOK, BoundInv, NEW st, AttemptEnds(st)
  PROVE  BoundInv'
<1>1. /\ pc = "sent" /\ UNCHANGED <<sends, base, attempt>>
      /\ attempt \in Nat /\ sends \in Nat /\ base \in Nat /\ rpc \in Nat /\ LastRpc \in Nat
      /\ attempts \in Nat /\ replayed \in BOOLEAN
  BY RpcsFacts, AttemptsFacts DEF TypeOK, AttemptEnds, NextRpc, ReturnOk, RefreshToken, FailRun, caller
<1>2. /\ sends - base <= 2 * LastRpc * (attempt - 1) + Spent /\ attempt <= attempts /\ attempt >= 1
      /\ Spent <= 2 * (rpc - 1) + 2
      /\ ~replayed => Spent <= 2 * (rpc - 1) + 1
  BY <1>1 DEF BoundInv, Spent
<1>3. CASE NextRpc(st)
  <2>1. pc' = "ready" /\ rpc' = rpc + 1 /\ replayed' = FALSE
    BY <1>3 DEF NextRpc
  <2>2. Spent' = 2 * (rpc - 1) + 2
    BY <1>1, <2>1 DEF Spent
  <2>3. Spent <= Spent' /\ Spent \in Int /\ Spent' \in Int /\ 2 * LastRpc * (attempt - 1) \in Int
    BY <1>1, <1>2, <2>1, <2>2 DEF Spent
  <2>4. sends - base <= 2 * LastRpc * (attempt - 1) + Spent'
    <3>1. sends \in Int /\ base \in Int
      BY <1>1
    <3>2. sends - base <= 2 * LastRpc * (attempt - 1) + Spent
      BY <1>2
    <3> QED BY <2>3, <3>1, <3>2, Above
  <2> QED BY <1>1, <1>2, <2>1, <2>4 DEF BoundInv
<1>4. CASE ReturnOk(st) \/ RefreshToken(st) \/ FailRun(st)
  <2>1. /\ pc' \in {"done", "refreshing", "sleeping"} /\ UNCHANGED <<rpc, replayed>>
        /\ pc' = "sleeping" => attempt < attempts
        /\ pc' = "refreshing" => ~replayed
    BY <1>4 DEF ReturnOk, RefreshToken, Replayable, FailRun
  <2>2. Spent' = Spent
    BY <1>1, <2>1 DEF Spent
  <2> QED BY <1>1, <1>2, <2>1, <2>2 DEF BoundInv
<1> QED BY <1>3, <1>4 DEF AttemptEnds

LEMMA BoundStep == TypeOK /\ BoundInv /\ [Next]_vars => BoundInv'
<1> SUFFICES ASSUME TypeOK, BoundInv, [Next]_vars PROVE BoundInv'
  OBVIOUS
<1> USE DEF client, caller
<1>1. /\ attempt \in Nat /\ sends \in Nat /\ base \in Nat /\ rpc \in Rpcs /\ rpc \in Nat
      /\ rpc <= LastRpc /\ attempts \in Nat /\ attempts >= 1 /\ LastRpc \in {1, 2}
      /\ replayed \in BOOLEAN
  BY RpcsFacts, AttemptsFacts DEF TypeOK, LastRpc
<1>2. CASE UNCHANGED <<pc, rpc, replayed, attempt, sends, base>>
  BY <1>2 DEF BoundInv, Spent
<1>3. CASE Call
  <2>1. pc' = "ready" /\ rpc' = 1 /\ replayed' = FALSE /\ attempt' = 1 /\ base' = sends /\ sends' = sends
    BY <1>3 DEF Call, BeginRun
  <2>2. Spent' = 0 /\ sends' - base' = 0
    BY <1>1, <2>1 DEF Spent
  <2>3. 2 * LastRpc * (attempt' - 1) = 0
    BY <1>1, <2>1
  <2> QED BY <1>1, <2>1, <2>2, <2>3 DEF BoundInv
<1>4. CASE Send
  <2>1. pc = "ready" /\ pc' = "sent" /\ sends' = sends + 1 /\ UNCHANGED <<rpc, replayed, attempt, base>>
    BY <1>4 DEF Send
  <2>2. Spent' = Spent + 1 /\ Spent \in Int
    BY <1>1, <2>1 DEF Spent
  <2>3. 2 * LastRpc * (attempt - 1) \in Int
    BY <1>1
  <2> QED BY <1>1, <2>1, <2>2, <2>3 DEF BoundInv
<1>5. CASE Receive \/ DeadlinePasses \/ ConnectionBreaks
  BY <1>5, BoundAttemptEnds DEF Receive, DeadlinePasses, ConnectionBreaks
<1>6. CASE RefreshSucceeds
  <2>1. pc = "refreshing" /\ ~replayed /\ pc' = "ready" /\ replayed' = TRUE
        /\ UNCHANGED <<rpc, attempt, sends, base>>
    BY <1>6 DEF RefreshSucceeds, BoundInv
  <2>2. Spent' = Spent
    BY <1>1, <2>1 DEF Spent
  <2> QED BY <1>1, <2>1, <2>2 DEF BoundInv
<1>7. CASE RefreshFails \/ Cancel
  <2>1. /\ pc # "idle" /\ pc # "ready" /\ pc' \in {"done", "gone"}
        /\ UNCHANGED <<rpc, replayed, attempt, sends, base>>
    BY <1>7 DEF RefreshFails, Cancel
  <2>2. Spent' = Spent
    BY <1>1, <2>1 DEF Spent
  <2> QED BY <1>1, <2>1, <2>2 DEF BoundInv
<1>8. CASE RunAgain
  <2>1. /\ pc = "sleeping" /\ pc' = "ready" /\ rpc' = 1 /\ replayed' = FALSE
        /\ attempt' = attempt + 1 /\ UNCHANGED <<sends, base>> /\ attempt < attempts
    BY <1>8 DEF RunAgain, BeginRun, BoundInv
  <2>2. Spent' = 0 /\ Spent \in Int /\ Spent <= 2 * LastRpc
    BY <1>1, <2>1 DEF Spent
  <2>3. sends - base <= 2 * LastRpc * (attempt - 1) + Spent
    BY <2>1 DEF BoundInv
  <2>4. 2 * LastRpc * (attempt' - 1) = 2 * LastRpc * (attempt - 1) + 2 * LastRpc
    BY <1>1, <2>1
  <2>5. sends - base <= 2 * LastRpc * (attempt' - 1) + 0
    BY <1>1, <2>2, <2>3, <2>4
  <2> QED BY <1>1, <2>1, <2>2, <2>5 DEF BoundInv
<1> QED
  BY <1>2, <1>3, <1>4, <1>5, <1>6, <1>7, <1>8
     DEF Next, Client, vars, Refuse, Answer, Execute, RecognizeReplay, Lose

\* One call sends each of its RPCs at most twice for each attempt its policy allows,
\* however often the token is refused and whatever fails.
THEOREM RequestsAreBounded == Spec => []WireBound
<1>1. ASSUME TypeOK, BoundInv PROVE WireBound
  <2>1. /\ attempt \in Nat /\ sends \in Nat /\ base \in Nat /\ rpc \in Nat /\ rpc <= LastRpc
        /\ attempts \in Nat /\ attempts >= 1 /\ LastRpc \in {1, 2} /\ replayed \in BOOLEAN
        /\ attempt <= attempts
    BY <1>1, RpcsFacts, AttemptsFacts DEF TypeOK, LastRpc, BoundInv
  <2>2. CASE pc = "idle"
    BY <1>1, <2>1, <2>2 DEF BoundInv, WireBound
  <2>3. CASE pc # "idle"
    <3>1. Spent \in Int /\ Spent <= 2 * LastRpc
      BY <2>1 DEF Spent
    <3>2. sends - base <= 2 * LastRpc * (attempt - 1) + Spent
      BY <1>1, <2>3 DEF BoundInv
    <3>3. 2 * LastRpc * (attempt - 1) + 2 * LastRpc <= 2 * LastRpc * attempts
      BY <2>1
    <3> QED BY <2>1, <3>1, <3>2, <3>3 DEF WireBound
  <2> QED BY <2>2, <2>3
<1> QED BY <1>1, TypeInit, TypeStep, BoundInit, BoundStep, PTL DEF Spec


-------------------------------------------------------------------------------
(* A call takes few steps *)

\* What the RPC being made may still take: it is sent, answered, its token refreshed.
Phase ==
  CASE pc = "ready" -> 3
    [] pc = "sent" -> 2
    [] pc \in {"refreshing", "sleeping"} -> 1
    [] OTHER -> 0

\* The replay that may still come, and the RPCs after this one.
InRun ==
  6 * (LastRpc - rpc) + (IF ~replayed /\ pc \in {"ready", "sent", "refreshing"} THEN 3 ELSE 0)
    + Phase

\* What the call may still take: this run and the runs its policy still allows.
Work ==
  CASE pc \in {"idle", "done", "gone"} -> 0
    [] pc = "sleeping" -> 12 * (attempts - attempt) + 1
    [] OTHER -> 12 * (attempts - attempt) + InRun

\* The runs after this one leave room for this one.
LEMMA WorkRange ==
  ASSUME TypeOK, BoundInv
  PROVE  Work \in Nat /\ Work <= 12 * attempts /\ (pc \notin {"idle", "done", "gone"} => Work >= 1)
<1>1. /\ rpc \in Nat /\ rpc >= 1 /\ LastRpc \in Nat /\ LastRpc <= 2 /\ rpc <= LastRpc
      /\ attempt \in Nat /\ attempts \in Nat /\ attempt <= attempts
  BY RpcsFacts, AttemptsFacts DEF TypeOK, BoundInv, LastRpc, Rpcs
<1>2. CASE pc \in {"idle", "done", "gone"}
  BY <1>1, <1>2 DEF Work
<1>3. CASE pc = "sleeping"
  <2>1. attempt < attempts /\ Work = 12 * (attempts - attempt) + 1 /\ attempt >= 1
    BY <1>3 DEF Work, BoundInv
  <2> QED BY <1>1, <1>3, <2>1
<1>4. CASE pc \in {"ready", "sent", "refreshing"}
  <2>1. Work = 12 * (attempts - attempt) + InRun /\ attempt >= 1
    BY <1>4 DEF Work, BoundInv
  <2>2. Phase \in 1..3
    BY <1>4 DEF Phase
  <2>3. InRun \in 1..12
    BY <1>1, <2>2 DEF InRun
  <2> QED BY <1>1, <1>4, <2>1, <2>3
<1> QED BY <1>2, <1>3, <1>4 DEF TypeOK

\* An attempt at an RPC ends: the next RPC, the refresh, the sleep and the return are
\* all nearer the end of the call.
LEMMA WorkAttemptEnds ==
  ASSUME TypeOK, BoundInv, NEW st, AttemptEnds(st)
  PROVE  Work' < Work
<1>1. /\ pc = "sent" /\ attempt' = attempt
      /\ rpc \in Nat /\ LastRpc \in Nat /\ rpc <= LastRpc
      /\ attempt \in Nat /\ attempts \in Nat /\ attempt <= attempts
  BY RpcsFacts, AttemptsFacts
     DEF TypeOK, BoundInv, LastRpc, Rpcs, AttemptEnds, NextRpc, ReturnOk, RefreshToken, FailRun
<1> DEFINE left == 12 * (attempts - attempt)
           ahead == 6 * (LastRpc - rpc)
<1>2. left \in Nat /\ ahead \in Nat
  BY <1>1
<1>3. Work = left + (ahead + (IF ~replayed THEN 3 ELSE 0) + 2)
  BY <1>1 DEF Work, InRun, Phase
<1>4. CASE NextRpc(st)
  <2>1. pc' = "ready" /\ rpc' = rpc + 1 /\ replayed' = FALSE /\ ahead >= 6
    BY <1>1, <1>4 DEF NextRpc
  <2>2. Work' = left + (6 * (LastRpc - (rpc + 1)) + 3 + 3)
    BY <1>1, <2>1 DEF Work, InRun, Phase
  <2>3. 6 * (LastRpc - (rpc + 1)) = ahead - 6
    BY <1>1
  <2> HIDE DEF left, ahead
  <2> QED BY <1>2, <1>3, <2>1, <2>2, <2>3
<1>5. CASE RefreshToken(st)
  <2>1. pc' = "refreshing" /\ rpc' = rpc /\ replayed' = replayed
    BY <1>5 DEF RefreshToken
  <2>2. Work' = left + (ahead + (IF ~replayed THEN 3 ELSE 0) + 1)
    BY <1>1, <2>1 DEF Work, InRun, Phase
  <2> HIDE DEF left, ahead
  <2> QED BY <1>2, <1>3, <2>2
<1>6. CASE ReturnOk(st) \/ FailRun(st)
  <2>1. pc' \in {"done", "sleeping"}
    BY <1>6 DEF ReturnOk, FailRun
  <2>2. Work' = 0 \/ Work' = left + 1
    BY <1>1, <2>1 DEF Work
  <2> HIDE DEF left, ahead
  <2> QED BY <1>2, <1>3, <2>2
<1> QED BY <1>4, <1>5, <1>6 DEF AttemptEnds

\* A call is never more than 12 steps of its own per attempt of its policy from its
\* end; each of its steps, whatever it meets, brings it nearer, and nothing but a call
\* of the application takes it back.  CallEnds adds that the steps are taken.
THEOREM CallTakesFewSteps ==
  Spec => /\ [](Work <= 12 * attempts)
          /\ [][/\ Client \/ ConnectionBreaks \/ Cancel => Work' < Work
                /\ Work' > Work => Call]_vars
<1> USE DEF client, caller
<1>1. ASSUME TypeOK, BoundInv, Client \/ ConnectionBreaks \/ Cancel PROVE Work' < Work
  <2>1. /\ rpc \in Nat /\ LastRpc \in Nat /\ rpc <= LastRpc /\ LastRpc <= 2
        /\ attempt \in Nat /\ attempts \in Nat /\ attempt <= attempts
    BY <1>1, RpcsFacts, AttemptsFacts DEF TypeOK, BoundInv, LastRpc, Rpcs
  <2>2. CASE Receive \/ DeadlinePasses \/ ConnectionBreaks
    BY <1>1, <2>2, WorkAttemptEnds DEF Receive, DeadlinePasses, ConnectionBreaks
  <2>3. CASE RefreshFails \/ Cancel
    <3>1. pc \notin {"idle", "done", "gone"} /\ Work' = 0
      BY <2>3 DEF RefreshFails, Cancel, Work
    <3> QED BY <1>1, <3>1, WorkRange
  <2> DEFINE left == 12 * (attempts - attempt)
             ahead == 6 * (LastRpc - rpc)
  <2>4. left \in Nat /\ ahead \in Nat
    BY <2>1
  <2>5. CASE Send
    <3>1. pc = "ready" /\ pc' = "sent" /\ UNCHANGED <<rpc, replayed, attempt>>
      BY <2>5 DEF Send
    <3>2. /\ Work = left + (ahead + (IF ~replayed THEN 3 ELSE 0) + 3)
          /\ Work' = left + (ahead + (IF ~replayed THEN 3 ELSE 0) + 2)
      BY <3>1 DEF Work, InRun, Phase
    <3> HIDE DEF left, ahead
    <3> QED BY <2>4, <3>2
  <2>6. CASE RefreshSucceeds
    <3>1. /\ pc = "refreshing" /\ pc' = "ready" /\ ~replayed /\ replayed'
          /\ UNCHANGED <<rpc, attempt>>
      BY <1>1, <2>6 DEF RefreshSucceeds, BoundInv
    <3>2. Work = left + (ahead + 3 + 1) /\ Work' = left + (ahead + 0 + 3)
      BY <3>1 DEF Work, InRun, Phase
    <3> HIDE DEF left, ahead
    <3> QED BY <2>4, <3>2
  <2>7. CASE RunAgain
    <3>1. /\ pc = "sleeping" /\ pc' = "ready" /\ rpc' = 1 /\ replayed' = FALSE
          /\ attempt' = attempt + 1
      BY <2>7 DEF RunAgain, BeginRun
    <3>2. Work = left + 1 /\ Work' = 12 * (attempts - (attempt + 1)) + (6 * (LastRpc - 1) + 3 + 3)
      BY <3>1 DEF Work, InRun, Phase
    <3>3. 12 * (attempts - (attempt + 1)) = left - 12 /\ 6 * (LastRpc - 1) <= 6
          /\ 6 * (LastRpc - 1) \in Int
      BY <2>1
    <3> HIDE DEF left, ahead
    <3> QED BY <2>4, <3>2, <3>3
  <2> QED BY <1>1, <2>2, <2>3, <2>5, <2>6, <2>7 DEF Client
<1>2. TypeOK /\ BoundInv => Work \in Nat
  BY WorkRange
<1>3. (TypeOK /\ BoundInv => Work \in Nat)'
  BY <1>2, PTL
<1>4. ASSUME TypeOK, BoundInv, TypeOK', BoundInv', [Next]_vars
      PROVE  [/\ Client \/ ConnectionBreaks \/ Cancel => Work' < Work
              /\ Work' > Work => Call]_vars
  <2>1. Work \in Nat
    BY <1>4, WorkRange
  <2>2. Work' \in Nat
    BY <1>4, <1>3
  <2>3. CASE UNCHANGED vars
    BY <2>3
  <2>4. CASE Call
    <3>1. Client \/ ConnectionBreaks \/ Cancel => Work' < Work
      BY <1>1, <1>4
    <3> QED BY <2>4, <3>1
  <2>5. CASE Client \/ ConnectionBreaks \/ Cancel
    <3>1. Work' < Work
      BY <1>1, <1>4, <2>5
    <3> QED BY <2>1, <2>2, <3>1
  <2>6. ASSUME NEW m \in wire, Refuse(m) \/ Execute(m) \/ RecognizeReplay(m) \/ Lose(m)
        PROVE  [/\ Client \/ ConnectionBreaks \/ Cancel => Work' < Work
                /\ Work' > Work => Call]_vars
    <3>1. Work' = Work
      BY <2>6 DEF Refuse, Execute, RecognizeReplay, Lose, Answer, Work, InRun, Phase
    <3>2. Client \/ ConnectionBreaks \/ Cancel => Work' < Work
      BY <1>1, <1>4
    <3> QED BY <2>1, <3>1, <3>2
  <2> QED BY <1>4, <2>3, <2>4, <2>5, <2>6 DEF Next
<1>5. TypeOK /\ BoundInv => Work <= 12 * attempts
  BY WorkRange
<1> QED BY <1>4, <1>5, TypeInit, TypeStep, BoundInit, BoundStep, PTL DEF Spec

===============================================================================

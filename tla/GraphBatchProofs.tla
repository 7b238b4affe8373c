--------------------------- MODULE GraphBatchProofs ---------------------------
(***************************************************************************)
(* Proofs about GraphBatch, for any batch, any limit and any number of     *)
(* submissions.  The contract of the writes is proved for request_ids of   *)
(* the application's and for those the SDK mints; what the server has      *)
(* stored in the end is that of the last item for the former only.         *)
(***************************************************************************)
EXTENDS GraphBatch, FiniteSetTheorems, TLAPS

LEMMA ItemsFacts ==
  /\ \A i \in Items : i \in Nat /\ i >= 1 /\ i \in 0..Size /\ id[i] \in Ids
  /\ \A n \in Ids : ItemsOf(n) \subseteq Items
BY BatchAssumption DEF Items, ItemsOf

-------------------------------------------------------------------------------
(* Type correctness *)

LEMMA TypeInit == Init => TypeOK
<1> SUFFICES ASSUME Init PROVE TypeOK
  OBVIOUS
<1>1. 0 \in 0..Size
  BY BatchAssumption
<1>2. markers \subseteq Items \X Nat /\ wire \subseteq Requests
  BY DEF Init
<1>3. stored \in [Ids -> 0..Size] /\ applied \in [Items -> Nat]
  BY <1>1 DEF Init
<1> QED BY <1>2, <1>3 DEF Init, TypeOK

\* How a call ends.
LEMMA EndType ==
  ASSUME TypeOK, NEW how \in {"ok", "failed", "gone"}, End(how)
  PROVE  TypeOK'
<1>1. /\ pc' = how /\ run' = run
      /\ group' = [n \in Ids |-> "done"] /\ todo' = [n \in Ids |-> {}]
      /\ reply' = [n \in Ids |-> "none"]
      /\ UNCHANGED <<wire, markers, stored, applied>>
  BY DEF End, server
<1>2. /\ group' \in [Ids -> {"queued", "ready", "sent", "done"}]
      /\ todo' \in [Ids -> SUBSET Items]
      /\ reply' \in [Ids -> {"none", "ok", "err"}]
      /\ \A n \in Ids : group'[n] \in {"queued", "ready", "sent"} => todo'[n] # {}
  BY <1>1
<1> QED BY <1>1, <1>2 DEF TypeOK

LEMMA AnswerType ==
  ASSUME TypeOK, NEW m \in wire, NEW st \in {"ok", "err"}, Answer(m, st)
  PROVE  /\ wire' \subseteq Requests /\ reply' \in [Ids -> {"none", "ok", "err"}]
         /\ UNCHANGED <<pc, run, group, todo>>
BY DEF TypeOK, Answer, client

\* A group takes a step.
LEMMA GroupType == ASSUME TypeOK, NEW n \in Ids, Group(n) PROVE TypeOK'
<1> USE DEF server
<1>1. CASE StartGroup(n)
  BY <1>1 DEF StartGroup, TypeOK
<1>2. CASE Send(n)
  <2>1. PICK i \in Items : wire' = wire \cup {[item |-> i, key |-> RequestKey, run |-> run]}
    BY <1>2 DEF Send
  <2>2. [item |-> i, key |-> RequestKey, run |-> run] \in Requests
    BY DEF RequestKey, Requests, TypeOK
  <2>3. wire' \subseteq Requests
    BY <2>1, <2>2 DEF TypeOK
  <2> QED BY <1>2, <2>3 DEF Send, TypeOK
<1>3. CASE Acknowledged(n)
  <2>1. PICK i \in Items : todo' = [todo EXCEPT ![n] = @ \ {i}]
    BY <1>3 DEF Acknowledged
  <2>2. todo' \in [Ids -> SUBSET Items] /\ \A o \in Ids : o # n => todo'[o] = todo[o]
    BY <2>1 DEF TypeOK
  <2>3. AfterAnItem(n) \in {"done", "ready"} /\ (AfterAnItem(n) = "ready" => todo'[n] # {})
    BY DEF AfterAnItem
  <2>4. group' = [group EXCEPT ![n] = AfterAnItem(n)]
    BY <1>3 DEF Acknowledged
  <2>5. /\ group' \in [Ids -> {"queued", "ready", "sent", "done"}]
        /\ group'[n] = AfterAnItem(n)
        /\ \A o \in Ids : o # n => group'[o] = group[o]
    BY <2>3, <2>4 DEF TypeOK
  <2>6. \A o \in Ids : group'[o] \in {"queued", "ready", "sent"} => todo'[o] # {}
    BY <2>2, <2>3, <2>5 DEF TypeOK
  <2>7. reply' \in [Ids -> {"none", "ok", "err"}]
    BY <1>3 DEF Acknowledged, TypeOK
  <2> QED BY <1>3, <2>2, <2>5, <2>6, <2>7 DEF Acknowledged, TypeOK
<1>4. CASE GroupFails(n) \/ DeadlinePasses(n)
  BY <1>4, EndType DEF GroupFails, DeadlinePasses
<1> QED BY <1>1, <1>2, <1>3, <1>4 DEF Group

LEMMA ExecuteType ==
  ASSUME TypeOK, NEW m \in wire, Execute(m)
  PROVE  /\ markers' \subseteq Items \X Nat /\ stored' \in [Ids -> 0..Size]
         /\ applied' \in [Items -> Nat]
<1>1. m.item \in Items /\ m.key \in Nat /\ m.item \in 0..Size /\ id[m.item] \in Ids
  BY ItemsFacts DEF TypeOK, Requests
<1> QED BY <1>1 DEF TypeOK, Execute

LEMMA TypeStep == TypeOK /\ [Next]_vars => TypeOK'
<1> SUFFICES ASSUME TypeOK, [Next]_vars PROVE TypeOK'
  OBVIOUS
<1> USE DEF client, server
<1>1. CASE UNCHANGED vars
  BY <1>1 DEF vars, TypeOK
<1>2. CASE Submit
  <2>1. /\ group' \in [Ids -> {"queued", "ready", "sent", "done"}]
        /\ todo' \in [Ids -> SUBSET Items]
        /\ \A n \in Ids : group'[n] \in {"queued", "ready", "sent"} => todo'[n] # {}
    BY <1>2, ItemsFacts DEF Submit, Written
  <2> QED BY <1>2, <2>1 DEF Submit, TypeOK
<1>3. CASE Finish \/ Cancel \/ ConnectionBreaks
  BY <1>3, EndType DEF Finish, Cancel, ConnectionBreaks
<1>4. ASSUME NEW n \in Ids, Group(n) PROVE TypeOK'
  BY <1>4, GroupType
<1>5. ASSUME NEW m \in wire, Refuse(m) \/ RecognizeReplay(m) PROVE TypeOK'
  BY <1>5, AnswerType DEF Refuse, RecognizeReplay, TypeOK
<1>6. ASSUME NEW m \in wire, Execute(m) PROVE TypeOK'
  <2>1. PICK st \in {"ok", "err"} : Answer(m, st)
    BY <1>6 DEF Execute
  <2>2. /\ wire' \subseteq Requests /\ reply' \in [Ids -> {"none", "ok", "err"}]
        /\ UNCHANGED <<pc, run, group, todo>>
    BY <2>1, AnswerType
  <2>3. /\ markers' \subseteq Items \X Nat /\ stored' \in [Ids -> 0..Size]
        /\ applied' \in [Items -> Nat]
    BY <1>6, ExecuteType
  <2> QED BY <2>2, <2>3 DEF TypeOK
<1>7. ASSUME NEW m \in wire, Lose(m) PROVE TypeOK'
  BY <1>7 DEF Lose, TypeOK
<1> QED BY <1>1, <1>2, <1>3, <1>4, <1>5, <1>6, <1>7 DEF Next

\* Every variable keeps its type, for any batch, limit and number of submissions
\* of put_nodes and add_edges.
THEOREM TypeCorrect == Spec => []TypeOK
BY TypeInit, TypeStep, PTL DEF Spec

-------------------------------------------------------------------------------
(* The inductive invariant *)

\* The request_ids that the submissions so far have used, and those under which an
\* item was executed.
Minted == IF CallerKeys THEN {0} ELSE 1..run
KeysOf(i) == {k \in Nat : <<i, k>> \in markers}

\* The item was executed under the key that this submission gives it.
Done(i) == <<i, RequestKey>> \in markers

Before(j, i) == id[j] = id[i] /\ j < i

\* What the server has executed: each item once for a key, after those before it.
ServerInv ==
  /\ \A i \in Items : KeysOf(i) \subseteq Minted /\ applied[i] = Cardinality(KeysOf(i))
  /\ \A i, j \in Items, k \in Nat :
       Before(j, i) /\ <<i, k>> \in markers => <<j, k>> \in markers

\* What the server has stored of each id, under keys of the application's own.
StoredInv ==
  CallerKeys =>
    /\ \A n \in Ids : stored[n] # 0 => stored[n] \in ItemsOf(n) /\ <<stored[n], 0>> \in markers
    /\ \A i \in Items : <<i, 0>> \in markers => i <= stored[id[i]]

\* Whatever is on the wire, and whenever it was sent, its predecessors were executed.
WireInv ==
  \A m \in wire :
    m.key \in Minted /\ \A j \in Items : Before(j, m.item) => <<j, m.key>> \in markers

\* What the call knows of what the server has executed.
CallInv ==
  /\ pc # "idle" => run >= 1
  /\ pc # "running" => \A n \in Ids : group[n] = "done"
  /\ \A n \in Ids : group[n] # "sent" => reply[n] = "none"
  /\ pc = "running" => \A n \in Ids :
       /\ todo[n] \subseteq ItemsOf(n)
       /\ \A i \in ItemsOf(n) : i \in todo[n] \/ Done(i)
       /\ group[n] = "done" => todo[n] = {}
  /\ pc = "running" => \A n \in Ids, i \in Items :
       group[n] = "sent" /\ reply[n] = "ok" /\ IsNext(i, n) => Done(i)
  /\ pc = "ok" => \A i \in Items : Done(i)

\* The requests of the submission under way: one per waiting group, for its next item.
SentInv ==
  /\ \A m \in wire : m.run <= run /\ (m.run = run => m.key = RequestKey)
  /\ pc = "running" => \A m \in wire : m.run = run =>
       /\ group[id[m.item]] = "sent" /\ reply[id[m.item]] = "none"
       /\ IsNext(m.item, id[m.item])

IInv == TypeOK /\ ServerInv /\ StoredInv /\ WireInv /\ CallInv /\ SentInv

LEMMA MintedFacts ==
  ASSUME TypeOK
  PROVE  /\ Minted \subseteq Nat /\ IsFiniteSet(Minted)
         /\ Cardinality(Minted) = IF CallerKeys THEN 1 ELSE run
         /\ RequestKey \in Nat /\ (CallerKeys => RequestKey = 0)
         /\ run >= 1 => RequestKey \in Minted
<1>1. run \in Nat
  BY DEF TypeOK
<1>2. IsFiniteSet(1..run) /\ Cardinality(1..run) = run
  <2>1. IsFiniteSet(1..run) /\ Cardinality(1..run) = IF 1 > run THEN 0 ELSE run - 1 + 1
    BY <1>1, FS_Interval
  <2> QED BY <1>1, <2>1
<1>3. CASE CallerKeys
  <2>1. Minted = {0} /\ RequestKey = 0 /\ IsFiniteSet({0}) /\ Cardinality({0}) = 1
    BY <1>3, FS_Singleton DEF Minted, RequestKey
  <2> QED BY <1>3, <2>1
<1>4. CASE ~CallerKeys
  <2>1. Minted = 1..run /\ RequestKey = run
    BY <1>4 DEF Minted, RequestKey
  <2> QED BY <1>1, <1>2, <1>4, <2>1
<1> QED BY <1>3, <1>4

LEMMA IInvInit == Init => IInv
<1> SUFFICES ASSUME Init PROVE IInv
  OBVIOUS
<1>1. TypeOK
  BY TypeInit
<1>2. /\ markers = {} /\ wire = {} /\ pc = "idle"
      /\ \A n \in Ids : stored[n] = 0 /\ group[n] = "done"
      /\ \A i \in Items : applied[i] = 0
  BY DEF Init
<1>3. ServerInv /\ StoredInv
  <2>1. \A i \in Items : KeysOf(i) = {}
    BY <1>2 DEF KeysOf
  <2> QED BY <1>2, <2>1, FS_EmptySet DEF ServerInv, StoredInv
<1>4. WireInv /\ CallInv /\ SentInv
  BY <1>2 DEF Init, WireInv, CallInv, SentInv
<1> QED BY <1>1, <1>3, <1>4 DEF IInv

-------------------------------------------------------------------------------
(* The steps of the call *)

\* A step that leaves the server alone and sends nothing.
LEMMA ServerKept ==
  ASSUME IInv, UNCHANGED <<markers, stored, applied>>, wire' \subseteq wire,
         Minted \subseteq Minted'
  PROVE  ServerInv' /\ StoredInv' /\ WireInv'
<1>1. \A i : KeysOf(i)' = KeysOf(i)
  BY DEF KeysOf
<1>2. ServerInv' /\ StoredInv'
  BY <1>1 DEF IInv, ServerInv, StoredInv, Before
<1>3. WireInv'
  BY DEF IInv, WireInv, Before
<1> QED BY <1>2, <1>3

\* Within a submission the keys are what they were.
LEMMA SameKeys ==
  ASSUME run' = run
  PROVE  Minted' = Minted /\ RequestKey' = RequestKey
BY DEF Minted, RequestKey

LEMMA SubmitStep ==
  ASSUME IInv, Submit
  PROVE  ServerInv' /\ StoredInv' /\ WireInv' /\ CallInv' /\ SentInv'
<1>1. /\ pc # "running" /\ pc' = "running" /\ run' = run + 1
      /\ group' = [n \in Ids |-> IF n \in Written THEN "queued" ELSE "done"]
      /\ todo' = [n \in Ids |-> ItemsOf(n)]
      /\ UNCHANGED <<reply, wire, markers, stored, applied>>
  BY DEF Submit, server
<1>2. ServerInv' /\ StoredInv' /\ WireInv'
  <2>1. Minted \subseteq Minted'
    BY <1>1 DEF Minted, IInv, TypeOK
  <2> QED BY <1>1, <2>1, ServerKept
<1>3. run \in Nat /\ \A m \in wire : m.run \in Nat /\ m.run <= run
  BY DEF IInv, TypeOK, Requests, SentInv
<1>4. SentInv'
  <2>1. \A m \in wire' : m.run <= run' /\ m.run # run'
    BY <1>1, <1>3
  <2> QED BY <2>1 DEF SentInv
<1>5. \A n \in Ids : group'[n] # "sent" /\ todo'[n] = ItemsOf(n) /\ (group'[n] = "done" => ItemsOf(n) = {})
  BY <1>1 DEF Written
<1>6. CallInv'
  <2>1. \A n \in Ids : reply'[n] = "none"
    BY <1>1 DEF IInv, CallInv
  <2>2. run' >= 1
    BY <1>1, <1>3
  <2> QED BY <1>1, <1>5, <2>1, <2>2 DEF CallInv
<1> QED BY <1>2, <1>4, <1>6

\* The call ends; what Ok claims is established by the caller of this lemma.
LEMMA EndStep ==
  ASSUME IInv, NEW how \in {"ok", "failed", "gone"}, End(how),
         how = "ok" => \A i \in Items : Done(i), run >= 1
  PROVE  ServerInv' /\ StoredInv' /\ WireInv' /\ CallInv' /\ SentInv'
<1>1. /\ pc' = how /\ run' = run
      /\ \A n \in Ids : group'[n] = "done" /\ reply'[n] = "none"
      /\ UNCHANGED <<wire, markers, stored, applied>>
  BY DEF End, server
<1>2. ServerInv' /\ StoredInv' /\ WireInv'
  BY <1>1, SameKeys, ServerKept
<1>3. SentInv'
  BY <1>1, SameKeys DEF IInv, SentInv
<1>4. CallInv'
  BY <1>1, SameKeys DEF CallInv, Done
<1> QED BY <1>2, <1>3, <1>4

LEMMA FinishStep ==
  ASSUME IInv, Finish
  PROVE  ServerInv' /\ StoredInv' /\ WireInv' /\ CallInv' /\ SentInv'
<1>1. pc = "running" /\ End("ok") /\ \A n \in Ids : group[n] = "done"
  BY DEF Finish
<1>2. ASSUME NEW i \in Items PROVE Done(i)
  <2>1. id[i] \in Ids /\ i \in ItemsOf(id[i])
    BY ItemsFacts DEF ItemsOf
  <2>2. todo[id[i]] = {}
    BY <1>1, <2>1 DEF IInv, CallInv
  <2> QED BY <1>1, <2>1, <2>2 DEF IInv, CallInv
<1>3. run >= 1
  BY <1>1 DEF IInv, CallInv
<1> QED BY <1>1, <1>2, <1>3, EndStep

LEMMA StartStep ==
  ASSUME IInv, NEW n \in Ids, StartGroup(n)
  PROVE  ServerInv' /\ StoredInv' /\ WireInv' /\ CallInv' /\ SentInv'
<1>1. /\ group[n] = "queued" /\ group' = [group EXCEPT ![n] = "ready"]
      /\ UNCHANGED <<pc, run, todo, reply, wire, markers, stored, applied>>
  BY DEF StartGroup, server
<1>2. /\ group'[n] = "ready" /\ \A o \in Ids : o # n => group'[o] = group[o]
  BY <1>1 DEF IInv, TypeOK
<1>3. ServerInv' /\ StoredInv' /\ WireInv'
  BY <1>1, SameKeys, ServerKept
<1>4. pc = "running"
  BY <1>1 DEF IInv, CallInv
<1>5. CallInv'
  BY <1>1, <1>2, <1>4, SameKeys DEF IInv, CallInv, Done, IsNext
<1>6. \A m \in wire : id[m.item] \in Ids
  BY ItemsFacts DEF IInv, TypeOK, Requests
<1>7. SentInv'
  BY <1>1, <1>2, <1>4, <1>6, SameKeys DEF IInv, SentInv, IsNext
<1> QED BY <1>3, <1>5, <1>7

LEMMA SendStep ==
  ASSUME IInv, NEW n \in Ids, Send(n)
  PROVE  ServerInv' /\ StoredInv' /\ WireInv' /\ CallInv' /\ SentInv'
<1>1. PICK i \in Items : /\ IsNext(i, n)
                         /\ wire' = wire \cup {[item |-> i, key |-> RequestKey, run |-> run]}
  BY DEF Send
<1>2. /\ group[n] = "ready" /\ group' = [group EXCEPT ![n] = "sent"]
      /\ UNCHANGED <<pc, run, todo, reply, markers, stored, applied>>
  BY DEF Send, server
<1>3. /\ group'[n] = "sent" /\ \A o \in Ids : o # n => group'[o] = group[o]
  BY <1>2 DEF IInv, TypeOK
<1>4. pc = "running"
  BY <1>2 DEF IInv, CallInv
<1>5. i \in ItemsOf(n) /\ id[i] = n
  BY <1>1, <1>4 DEF IInv, CallInv, IsNext, ItemsOf
<1>6. ServerInv' /\ StoredInv'
  <2>1. \A k : KeysOf(k)' = KeysOf(k)
    BY <1>2 DEF KeysOf
  <2> QED BY <1>2, <2>1, SameKeys DEF IInv, ServerInv, StoredInv, Before
<1>7. ASSUME NEW j \in Items, Before(j, i) PROVE Done(j)
  <2>1. j \in ItemsOf(n) /\ j < i /\ i \in Nat /\ j \in Nat
    BY <1>5, <1>7, ItemsFacts DEF Before, ItemsOf
  <2>2. j \notin todo[n]
    BY <1>1, <2>1 DEF IsNext
  <2> QED BY <1>4, <2>1, <2>2 DEF IInv, CallInv
<1>8. WireInv'
  <2>1. RequestKey \in Minted
    BY <1>4, MintedFacts DEF IInv, CallInv
  <2> QED BY <1>1, <1>2, <1>7, <2>1, SameKeys DEF IInv, WireInv, Done, Before
<1>9. reply[n] = "none"
  BY <1>2 DEF IInv, CallInv
<1>10. CallInv'
  BY <1>2, <1>3, <1>4, <1>9, SameKeys DEF IInv, CallInv, Done, IsNext
<1>11. \A m \in wire : id[m.item] \in Ids
  BY ItemsFacts DEF IInv, TypeOK, Requests
<1>12. ASSUME NEW m \in wire', m.run = run
       PROVE  /\ group'[id[m.item]] = "sent" /\ reply[id[m.item]] = "none"
              /\ IsNext(m.item, id[m.item])
  <2>1. CASE m \in wire
    BY <1>3, <1>4, <1>11, <1>12, <2>1 DEF IInv, SentInv
  <2>2. CASE m = [item |-> i, key |-> RequestKey, run |-> run]
    BY <1>1, <1>3, <1>5, <1>9, <2>2
  <2> QED BY <1>1, <2>1, <2>2
<1>13. \A m \in wire' : m.run <= run /\ (m.run = run => m.key = RequestKey)
  <2>1. run <= run
    BY DEF IInv, TypeOK
  <2> QED BY <1>1, <2>1 DEF IInv, SentInv
<1>14. SentInv'
  BY <1>2, <1>12, <1>13, SameKeys DEF SentInv, IsNext
<1> QED BY <1>6, <1>8, <1>10, <1>14

LEMMA AcknowledgedStep ==
  ASSUME IInv, NEW n \in Ids, Acknowledged(n)
  PROVE  ServerInv' /\ StoredInv' /\ WireInv' /\ CallInv' /\ SentInv'
<1>1. /\ group[n] = "sent" /\ reply[n] = "ok"
      /\ group' = [group EXCEPT ![n] = AfterAnItem(n)]
      /\ reply' = [reply EXCEPT ![n] = "none"]
      /\ UNCHANGED <<pc, run, wire, markers, stored, applied>>
  BY DEF Acknowledged, server
<1>2. PICK i \in Items : IsNext(i, n) /\ todo' = [todo EXCEPT ![n] = @ \ {i}]
  BY DEF Acknowledged
<1>3. pc = "running"
  BY <1>1 DEF IInv, CallInv
<1>4. /\ group'[n] = AfterAnItem(n) /\ reply'[n] = "none" /\ todo'[n] = todo[n] \ {i}
      /\ \A o \in Ids : o # n =>
           group'[o] = group[o] /\ reply'[o] = reply[o] /\ todo'[o] = todo[o]
  BY <1>1, <1>2 DEF IInv, TypeOK
<1>5. group'[n] # "sent" /\ (group'[n] = "done" => todo'[n] = {})
  BY <1>4 DEF AfterAnItem
<1>6. Done(i)
  BY <1>1, <1>2, <1>3 DEF IInv, CallInv
<1>7. ServerInv' /\ StoredInv' /\ WireInv'
  BY <1>1, SameKeys, ServerKept
<1>8. \A o \in Ids : o # n => \A k \in Items : IsNext(k, o)' <=> IsNext(k, o)
  BY <1>4 DEF IsNext
<1>9. CallInv'
  <2>1. \A o \in Ids : group'[o] # "sent" => reply'[o] = "none"
    BY <1>4 DEF IInv, CallInv
  <2>2. ASSUME NEW o \in Ids
        PROVE  /\ todo'[o] \subseteq ItemsOf(o)
               /\ \A k \in ItemsOf(o) : k \in todo'[o] \/ Done(k)
               /\ group'[o] = "done" => todo'[o] = {}
    BY <1>3, <1>4, <1>5, <1>6 DEF IInv, CallInv
  <2>3. ASSUME NEW o \in Ids, NEW k \in Items,
               group'[o] = "sent", reply'[o] = "ok", IsNext(k, o)'
        PROVE  Done(k)
    BY <1>3, <1>4, <1>8, <2>3 DEF IInv, CallInv
  <2>4. run >= 1
    BY <1>3 DEF IInv, CallInv
  <2> QED BY <1>1, <1>3, <2>1, <2>2, <2>3, <2>4, SameKeys DEF CallInv, Done
<1>10. \A m \in wire : id[m.item] \in Ids /\ m.item \in Items
  BY ItemsFacts DEF IInv, TypeOK, Requests
<1>11. \A m \in wire : m.run = run => id[m.item] # n
  BY <1>1, <1>3, <1>10 DEF IInv, SentInv
<1>12. SentInv'
  BY <1>1, <1>3, <1>4, <1>8, <1>10, <1>11, SameKeys DEF IInv, SentInv
<1> QED BY <1>7, <1>9, <1>12

-------------------------------------------------------------------------------
(* The steps of the server *)

\* An answer that says ok comes from a server that has executed the item.
LEMMA AnswerStep ==
  ASSUME IInv, NEW m \in wire, NEW st \in {"ok", "err"}, Answer(m, st),
         markers \subseteq markers', st = "ok" => <<m.item, m.key>> \in markers'
  PROVE  CallInv' /\ SentInv' /\ wire' \subseteq wire
<1>1. /\ wire' = wire \ {m} /\ UNCHANGED <<pc, run, group, todo>>
      /\ reply' = IF m.run = run /\ group[id[m.item]] = "sent"
                  THEN [reply EXCEPT ![id[m.item]] = st] ELSE reply
  BY DEF Answer, client
<1>2. m.item \in Items /\ id[m.item] \in Ids
  BY ItemsFacts DEF IInv, TypeOK, Requests
<1>3. RequestKey' = RequestKey /\ \A i \in Items : Done(i) => Done(i)'
  BY <1>1, SameKeys DEF Done
<1>4. \A n \in Ids : n # id[m.item] \/ m.run # run \/ group[n] # "sent" => reply'[n] = reply[n]
  BY <1>1, <1>2 DEF IInv, TypeOK
<1>5. reply'[id[m.item]] \in {reply[id[m.item]], st}
  BY <1>1, <1>2 DEF IInv, TypeOK
<1>6. \A n \in Ids, i \in Items : IsNext(i, n)' <=> IsNext(i, n)
  BY <1>1 DEF IsNext
<1>7. ASSUME pc = "running", NEW n \in Ids, NEW i \in Items,
             group[n] = "sent", reply'[n] = "ok", IsNext(i, n)
      PROVE  Done(i)'
  <2>1. CASE reply[n] = "ok"
    BY <1>3, <1>7, <2>1 DEF IInv, CallInv
  <2>2. CASE reply[n] # "ok"
    <3>1. n = id[m.item] /\ m.run = run /\ st = "ok"
      BY <1>4, <1>5, <1>7, <2>2
    <3>2. IsNext(m.item, n)
      BY <1>7, <3>1 DEF IInv, SentInv
    <3>3. i \in Nat /\ m.item \in Nat
      BY <1>2, ItemsFacts
    <3>4. i = m.item
      BY <1>7, <3>2, <3>3 DEF IsNext
    <3>5. m.key = RequestKey
      BY <3>1 DEF IInv, SentInv
    <3> QED BY <1>3, <3>1, <3>4, <3>5 DEF Done
  <2> QED BY <2>1, <2>2
<1>8. CallInv'
  <2>1. \A n \in Ids : group[n] # "sent" => reply'[n] = "none"
    BY <1>4 DEF IInv, CallInv
  <2>2. /\ pc # "running" => \A n \in Ids : group[n] = "done"
        /\ pc = "running" => \A n \in Ids :
             /\ todo[n] \subseteq ItemsOf(n)
             /\ \A i \in ItemsOf(n) : i \in todo[n] \/ Done(i)'
             /\ group[n] = "done" => todo[n] = {}
        /\ pc = "ok" => \A i \in Items : Done(i)'
    BY <1>3, ItemsFacts DEF IInv, CallInv
  <2>3. pc # "idle" => run >= 1
    BY DEF IInv, CallInv
  <2> QED BY <1>1, <1>6, <1>7, <2>1, <2>2, <2>3 DEF CallInv
<1>9. ASSUME pc = "running", NEW o \in wire', o.run = run
      PROVE  reply'[id[o.item]] = "none"
  <2>1. o \in wire /\ o # m /\ o \in Requests /\ m \in Requests
    BY <1>1, <1>9 DEF IInv, TypeOK
  <2>2. o.item \in Items /\ id[o.item] \in Ids
    BY <2>1, ItemsFacts DEF Requests
  <2>3. reply[id[o.item]] = "none" /\ IsNext(o.item, id[o.item])
    BY <1>9, <2>1 DEF IInv, SentInv
  <2>4. ASSUME id[m.item] = id[o.item], m.run = run PROVE FALSE
    <3>1. IsNext(m.item, id[o.item])
      BY <1>9, <2>4 DEF IInv, SentInv
    <3>2. m.item = o.item
      BY <1>2, <2>2, <2>3, <3>1, ItemsFacts DEF IsNext
    <3>3. m.key = o.key /\ m.run = o.run
      BY <1>9, <2>1, <2>4 DEF IInv, SentInv
    <3> QED BY <2>1, <3>2, <3>3 DEF Requests
  <2> QED BY <1>4, <2>2, <2>3, <2>4
<1>10. SentInv'
  <2>1. \A o \in wire' : o \in wire
    BY <1>1
  <2>2. \A o \in wire : o.item \in Items /\ id[o.item] \in Ids
    BY ItemsFacts DEF IInv, TypeOK, Requests
  <2> QED BY <1>1, <1>3, <1>6, <1>9, <2>1, <2>2 DEF IInv, SentInv
<1> QED BY <1>1, <1>8, <1>10

\* What an execution does to the id it writes: the item is the one after the
\* last that was executed.
LEMMA ExecuteNext ==
  ASSUME CallerKeys, IInv, NEW m \in wire, Execute(m)
  PROVE  /\ m.item > stored[id[m.item]]
         /\ \A i \in ItemsOf(id[m.item]) : i > stored[id[m.item]] => i >= m.item
<1>1. m.item \in Items /\ m.item \in Nat /\ id[m.item] \in Ids /\ m.key = 0
  BY ItemsFacts DEF IInv, TypeOK, Requests, WireInv, Minted
<1>2. <<m.item, 0>> \notin markers
  BY <1>1 DEF Execute
<1> DEFINE s == stored[id[m.item]]
<1>3. s \in Nat
  BY <1>1, BatchAssumption DEF IInv, TypeOK
<1>4. m.item > s
  <2>1. CASE s = 0
    BY <1>1, <2>1, ItemsFacts
  <2>2. CASE s # 0
    <3>1. s \in Items /\ id[s] = id[m.item] /\ <<s, 0>> \in markers
      BY <1>1, <2>2 DEF IInv, StoredInv, ItemsOf
    <3>2. s # m.item
      BY <1>2, <3>1
    <3>3. ~(m.item < s)
      BY <1>1, <1>2, <3>1 DEF IInv, ServerInv, Before
    <3> QED BY <1>1, <1>3, <3>2, <3>3
  <2> QED BY <2>1, <2>2
<1>5. ASSUME NEW i \in ItemsOf(id[m.item]), i > s PROVE i >= m.item
  <2>1. i \in Items /\ i \in Nat /\ id[i] = id[m.item]
    BY ItemsFacts DEF ItemsOf
  <2>2. <<i, 0>> \notin markers
    <3>1. <<i, 0>> \in markers => i <= s
      BY <2>1 DEF IInv, StoredInv
    <3> QED BY <1>3, <1>5, <2>1, <3>1
  <2>3. ~(i < m.item)
    BY <1>1, <2>1, <2>2 DEF IInv, WireInv, Before
  <2> QED BY <1>1, <2>1, <2>3
<1> QED BY <1>4, <1>5

\* The server's books: one more execution of one item, under one more key.
LEMMA ExecuteCounts ==
  ASSUME IInv, NEW m \in wire, Execute(m)
  PROVE  ServerInv'
<1>1. /\ m.item \in Items /\ m.key \in Nat /\ m.key \in Minted
      /\ <<m.item, m.key>> \notin markers
      /\ markers' = markers \cup {<<m.item, m.key>>}
      /\ applied' = [applied EXCEPT ![m.item] = @ + 1]
      /\ run' = run
  BY DEF Execute, Answer, client, IInv, TypeOK, Requests, WireInv
<1>2. ASSUME NEW i \in Items
      PROVE  KeysOf(i)' \subseteq Minted /\ applied'[i] = Cardinality(KeysOf(i)')
  <2>1. CASE i = m.item
    <3>1. KeysOf(i)' = KeysOf(i) \cup {m.key} /\ m.key \notin KeysOf(i)
      BY <1>1, <2>1 DEF KeysOf
    <3>2. IsFiniteSet(KeysOf(i))
      BY MintedFacts, FS_Subset DEF IInv, ServerInv
    <3>3. Cardinality(KeysOf(i)') = Cardinality(KeysOf(i)) + 1
      BY <3>1, <3>2, FS_AddElement
    <3>4. applied'[i] = applied[i] + 1
      BY <1>1, <2>1 DEF IInv, TypeOK
    <3> QED BY <1>1, <3>1, <3>3, <3>4 DEF IInv, ServerInv
  <2>2. CASE i # m.item
    <3>1. applied'[i] = applied[i] /\ KeysOf(i)' = KeysOf(i)
      BY <1>1, <2>2 DEF IInv, TypeOK, KeysOf
    <3> QED BY <3>1 DEF IInv, ServerInv
  <2> QED BY <2>1, <2>2
<1>3. ASSUME NEW i \in Items, NEW j \in Items, NEW k \in Nat, Before(j, i),
             <<i, k>> \in markers'
      PROVE  <<j, k>> \in markers'
  <2>1. CASE <<i, k>> \in markers
    BY <1>1, <1>3, <2>1 DEF IInv, ServerInv
  <2>2. CASE i = m.item /\ k = m.key
    BY <1>1, <1>3, <2>2 DEF IInv, WireInv
  <2> QED BY <1>1, <1>3, <2>1, <2>2
<1>4. \A i, j \in Items, k \in Nat :
        (Before(j, i) /\ <<i, k>> \in markers => <<j, k>> \in markers)'
  BY <1>3 DEF Before
<1> QED BY <1>1, <1>2, <1>4, SameKeys DEF ServerInv

LEMMA ExecuteStores ==
  ASSUME IInv, NEW m \in wire, Execute(m)
  PROVE  StoredInv'
<1> SUFFICES ASSUME CallerKeys PROVE StoredInv'
  BY DEF StoredInv
<1>1. m.item \in Items /\ m.item \in Nat /\ m.item >= 1 /\ id[m.item] \in Ids /\ m.key = 0
  BY ItemsFacts DEF IInv, TypeOK, Requests, WireInv, Minted
<1>2. /\ markers' = markers \cup {<<m.item, 0>>}
      /\ stored' = [stored EXCEPT ![id[m.item]] = m.item]
  BY <1>1 DEF Execute
<1>3. /\ stored'[id[m.item]] = m.item
      /\ \A n \in Ids : n # id[m.item] => stored'[n] = stored[n]
  BY <1>1, <1>2 DEF IInv, TypeOK
<1>4. ASSUME NEW n \in Ids, stored'[n] # 0
       PROVE  stored'[n] \in ItemsOf(n) /\ <<stored'[n], 0>> \in markers'
  <2>1. m.item \in ItemsOf(id[m.item])
    BY <1>1 DEF ItemsOf
  <2>2. CASE n = id[m.item]
    BY <1>2, <1>3, <2>1, <2>2
  <2>3. CASE n # id[m.item]
    BY <1>2, <1>3, <1>4, <2>3 DEF IInv, StoredInv
  <2> QED BY <2>2, <2>3
<1>5. ASSUME NEW i \in Items, <<i, 0>> \in markers' PROVE i <= stored'[id[i]]
  <2>1. i \in Nat /\ id[i] \in Ids /\ stored[id[i]] \in Nat
    BY ItemsFacts, BatchAssumption DEF IInv, TypeOK
  <2>2. CASE i = m.item
    BY <1>1, <1>3, <2>2
  <2>3. CASE <<i, 0>> \in markers
    <3>1. i <= stored[id[i]]
      BY <2>3 DEF IInv, StoredInv
    <3>2. CASE id[i] = id[m.item]
      BY <1>1, <1>3, ExecuteNext, <2>1, <3>1, <3>2
    <3>3. CASE id[i] # id[m.item]
      BY <1>3, <2>1, <3>1, <3>3
    <3> QED BY <3>2, <3>3
  <2> QED BY <1>2, <1>5, <2>2, <2>3
<1> QED BY <1>4, <1>5 DEF StoredInv

LEMMA ExecuteStep ==
  ASSUME IInv, NEW m \in wire, Execute(m)
  PROVE  ServerInv' /\ StoredInv' /\ WireInv' /\ CallInv' /\ SentInv'
<1>1. PICK st \in {"ok", "err"} : Answer(m, st)
  BY DEF Execute
<1>2. markers \subseteq markers' /\ <<m.item, m.key>> \in markers' /\ run' = run
  BY DEF Execute, Answer, client
<1>3. CallInv' /\ SentInv' /\ wire' \subseteq wire
  BY <1>1, <1>2, AnswerStep
<1>4. WireInv'
  BY <1>2, <1>3, SameKeys DEF IInv, WireInv, Before
<1> QED BY <1>3, <1>4, ExecuteCounts, ExecuteStores

LEMMA AnswerOnlyStep ==
  ASSUME IInv, NEW m \in wire, Refuse(m) \/ RecognizeReplay(m)
  PROVE  ServerInv' /\ StoredInv' /\ WireInv' /\ CallInv' /\ SentInv'
<1>1. UNCHANGED <<run, markers, stored, applied>>
  BY DEF Refuse, RecognizeReplay, Answer, client, server
<1>2. PICK st \in {"ok", "err"} :
        Answer(m, st) /\ (st = "ok" => <<m.item, m.key>> \in markers)
  BY DEF Refuse, RecognizeReplay
<1>3. CallInv' /\ SentInv' /\ wire' \subseteq wire
  BY <1>1, <1>2, AnswerStep
<1> QED BY <1>1, <1>3, SameKeys, ServerKept

LEMMA LoseStep ==
  ASSUME IInv, NEW m \in wire, Lose(m)
  PROVE  ServerInv' /\ StoredInv' /\ WireInv' /\ CallInv' /\ SentInv'
<1>1. wire' \subseteq wire /\ UNCHANGED <<pc, run, group, todo, reply, markers, stored, applied>>
  BY DEF Lose, client, server
<1>2. ServerInv' /\ StoredInv' /\ WireInv'
  BY <1>1, SameKeys, ServerKept
<1>3. CallInv'
  BY <1>1, SameKeys DEF IInv, CallInv, Done, IsNext
<1>4. SentInv'
  BY <1>1, SameKeys DEF IInv, SentInv, IsNext
<1> QED BY <1>2, <1>3, <1>4

-------------------------------------------------------------------------------
(* The theorems *)

LEMMA IInvStep == IInv /\ [Next]_vars => IInv'
<1> SUFFICES ASSUME IInv, [Next]_vars PROVE IInv'
  OBVIOUS
<1> DEFINE Parts == ServerInv' /\ StoredInv' /\ WireInv' /\ CallInv' /\ SentInv'
<1>1. TypeOK'
  BY TypeStep DEF IInv
<1>2. CASE UNCHANGED vars
  <2>1. UNCHANGED <<pc, run, group, todo, reply, wire, markers, stored, applied>>
    BY <1>2 DEF vars, client, server
  <2>2. ServerInv' /\ StoredInv' /\ WireInv'
    BY <2>1, SameKeys, ServerKept
  <2>3. CallInv' /\ SentInv'
    BY <2>1, SameKeys DEF IInv, CallInv, SentInv, Done, IsNext
  <2> QED BY <1>1, <2>2, <2>3 DEF IInv
<1>3. CASE Submit
  BY <1>1, <1>3, SubmitStep DEF IInv
<1>4. CASE Finish
  BY <1>1, <1>4, FinishStep DEF IInv
<1>5. ASSUME NEW how \in {"failed", "gone"}, End(how), pc = "running" PROVE Parts
  <2>1. run >= 1
    BY <1>5 DEF IInv, CallInv
  <2> QED BY <1>5, <2>1, EndStep
<1>6. CASE Cancel \/ ConnectionBreaks
  <2>1. pc = "running" /\ (End("gone") \/ End("failed"))
    BY <1>6 DEF Cancel, ConnectionBreaks, Running, IInv, CallInv
  <2> QED BY <1>1, <1>5, <2>1 DEF IInv
<1>7. ASSUME NEW n \in Ids, Group(n) PROVE Parts
  <2>1. CASE GroupFails(n) \/ DeadlinePasses(n)
    <3>1. pc = "running" /\ End("failed")
      BY <2>1 DEF GroupFails, DeadlinePasses, IInv, CallInv
    <3> QED BY <1>5, <3>1
  <2> QED BY <1>7, <2>1, StartStep, SendStep, AcknowledgedStep DEF Group
<1>8. ASSUME NEW m \in wire, Refuse(m) \/ Execute(m) \/ RecognizeReplay(m) \/ Lose(m)
      PROVE Parts
  BY <1>8, AnswerOnlyStep, ExecuteStep, LoseStep
<1> QED BY <1>1, <1>2, <1>3, <1>4, <1>6, <1>7, <1>8 DEF Next, IInv

\* However often a batch is submitted again under the application's keys, and
\* however late its requests arrive, each item is executed once at most.
THEOREM NothingTwice == Spec => []AppliedOnce
<1>1. ASSUME IInv PROVE AppliedOnce
  <2> SUFFICES ASSUME CallerKeys, NEW i \in Items PROVE applied[i] <= 1
    BY DEF AppliedOnce
  <2>1. Cardinality(KeysOf(i)) <= Cardinality(Minted)
    BY <1>1, MintedFacts, FS_Subset DEF IInv, ServerInv
  <2> QED BY <1>1, <2>1, MintedFacts DEF IInv, ServerInv
<1> QED BY <1>1, IInvInit, IInvStep, PTL DEF Spec

\* What the server executes next it has executed under fewer keys than there are, and
\* under fewer than any item before it.
LEMMA ExecutesAnother ==
  ASSUME IInv, NEW m \in wire, Execute(m)
  PROVE  /\ m.item \in Items
         /\ applied[m.item] < IF CallerKeys THEN 1 ELSE run
         /\ \A j \in Items : Before(j, m.item) => applied[j] > applied[m.item]
<1>1. /\ m.item \in Items /\ m.key \in Nat /\ m.key \in Minted
      /\ <<m.item, m.key>> \notin markers
  BY DEF Execute, IInv, TypeOK, Requests, WireInv
<1>2. ASSUME NEW S, IsFiniteSet(S), KeysOf(m.item) \subseteq S, m.key \in S
      PROVE  applied[m.item] < Cardinality(S)
  <2>1. KeysOf(m.item) # S
    BY <1>1, <1>2 DEF KeysOf
  <2>2. Cardinality(KeysOf(m.item)) < Cardinality(S)
    BY <1>2, <2>1, FS_Subset, FS_CardinalityType
  <2> QED BY <1>1, <2>2 DEF IInv, ServerInv
<1>3. applied[m.item] < Cardinality(Minted)
  BY <1>1, <1>2, MintedFacts DEF IInv, ServerInv
<1>4. ASSUME NEW j \in Items, Before(j, m.item) PROVE applied[j] > applied[m.item]
  <2>1. KeysOf(m.item) \subseteq KeysOf(j) /\ m.key \in KeysOf(j)
    BY <1>1, <1>4 DEF KeysOf, IInv, ServerInv, WireInv
  <2>2. IsFiniteSet(KeysOf(j)) /\ applied[j] = Cardinality(KeysOf(j))
    BY MintedFacts, FS_Subset DEF IInv, ServerInv
  <2>3. applied[m.item] < Cardinality(KeysOf(j))
    BY <1>2, <2>1, <2>2
  <2> QED BY <1>1, <2>2, <2>3 DEF IInv, TypeOK
<1> QED BY <1>1, <1>3, <1>4, MintedFacts DEF IInv

\* Ok means that every item was executed.
LEMMA OkMeansExecuted ==
  ASSUME IInv, pc = "ok"
  PROVE  \A i \in Items : applied[i] >= 1
<1> SUFFICES ASSUME NEW i \in Items PROVE applied[i] >= 1
  OBVIOUS
<1>1. RequestKey \in KeysOf(i)
  BY MintedFacts DEF IInv, CallInv, Done, KeysOf
<1>2. IsFiniteSet(KeysOf(i)) /\ applied[i] = Cardinality(KeysOf(i)) /\ applied[i] \in Nat
  BY MintedFacts, FS_Subset DEF IInv, ServerInv, TypeOK
<1>3. Cardinality(KeysOf(i)) # 0
  BY <1>1, <1>2, FS_EmptySet
<1> QED BY <1>2, <1>3

LEMMA ContractInit == Init => Promise!Init
BY OptionAssumption DEF Init, Promise!Init

LEMMA ContractStep ==
  ASSUME IInv, IInv', [Next]_vars
  PROVE  [Promise!Next]_(Promise!wvars)
<1> DEFINE acknowledged == IF pc = "ok" THEN Items ELSE {}
<1>1. ASSUME UNCHANGED <<run, applied>>, pc # "ok" PROVE Promise!Acknowledge
  <2>1. acknowledged' \in SUBSET Items /\ acknowledged = {}
    BY <1>1
  <2>2. \A i \in acknowledged' : applied[i] >= 1
    <3>1. (IInv /\ pc = "ok" => \A i \in Items : applied[i] >= 1)'
      BY OkMeansExecuted, PTL
    <3> QED BY <1>1, <3>1
  <2> QED BY <1>1, <2>1, <2>2 DEF Promise!Acknowledge
<1>2. ASSUME UNCHANGED <<run, applied, pc>> PROVE UNCHANGED Promise!wvars
  BY <1>2 DEF Promise!wvars
<1>3. CASE UNCHANGED vars
  BY <1>2, <1>3 DEF vars, client, server
<1>4. CASE Submit
  <2>1. pc # "ok" /\ pc' # "ok" /\ run' = run + 1 /\ applied' = applied
    BY <1>4 DEF Submit, server
  <2>2. CASE CallerKeys
    BY <2>1, <2>2 DEF Promise!wvars
  <2>3. CASE ~CallerKeys
    BY <2>1, <2>3 DEF Promise!Next, Promise!UseNewKey
  <2> QED BY <2>2, <2>3
<1>5. ASSUME NEW how, End(how), pc # "ok" PROVE Promise!Acknowledge
  BY <1>1, <1>5 DEF End, server
<1>6. CASE Finish \/ Cancel \/ ConnectionBreaks
  <2>1. pc = "running"
    BY <1>6 DEF Finish, Cancel, ConnectionBreaks, Running, IInv, CallInv
  <2>2. Promise!Acknowledge
    BY <1>5, <1>6, <2>1 DEF Finish, Cancel, ConnectionBreaks
  <2> QED BY <2>2 DEF Promise!Next
<1>7. ASSUME NEW n \in Ids, Group(n) PROVE [Promise!Next]_(Promise!wvars)
  <2>1. CASE GroupFails(n) \/ DeadlinePasses(n)
    <3>1. pc # "ok" /\ End("failed")
      BY <2>1 DEF GroupFails, DeadlinePasses, IInv, CallInv
    <3>2. Promise!Acknowledge
      BY <1>5, <3>1
    <3> QED BY <3>2 DEF Promise!Next
  <2>2. CASE StartGroup(n) \/ Send(n) \/ Acknowledged(n)
    BY <1>2, <2>2 DEF StartGroup, Send, Acknowledged, server
  <2> QED BY <1>7, <2>1, <2>2 DEF Group
<1>8. ASSUME NEW m \in wire, Refuse(m) \/ RecognizeReplay(m) \/ Lose(m)
      PROVE  UNCHANGED Promise!wvars
  BY <1>2, <1>8 DEF Refuse, RecognizeReplay, Lose, Answer, client, server
<1>9. ASSUME NEW m \in wire, Execute(m) PROVE Promise!Next
  <2>1. UNCHANGED <<run, pc>> /\ applied' = [applied EXCEPT ![m.item] = @ + 1]
    BY <1>9 DEF Execute, Answer, client
  <2>2. \A v \in Items :
          <<v, m.item>> \in {p \in Items \X Items : id[p[1]] = id[p[2]] /\ p[1] < p[2]} =>
            applied[v] > applied[m.item]
    BY <1>9, ExecutesAnother DEF Before
  <2>3. Promise!Execute(m.item)
    BY <1>9, <2>1, <2>2, ExecutesAnother DEF Promise!Execute
  <2> QED BY <1>9, <2>3, ExecutesAnother DEF Promise!Next
<1> QED BY <1>3, <1>4, <1>6, <1>7, <1>8, <1>9 DEF Next, Promise!Next

\* put_nodes and add_edges implement the contract, with request_ids of the
\* application's and without them.
THEOREM BatchImplementsContract == Spec => ImplementsWriteContract
BY IInvInit, IInvStep, ContractInit, ContractStep, PTL
   DEF Spec, ImplementsWriteContract, Promise!Spec

\* When put_nodes or add_edges returns Ok the last item of each id is what the
\* server has, and no request that is still under way can change it.
THEOREM LastWriteWins == ASSUME CallerKeys PROVE Spec => []LastItemWins
<1>1. ASSUME IInv, pc = "ok", NEW n \in Written
      PROVE  stored[n] \in ItemsOf(n) /\ \A i \in ItemsOf(n) : i <= stored[n]
  <2>1. n \in Ids /\ ItemsOf(n) # {}
    BY DEF Written
  <2>2. \A i \in ItemsOf(n) : i \in Items /\ i \in Nat /\ i >= 1 /\ id[i] = n
    BY <2>1, ItemsFacts DEF ItemsOf
  <2>3. \A i \in ItemsOf(n) : <<i, 0>> \in markers
    BY <1>1, <2>2 DEF IInv, CallInv, Done, RequestKey
  <2>4. \A i \in ItemsOf(n) : i <= stored[n]
    BY <1>1, <2>2, <2>3 DEF IInv, StoredInv
  <2>5. stored[n] # 0
    BY <2>1, <2>2, <2>4
  <2> QED BY <1>1, <2>1, <2>4, <2>5 DEF IInv, StoredInv
<1>2. IInv => LastItemWins
  BY <1>1 DEF LastItemWins
<1> QED BY <1>2, IInvInit, IInvStep, PTL DEF Spec

LEMMA ExecuteInOrder ==
  CallerKeys /\ IInv /\ [Next]_vars =>
    \A n \in Ids :
      \/ stored'[n] = stored[n]
      \/ /\ stored'[n] \in ItemsOf(n) /\ stored'[n] > stored[n]
         /\ \A i \in ItemsOf(n) : i > stored[n] => i >= stored'[n]
<1> SUFFICES ASSUME CallerKeys, IInv, [Next]_vars, NEW n \in Ids
             PROVE  \/ stored'[n] = stored[n]
                    \/ /\ stored'[n] \in ItemsOf(n) /\ stored'[n] > stored[n]
                       /\ \A i \in ItemsOf(n) : i > stored[n] => i >= stored'[n]
  OBVIOUS
<1>1. ASSUME NEW m \in wire, Execute(m)
      PROVE  \/ stored'[n] = stored[n]
             \/ /\ stored'[n] \in ItemsOf(n) /\ stored'[n] > stored[n]
                /\ \A i \in ItemsOf(n) : i > stored[n] => i >= stored'[n]
  <2>1. m.item \in Items /\ id[m.item] \in Ids /\ m.item \in ItemsOf(id[m.item])
    BY ItemsFacts DEF IInv, TypeOK, Requests, ItemsOf
  <2>2. stored' = [stored EXCEPT ![id[m.item]] = m.item]
    BY <1>1 DEF Execute
  <2>3. CASE n # id[m.item]
    BY <2>1, <2>2, <2>3 DEF IInv, TypeOK
  <2>4. CASE n = id[m.item]
    <3>1. stored'[n] = m.item
      BY <2>1, <2>2, <2>4 DEF IInv, TypeOK
    <3> QED BY <1>1, <2>1, <2>4, <3>1, ExecuteNext
  <2> QED BY <2>3, <2>4
<1>2. \/ UNCHANGED stored
      \/ \E m \in wire : Execute(m)
  BY DEF vars, server, client, Next, Group, Submit, Finish, Cancel, ConnectionBreaks, End,
         StartGroup, Send, Acknowledged, GroupFails, DeadlinePasses, Refuse,
         RecognizeReplay, Lose
<1> QED BY <1>1, <1>2

\* The items of an id reach the server one by one in the order of the batch.
THEOREM ItemsArriveInOrder == ASSUME CallerKeys PROVE Spec => InOrder
<1>1. IInv /\ [Next]_vars =>
        [\A n \in Ids :
           \/ stored'[n] = stored[n]
           \/ /\ stored'[n] \in ItemsOf(n) /\ stored'[n] > stored[n]
              /\ \A i \in ItemsOf(n) : i > stored[n] => i >= stored'[n]]_stored
  BY ExecuteInOrder
<1> QED BY <1>1, IInvInit, IInvStep, PTL DEF Spec, InOrder


-------------------------------------------------------------------------------
(* The limit *)

OfRun(r) == {m \in wire : m.run = r}

LEMMA WrittenIsFinite == IsFiniteSet(Written)
<1> DEFINE f == [i \in Items |-> id[i]]
<1>1. IsFiniteSet(Items)
  BY BatchAssumption, FS_Interval DEF Items
<1>2. f \in Surjection(Items, Written)
  BY BatchAssumption DEF Surjection, Written, ItemsOf
<1> QED BY <1>1, <1>2, FS_Surjection

\* Every group that runs has an item left, and is one of finitely many.
LEMMA RunningIsFinite ==
  ASSUME TypeOK, CallInv
  PROVE  Running \subseteq Written /\ IsFiniteSet(Running) /\ Cardinality(Running) \in Nat
<1>1. ASSUME NEW n \in Running PROVE n \in Written
  <2>1. n \in Ids /\ group[n] # "done" /\ todo[n] # {}
    BY DEF Running, TypeOK
  <2>2. todo[n] \subseteq ItemsOf(n)
    BY <2>1 DEF CallInv
  <2> QED BY <2>1, <2>2 DEF Written
<1> QED BY <1>1, WrittenIsFinite, FS_Subset, FS_CardinalityType

\* The requests of the submission under way are those of different running groups.
LEMMA OnePerGroup ==
  ASSUME IInv, pc = "running"
  PROVE  /\ IsFiniteSet(OfRun(run))
         /\ Cardinality(OfRun(run)) <= Cardinality(Running)
<1> DEFINE f == [m \in OfRun(run) |-> id[m.item]]
<1>1. \A m \in OfRun(run) : /\ m \in wire /\ m.run = run /\ m.item \in Items
                            /\ id[m.item] \in Ids /\ m \in Requests
  BY ItemsFacts DEF OfRun, IInv, TypeOK, Requests
<1>2. \A m \in OfRun(run) :
        id[m.item] \in Running /\ IsNext(m.item, id[m.item]) /\ m.key = RequestKey
  BY <1>1 DEF IInv, SentInv, Running
<1>3. ASSUME NEW m \in OfRun(run), NEW o \in OfRun(run), id[m.item] = id[o.item]
      PROVE  m = o
  <2>1. IsNext(m.item, id[m.item]) /\ IsNext(o.item, id[m.item])
    BY <1>2, <1>3
  <2>2. m.item = o.item
    BY <1>1, <2>1, ItemsFacts DEF IsNext
  <2> QED BY <1>1, <1>2, <2>2 DEF Requests
<1>4. f \in Injection(OfRun(run), Running)
  BY <1>2, <1>3 DEF Injection, IsInjective
<1>5. IsFiniteSet(Running)
  BY RunningIsFinite DEF IInv
<1> QED BY <1>4, <1>5, FS_Injection

BoundInv ==
  /\ Cardinality(Running) <= CONCURRENT_REQUESTS
  /\ \A r \in Nat : /\ IsFiniteSet(OfRun(r))
                    /\ Cardinality(OfRun(r)) <= CONCURRENT_REQUESTS

LEMMA BoundInit == Init => BoundInv
<1> SUFFICES ASSUME Init PROVE BoundInv
  OBVIOUS
<1>1. Running = {} /\ \A r \in Nat : OfRun(r) = {}
  BY DEF Init, Running, OfRun
<1>2. IsFiniteSet({}) /\ Cardinality({}) = 0 /\ 0 <= CONCURRENT_REQUESTS
  BY FS_EmptySet, LimitAssumption
<1> QED BY <1>1, <1>2 DEF BoundInv

\* The number of running groups stays within the limit.
LEMMA RunningBound ==
  ASSUME IInv, IInv', BoundInv, [Next]_vars
  PROVE  Cardinality(Running') <= CONCURRENT_REQUESTS
<1>1. /\ IsFiniteSet(Running) /\ Cardinality(Running) \in Nat
      /\ Cardinality(Running) <= CONCURRENT_REQUESTS
  BY RunningIsFinite DEF IInv, BoundInv
<1>2. ASSUME Running' \subseteq Running PROVE Cardinality(Running') <= CONCURRENT_REQUESTS
  <2>1. Cardinality(Running') <= Cardinality(Running) /\ Cardinality(Running') \in Nat
    BY <1>1, <1>2, FS_Subset, FS_CardinalityType
  <2> QED BY <1>1, <2>1, LimitAssumption
<1>3. ASSUME NEW n \in Ids, StartGroup(n) PROVE Cardinality(Running') <= CONCURRENT_REQUESTS
  <2>1. Running' = Running \cup {n} /\ n \notin Running
    BY <1>3 DEF StartGroup, Running, IInv, TypeOK
  <2>2. Cardinality(Running') = Cardinality(Running) + 1
    BY <1>1, <2>1, FS_AddElement
  <2>3. Cardinality(Running) < CONCURRENT_REQUESTS
    BY <1>3 DEF StartGroup, MayStart
  <2> QED BY <1>1, <2>2, <2>3, LimitAssumption
<1>4. ASSUME group' = group PROVE Running' \subseteq Running
  BY <1>4 DEF Running
<1>5. ASSUME \A n \in Ids : group'[n] \notin {"ready", "sent"} PROVE Running' \subseteq Running
  BY <1>5 DEF Running
<1>6. ASSUME NEW n \in Ids, Send(n) \/ Acknowledged(n) PROVE Running' \subseteq Running
  <2>1. group[n] \in {"ready", "sent"} /\ \A o \in Ids : o # n => group'[o] = group[o]
    BY <1>6 DEF Send, Acknowledged, IInv, TypeOK
  <2> QED BY <2>1 DEF Running
<1>7. \/ group' = group
      \/ \A n \in Ids : group'[n] \notin {"ready", "sent"}
      \/ \E n \in Ids : StartGroup(n) \/ Send(n) \/ Acknowledged(n)
  <2>1. CASE UNCHANGED vars
    BY <2>1 DEF vars, client
  <2>2. CASE Submit
    BY <2>2 DEF Submit
  <2>3. ASSUME NEW how, End(how) PROVE \A n \in Ids : group'[n] \notin {"ready", "sent"}
    BY <2>3 DEF End
  <2>4. CASE Finish \/ Cancel \/ ConnectionBreaks
    BY <2>3, <2>4 DEF Finish, Cancel, ConnectionBreaks
  <2>5. ASSUME NEW n \in Ids, GroupFails(n) \/ DeadlinePasses(n)
        PROVE  \A o \in Ids : group'[o] \notin {"ready", "sent"}
    BY <2>3, <2>5 DEF GroupFails, DeadlinePasses
  <2>6. ASSUME NEW m \in wire, Refuse(m) \/ Execute(m) \/ RecognizeReplay(m) \/ Lose(m)
        PROVE  group' = group
    BY <2>6 DEF Refuse, Execute, RecognizeReplay, Lose, Answer, client
  <2> QED BY <2>1, <2>2, <2>4, <2>5, <2>6 DEF Next, Group
<1> QED BY <1>2, <1>3, <1>4, <1>5, <1>6, <1>7

LEMMA BoundStep == IInv /\ IInv' /\ BoundInv /\ [Next]_vars => BoundInv'
<1> SUFFICES ASSUME IInv, IInv', BoundInv, [Next]_vars PROVE BoundInv'
  OBVIOUS
<1>1. Cardinality(Running') <= CONCURRENT_REQUESTS
  BY RunningBound
<1>2. ASSUME NEW r \in Nat, OfRun(r)' \subseteq OfRun(r)
      PROVE  IsFiniteSet(OfRun(r)') /\ Cardinality(OfRun(r)') <= CONCURRENT_REQUESTS
  <2>1. IsFiniteSet(OfRun(r)) /\ Cardinality(OfRun(r)) <= CONCURRENT_REQUESTS
    BY DEF BoundInv
  <2>2. /\ IsFiniteSet(OfRun(r)') /\ Cardinality(OfRun(r)') <= Cardinality(OfRun(r))
        /\ Cardinality(OfRun(r)') \in Nat /\ Cardinality(OfRun(r)) \in Nat
    BY <1>2, <2>1, FS_Subset, FS_CardinalityType
  <2> QED BY <2>1, <2>2, LimitAssumption
<1>3. ASSUME NEW n \in Ids, Send(n), NEW r \in Nat
      PROVE  IsFiniteSet(OfRun(r)') /\ Cardinality(OfRun(r)') <= CONCURRENT_REQUESTS
  <2>1. CASE r = run
    <3>1. pc' = "running" /\ run' = run
      BY <1>3 DEF Send, IInv, CallInv
    <3>2. IsFiniteSet(OfRun(run)') /\ Cardinality(OfRun(run)') <= Cardinality(Running')
      <4>1. (IInv /\ pc = "running" =>
               IsFiniteSet(OfRun(run)) /\ Cardinality(OfRun(run)) <= Cardinality(Running))'
        BY OnePerGroup, PTL
      <4> QED BY <3>1, <4>1
    <3>3. OfRun(run)' = OfRun(r)'
      BY <2>1, <3>1 DEF OfRun
    <3>4. Cardinality(Running') \in Nat /\ Cardinality(OfRun(r)') \in Nat
      <4>1. (TypeOK /\ CallInv => Cardinality(Running) \in Nat)'
        BY RunningIsFinite, PTL
      <4>2. Cardinality(Running') \in Nat
        BY <4>1 DEF IInv
      <4> QED BY <3>2, <3>3, <4>2, FS_CardinalityType
    <3> QED BY <1>1, <3>2, <3>3, <3>4, LimitAssumption
  <2>2. CASE r # run
    <3>1. OfRun(r)' \subseteq OfRun(r)
      BY <1>3, <2>2 DEF Send, OfRun
    <3> QED BY <1>2, <3>1
  <2> QED BY <2>1, <2>2
<1>4. \/ wire' \subseteq wire
      \/ \E n \in Ids : Send(n)
  BY DEF vars, server, client, Next, Group, Submit, Finish, Cancel, ConnectionBreaks, End,
         StartGroup, Acknowledged, GroupFails, DeadlinePasses, Refuse, Execute, Answer,
         RecognizeReplay, Lose
<1>5. ASSUME wire' \subseteq wire, NEW r \in Nat PROVE OfRun(r)' \subseteq OfRun(r)
  BY <1>5 DEF OfRun
<1>6. ASSUME NEW r \in Nat
      PROVE  IsFiniteSet(OfRun(r)') /\ Cardinality(OfRun(r)') <= CONCURRENT_REQUESTS
  BY <1>2, <1>3, <1>4, <1>5
<1> QED BY <1>1, <1>6 DEF BoundInv

\* No submission has more requests at the server than try_for_each_concurrent
\* lets run, those it abandoned when it failed included.
THEOREM LimitHolds == Spec => []WireBound
<1>1. IInv /\ BoundInv => WireBound
  <2> SUFFICES ASSUME IInv, BoundInv, NEW r \in 1..run
               PROVE  Cardinality({m \in wire : m.run = r}) <= CONCURRENT_REQUESTS
    BY DEF WireBound
  <2>1. r \in Nat
    BY DEF IInv, TypeOK
  <2> QED BY <2>1 DEF BoundInv, OfRun
<1> QED BY <1>1, IInvInit, IInvStep, BoundInit, BoundStep, PTL DEF Spec

===============================================================================

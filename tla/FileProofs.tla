------------------------------- MODULE FileProofs -------------------------------
(***************************************************************************)
(* Proofs about what src/src/file.rs does: about FileTransfers, for any    *)
(* number of uploads, deletions and downloads of any buffers, in messages  *)
(* of any length; and about CalendarTime, for any range of years.          *)
(***************************************************************************)
EXTENDS FileTransfers, CalendarTime, SequenceTheorems, FiniteSetTheorems, TLAPS

-------------------------------------------------------------------------------
(* Type correctness *)

WriteStates == {"called", "hashing", "ready", "sent", "refreshing", "done"}
ReadStates == {"called", "opening", "refreshing", "reading", "done"}
Outcomes == {"none", "ok", "size_mismatch", "checksum_mismatch", "io", "status",
             "not_found", "gone"}
Versions == [by : Uploads, size : Nat, checksum : Digests]
Heads == [size_bytes : Nat, checksum : Digests \cup {NoChecksum}]

Requests ==
  [by : Writes, key : Writes \X {1}, replay : BOOLEAN, taken : Nat, head : Heads,
   bytes : Bytes]

\* A request carries the one key of its call, and its metadata once its first message
\* was taken.
IsRequest(m) ==
  /\ m \in Requests
  /\ m.key = <<m.by, 1>>
  /\ m.by \in Uploads /\ m.taken >= 1 => m.head.checksum \in Digests

StoreType ==
  /\ versions \in Seq(Versions)
  /\ stored \in Seq(Bytes) /\ Len(stored) = Len(versions)
  /\ published \in 0..Len(versions)
  /\ markers \subseteq Writes \X Nat
  /\ executed \in Seq(Writes)
  /\ decayed \subseteq 1..Len(versions)

\* Every call makes one key, which each of its requests carries.
KeyInv ==
  /\ wpc \in [Writes -> WriteStates] /\ request_id \in [Writes -> Nat]
  /\ \A w \in Writes :
       /\ wpc[w] \in {"called", "hashing"} => request_id[w] = 0
       /\ wpc[w] \in {"ready", "sent", "refreshing"} => request_id[w] = 1
  /\ \A m \in wire : IsRequest(m)

\* A call knows the checksum it sends before it sends anything.
ChecksumInv ==
  /\ buffer \in [Uploads -> Bytes]
  /\ DOMAIN checksum = Uploads
  /\ \A u \in Uploads : checksum[u] \in Digests \cup {NoChecksum}
  /\ \A u \in Uploads : wpc[u] \in {"ready", "sent", "refreshing"} => checksum[u] \in Digests

AnswerType ==
  /\ reply \in [Writes -> {"none", "OK"} \cup Refusals]
  /\ result \in [Writes -> {"none", "OK", "validation"} \cup Refusals]
  /\ replayed \in [Writes -> BOOLEAN]

WriteType == KeyInv /\ ChecksumInv /\ AnswerType

PhaseType ==
  /\ rpc \in [Downloads -> ReadStates]
  /\ kind \in [Downloads -> Kinds]
  /\ seen \in [Downloads -> 0..Len(versions)]
  /\ source \in [Downloads -> 0..Len(versions)]
  /\ \A d \in Downloads : rpc[d] = "reading" => source[d] # 0
  /\ metadata \in [Downloads -> [size : Nat, checksum : Digests]]
  /\ cut \in [Downloads -> BOOLEAN] /\ reopened \in [Downloads -> BOOLEAN]
  /\ outcome \in [Downloads -> Outcomes]

DataType ==
  /\ position \in [Downloads -> Nat] /\ written \in [Downloads -> Nat]
  /\ hashed \in [Downloads -> Bytes] /\ writer \in [Downloads -> Bytes]

ReadType == PhaseType /\ DataType

\* What a step may do to the versions.
VersionsGrow ==
  /\ Len(versions) \in Nat /\ Len(versions') \in Nat
  /\ Len(versions) <= Len(versions')
  /\ \A v \in 1..Len(versions) : versions'[v] = versions[v]

LEMMA DigestTypes ==
  /\ \A b \in Bytes : Sha256(b) \in Digests
  /\ \A a, b : Sha256(a) = Sha256(b) => a = b
BY DEF Sha256, Digests

LEMMA ChunkType ==
  ASSUME ChecksumInv, NEW u \in Uploads, NEW i \in Nat \ {0}
  PROVE  chunk(u, i) \in Bytes
<1>1. buffer[u] \in Seq(Byte) /\ Len(buffer[u]) \in Nat
  BY DEF ChecksumInv, Bytes
<1>2. /\ DEFAULT_CHUNK_SIZE \in Nat
      /\ (i - 1) * DEFAULT_CHUNK_SIZE + 1 \in Nat \ {0}
      /\ i * DEFAULT_CHUNK_SIZE \in Nat
  BY ChunkAssumption
<1> DEFINE a == (i - 1) * DEFAULT_CHUNK_SIZE + 1
           b == Smaller(i * DEFAULT_CHUNK_SIZE, Size(u))
<1>3. a \in Nat \ {0} /\ b \in Int /\ b <= Len(buffer[u])
  BY <1>1, <1>2 DEF Smaller, Size
<1>4. chunk(u, i) = SubSeq(buffer[u], a, b)
  BY DEF chunk
<1> HIDE DEF a, b
<1>5. \A k \in a..b : buffer[u][k] \in Byte
  BY <1>1, <1>3, ElementOfSeq
<1>6. SubSeq(buffer[u], a, b) \in Seq(Byte)
  BY <1>3, <1>5, SubSeqProperties
<1> QED BY <1>4, <1>6 DEF Bytes

LEMMA TypeInit == Init => StoreType /\ WriteType /\ ReadType
<1> SUFFICES ASSUME Init PROVE StoreType /\ WriteType /\ ReadType
  OBVIOUS
<1>1. StoreType
  BY DEF Init, StoreInit, StoreType
<1>2. KeyInv
  BY DEF Init, UploadInit, KeyInv, WriteStates
<1>3. ChecksumInv
  <2>1. buffer \in [Uploads -> Bytes]
    BY BuffersAssumption DEF Init, UploadInit
  <2>2. DOMAIN checksum = Uploads /\ \A u \in Uploads : checksum[u] \in Digests \cup {NoChecksum}
    BY BuffersAssumption, DigestTypes DEF Init, UploadInit
  <2>3. \A u \in Uploads : wpc[u] = "called"
    BY DEF Init, UploadInit, Writes
  <2> QED BY <2>1, <2>2, <2>3 DEF ChecksumInv
<1>4. AnswerType
  BY DEF Init, UploadInit, AnswerType
<1>5. PhaseType
  <2>1. NoMetadata \in [size : Nat, checksum : Digests] /\ <<>> \in Bytes
    BY DEF NoMetadata, Digests, Bytes
  <2>2. 0 \in 0..Len(versions)
    BY DEF Init, StoreInit
  <2> QED BY <2>1, <2>2 DEF Init, DownloadInit, PhaseType, ReadStates, Outcomes
<1>6. DataType
  BY DEF Init, DownloadInit, DataType, Bytes
<1> QED BY <1>1, <1>2, <1>3, <1>4, <1>5, <1>6 DEF WriteType, ReadType

-------------------------------------------------------------------------------
(* The calls that write *)

\* A call that moves on keeps to its key.
LEMMA WriteKeepsKeys ==
  ASSUME WriteType, NEW w \in Writes, Write(w) \/ GiveUp(w)
  PROVE  KeyInv'
<1> USE DEF KeyInv, WriteStates, caller
<1> KeyInv
  BY DEF WriteType
<1>1. CASE RefuseSize(w) \/ Offload(w)
  BY <1>1 DEF RefuseSize, Offload
<1>2. CASE Prepare(w) \/ BeginDelete(w)
  <2>1. /\ wpc[w] \in {"called", "hashing"} /\ UNCHANGED wire
        /\ wpc' = [wpc EXCEPT ![w] = "ready"]
        /\ request_id' = [request_id EXCEPT ![w] = @ + 1]
    BY <1>2 DEF Prepare, BeginDelete
  <2> QED BY <2>1
<1>3. CASE Send(w)
  <2> DEFINE m == [by |-> w, key |-> <<w, request_id[w]>>, replay |-> replayed[w],
                   taken |-> 0, head |-> NoHead, bytes |-> <<>>]
  <2>1. /\ wpc[w] = "ready" /\ wpc' = [wpc EXCEPT ![w] = "sent"]
        /\ UNCHANGED request_id /\ wire' = wire \cup {m}
    BY <1>3 DEF Send
  <2>2. NoHead \in Heads /\ <<>> \in Bytes /\ replayed[w] \in BOOLEAN
    BY DEF NoHead, Heads, Bytes, WriteType, AnswerType
  <2>3. m \in Requests /\ m.key = <<m.by, 1>> /\ m.taken = 0
    BY <2>1, <2>2 DEF Requests
  <2>4. IsRequest(m)
    BY <2>3 DEF IsRequest
  <2> QED BY <2>1, <2>4
<1>4. CASE Receive(w) \/ RefreshSucceeds(w) \/ RefreshFails(w)
  BY <1>4 DEF Receive, RefreshSucceeds, RefreshFails
<1>5. CASE DeadlinePasses(w) \/ GiveUp(w)
  BY <1>5 DEF DeadlinePasses, GiveUp, Forsake
<1> QED BY <1>1, <1>2, <1>3, <1>4, <1>5 DEF Write

\* Only Prepare sets a checksum, and it sets one that can be sent.
LEMMA WriteKeepsChecksums ==
  ASSUME WriteType, NEW w \in Writes, Write(w) \/ GiveUp(w)
  PROVE  ChecksumInv'
<1> USE DEF ChecksumInv, caller
<1>0. ChecksumInv /\ wpc \in [Writes -> WriteStates] /\ Uploads \subseteq Writes
  BY DEF WriteType, KeyInv, Writes
<1>1. CASE RefuseSize(w) \/ Offload(w)
  BY <1>0, <1>1 DEF RefuseSize, Offload
<1>2. CASE w \in Uploads /\ Prepare(w)
  <2>1. /\ UNCHANGED buffer /\ wpc' = [wpc EXCEPT ![w] = "ready"]
        /\ checksum' = [checksum EXCEPT ![w] = Resolved(w)]
    BY <1>2 DEF Prepare
  <2>2. Resolved(w) \in Digests
    BY <1>0, <1>2, DigestTypes DEF Resolved
  <2>3. /\ DOMAIN checksum' = Uploads
        /\ \A u \in Uploads : checksum'[u] = IF u = w THEN Resolved(w) ELSE checksum[u]
    BY <1>0, <2>1
  <2>4. \A u \in Uploads : wpc'[u] = IF u = w THEN "ready" ELSE wpc[u]
    BY <1>0, <2>1
  <2> HIDE DEF ChecksumInv
  <2>5. \A u \in Uploads : checksum'[u] \in Digests \/ (u # w /\ checksum'[u] = checksum[u])
    BY <2>2, <2>3
  <2> QED BY <1>0, <2>1, <2>3, <2>4, <2>5 DEF ChecksumInv
<1>3. CASE w \in Deletes /\ BeginDelete(w)
  <2>1. w \notin Uploads
    BY <1>3, WritesAssumption
  <2> QED BY <1>0, <1>3, <2>1 DEF BeginDelete
<1>4. CASE Send(w) \/ Receive(w) \/ RefreshSucceeds(w) \/ RefreshFails(w)
  BY <1>0, <1>4 DEF Send, Receive, RefreshSucceeds, RefreshFails
<1>5. CASE DeadlinePasses(w) \/ GiveUp(w)
  BY <1>0, <1>5 DEF DeadlinePasses, GiveUp, Forsake
<1> QED BY <1>1, <1>2, <1>3, <1>4, <1>5 DEF Write

LEMMA WriteKeepsAnswers ==
  ASSUME WriteType, NEW w \in Writes, Write(w) \/ GiveUp(w)
  PROVE  AnswerType'
<1> USE DEF AnswerType, caller, Refusals
<1> AnswerType
  BY DEF WriteType
<1>1. CASE RefuseSize(w) \/ Offload(w) \/ Prepare(w) \/ BeginDelete(w)
  BY <1>1 DEF RefuseSize, Offload, Prepare, BeginDelete
<1>2. CASE Send(w) \/ Receive(w) \/ RefreshSucceeds(w) \/ RefreshFails(w)
  BY <1>2 DEF Send, Receive, RefreshSucceeds, RefreshFails
<1>3. CASE DeadlinePasses(w) \/ GiveUp(w)
  BY <1>3 DEF DeadlinePasses, GiveUp, Forsake
<1> QED BY <1>1, <1>2, <1>3 DEF Write

-------------------------------------------------------------------------------
(* The server *)

LEMMA AnswerKeepsType ==
  ASSUME WriteType, NEW m \in wire, NEW st \in {"OK"} \cup Refusals, Answer(m, st)
  PROVE  WriteType'
<1>1. /\ UNCHANGED <<wpc, buffer, checksum, request_id, replayed, result>>
      /\ wire' \subseteq wire
      /\ reply' = reply \/ reply' = [reply EXCEPT ![m.by] = st]
  BY DEF Answer, caller
<1>2. KeyInv' /\ ChecksumInv'
  BY <1>1 DEF WriteType, KeyInv, ChecksumInv
<1>3. AnswerType'
  BY <1>1 DEF WriteType, AnswerType
<1> QED BY <1>2, <1>3 DEF WriteType

\* A request that is taken further has its metadata, and bytes.
LEMMA TakeKeepsType == ASSUME WriteType, NEW m \in wire, Take(m) PROVE WriteType'
<1> USE DEF WriteType
<1>1. IsRequest(m) /\ m \in Requests /\ m.by \in Uploads /\ m.taken \in Nat /\ m.head \in Heads
      /\ m.bytes \in Seq(Byte)
  BY DEF KeyInv, IsRequest, Requests, Take, Bytes
<1> DEFINE t == m.taken + 1
           h == declared(m.by, m.taken + 1, m.head)
           b == m.bytes \o chunk(m.by, m.taken + 1)
           n == [m EXCEPT !.taken = t, !.head = h, !.bytes = b]
<1>2. wire' = (wire \ {m}) \cup {n}
      /\ UNCHANGED <<wpc, buffer, checksum, request_id, replayed, reply, result>>
  BY DEF Take, client, caller
<1>3. t \in Nat \ {0} /\ t >= 1
  BY <1>1
<1>4. h \in Heads /\ h.checksum \in Digests
  <2>1. CASE t = 1
    <3>1. wpc[m.by] = "sent" /\ checksum[m.by] \in Digests
      BY <1>1 DEF Take, Waited, ChecksumInv
    <3>2. Size(m.by) \in Nat
      BY <1>1 DEF Size, ChecksumInv, Bytes
    <3>3. h = [size_bytes |-> Size(m.by), checksum |-> checksum[m.by]]
      BY <2>1 DEF declared
    <3> QED BY <3>1, <3>2, <3>3 DEF Heads
  <2>2. CASE t # 1
    <3>1. h = m.head /\ m.taken >= 1
      BY <1>1, <2>2 DEF declared
    <3> QED BY <1>1, <3>1 DEF IsRequest
  <2> QED BY <2>1, <2>2
<1>5. b \in Bytes
  <2>1. chunk(m.by, t) \in Seq(Byte)
    BY <1>1, <1>3, ChunkType DEF Bytes
  <2> QED BY <1>1, <2>1, ConcatProperties DEF Bytes
<1> HIDE DEF t, h, b
<1>6. n \in Requests /\ n.by = m.by /\ n.key = m.key /\ n.head = h
  BY <1>1, <1>3, <1>4, <1>5 DEF Requests
<1>7. IsRequest(n)
  BY <1>1, <1>4, <1>6 DEF IsRequest
<1> HIDE DEF n
<1>8. KeyInv'
  BY <1>2, <1>7 DEF KeyInv
<1>9. ChecksumInv' /\ AnswerType'
  BY <1>2 DEF ChecksumInv, AnswerType
<1> QED BY <1>8, <1>9

LEMMA WriteStep == WriteType /\ [Next]_vars => WriteType'
<1> SUFFICES ASSUME WriteType, [Next]_vars PROVE WriteType'
  OBVIOUS
<1>1. CASE UNCHANGED client /\ wire' \subseteq wire
  BY <1>1 DEF client, caller, WriteType, KeyInv, ChecksumInv, AnswerType
<1>2. ASSUME NEW w \in Writes, Write(w) \/ GiveUp(w) PROVE WriteType'
  BY <1>2, WriteKeepsKeys, WriteKeepsChecksums, WriteKeepsAnswers DEF WriteType
<1>3. ASSUME NEW m \in wire, Take(m) PROVE WriteType'
  BY <1>3, TakeKeepsType
<1>4. ASSUME NEW m \in wire, Execute(m) \/ RecognizeReplay(m) \/ Refuse(m) PROVE WriteType'
  <2>1. PICK st \in {"OK"} \cup Refusals : Answer(m, st)
    BY <1>4 DEF Execute, RecognizeReplay, Refuse, Refusals
  <2> QED BY <2>1, AnswerKeepsType
<1>5. ASSUME NEW m \in wire, Lose(m) PROVE WriteType'
  BY <1>1, <1>5 DEF Lose
<1>6. \/ UNCHANGED client /\ wire' \subseteq wire
      \/ \E w \in Writes : Write(w) \/ GiveUp(w)
      \/ \E m \in wire : Take(m)
      \/ \E m \in wire : Execute(m) \/ RecognizeReplay(m) \/ Refuse(m)
      \/ \E m \in wire : Lose(m)
  BY DEF Next, ServerServes, Serve, vars
<1> QED BY <1>1, <1>2, <1>3, <1>4, <1>5, <1>6

-------------------------------------------------------------------------------
(* The store *)

LEMMA Quotients == ASSUME NEW a \in Nat, NEW b \in Nat \ {0}, a >= b PROVE a \div b >= 1
BY SMTT(30)

LEMMA EveryUploadHasAMessage ==
  ASSUME ChecksumInv, NEW u \in Uploads
  PROVE  chunk_count(u) \in Int /\ chunk_count(u) >= 1
<1>1. CASE buffer[u] = <<>>
  BY <1>1 DEF chunk_count
<1>2. CASE buffer[u] # <<>>
  <2>1. Size(u) \in Nat \ {0}
    BY <1>2, EmptySeq DEF ChecksumInv, Bytes, Size
  <2>2. /\ Size(u) + DEFAULT_CHUNK_SIZE - 1 \in Nat
        /\ Size(u) + DEFAULT_CHUNK_SIZE - 1 >= DEFAULT_CHUNK_SIZE
        /\ DEFAULT_CHUNK_SIZE \in Nat \ {0}
    BY <2>1, ChunkAssumption
  <2> QED BY <1>2, <2>2, Quotients DEF chunk_count
<1> QED BY <1>1, <1>2

LEMMA ExecuteKeepsStore ==
  ASSUME StoreType, WriteType, NEW m \in wire, Execute(m)
  PROVE  StoreType' /\ VersionsGrow
<1>1. IsRequest(m) /\ m \in Requests
  BY DEF WriteType, KeyInv, IsRequest
<1>2. /\ m.by \in Writes /\ m.key \in Writes \X Nat /\ m.bytes \in Bytes
      /\ m.head.size_bytes \in Nat /\ m.taken \in Nat
  BY <1>1 DEF Requests, Heads
<1>3. /\ Len(versions) \in Nat /\ versions \in Seq(Versions) /\ stored \in Seq(Bytes)
      /\ executed \in Seq(Writes) /\ Len(stored) = Len(versions)
      /\ markers \subseteq Writes \X Nat /\ decayed \subseteq 1..Len(versions)
  BY DEF StoreType
<1>4. executed' = Append(executed, m.by) /\ markers' = markers \cup {m.key} /\ decayed' = decayed
  BY DEF Execute, StoreUpload, StoreDelete
<1>5. executed' \in Seq(Writes) /\ markers' \subseteq Writes \X Nat
  BY <1>2, <1>3, <1>4
<1>6. CASE m.by \in Uploads
  <2>1. m.head.checksum \in Digests
    BY <1>1, <1>2, <1>6, EveryUploadHasAMessage DEF Execute, Complete, IsRequest, WriteType
  <2> DEFINE r == [by |-> m.by, size |-> m.head.size_bytes, checksum |-> m.head.checksum]
  <2>2. r \in Versions
    BY <1>2, <1>6, <2>1 DEF Versions
  <2>3. /\ versions' = Append(versions, r) /\ stored' = Append(stored, m.bytes)
        /\ published' = Len(versions) + 1
    BY <1>6 DEF Execute, StoreUpload
  <2> HIDE DEF r
  <2>4. /\ versions' \in Seq(Versions) /\ Len(versions') = Len(versions) + 1
        /\ \A v \in 1..Len(versions) : versions'[v] = versions[v]
    BY <1>3, <2>2, <2>3
  <2>5. stored' \in Seq(Bytes) /\ Len(stored') = Len(stored) + 1
    BY <1>2, <1>3, <2>3
  <2> QED BY <1>3, <1>4, <1>5, <2>3, <2>4, <2>5 DEF StoreType, VersionsGrow
<1>7. CASE m.by \notin Uploads
  <2>1. UNCHANGED <<versions, stored>> /\ published' = 0
    BY <1>7 DEF Execute, StoreDelete
  <2> QED BY <1>3, <1>4, <1>5, <2>1 DEF StoreType, VersionsGrow
<1> QED BY <1>6, <1>7

LEMMA DecayKeepsStore ==
  ASSUME StoreType, NEW v \in 1..Len(versions), Decay(v)
  PROVE  StoreType' /\ VersionsGrow
<1>1. PICK bytes \in Decayed(stored[v]) : stored' = [stored EXCEPT ![v] = bytes]
  BY DEF Decay
<1>2. stored[v] \in Seq(Byte) /\ Len(versions) \in Nat
  BY DEF StoreType, Bytes
<1>3. bytes \in Seq(Byte)
  <2>1. ASSUME NEW n \in 0..(Len(stored[v]) - 1) PROVE SubSeq(stored[v], 1, n) \in Seq(Byte)
    BY <1>2
  <2>2. ASSUME NEW i \in 1..Len(stored[v]), NEW b \in Byte
        PROVE  [stored[v] EXCEPT ![i] = b] \in Seq(Byte)
    BY <1>2
  <2>3. ASSUME NEW b \in Byte PROVE Append(stored[v], b) \in Seq(Byte)
    BY <1>2
  <2> DEFINE short == {SubSeq(stored[v], 1, n) : n \in 0..(Len(stored[v]) - 1)}
             wrong == {[stored[v] EXCEPT ![i] = b] : i \in 1..Len(stored[v]), b \in Byte}
             long == {Append(stored[v], b) : b \in Byte}
  <2>4. bytes \in short \/ bytes \in wrong \/ bytes \in long
    <3> HIDE DEF short, wrong, long
    <3>1. Decayed(stored[v]) = short \cup wrong \cup long
      BY DEF Decayed, short, wrong, long
    <3> QED BY <1>1, <3>1
  <2>5. CASE bytes \in short
    BY <2>1, <2>5
  <2>6. CASE bytes \in wrong
    BY <2>2, <2>6
  <2>7. CASE bytes \in long
    BY <2>3, <2>7
  <2> QED BY <2>4, <2>5, <2>6, <2>7
<1>4. stored' \in Seq(Bytes) /\ Len(stored') = Len(stored)
  BY <1>1, <1>3 DEF StoreType, Bytes
<1> QED BY <1>2, <1>4 DEF StoreType, VersionsGrow, Decay

LEMMA StoreSteps ==
  ASSUME StoreType, WriteType, [Next]_vars
  PROVE  StoreType' /\ VersionsGrow
<1>1. CASE UNCHANGED store
  BY <1>1 DEF store, StoreType, VersionsGrow
<1>2. ASSUME NEW m \in wire, Execute(m) PROVE StoreType' /\ VersionsGrow
  BY <1>2, ExecuteKeepsStore
<1>3. ASSUME NEW v \in 1..Len(versions), Decay(v) PROVE StoreType' /\ VersionsGrow
  BY <1>3, DecayKeepsStore
<1>4. \/ UNCHANGED store
      \/ \E m \in wire : Execute(m)
      \/ \E v \in 1..Len(versions) : Decay(v)
  BY DEF Next, ServerServes, vars, Write, GiveUp, Serve, Take, RecognizeReplay, Refuse,
     Lose, Read, Abandon
<1> QED BY <1>1, <1>2, <1>3, <1>4

-------------------------------------------------------------------------------
(* The downloads *)

LEMMA PiecesOfBytes ==
  ASSUME NEW b \in Bytes, NEW i \in Nat \ {0}, NEW j \in Int, j <= Len(b)
  PROVE  SubSeq(b, i, j) \in Bytes
<1>1. b \in Seq(Byte) /\ Len(b) \in Nat
  BY DEF Bytes
<1>2. \A k \in i..j : b[k] \in Byte
  BY <1>1, ElementOfSeq
<1> QED BY <1>2, SubSeqProperties DEF Bytes

LEMMA MessagesAreBytes ==
  ASSUME StoreType, ReadType, NEW d \in Downloads, rpc[d] = "reading", NEW c \in Messages(d)
  PROVE  c \in Bytes /\ Len(c) \in Nat
<1>1. source[d] \in 1..Len(stored) /\ stored \in Seq(Bytes) /\ position[d] \in Nat
  BY DEF StoreType, ReadType, PhaseType, DataType
<1>2. stored[source[d]] \in Bytes
  BY <1>1
<1>3. Rest(d) \in Bytes
  BY <1>1, <1>2, PiecesOfBytes DEF Rest, Bytes
<1>4. PICK n \in 1..MaxChunk : n <= Len(Rest(d)) /\ c = SubSeq(Rest(d), 1, n)
  BY DEF Messages
<1>5. c \in Bytes
  BY <1>3, <1>4, MaxChunkAssumption, PiecesOfBytes
<1> QED BY <1>5 DEF Bytes

\* The phases of a download.
LEMMA ReadKeepsPhases ==
  ASSUME StoreType, ReadType, VersionsGrow, NEW d \in Downloads, Read(d) \/ Abandon(d)
  PROVE  PhaseType'
<1> USE DEF PhaseType, ReadStates, Outcomes, Finish, expected, stream, verified
<1>0. PhaseType /\ UNCHANGED <<versions, published>>
  BY DEF ReadType, Read, Abandon, store
<1>1. CASE SkipStat(d) \/ StatFails(d) \/ OpenFails(d) \/ OpenRefused(d) \/ Reopen(d)
           \/ RefreshRefused(d) \/ StreamBreaks(d) \/ Abandon(d)
  BY <1>0, <1>1 DEF SkipStat, StatFails, OpenFails, OpenRefused, Reopen, RefreshRefused,
     StreamBreaks, Abandon
<1>2. CASE Stat(d)
  <2>1. published \in 1..Len(versions) /\ versions \in Seq(Versions)
    BY <1>2 DEF Stat, StoreType
  <2>2. versions[published] \in Versions
    BY <2>1
  <2>3. [size |-> versions[published].size, checksum |-> versions[published].checksum] \in
          [size : Nat, checksum : Digests]
    BY <2>2 DEF Versions
  <2> QED BY <1>0, <1>2, <2>1, <2>3 DEF Stat
<1>3. CASE Open(d)
  <2>1. published \in 1..Len(versions) /\ published # 0
    BY <1>3 DEF Open, StoreType
  <2> QED BY <1>0, <1>3, <2>1 DEF Open
<1>4. CASE StreamEnds(d)
  BY <1>0, <1>4 DEF StreamEnds, Verdict
<1>5. ASSUME NEW c \in Messages(d),
             Collect(d, c) \/ Absorb(d, c) \/ CutOff(d, c) \/ WriterRefuses(d, c)
      PROVE  PhaseType'
  BY <1>0, <1>5 DEF Collect, Absorb, CutOff, WriterRefuses, Record, Message
<1> QED BY <1>1, <1>2, <1>3, <1>4, <1>5 DEF Read

LEMMA ReadKeepsData ==
  ASSUME StoreType, ReadType, NEW d \in Downloads, Read(d) \/ Abandon(d)
  PROVE  DataType'
<1> USE DEF DataType, expected, stream, verified
<1>0. DataType
  BY DEF ReadType
<1>1. CASE UNCHANGED <<position, written, hashed, writer>>
  BY <1>0, <1>1
<1>2. ASSUME rpc[d] = "reading", NEW c \in Messages(d),
             Collect(d, c) \/ Absorb(d, c) \/ CutOff(d, c) \/ WriterRefuses(d, c)
      PROVE  DataType'
  <2>1. c \in Bytes /\ c \in Seq(Byte) /\ Len(c) \in Nat
    BY <1>2, MessagesAreBytes DEF Bytes
  <2>2. position' = [position EXCEPT ![d] = @ + Len(c)]
    BY <1>2 DEF Collect, Absorb, CutOff, WriterRefuses, Message
  <2>3. \/ UNCHANGED <<hashed, written>>
        \/ hashed' = [hashed EXCEPT ![d] = @ \o c] /\ written' = [written EXCEPT ![d] = @ + Len(c)]
    BY <1>2 DEF Collect, Absorb, CutOff, WriterRefuses, Record
  <2>4. \/ UNCHANGED writer
        \/ \E b \in Bytes : writer' = [writer EXCEPT ![d] = @ \o b]
    <3>1. ASSUME NEW n \in 0..(Len(c) - 1) PROVE SubSeq(c, 1, n) \in Bytes
      BY <2>1, PiecesOfBytes
    <3> QED BY <1>2, <2>1, <3>1 DEF Collect, Absorb, CutOff, WriterRefuses
  <2>5. \A a, b \in Bytes : a \o b \in Bytes
    BY DEF Bytes
  <2>6. position' \in [Downloads -> Nat] /\ written' \in [Downloads -> Nat]
    BY <1>0, <2>1, <2>2, <2>3
  <2>7. hashed' \in [Downloads -> Bytes]
    <3>1. hashed[d] \o c \in Bytes
      BY <1>0, <2>1, <2>5
    <3> QED BY <1>0, <2>3, <3>1
  <2>8. writer' \in [Downloads -> Bytes]
    <3>1. \A b \in Bytes : writer[d] \o b \in Bytes
      BY <1>0, <2>5
    <3> QED BY <1>0, <2>4, <3>1
  <2> QED BY <2>6, <2>7, <2>8
<1>3. \/ UNCHANGED <<position, written, hashed, writer>>
      \/ /\ rpc[d] = "reading"
         /\ \E c \in Messages(d) :
              Collect(d, c) \/ Absorb(d, c) \/ CutOff(d, c) \/ WriterRefuses(d, c)
  BY DEF Read, Abandon, SkipStat, Stat, StatFails, Open, OpenFails, OpenRefused, Reopen,
     RefreshRefused, StreamEnds, StreamBreaks
<1> QED BY <1>1, <1>2, <1>3

LEMMA ReadSteps ==
  ASSUME StoreType, ReadType, VersionsGrow, [Next]_vars
  PROVE  ReadType'
<1>1. CASE UNCHANGED download
  BY <1>1 DEF download, expected, stream, verified, ReadType, PhaseType, DataType, VersionsGrow
<1>2. ASSUME NEW d \in Downloads, Read(d) \/ Abandon(d) PROVE ReadType'
  BY <1>2, ReadKeepsPhases, ReadKeepsData DEF ReadType
<1>3. UNCHANGED download \/ \E d \in Downloads : Read(d) \/ Abandon(d)
  BY DEF Next, vars
<1> QED BY <1>1, <1>2, <1>3

\* Everything keeps its type.
THEOREM TypeCorrect == Spec => []TypeOK
<1> DEFINE T == StoreType /\ WriteType /\ ReadType
<1>1. T /\ [Next]_vars => T'
  BY StoreSteps, WriteStep, ReadSteps
<1>2. T => TypeOK
  BY DEF StoreType, WriteType, KeyInv, ChecksumInv, AnswerType, ReadType, PhaseType, DataType,
     TypeOK, Versions, WriteStates, ReadStates, Outcomes
<1> QED BY <1>1, <1>2, TypeInit, PTL DEF Spec

-------------------------------------------------------------------------------
(* What a verified download knows *)

\* Until it is over, the writer has what was hashed, which stays within the size; a
\* message that is refused, by the limit or by the writer, leaves a prefix of it there.
ReaderInv(d) ==
  /\ written[d] = Len(hashed[d])
  /\ rpc[d] = "called" => hashed[d] = <<>>
  /\ rpc[d] # "done" => writer[d] = hashed[d] /\ Len(hashed[d]) <= metadata[d].size
  /\ Len(writer[d]) <= metadata[d].size
  /\ Len(writer[d]) <= Len(hashed[d])
  /\ writer[d] = SubSeq(hashed[d], 1, Len(writer[d]))

\* It holds the digest against the version that stat_file described.
DigestInv(d) ==
  /\ rpc[d] \in {"opening", "refreshing", "reading"} => seen[d] # 0
  /\ seen[d] # 0 => metadata[d].checksum = versions[seen[d]].checksum
  /\ outcome[d] = "ok" =>
       rpc[d] = "done" /\ seen[d] # 0 /\ writer[d] = hashed[d] /\ DigestAgrees(d)

VerifiedInv == \A d \in Downloads : Verifies(d) => ReaderInv(d) /\ DigestInv(d)

\* All that is known of one download.
Same(d) ==
  /\ rpc'[d] = rpc[d] /\ kind'[d] = kind[d] /\ seen'[d] = seen[d] /\ metadata'[d] = metadata[d]
  /\ written'[d] = written[d] /\ hashed'[d] = hashed[d] /\ writer'[d] = writer[d]
  /\ outcome'[d] = outcome[d]

LEMMA PiecesJoin ==
  ASSUME NEW b \in Bytes, NEW c \in Bytes, NEW n \in 0..Len(c)
  PROVE  /\ b \o c \in Bytes /\ b \o SubSeq(c, 1, n) \in Bytes
         /\ Len(b \o c) = Len(b) + Len(c) /\ Len(b \o SubSeq(c, 1, n)) = Len(b) + n
         /\ b \o SubSeq(c, 1, n) = SubSeq(b \o c, 1, Len(b) + n)
         /\ SubSeq(b, 1, Len(b)) = b
<1>1. b \in Seq(Byte) /\ c \in Seq(Byte) /\ Len(b) \in Nat /\ Len(c) \in Nat
  BY DEF Bytes
<1>2. SubSeq(c, 1, n) \in Seq(Byte) /\ Len(SubSeq(c, 1, n)) = n
  BY <1>1
<1>3. b \o c \in Seq(Byte) /\ b \o SubSeq(c, 1, n) \in Seq(Byte)
  BY <1>1, <1>2
<1>4. Len(b \o c) = Len(b) + Len(c) /\ Len(b \o SubSeq(c, 1, n)) = Len(b) + n
  BY <1>1, <1>2
<1>5. b \o SubSeq(c, 1, n) = SubSeq(b \o c, 1, Len(b) + n)
  <2> DEFINE l == b \o SubSeq(c, 1, n)  r == SubSeq(b \o c, 1, Len(b) + n)
  <2>1. Len(r) = Len(b) + n /\ r \in Seq(Byte)
    BY <1>1, <1>3, <1>4
  <2>2. \A k \in 1..(Len(b) + n) : l[k] = r[k]
    BY <1>1, <1>2, <1>3, <1>4
  <2> QED BY <1>3, <1>4, <2>1, <2>2, SeqEqual
<1>6. SubSeq(b, 1, Len(b)) = b
  BY <1>1, SubSeqFull
<1> QED BY <1>3, <1>4, <1>5, <1>6 DEF Bytes

LEMMA OthersStay ==
  ASSUME ReadType, NEW d \in Downloads, Read(d) \/ Abandon(d), NEW e \in Downloads, e # d
  PROVE  Same(e)
<1> USE DEF Same, Finish, expected, stream, verified
<1>0. PhaseType /\ DataType
  BY DEF ReadType
<1>1. CASE SkipStat(d) \/ Stat(d) \/ StatFails(d) \/ Open(d) \/ OpenFails(d) \/ OpenRefused(d)
           \/ Reopen(d) \/ RefreshRefused(d) \/ StreamEnds(d) \/ StreamBreaks(d) \/ Abandon(d)
  BY <1>0, <1>1 DEF PhaseType, SkipStat, Stat, StatFails, Open, OpenFails, OpenRefused, Reopen,
     RefreshRefused, StreamEnds, StreamBreaks, Abandon
<1>2. ASSUME NEW c \in Messages(d),
             Collect(d, c) \/ Absorb(d, c) \/ CutOff(d, c) \/ WriterRefuses(d, c)
      PROVE  Same(e)
  BY <1>0, <1>2 DEF PhaseType, DataType, Collect, Absorb, CutOff, WriterRefuses, Record, Message
<1> QED BY <1>1, <1>2 DEF Read

\* A download of which nothing changes knows what it knew.
LEMMA StaysVerified ==
  ASSUME ReadType, VersionsGrow, NEW d \in Downloads, Same(d), Verifies(d),
         ReaderInv(d), DigestInv(d)
  PROVE  ReaderInv(d)' /\ DigestInv(d)'
<1>1. seen[d] \in 0..Len(versions)
  BY DEF ReadType, PhaseType
<1>2. seen[d] # 0 => versions'[seen[d]] = versions[seen[d]]
  BY <1>1 DEF VersionsGrow
<1> QED BY <1>2 DEF Same, ReaderInv, DigestInv, DigestAgrees

LEMMA ReadVerifies ==
  ASSUME StoreType, ReadType, NEW d \in Downloads, Read(d) \/ Abandon(d),
         Verifies(d), ReaderInv(d), DigestInv(d)
  PROVE  Verifies(d)' /\ ReaderInv(d)' /\ DigestInv(d)'
<1> USE DEF Finish, expected, stream, verified
<1>0. /\ PhaseType /\ DataType /\ UNCHANGED <<versions, published, kind>>
      /\ d \in DOMAIN rpc /\ d \in DOMAIN outcome
  BY DEF ReadType, PhaseType, Read, Abandon, store, SkipStat, Stat, StatFails, Open, OpenFails,
     OpenRefused, Reopen, RefreshRefused, StreamEnds, StreamBreaks, Collect, Absorb, CutOff,
     WriterRefuses, Message
<1>k. Verifies(d)'
  BY <1>0 DEF Verifies
<1>1. CASE SkipStat(d) \/ StatFails(d) \/ Open(d) \/ OpenFails(d) \/ OpenRefused(d) \/ Reopen(d)
           \/ RefreshRefused(d) \/ StreamBreaks(d) \/ Abandon(d)
  <2>1. /\ UNCHANGED <<versions, seen, metadata, written, hashed, writer>>
        /\ rpc'[d] # "called" /\ rpc[d] # "done"
        /\ \/ rpc'[d] = "done" /\ outcome'[d] # "ok"
           \/ /\ rpc[d] \in {"opening", "refreshing"} /\ rpc'[d] # "done"
              /\ outcome'[d] = outcome[d]
    BY <1>0, <1>1 DEF SkipStat, StatFails, Open, OpenFails, OpenRefused, Reopen, RefreshRefused,
       StreamBreaks, Abandon, Verifies
  <2> QED BY <1>k, <2>1 DEF ReaderInv, DigestInv, DigestAgrees
<1>2. CASE Stat(d)
  <2>1. /\ rpc[d] = "called" /\ rpc'[d] = "opening" /\ seen'[d] = published /\ published # 0
        /\ metadata'[d] = [size |-> versions[published].size,
                           checksum |-> versions[published].checksum]
        /\ UNCHANGED <<versions, written, hashed, writer, outcome>>
    BY <1>0, <1>2 DEF Stat, PhaseType
  <2>2. versions[published] \in Versions
    BY <2>1 DEF StoreType
  <2>3. hashed[d] = <<>> /\ writer[d] = <<>> /\ Len(hashed[d]) = 0 /\ metadata'[d].size \in Nat
    BY <2>1, <2>2 DEF ReaderInv, Versions
  <2> QED BY <1>k, <2>1, <2>3 DEF ReaderInv, DigestInv, DigestAgrees
<1>3. CASE StreamEnds(d)
  <2>1. /\ rpc[d] = "reading" /\ rpc'[d] = "done"
        /\ UNCHANGED <<versions, seen, metadata, written, hashed, writer>>
        /\ outcome'[d] = "ok" => Verdict(d) = "ok"
    BY <1>0, <1>3 DEF StreamEnds, Verifies
  <2>2. outcome'[d] = "ok" => DigestAgrees(d)
    BY <2>1 DEF Verdict
  <2> QED BY <1>k, <2>1, <2>2 DEF ReaderInv, DigestInv, DigestAgrees
<1>4. ASSUME rpc[d] = "reading", NEW c \in Messages(d),
             Absorb(d, c) \/ CutOff(d, c) \/ WriterRefuses(d, c)
      PROVE  ReaderInv(d)' /\ DigestInv(d)'
  <2>1. c \in Bytes /\ Len(c) \in Nat /\ hashed[d] \in Bytes /\ Len(hashed[d]) \in Nat
        /\ metadata[d].size \in Nat /\ writer[d] = hashed[d]
    BY <1>0, <1>4, MessagesAreBytes DEF Bytes, DataType, PhaseType, ReaderInv
  <2>2. /\ hashed'[d] = hashed[d] \o c /\ written'[d] = written[d] + Len(c)
        /\ UNCHANGED <<versions, seen, metadata>>
    BY <1>0, <1>4 DEF Absorb, CutOff, WriterRefuses, Record, DataType
  <2>3. /\ Len(hashed'[d]) = Len(hashed[d]) + Len(c) /\ written'[d] = Len(hashed'[d])
        /\ hashed'[d] \in Bytes /\ SubSeq(hashed'[d], 1, Len(hashed'[d])) = hashed'[d]
        /\ SubSeq(hashed'[d], 1, Len(hashed[d])) = hashed[d]
    <3>1. hashed[d] \o SubSeq(c, 1, 0) = SubSeq(hashed[d] \o c, 1, Len(hashed[d]) + 0)
          /\ hashed[d] \o c \in Bytes /\ Len(hashed[d] \o c) = Len(hashed[d]) + Len(c)
      BY <2>1, PiecesJoin
    <3>2. SubSeq(hashed[d] \o c, 1, Len(hashed[d] \o c)) = hashed[d] \o c
      BY <3>1, SubSeqFull DEF Bytes
    <3>3. hashed[d] \o SubSeq(c, 1, 0) = hashed[d]
      BY <2>1 DEF Bytes
    <3> QED BY <2>1, <2>2, <3>1, <3>2, <3>3 DEF ReaderInv
  <2>4. CASE Absorb(d, c)
    <3>1. /\ writer'[d] = hashed[d] \o c /\ written[d] + Len(c) <= metadata[d].size
          /\ UNCHANGED <<rpc, outcome>>
      BY <1>0, <2>1, <2>4 DEF Absorb, Message, Overshoots, DataType, ReaderInv
    <3> QED BY <1>4, <2>1, <2>2, <2>3, <3>1 DEF ReaderInv, DigestInv, DigestAgrees
  <2>5. CASE CutOff(d, c)
    <3>1. writer' = writer /\ rpc'[d] = "done" /\ outcome'[d] # "ok"
      BY <1>0, <2>5 DEF CutOff, Message
    <3>2. Len(writer'[d]) <= metadata[d].size /\ Len(writer'[d]) <= Len(hashed'[d])
      BY <2>1, <2>3, <3>1 DEF ReaderInv
    <3>3. writer'[d] = SubSeq(hashed'[d], 1, Len(writer'[d]))
      BY <2>1, <2>3, <3>1
    <3> QED BY <1>4, <2>1, <2>2, <2>3, <3>1, <3>2, <3>3 DEF ReaderInv, DigestInv
  <2>6. CASE WriterRefuses(d, c)
    <3>1. PICK n \in 0..(Len(c) - 1) : writer' = [writer EXCEPT ![d] = @ \o SubSeq(c, 1, n)]
      BY <2>6 DEF WriterRefuses
    <3>2. /\ writer'[d] = hashed[d] \o SubSeq(c, 1, n) /\ n \in 0..Len(c)
          /\ written[d] + Len(c) <= metadata[d].size
          /\ rpc'[d] = "done" /\ outcome'[d] # "ok"
      <4>1. ~ (written[d] + Len(c) > metadata[d].size) /\ written[d] \in Nat
        BY <1>0, <2>6 DEF WriterRefuses, Overshoots, DataType
      <4>2. rpc'[d] = "done" /\ outcome'[d] # "ok"
        BY <1>0, <2>6 DEF WriterRefuses
      <4>3. writer'[d] = hashed[d] \o SubSeq(c, 1, n)
        BY <1>0, <2>1, <3>1 DEF DataType
      <4>4. n \in 0..Len(c)
        BY <2>1
      <4>5. written[d] + Len(c) <= metadata[d].size
        BY <2>1, <4>1
      <4> QED BY <4>2, <4>3, <4>4, <4>5
    <3>3. /\ Len(writer'[d]) = Len(hashed[d]) + n
          /\ writer'[d] = SubSeq(hashed'[d], 1, Len(hashed[d]) + n)
      <4>1. /\ Len(hashed[d] \o SubSeq(c, 1, n)) = Len(hashed[d]) + n
            /\ hashed[d] \o SubSeq(c, 1, n) = SubSeq(hashed[d] \o c, 1, Len(hashed[d]) + n)
        <5> DEFINE b == hashed[d]
        <5>1. b \in Bytes /\ c \in Bytes /\ n \in 0..Len(c)
          BY <2>1, <3>2
        <5> HIDE DEF b
        <5>2. /\ Len(b \o SubSeq(c, 1, n)) = Len(b) + n
              /\ b \o SubSeq(c, 1, n) = SubSeq(b \o c, 1, Len(b) + n)
          BY <5>1, PiecesJoin
        <5> QED BY <5>2 DEF b
      <4> QED BY <2>2, <3>2, <4>1
    <3>4. Len(writer'[d]) <= metadata[d].size /\ Len(writer'[d]) <= Len(hashed'[d])
      <4>1. written[d] = Len(hashed[d]) /\ Len(hashed'[d]) = Len(hashed[d]) + Len(c)
        BY <2>3 DEF ReaderInv
      <4>2. n \in Nat /\ n <= Len(c)
        BY <2>1, <3>2
      <4>3. Len(hashed[d]) + n <= metadata[d].size
        BY <2>1, <3>2, <4>1, <4>2
      <4> QED BY <2>1, <3>3, <4>1, <4>2, <4>3
    <3> QED BY <1>4, <2>1, <2>2, <2>3, <3>2, <3>3, <3>4 DEF ReaderInv, DigestInv
  <2> QED BY <1>4, <2>4, <2>5, <2>6
<1>5. ~ \E c \in Messages(d) : Collect(d, c)
  BY DEF Verifies, Collect
<1> QED BY <1>k, <1>1, <1>2, <1>3, <1>4, <1>5 DEF Read

LEMMA VerifiedStep ==
  ASSUME StoreType, ReadType, VersionsGrow, VerifiedInv, [Next]_vars
  PROVE  VerifiedInv'
<1>1. CASE UNCHANGED download
  <2>1. \A d \in Downloads : Same(d)
    BY <1>1 DEF download, expected, stream, verified, Same
  <2> QED BY <2>1, StaysVerified DEF VerifiedInv, Same, Verifies
<1>2. ASSUME NEW d \in Downloads, Read(d) \/ Abandon(d) PROVE VerifiedInv'
  <2>1. ASSUME NEW e \in Downloads, Verifies(e)' PROVE ReaderInv(e)' /\ DigestInv(e)'
    <3>1. CASE e = d
      <4>1. Verifies(d)
        BY <1>2, <2>1, <3>1 DEF Verifies, Read, Abandon, SkipStat, Stat, StatFails, Open, OpenFails,
           OpenRefused, Reopen, RefreshRefused, StreamEnds, StreamBreaks, Collect, Absorb, CutOff,
           WriterRefuses
      <4> QED BY <1>2, <3>1, <4>1, ReadVerifies DEF VerifiedInv
    <3>2. CASE e # d
      <4>1. Same(e)
        BY <1>2, <3>2, OthersStay
      <4> QED BY <2>1, <4>1, StaysVerified DEF VerifiedInv, Same, Verifies
    <3> QED BY <3>1, <3>2
  <2> QED BY <2>1 DEF VerifiedInv
<1>3. UNCHANGED download \/ \E d \in Downloads : Read(d) \/ Abandon(d)
  BY DEF Next, vars
<1> QED BY <1>1, <1>2, <1>3

LEMMA VerifiedInit == Init => VerifiedInv
<1> SUFFICES ASSUME Init, NEW d \in Downloads PROVE ReaderInv(d) /\ DigestInv(d)
  BY DEF VerifiedInv
<1>1. /\ rpc[d] = "called" /\ seen[d] = 0 /\ metadata[d] = NoMetadata /\ hashed[d] = <<>>
      /\ written[d] = 0 /\ writer[d] = <<>> /\ outcome[d] = "none"
  BY DEF Init, DownloadInit
<1> QED BY <1>1 DEF ReaderInv, DigestInv, NoMetadata

\* Whatever the server sends, and wherever the stream or the writer stops, the writer of
\* a verified download has a prefix of the stream that is no longer than it was told.
THEOREM WriterIsNeverOverrun == Spec => []NothingBeyondTheSize
<1> DEFINE I == StoreType /\ WriteType /\ ReadType /\ VerifiedInv
<1>1. Init => I
  BY TypeInit, VerifiedInit
<1>2. I /\ [Next]_vars => I'
  BY StoreSteps, WriteStep, ReadSteps, VerifiedStep
<1>3. I => NothingBeyondTheSize
  BY DEF VerifiedInv, ReaderInv, NothingBeyondTheSize
<1> QED BY <1>1, <1>2, <1>3, PTL DEF Spec

\* No two buffers have one digest, so what a verified download accepts is what the upload
\* it had asked about was given, whichever version it was that the server streamed.
THEOREM OkIsTheUpload == Spec => []VerifiedIsTheUpload
<1> DEFINE I == StoreType /\ WriteType /\ ReadType /\ VerifiedInv
<1>1. Init => I
  BY TypeInit, VerifiedInit
<1>2. I /\ [Next]_vars => I'
  BY StoreSteps, WriteStep, ReadSteps, VerifiedStep
<1>3. I => VerifiedIsTheUpload
  <2> SUFFICES ASSUME I, NEW d \in Downloads, Verifies(d), outcome[d] = "ok", Honest(seen[d])
               PROVE  writer[d] = buffer[versions[seen[d]].by]
    BY DEF VerifiedIsTheUpload
  <2>1. writer[d] = hashed[d] /\ Sha256(hashed[d]) = versions[seen[d]].checksum
    BY DEF VerifiedInv, DigestInv, DigestAgrees
  <2> QED BY <2>1, DigestTypes DEF Honest
<1> QED BY <1>1, <1>2, <1>3, PTL DEF Spec

-------------------------------------------------------------------------------
(* What takes effect *)

OnceInv ==
  /\ executed \in Seq(Writes)
  /\ \A i \in 1..Len(executed) : <<executed[i], 1>> \in markers
  /\ \A i, j \in 1..Len(executed) : executed[i] = executed[j] => i = j

LEMMA OnceStep == KeyInv /\ OnceInv /\ [Next]_vars => OnceInv'
<1> SUFFICES ASSUME KeyInv, OnceInv, [Next]_vars PROVE OnceInv'
  OBVIOUS
<1>1. CASE UNCHANGED <<executed, markers>>
  BY <1>1 DEF OnceInv
<1>2. ASSUME NEW m \in wire, Execute(m) PROVE OnceInv'
  <2>1. m.by \in Writes /\ m.key = <<m.by, 1>> /\ m.key \notin markers
    BY <1>2 DEF KeyInv, IsRequest, Requests, Execute
  <2>2. executed' = Append(executed, m.by) /\ markers' = markers \cup {m.key}
    BY <1>2 DEF Execute, StoreUpload, StoreDelete
  <2>3. /\ executed' \in Seq(Writes) /\ Len(executed') = Len(executed) + 1
        /\ Len(executed) \in Nat /\ executed'[Len(executed) + 1] = m.by
        /\ \A i \in 1..Len(executed) : executed'[i] = executed[i]
    BY <2>1, <2>2 DEF OnceInv
  <2>4. \A i \in 1..Len(executed') : i \in 1..Len(executed) \/ i = Len(executed) + 1
    BY <2>3
  <2>5. \A i \in 1..Len(executed) : executed[i] # m.by
    BY <2>1 DEF OnceInv
  <2>6. \A i \in 1..Len(executed') : <<executed'[i], 1>> \in markers'
    BY <2>1, <2>2, <2>3, <2>4 DEF OnceInv
  <2>7. \A i, j \in 1..Len(executed') : executed'[i] = executed'[j] => i = j
    BY <2>3, <2>4, <2>5 DEF OnceInv
  <2> QED BY <2>3, <2>6, <2>7 DEF OnceInv
<1>3. \/ UNCHANGED <<executed, markers>>
      \/ \E m \in wire : Execute(m)
  BY DEF Next, ServerServes, vars, store, Write, GiveUp, Serve, Take, RecognizeReplay, Refuse,
     Lose, Read, Abandon, Decay
<1> QED BY <1>1, <1>2, <1>3

\* Whatever is replayed, lost, answered wrongly or arrives late, an upload and a deletion
\* take effect once at most.
THEOREM WritesHappenOnce == Spec => []EachWriteHappensOnce
<1> DEFINE I == WriteType /\ OnceInv
<1>1. Init => I
  <2>1. Init => executed = <<>>
    BY DEF Init, StoreInit
  <2> QED BY <2>1, TypeInit DEF OnceInv
<1>2. I /\ [Next]_vars => I'
  BY WriteStep, OnceStep DEF WriteType
<1>3. I => EachWriteHappensOnce
  BY DEF OnceInv, EachWriteHappensOnce
<1> QED BY <1>1, <1>2, <1>3, PTL DEF Spec

-------------------------------------------------------------------------------
(* The contract of a write *)

\* What has a marker was executed, what was answered or returned Ok has a marker, and
\* a call that returned Ok is over.
DoneInv ==
  \A w \in Writes :
    /\ <<w, 1>> \in markers => \E i \in 1..Len(executed) : executed[i] = w
    /\ reply[w] = "OK" \/ result[w] = "OK" => <<w, 1>> \in markers
    /\ result[w] = "OK" => wpc[w] = "done"

\* The places of w among what took effect.
Places(w) == {i \in 1..Len(executed) : executed[i] = w}

LEMMA DoneInit == Init => DoneInv
BY DEF Init, StoreInit, UploadInit, DoneInv

LEMMA WriteKeepsDone ==
  ASSUME KeyInv, AnswerType, DoneInv, NEW w \in Writes, Write(w) \/ GiveUp(w)
  PROVE  DoneInv' /\ UNCHANGED <<executed, markers>> /\ \A x \in Writes : result[x] = "OK" => result'[x] = "OK"
<1> DOMAIN wpc = Writes /\ DOMAIN reply = Writes /\ DOMAIN result = Writes
  BY DEF KeyInv, AnswerType
<1>1. UNCHANGED <<executed, markers>>
  BY DEF Write, GiveUp, store
<1>2. \A x \in Writes :
        /\ reply'[x] = "OK" => reply[x] = "OK"
        /\ result'[x] = "OK" => result[x] = "OK" \/ reply[x] = "OK"
        /\ result'[x] = "OK" => wpc'[x] = "done"
        /\ result[x] = "OK" => result'[x] = "OK"
  <2>1. CASE RefuseSize(w) \/ Offload(w) \/ Prepare(w) \/ BeginDelete(w)
    BY <2>1 DEF RefuseSize, Offload, Prepare, BeginDelete, DoneInv
  <2>2. CASE Send(w) \/ RefreshSucceeds(w) \/ RefreshFails(w)
    BY <2>2 DEF Send, RefreshSucceeds, RefreshFails, DoneInv
  <2>3. CASE Receive(w)
    <3>1. CASE result' = [result EXCEPT ![w] = reply[w]] /\ wpc' = [wpc EXCEPT ![w] = "done"]
      BY <2>3, <3>1 DEF Receive, DoneInv
    <3>2. CASE UNCHANGED result /\ wpc' = [wpc EXCEPT ![w] = "refreshing"]
      BY <2>3, <3>2 DEF Receive, DoneInv
    <3> QED BY <2>3, <3>1, <3>2 DEF Receive
  <2>4. CASE DeadlinePasses(w) \/ GiveUp(w)
    BY <2>4 DEF DeadlinePasses, GiveUp, Forsake, DoneInv
  <2> QED BY <2>1, <2>2, <2>3, <2>4 DEF Write
<1>3. DoneInv'
  BY <1>1, <1>2 DEF DoneInv
<1> QED BY <1>1, <1>2, <1>3

LEMMA AnswerKeepsDone ==
  ASSUME KeyInv, AnswerType, NEW m \in wire, NEW status \in {"OK"} \cup Refusals, Answer(m, status)
  PROVE  /\ UNCHANGED <<wpc, result>> /\ m.by \in Writes /\ m.key = <<m.by, 1>>
         /\ \A w \in Writes : reply'[w] = "OK" => reply[w] = "OK" \/ (w = m.by /\ status = "OK")
<1>1. m.by \in Writes /\ m.key = <<m.by, 1>>
  BY DEF KeyInv, IsRequest, Requests
<1> QED BY <1>1 DEF Answer, AnswerType

LEMMA ExecuteKeepsDone ==
  ASSUME KeyInv, AnswerType, OnceInv, DoneInv, NEW m \in wire, Execute(m)
  PROVE  DoneInv' /\ UNCHANGED result
<1>1. m.by \in Writes /\ m.key = <<m.by, 1>>
  BY DEF KeyInv, IsRequest, Requests
<1>2. executed' = Append(executed, m.by) /\ markers' = markers \cup {m.key}
  BY DEF Execute, StoreUpload, StoreDelete
<1>3. PICK status \in {"OK", "FAILED", "UNAUTHENTICATED"} : Answer(m, status)
  BY DEF Execute
<1>4. /\ UNCHANGED <<wpc, result>>
      /\ \A w \in Writes : reply'[w] = "OK" => reply[w] = "OK" \/ w = m.by
  BY <1>1, <1>3 DEF Answer, AnswerType
<1>5. /\ Len(executed') = Len(executed) + 1 /\ Len(executed) \in Nat
      /\ executed'[Len(executed) + 1] = m.by
      /\ \A i \in 1..Len(executed) : executed'[i] = executed[i]
  BY <1>1, <1>2 DEF OnceInv
<1>6. \A w \in Writes : <<w, 1>> \in markers' => \E i \in 1..Len(executed') : executed'[i] = w
  <2> TAKE w \in Writes
  <2>1. CASE w = m.by
    <3>1. Len(executed) + 1 \in 1..Len(executed')
      BY <1>5
    <3> QED BY <1>5, <2>1, <3>1
  <2>2. CASE <<w, 1>> \in markers
    <3>1. \A i \in 1..Len(executed) : i \in 1..Len(executed')
      BY <1>5
    <3> QED BY <1>5, <2>2, <3>1 DEF DoneInv
  <2> QED BY <1>1, <1>2, <2>1, <2>2
<1>7. DoneInv'
  BY <1>1, <1>2, <1>4, <1>6 DEF DoneInv
<1> QED BY <1>4, <1>7

\* All but Execute leave what was executed alone, and no Ok is taken back.
LEMMA DoneStep ==
  ASSUME KeyInv, AnswerType, OnceInv, DoneInv, [Next]_vars
  PROVE  /\ DoneInv'
         /\ \A w \in Writes : result[w] = "OK" => result'[w] = "OK"
         /\ UNCHANGED executed \/ (UNCHANGED result /\ \E m \in wire : Execute(m))
<1>1. CASE UNCHANGED <<executed, markers, client>>
  BY <1>1 DEF client, DoneInv
<1>2. ASSUME NEW w \in Writes, Write(w) \/ GiveUp(w) PROVE DoneInv' /\ UNCHANGED <<executed, markers>>
                                              /\ \A x \in Writes : result[x] = "OK" => result'[x] = "OK"
  BY <1>2, WriteKeepsDone
<1>3. ASSUME NEW m \in wire, Execute(m) PROVE DoneInv' /\ UNCHANGED result
  BY <1>3, ExecuteKeepsDone
<1>4. ASSUME NEW m \in wire, RecognizeReplay(m) \/ Refuse(m) PROVE DoneInv' /\ UNCHANGED <<executed, result>>
  <2>1. PICK status \in {"OK"} \cup Refusals : Answer(m, status) /\ (status = "OK" => m.key \in markers)
    BY <1>4 DEF RecognizeReplay, Refuse, Refusals
  <2>2. UNCHANGED <<executed, markers>>
    BY <1>4 DEF RecognizeReplay, Refuse, store
  <2> QED BY <2>1, <2>2, AnswerKeepsDone DEF DoneInv
<1>5. \/ UNCHANGED <<executed, markers, client>>
      \/ \E w \in Writes : Write(w) \/ GiveUp(w)
      \/ \E m \in wire : Execute(m)
      \/ \E m \in wire : RecognizeReplay(m) \/ Refuse(m)
  BY DEF Next, ServerServes, vars, store, Serve, Take, Lose, Read, Abandon, Decay
<1>6. CASE UNCHANGED <<executed, markers, client>>
  BY <1>1, <1>6 DEF client
<1> QED BY <1>2, <1>3, <1>4, <1>5, <1>6

LEMMA PlacesOf ==
  ASSUME OnceInv, DoneInv
  PROVE  /\ \A w \in Writes : <<w, 1>> \notin markers => Cardinality(Places(w)) = 0
         /\ \A w \in Writes : <<w, 1>> \in markers => Cardinality(Places(w)) = 1
<1>1. ASSUME NEW w \in Writes, <<w, 1>> \notin markers PROVE Cardinality(Places(w)) = 0
  <2>1. Places(w) = {}
    BY <1>1 DEF Places, OnceInv
  <2> QED BY <2>1, FS_EmptySet
<1>2. ASSUME NEW w \in Writes, <<w, 1>> \in markers PROVE Cardinality(Places(w)) = 1
  <2>1. PICK i \in 1..Len(executed) : executed[i] = w
    BY <1>2 DEF DoneInv
  <2>2. Places(w) = {i}
    BY <2>1 DEF Places, OnceInv
  <2> QED BY <2>2, FS_Singleton
<1> QED BY <1>1, <1>2

LEMMA ContractStep ==
  ASSUME KeyInv, AnswerType, OnceInv, OnceInv', DoneInv, [Next]_vars
  PROVE  [Promise!Next]_(Promise!wvars)
<1> DEFINE times == [w \in Writes |-> Cardinality({i \in 1..Len(executed) : executed[i] = w})]
           acknowledged == {w \in Writes : result[w] = "OK"}
<1>1. /\ DoneInv'
      /\ \A w \in Writes : result[w] = "OK" => result'[w] = "OK"
      /\ UNCHANGED executed \/ (UNCHANGED result /\ \E m \in wire : Execute(m))
  BY DoneStep
<1>2. /\ \A w \in Writes : <<w, 1>> \notin markers => times[w] = 0
      /\ \A w \in Writes : <<w, 1>> \in markers => times[w] = 1
  BY PlacesOf DEF Places
<1>3. /\ \A w \in Writes : <<w, 1>> \notin markers' => times'[w] = 0
      /\ \A w \in Writes : <<w, 1>> \in markers' => times'[w] = 1
  <2>1. (/\ \A w \in Writes : <<w, 1>> \notin markers => Cardinality(Places(w)) = 0
         /\ \A w \in Writes : <<w, 1>> \in markers => Cardinality(Places(w)) = 1)'
    BY <1>1, PlacesOf, PTL
  <2> QED BY <2>1 DEF Places
<1>4. CASE UNCHANGED executed
  <2>1. UNCHANGED times
    BY <1>4
  <2>2. acknowledged' \in SUBSET Writes /\ acknowledged \subseteq acknowledged'
    BY <1>1
  <2>3. \A w \in acknowledged' : <<w, 1>> \in markers'
    BY <1>1 DEF DoneInv
  <2>4. \A w \in acknowledged' : times[w] >= 1
    <3>1. acknowledged' \subseteq Writes
      BY <2>2
    <3> HIDE DEF times, acknowledged
    <3>2. \A w \in acknowledged' : times'[w] = 1
      BY <1>3, <2>3, <3>1
    <3> QED BY <2>1, <3>2
  <2>5. Promise!Acknowledge
    BY <2>1, <2>2, <2>4 DEF Promise!Acknowledge
  <2> QED BY <2>5 DEF Promise!Next
<1>5. ASSUME NEW m \in wire, Execute(m), UNCHANGED result PROVE Promise!Next
  <2>1. m.by \in Writes /\ m.key = <<m.by, 1>> /\ m.key \notin markers
    BY <1>5 DEF KeyInv, IsRequest, Requests, Execute
  <2>2. markers' = markers \cup {<<m.by, 1>>}
    BY <1>5, <2>1 DEF Execute, StoreUpload, StoreDelete
  <2>3. \A w \in Writes :
          /\ w = m.by => times[w] = 0 /\ times'[w] = 1
          /\ w # m.by => times'[w] = times[w]
    <3> HIDE DEF times
    <3> QED BY <1>2, <1>3, <2>1, <2>2
  <2>4. times' = [times EXCEPT ![m.by] = @ + 1]
    <3>1. DOMAIN times = Writes
      OBVIOUS
    <3>2. times' = [w \in Writes |-> times'[w]]
      OBVIOUS
    <3>3. \A w \in Writes : times'[w] = [times EXCEPT ![m.by] = @ + 1][w]
      <4> HIDE DEF times
      <4> QED BY <2>1, <2>3, <3>1
    <3> HIDE DEF times
    <3> QED BY <3>1, <3>2, <3>3
  <2>5. times[m.by] < 1
    <3> HIDE DEF times
    <3> QED BY <2>1, <2>3
  <2>6. acknowledged' = acknowledged
    BY <1>5
  <2>7. Promise!Execute(m.by)
    BY <2>4, <2>5, <2>6 DEF Promise!Execute
  <2> QED BY <2>1, <2>7 DEF Promise!Next
<1> QED BY <1>1, <1>4, <1>5

\* What FileTransfers does of each upload and each deletion is what WriteContract lets
\* happen under one request_id: no write takes effect a second time, none after a
\* later Ok of its own, and none is answered Ok that did not.
THEOREM FileWritesKeepTheContract == Spec => Promise!Init /\ KeepsTheContract
<1> DEFINE I == WriteType /\ OnceInv /\ DoneInv
<1>1. Init => I
  <2>1. Init => executed = <<>>
    BY DEF Init, StoreInit
  <2> QED BY <2>1, TypeInit, DoneInit DEF OnceInv
<1>2. I /\ [Next]_vars => I'
  BY WriteStep, OnceStep, DoneStep DEF WriteType
<1>3. Init => Promise!Init
  <2> SUFFICES ASSUME Init PROVE Promise!Init
    OBVIOUS
  <2>1. executed = <<>> /\ \A w \in Writes : result[w] = "none"
    BY DEF Init, StoreInit, UploadInit
  <2>2. \A w \in Writes : Cardinality({i \in 1..Len(executed) : executed[i] = w}) = 0
    <3>1. \A w \in Writes : {i \in 1..Len(executed) : executed[i] = w} = {}
      BY <2>1
    <3> QED BY <3>1, FS_EmptySet
  <2> QED BY <2>1, <2>2 DEF Promise!Init
<1>4. I /\ I' /\ [Next]_vars => [Promise!Next]_(Promise!wvars)
  BY ContractStep DEF WriteType
<1> QED BY <1>1, <1>2, <1>3, <1>4, PTL DEF Spec, KeepsTheContract

-------------------------------------------------------------------------------
(* What is published *)

\* The server has taken the beginning of the buffer, message by message.
Filled(m) ==
  m.by \in Uploads =>
    /\ m.bytes = SubSeq(buffer[m.by], 1, Smaller(m.taken * DEFAULT_CHUNK_SIZE, Size(m.by)))
    /\ m.taken >= 1 => m.head.size_bytes = Size(m.by)

Intact(v) ==
  /\ versions[v].size = Len(buffer[versions[v].by])
  /\ v \notin decayed => stored[v] = buffer[versions[v].by]

Published(u) == \E v \in 1..Len(versions) : versions[v].by = u

PublishedInv ==
  /\ \A m \in wire : Filled(m)
  /\ \A v \in 1..Len(versions) : Intact(v)
  /\ \A u \in Uploads :
       /\ <<u, 1>> \in markers \/ result[u] = "OK" => Published(u)
       /\ reply[u] = "OK" => <<u, 1>> \in markers

LEMMA ChunksJoin ==
  ASSUME NEW b \in Bytes, NEW p \in Nat, NEW c \in Nat
  PROVE  SubSeq(b, 1, Smaller(p, Len(b))) \o SubSeq(b, p + 1, Smaller(p + c, Len(b)))
           = SubSeq(b, 1, Smaller(p + c, Len(b)))
<1>1. b \in Seq(Byte) /\ Len(b) \in Nat
  BY DEF Bytes
<1>2. CASE p <= Len(b)
  <2> DEFINE n == Smaller(p + c, Len(b))
  <2>1. Smaller(p, Len(b)) = p /\ n \in p..Len(b) /\ 1 \in 1..Len(b)+1 /\ p \in (1-1)..Len(b)
    BY <1>1, <1>2 DEF Smaller
  <2> HIDE DEF n
  <2>2. SubSeq(b, 1, p) \o SubSeq(b, p + 1, n) = SubSeq(b, 1, n)
    BY <1>1, <2>1, ConcatAdjacentSubSeq
  <2> QED BY <2>1, <2>2 DEF n
<1>3. CASE p > Len(b)
  <2>1. Smaller(p, Len(b)) = Len(b) /\ Smaller(p + c, Len(b)) = Len(b)
    BY <1>1, <1>3 DEF Smaller
  <2>2. SubSeq(b, p + 1, Len(b)) = <<>> /\ SubSeq(b, 1, Len(b)) = b
    BY <1>1, <1>3, SubSeqFull
  <2>3. b \o <<>> = b
    BY <1>1, ConcatEmptySeq
  <2> QED BY <2>1, <2>2, <2>3, Zenon
<1>4. p <= Len(b) \/ p > Len(b)
  BY <1>1
<1> QED BY <1>2, <1>3, <1>4, Zenon

LEMMA TakeFills ==
  ASSUME WriteType, PublishedInv, NEW m \in wire, Take(m)
  PROVE  \A x \in wire' : Filled(x)'
<1>1. m.by \in Uploads /\ m.taken \in Nat /\ m \in Requests /\ buffer[m.by] \in Bytes
      /\ Size(m.by) = Len(buffer[m.by]) /\ Filled(m)
  BY DEF WriteType, KeyInv, IsRequest, Requests, Take, ChecksumInv, Size, PublishedInv
<1> DEFINE t == m.taken + 1
           h == declared(m.by, m.taken + 1, m.head)
           b == m.bytes \o chunk(m.by, m.taken + 1)
           n == [m EXCEPT !.taken = t, !.head = h, !.bytes = b]
           p == m.taken * DEFAULT_CHUNK_SIZE
<1>2. wire' = (wire \ {m}) \cup {n} /\ UNCHANGED buffer
  BY DEF Take, client, caller
<1>3. p \in Nat /\ t * DEFAULT_CHUNK_SIZE = p + DEFAULT_CHUNK_SIZE /\ DEFAULT_CHUNK_SIZE \in Nat
      /\ (t - 1) * DEFAULT_CHUNK_SIZE = p
  BY <1>1, ChunkAssumption
<1>4. b = SubSeq(buffer[m.by], 1, Smaller(t * DEFAULT_CHUNK_SIZE, Size(m.by)))
  <2>1. m.bytes = SubSeq(buffer[m.by], 1, Smaller(p, Len(buffer[m.by])))
    BY <1>1 DEF Filled
  <2>2. chunk(m.by, t) =
          SubSeq(buffer[m.by], p + 1, Smaller(p + DEFAULT_CHUNK_SIZE, Len(buffer[m.by])))
    BY <1>1, <1>3 DEF chunk
  <2> HIDE DEF p, t
  <2>3. b = m.bytes \o chunk(m.by, t)
    BY DEF t
  <2> QED BY <1>1, <1>3, <2>1, <2>2, <2>3, ChunksJoin
<1>5. h.size_bytes = Size(m.by)
  <2>1. CASE t = 1
    BY <2>1 DEF declared
  <2>2. CASE t # 1
    BY <1>1, <2>2 DEF declared, Filled
  <2> QED BY <2>1, <2>2
<1>6. n.by = m.by /\ n.taken = t /\ n.head = h /\ n.bytes = b
  <2> HIDE DEF t, h, b
  <2> QED BY <1>1 DEF Requests
<1> HIDE DEF n, t, h, b
<1>7. Filled(n)
  BY <1>4, <1>5, <1>6 DEF Filled
<1>8. \A x \in wire' : Filled(x)
  BY <1>2, <1>7 DEF PublishedInv
<1> QED BY <1>2, <1>8 DEF Filled, Size

LEMMA CompleteIsWhole ==
  ASSUME WriteType, PublishedInv, NEW m \in wire, Complete(m), m.by \in Uploads
  PROVE  m.bytes = buffer[m.by] /\ m.head.size_bytes = Len(buffer[m.by])
<1>1. /\ m.taken \in Nat /\ buffer[m.by] \in Bytes /\ Size(m.by) = Len(buffer[m.by]) /\ Filled(m)
      /\ m.taken * DEFAULT_CHUNK_SIZE \in Nat
  BY ChunkAssumption DEF WriteType, KeyInv, IsRequest, Requests, ChecksumInv, Size, PublishedInv
<1>2. m.head.size_bytes = Size(m.by) /\ Len(m.bytes) = Size(m.by)
  BY <1>1, EveryUploadHasAMessage DEF Complete, Filled, WriteType
<1> DEFINE b == buffer[m.by]  n == Smaller(m.taken * DEFAULT_CHUNK_SIZE, Len(b))
<1>3. b \in Seq(Byte) /\ n \in 0..Len(b) /\ m.bytes = SubSeq(b, 1, n) /\ Len(m.bytes) = Len(b)
  <2>1. b \in Seq(Byte) /\ Len(b) \in Nat
    BY <1>1 DEF Bytes
  <2>2. n \in 0..Len(b)
    BY <1>1, <2>1 DEF Smaller
  <2> QED BY <1>1, <1>2, <2>1, <2>2 DEF Filled
<1> HIDE DEF b, n
<1>4. n = Len(b)
  <2>1. Len(SubSeq(b, 1, n)) = n
    BY <1>3
  <2> QED BY <1>3, <2>1
<1>5. m.bytes = b
  BY <1>3, <1>4, SubSeqFull
<1> QED BY <1>1, <1>2, <1>5 DEF b

LEMMA ExecutePublishes ==
  ASSUME StoreType, WriteType, PublishedInv, NEW m \in wire, Execute(m), VersionsGrow
  PROVE  PublishedInv'
<1>1. /\ m.by \in Writes /\ m.key = <<m.by, 1>> /\ UNCHANGED <<buffer, result, decayed>>
      /\ wire' \subseteq wire /\ markers' = markers \cup {m.key}
      /\ \A u \in Uploads : reply'[u] = "OK" => reply[u] = "OK" \/ u = m.by
  <2>1. m.by \in Writes /\ m.key = <<m.by, 1>>
    BY DEF WriteType, KeyInv, IsRequest, Requests
  <2>2. UNCHANGED <<buffer, result, decayed>> /\ wire' \subseteq wire /\ markers' = markers \cup {m.key}
    BY DEF Execute, Answer, caller, StoreUpload, StoreDelete
  <2>3. reply' = reply \/ \E st \in {"OK", "FAILED", "UNAUTHENTICATED"} : reply' = [reply EXCEPT ![m.by] = st]
    BY DEF Execute, Answer
  <2>4. \A u \in Uploads : reply'[u] = "OK" => reply[u] = "OK" \/ u = m.by
    BY <2>3 DEF WriteType, AnswerType, Writes
  <2> QED BY <2>1, <2>2, <2>4
<1>2. \A x \in wire' : Filled(x)'
  BY <1>1 DEF PublishedInv, Filled, Size
<1>3. /\ Len(versions) \in Nat /\ versions \in Seq(Versions) /\ stored \in Seq(Bytes)
      /\ Len(stored) = Len(versions) /\ decayed \subseteq 1..Len(versions)
  BY DEF StoreType
<1>4. (\A v \in 1..Len(versions') : Intact(v)') /\ (m.by \in Uploads => Published(m.by)')
  <2>1. CASE m.by \in Uploads
    <3> DEFINE r == [by |-> m.by, size |-> m.head.size_bytes, checksum |-> m.head.checksum]
    <3>1. /\ versions' = Append(versions, r) /\ stored' = Append(stored, m.bytes)
      BY <2>1 DEF Execute, StoreUpload
    <3>2. r.by = m.by /\ r.size = Len(buffer[m.by]) /\ m.bytes = buffer[m.by]
      BY <2>1, CompleteIsWhole DEF Execute
    <3> HIDE DEF r
    <3>3. /\ Len(versions') = Len(versions) + 1 /\ versions'[Len(versions) + 1] = r
          /\ stored'[Len(versions) + 1] = m.bytes
          /\ \A v \in 1..Len(versions) : versions'[v] = versions[v] /\ stored'[v] = stored[v]
      BY <1>3, <3>1
    <3>4. \A v \in 1..Len(versions') : v \in 1..Len(versions) \/ v = Len(versions) + 1
      BY <1>3, <3>3
    <3>5. \A v \in 1..Len(versions) : Intact(v)'
      BY <1>1, <3>3 DEF Intact, PublishedInv
    <3>6. ASSUME NEW v, v = Len(versions) + 1 PROVE Intact(v)'
      BY <1>1, <3>2, <3>3, <3>6 DEF Intact
    <3>7. Published(m.by)'
      <4>1. Len(versions) + 1 \in 1..Len(versions')
        BY <1>3, <3>3
      <4> QED BY <3>2, <3>3, <4>1 DEF Published
    <3> QED BY <3>4, <3>5, <3>6, <3>7
  <2>2. CASE m.by \notin Uploads
    <3>1. UNCHANGED <<versions, stored>>
      BY <2>2 DEF Execute, StoreDelete
    <3> QED BY <1>1, <2>2, <3>1 DEF Intact, PublishedInv
  <2> QED BY <2>1, <2>2
<1>5. ASSUME NEW u \in Uploads
      PROVE  /\ <<u, 1>> \in markers' \/ result'[u] = "OK" => Published(u)'
             /\ reply'[u] = "OK" => <<u, 1>> \in markers'
  <2>1. Published(u) => Published(u)'
    <3>1. \A v \in 1..Len(versions) : v \in 1..Len(versions')
      BY DEF VersionsGrow
    <3> QED BY <3>1 DEF Published, VersionsGrow
  <2>2. <<u, 1>> \in markers' => <<u, 1>> \in markers \/ u = m.by
    BY <1>1
  <2> QED BY <1>1, <1>4, <2>1, <2>2 DEF PublishedInv
<1> QED BY <1>2, <1>4, <1>5 DEF PublishedInv

LEMMA WritePublishes ==
  ASSUME WriteType, PublishedInv, NEW w \in Writes, Write(w) \/ GiveUp(w)
  PROVE  PublishedInv'
<1>1. UNCHANGED <<buffer, versions, stored, decayed, markers>>
  BY DEF Write, GiveUp, store, caller, RefuseSize, Offload, Prepare, BeginDelete, DeadlinePasses, Send,
     Receive, RefreshSucceeds, RefreshFails, Forsake
<1>2. \A x \in wire' : Filled(x)
  <2>1. CASE UNCHANGED wire
    BY <2>1 DEF PublishedInv
  <2>2. CASE Send(w)
    <3> DEFINE m == [by |-> w, key |-> <<w, request_id[w]>>, replay |-> replayed[w],
                     taken |-> 0, head |-> NoHead, bytes |-> <<>>]
    <3>1. wire' = wire \cup {m}
      BY <2>2 DEF Send
    <3>2. Filled(m)
      <4>1. CASE w \in Uploads
        <5>1. buffer[w] \in Seq(Byte) /\ Size(w) = Len(buffer[w]) /\ Len(buffer[w]) \in Nat
          BY <4>1 DEF WriteType, ChecksumInv, Bytes, Size
        <5>2. 0 * DEFAULT_CHUNK_SIZE = 0 /\ Smaller(0, Size(w)) = 0
          BY <5>1, ChunkAssumption DEF Smaller
        <5>3. SubSeq(buffer[w], 1, 0) = <<>>
          BY <5>1
        <5> QED BY <5>2, <5>3 DEF Filled
      <4>2. CASE w \notin Uploads
        BY <4>2 DEF Filled
      <4> QED BY <4>1, <4>2
    <3> QED BY <3>1, <3>2 DEF PublishedInv
  <2> QED BY <2>1, <2>2 DEF Write, GiveUp, caller, RefuseSize, Offload, Prepare, BeginDelete,
          DeadlinePasses, Receive, RefreshSucceeds, RefreshFails, Forsake
<1>3. \A u \in Uploads : (reply'[u] = "OK" => reply[u] = "OK")
                       /\ (result'[u] = "OK" => result[u] = "OK" \/ reply[u] = "OK")
  <2> USE DEF caller, AnswerType, Refusals
  <2> AnswerType /\ \A u \in Uploads : u \in Writes
    BY DEF WriteType, Writes
  <2>1. CASE RefuseSize(w) \/ Offload(w) \/ Prepare(w) \/ BeginDelete(w)
    BY <2>1 DEF RefuseSize, Offload, Prepare, BeginDelete
  <2>2. CASE Send(w) \/ Receive(w) \/ RefreshSucceeds(w) \/ RefreshFails(w)
    BY <2>2 DEF Send, Receive, RefreshSucceeds, RefreshFails
  <2>3. CASE DeadlinePasses(w) \/ GiveUp(w)
    BY <2>3 DEF DeadlinePasses, GiveUp, Forsake
  <2> QED BY <2>1, <2>2, <2>3 DEF Write
<1>4. \A x \in wire' : Filled(x)'
  BY <1>1, <1>2 DEF Filled, Size
<1>5. \A v \in 1..Len(versions') : Intact(v)'
  BY <1>1 DEF Intact, PublishedInv
<1> QED BY <1>1, <1>3, <1>4, <1>5 DEF PublishedInv, Published

LEMMA DecaySpares ==
  ASSUME StoreType, PublishedInv, NEW v \in 1..Len(versions), Decay(v), UNCHANGED <<client, wire>>
  PROVE  PublishedInv'
<1>1. /\ UNCHANGED <<versions, markers, buffer, result, reply, wire>> /\ decayed' = decayed \cup {v}
      /\ \A u \in 1..Len(versions) : u # v => stored'[u] = stored[u]
  BY DEF Decay, client, caller, StoreType
<1>2. \A u \in 1..Len(versions') : Intact(u)'
  BY <1>1 DEF Intact, PublishedInv
<1> QED BY <1>1, <1>2 DEF PublishedInv, Published, Filled, Size

LEMMA PublishedStep ==
  ASSUME StoreType, WriteType, VersionsGrow, PublishedInv, [Next]_vars
  PROVE  PublishedInv'
<1>1. CASE UNCHANGED <<store, client>> /\ wire' \subseteq wire
  BY <1>1 DEF store, client, caller, PublishedInv, Filled, Intact, Published, Size
<1>2. ASSUME NEW w \in Writes, Write(w) \/ GiveUp(w) PROVE PublishedInv'
  BY <1>2, WritePublishes
<1>3. ASSUME NEW m \in wire, Take(m) PROVE PublishedInv'
  BY <1>3, TakeFills DEF Take, store, client, caller, PublishedInv, Intact, Published
<1>4. ASSUME NEW m \in wire, Execute(m) PROVE PublishedInv'
  BY <1>4, ExecutePublishes
<1>5. ASSUME NEW m \in wire, RecognizeReplay(m) \/ Refuse(m) PROVE PublishedInv'
  <2>1. /\ UNCHANGED <<versions, stored, decayed, markers, buffer, result>> /\ wire' \subseteq wire
    BY <1>5 DEF RecognizeReplay, Refuse, Answer, store, caller
  <2>2. \A u \in Uploads : reply'[u] = "OK" => reply[u] = "OK" \/ <<u, 1>> \in markers
    <3>1. CASE RecognizeReplay(m)
      <4>1. m.key \in markers /\ m.key = <<m.by, 1>> /\ m.by \in Writes
        BY <3>1 DEF RecognizeReplay, WriteType, KeyInv, IsRequest, Requests
      <4>2. reply' = reply \/ reply' = [reply EXCEPT ![m.by] = "OK"]
        BY <3>1 DEF RecognizeReplay, Answer
      <4> QED BY <4>1, <4>2 DEF WriteType, AnswerType, Writes
    <3>2. CASE Refuse(m)
      <4>1. reply' = reply \/ \E st \in Refusals : reply' = [reply EXCEPT ![m.by] = st]
        BY <3>2 DEF Refuse, Answer
      <4> QED BY <4>1 DEF WriteType, AnswerType, Writes, Refusals
    <3> QED BY <1>5, <3>1, <3>2
  <2> QED BY <2>1, <2>2 DEF PublishedInv, Filled, Intact, Published, Size
<1>6. ASSUME NEW v \in 1..Len(versions), Decay(v), UNCHANGED <<client, wire>> PROVE PublishedInv'
  BY <1>6, DecaySpares
<1>7. \/ UNCHANGED <<store, client>> /\ wire' \subseteq wire
      \/ \E w \in Writes : Write(w) \/ GiveUp(w)
      \/ \E m \in wire : Take(m)
      \/ \E m \in wire : Execute(m)
      \/ \E m \in wire : RecognizeReplay(m) \/ Refuse(m)
      \/ \E v \in 1..Len(versions) : Decay(v) /\ UNCHANGED <<client, wire>>
  BY DEF Next, ServerServes, Serve, vars, Lose, Read, Abandon
<1> QED BY <1>1, <1>2, <1>3, <1>4, <1>5, <1>6, <1>7

\* However an upload was cut, replayed and answered, what is published under its name is
\* the whole of its buffer, and an Ok says that it is.
THEOREM PublishedAsGiven == Spec => []PublishedIsTheBuffer
<1> DEFINE I == StoreType /\ WriteType /\ PublishedInv
<1>1. Init => I
  <2>1. Init => PublishedInv
    BY DEF Init, StoreInit, UploadInit, PublishedInv, Writes
  <2> QED BY <2>1, TypeInit
<1>2. I /\ [Next]_vars => I'
  BY StoreSteps, WriteStep, PublishedStep
<1>3. I => PublishedIsTheBuffer
  BY DEF PublishedInv, Intact, Published, PublishedIsTheBuffer
<1> QED BY <1>1, <1>2, <1>3, PTL DEF Spec

-------------------------------------------------------------------------------
(* What a mismatch means *)

Cause(d) ==
  source[d] # seen[d] \/ source[d] \in decayed \/ cut[d] \/ ~Honest(seen[d])

\* Of a version that was left alone, as much was hashed as was sent.
StreamInv(d) ==
  /\ rpc[d] \in {"called", "opening", "refreshing"} => hashed[d] = <<>> /\ position[d] = 0
  /\ rpc[d] = "reading" /\ source[d] \notin decayed =>
       /\ position[d] <= Len(stored[source[d]])
       /\ hashed[d] = SubSeq(stored[source[d]], 1, position[d])

CauseInv(d) ==
  /\ seen[d] # 0 => metadata[d].size = versions[seen[d]].size
  /\ outcome[d] \in Mismatches => rpc[d] = "done" /\ Verifies(d) /\ seen[d] # 0 /\ Cause(d)

MismatchInv ==
  \A d \in Downloads : CauseInv(d) /\ (Verifies(d) => StreamInv(d))

SameStream(d) == source'[d] = source[d] /\ position'[d] = position[d] /\ cut'[d] = cut[d]

\* What a step leaves of the versions, and of the buffers they came from.
LeftAlone ==
  /\ buffer' = buffer /\ decayed \subseteq decayed'
  /\ \A v \in 1..Len(versions) \ decayed' : stored'[v] = stored[v]

LEMMA StoreLeavesAlone == StoreType /\ WriteType /\ [Next]_vars => LeftAlone
<1> SUFFICES ASSUME StoreType, WriteType, [Next]_vars PROVE LeftAlone
  OBVIOUS
<1>1. buffer' = buffer
  BY DEF Next, ServerServes, Serve, vars, client, caller, Write, GiveUp, RefuseSize, Offload,
     Prepare, BeginDelete, DeadlinePasses, Send, Receive, RefreshSucceeds, RefreshFails, Forsake,
     Take, Execute, RecognizeReplay, Refuse, Answer, Lose
<1>2. CASE UNCHANGED store
  BY <1>1, <1>2 DEF store, LeftAlone
<1>3. ASSUME NEW m \in wire, Execute(m) PROVE LeftAlone
  <2>1. /\ Len(stored) = Len(versions) /\ Len(versions) \in Nat /\ stored \in Seq(Bytes)
        /\ m.bytes \in Bytes
    BY DEF StoreType, WriteType, KeyInv, IsRequest, Requests
  <2>2. decayed' = decayed /\ (UNCHANGED stored \/ stored' = Append(stored, m.bytes))
    BY <1>3 DEF Execute, StoreUpload, StoreDelete
  <2>3. \A v \in 1..Len(versions) : stored'[v] = stored[v]
    BY <2>1, <2>2
  <2> QED BY <1>1, <2>2, <2>3 DEF LeftAlone
<1>4. ASSUME NEW v \in 1..Len(versions), Decay(v) PROVE LeftAlone
  BY <1>1, <1>4 DEF Decay, LeftAlone, StoreType
<1>5. \/ UNCHANGED store
      \/ \E m \in wire : Execute(m)
      \/ \E v \in 1..Len(versions) : Decay(v)
  BY DEF Next, ServerServes, vars, Write, GiveUp, Serve, Take, RecognizeReplay, Refuse,
     Lose, Read, Abandon
<1> QED BY <1>2, <1>3, <1>4, <1>5

LEMMA StreamStays ==
  ASSUME ReadType, VersionsGrow, LeftAlone, NEW d \in Downloads, Same(d), SameStream(d),
         CauseInv(d), Verifies(d) => StreamInv(d)
  PROVE  CauseInv(d)' /\ (Verifies(d)' => StreamInv(d)')
<1>1. seen[d] \in 0..Len(versions) /\ source[d] \in 0..Len(versions)
      /\ (rpc[d] = "reading" => source[d] # 0)
  BY DEF ReadType, PhaseType
<1>2. seen[d] # 0 => versions'[seen[d]] = versions[seen[d]]
  BY <1>1 DEF VersionsGrow
<1>3. CauseInv(d)'
  <2>1. seen[d] # 0 /\ Cause(d) => Cause(d)'
    BY <1>2 DEF Cause, Honest, Same, SameStream, LeftAlone
  <2> QED BY <1>2, <2>1 DEF CauseInv, Same, Verifies
<1>4. Verifies(d) => StreamInv(d)'
  BY <1>1 DEF StreamInv, Same, SameStream, LeftAlone
<1> QED BY <1>3, <1>4 DEF Verifies, Same

LEMMA OtherStreamsStay ==
  ASSUME ReadType, NEW d \in Downloads, Read(d) \/ Abandon(d), NEW e \in Downloads, e # d
  PROVE  SameStream(e)
<1> USE DEF SameStream, Finish, expected, stream, verified
<1>0. PhaseType /\ DataType
  BY DEF ReadType
<1>1. CASE SkipStat(d) \/ Stat(d) \/ StatFails(d) \/ Open(d) \/ OpenFails(d) \/ OpenRefused(d)
           \/ Reopen(d) \/ RefreshRefused(d) \/ StreamEnds(d) \/ StreamBreaks(d) \/ Abandon(d)
  BY <1>0, <1>1 DEF PhaseType, SkipStat, Stat, StatFails, Open, OpenFails, OpenRefused, Reopen,
     RefreshRefused, StreamEnds, StreamBreaks, Abandon
<1>2. ASSUME NEW c \in Messages(d),
             Collect(d, c) \/ Absorb(d, c) \/ CutOff(d, c) \/ WriterRefuses(d, c)
      PROVE  SameStream(e)
  BY <1>0, <1>2 DEF PhaseType, DataType, Collect, Absorb, CutOff, WriterRefuses, Record, Message
<1> QED BY <1>1, <1>2 DEF Read

\* A message continues the version where the last one ended.
LEMMA NextMessage ==
  ASSUME StoreType, ReadType, NEW d \in Downloads, rpc[d] = "reading", StreamInv(d),
         source[d] \notin decayed, NEW c \in Messages(d)
  PROVE  /\ position[d] + Len(c) <= Len(stored[source[d]])
         /\ hashed[d] \o c = SubSeq(stored[source[d]], 1, position[d] + Len(c))
<1> DEFINE b == stored[source[d]]  p == position[d]
<1>1. b \in Seq(Byte) /\ Len(b) \in Nat /\ p \in Nat /\ p <= Len(b)
      /\ hashed[d] = SubSeq(b, 1, p) /\ Rest(d) = SubSeq(b, p + 1, Len(b))
  <2>1. source[d] \in 1..Len(stored) /\ stored \in Seq(Bytes) /\ position[d] \in Nat
    BY DEF StoreType, ReadType, PhaseType, DataType
  <2> QED BY <2>1 DEF StreamInv, Rest, Bytes
<1>2. PICK n \in 1..MaxChunk : n <= Len(Rest(d)) /\ c = SubSeq(Rest(d), 1, n)
  BY DEF Messages
<1> HIDE DEF b, p
<1>3. n \in Nat /\ n >= 1
  BY <1>2, MaxChunkAssumption
<1>4. Rest(d) \in Seq(Byte) /\ Len(Rest(d)) = Len(b) - p
  BY <1>1
<1>5. c = SubSeq(b, p + 1, p + n) /\ Len(c) = n /\ p + n <= Len(b)
  <2>1. c \in Seq(Byte) /\ Len(c) = n /\ p + n <= Len(b)
    BY <1>1, <1>2, <1>3, <1>4
  <2>2. SubSeq(b, p + 1, p + n) \in Seq(Byte) /\ Len(SubSeq(b, p + 1, p + n)) = n
    BY <1>1, <1>3, <2>1
  <2>3. \A k \in 1..n : c[k] = SubSeq(b, p + 1, p + n)[k]
    BY <1>1, <1>2, <1>3, <1>4, <2>1
  <2> QED BY <2>1, <2>2, <2>3, SeqEqual
<1>6. SubSeq(b, 1, p) \o SubSeq(b, p + 1, p + n) = SubSeq(b, 1, p + n)
  <2>1. 1 \in 1..Len(b)+1 /\ p \in (1-1)..Len(b) /\ p + n \in p..Len(b)
    BY <1>1, <1>3, <1>5
  <2> QED BY <1>1, <2>1, ConcatAdjacentSubSeq
<1> QED BY <1>1, <1>5, <1>6 DEF b, p

\* A stream that was hashed to the end of the version that stat_file described, whose
\* uploader told the truth, agrees with what stat_file said.
LEMMA NoCauseNoMismatch ==
  ASSUME StoreType, ReadType, PublishedInv, NEW d \in Downloads, rpc[d] = "reading",
         ReaderInv(d), DigestInv(d), StreamInv(d), CauseInv(d),
         source[d] = seen[d], source[d] \notin decayed, Honest(seen[d])
  PROVE  /\ Rest(d) = <<>> => Verdict(d) = "ok"
         /\ \A c \in Messages(d) : ~ Overshoots(d, c)
<1>1. /\ seen[d] \in 1..Len(versions) /\ Intact(seen[d]) /\ Len(versions) = Len(stored)
      /\ stored \in Seq(Bytes) /\ position[d] \in Nat
  BY DEF ReadType, PhaseType, DataType, DigestInv, PublishedInv, StoreType
<1> DEFINE b == stored[seen[d]]
<1>2. /\ b \in Bytes /\ metadata[d].size = Len(b) /\ metadata[d].checksum = Sha256(b)
      /\ hashed[d] = SubSeq(b, 1, position[d]) /\ position[d] <= Len(b)
      /\ Rest(d) = SubSeq(b, position[d] + 1, Len(b))
  BY <1>1 DEF Intact, CauseInv, DigestInv, StreamInv, Honest, Rest
<1>3. b \in Seq(Byte) /\ Len(b) \in Nat
  BY <1>2 DEF Bytes
<1> HIDE DEF b
<1>4. ASSUME Rest(d) = <<>> PROVE Verdict(d) = "ok"
  <2>1. Len(SubSeq(b, position[d] + 1, Len(b))) = Len(b) - position[d]
    BY <1>1, <1>2, <1>3
  <2>2. position[d] = Len(b)
    <3>1. Len(Rest(d)) = 0
      BY <1>4
    <3> QED BY <1>1, <1>2, <1>3, <2>1, <3>1
  <2>3. hashed[d] = b
    BY <1>2, <1>3, <2>2, SubSeqFull
  <2> QED BY <1>2, <2>3 DEF Verdict, DigestAgrees, ReaderInv
<1>5. ASSUME NEW c \in Messages(d) PROVE ~ Overshoots(d, c)
  <2>1. position[d] + Len(c) <= Len(b) /\ Len(c) \in Nat
    BY NextMessage, MessagesAreBytes DEF b
  <2>2. written[d] = position[d]
    <3>1. Len(SubSeq(b, 1, position[d])) = position[d]
      BY <1>1, <1>2, <1>3
    <3> QED BY <1>2, <3>1 DEF ReaderInv
  <2> QED BY <1>1, <1>2, <1>3, <2>1, <2>2 DEF Overshoots
<1> QED BY <1>4, <1>5

LEMMA ReadStreams ==
  ASSUME StoreType, ReadType, PublishedInv, LeftAlone, NEW d \in Downloads,
         Read(d) \/ Abandon(d), CauseInv(d),
         Verifies(d) => ReaderInv(d) /\ DigestInv(d) /\ StreamInv(d)
  PROVE  CauseInv(d)' /\ (Verifies(d)' => StreamInv(d)')
<1> USE DEF Finish, expected, stream, verified
<1>0. /\ PhaseType /\ DataType /\ UNCHANGED <<store, kind, buffer>> /\ rpc[d] # "done"
      /\ UNCHANGED <<versions, stored, published, decayed>>
  BY DEF ReadType, LeftAlone, store, Read, Abandon, SkipStat, Stat, StatFails, Open, OpenFails,
     OpenRefused, Reopen, RefreshRefused, StreamEnds, StreamBreaks, Collect, Absorb, CutOff,
     WriterRefuses, Message
<1>d. /\ d \in DOMAIN rpc /\ d \in DOMAIN outcome /\ d \in DOMAIN source /\ d \in DOMAIN seen
      /\ d \in DOMAIN metadata /\ d \in DOMAIN position /\ d \in DOMAIN hashed /\ d \in DOMAIN cut
      /\ outcome[d] \notin Mismatches
  BY <1>0 DEF PhaseType, DataType, CauseInv
<1>v. Verifies(d)' <=> Verifies(d)
  BY <1>0 DEF Verifies
<1>1. CASE SkipStat(d) \/ StatFails(d) \/ OpenFails(d) \/ OpenRefused(d) \/ Reopen(d)
           \/ RefreshRefused(d) \/ StreamBreaks(d) \/ Abandon(d)
  <2>1. /\ UNCHANGED <<seen, metadata, hashed, position, source>>
        /\ outcome'[d] \notin Mismatches
        /\ rpc'[d] = "done" \/ (rpc'[d] \in {"opening", "refreshing"}
                               /\ rpc[d] \in {"called", "opening", "refreshing"})
    BY <1>0, <1>1, <1>d DEF SkipStat, StatFails, OpenFails, OpenRefused, Reopen, RefreshRefused,
       StreamBreaks, Abandon, Mismatches
  <2> QED BY <1>0, <1>v, <2>1 DEF CauseInv, StreamInv
<1>2. CASE Stat(d)
  <2>1. /\ rpc[d] = "called" /\ rpc'[d] = "opening" /\ seen'[d] = published
        /\ metadata'[d] = [size |-> versions[published].size,
                           checksum |-> versions[published].checksum]
        /\ UNCHANGED <<hashed, position, outcome>>
    BY <1>0, <1>2, <1>d DEF Stat
  <2> QED BY <1>0, <1>d, <1>v, <2>1 DEF CauseInv, StreamInv
<1>3. CASE Open(d)
  <2>1. /\ rpc[d] = "opening" /\ rpc'[d] = "reading" /\ source'[d] = published /\ published # 0
        /\ UNCHANGED <<seen, metadata, hashed, position, outcome>>
    BY <1>0, <1>3, <1>d DEF Open
  <2>2. published \in 1..Len(stored) /\ stored \in Seq(Bytes)
    BY <2>1 DEF StoreType
  <2>3. stored[published] \in Seq(Byte) /\ 0 <= Len(stored[published])
        /\ SubSeq(stored[published], 1, 0) = <<>>
    BY <2>2 DEF Bytes
  <2> QED BY <1>0, <1>d, <1>v, <2>1, <2>3 DEF CauseInv, StreamInv
<1>4. CASE StreamEnds(d)
  <2>1. /\ rpc[d] = "reading" /\ rpc'[d] = "done" /\ UNCHANGED <<seen, metadata, source>>
        /\ cut'[d] = (Rest(d) # <<>>)
        /\ outcome'[d] \in Mismatches => Verifies(d) /\ Verdict(d) # "ok"
    BY <1>0, <1>4, <1>d DEF StreamEnds, Verifies, Mismatches
  <2>2. outcome'[d] \in Mismatches => seen[d] # 0 /\ Cause(d)'
    <3> SUFFICES ASSUME outcome'[d] \in Mismatches PROVE seen[d] # 0 /\ Cause(d)'
      OBVIOUS
    <3>1. ReaderInv(d) /\ DigestInv(d) /\ StreamInv(d) /\ Verdict(d) # "ok" /\ seen[d] # 0
      BY <2>1 DEF DigestInv
    <3>2. source[d] # seen[d] \/ source[d] \in decayed \/ Rest(d) # <<>> \/ ~Honest(seen[d])
      BY <2>1, <3>1, NoCauseNoMismatch
    <3> QED BY <1>0, <2>1, <3>1, <3>2 DEF Cause, Honest
  <2> QED BY <1>0, <1>v, <2>1, <2>2 DEF CauseInv, StreamInv
<1>5. ASSUME rpc[d] = "reading", NEW c \in Messages(d),
             Collect(d, c) \/ Absorb(d, c) \/ CutOff(d, c) \/ WriterRefuses(d, c)
      PROVE  CauseInv(d)' /\ (Verifies(d)' => StreamInv(d)')
  <2>1. /\ UNCHANGED <<seen, metadata, source, cut>> /\ position'[d] = position[d] + Len(c)
        /\ Verifies(d) => hashed'[d] = hashed[d] \o c
    BY <1>0, <1>5, <1>d DEF Collect, Absorb, CutOff, WriterRefuses, Message, Record, Verifies
  <2>2. /\ rpc'[d] \in {"reading", "done"}
        /\ outcome'[d] \in Mismatches => rpc'[d] = "done" /\ Verifies(d) /\ Overshoots(d, c)
    BY <1>5, <1>d DEF Collect, Absorb, CutOff, WriterRefuses, Verifies, Mismatches
  <2>3. outcome'[d] \in Mismatches => seen[d] # 0 /\ Cause(d)'
    <3> SUFFICES ASSUME outcome'[d] \in Mismatches PROVE seen[d] # 0 /\ Cause(d)'
      OBVIOUS
    <3>1. ReaderInv(d) /\ DigestInv(d) /\ StreamInv(d) /\ Overshoots(d, c) /\ seen[d] # 0
      BY <1>5, <2>2 DEF DigestInv
    <3>2. source[d] # seen[d] \/ source[d] \in decayed \/ ~Honest(seen[d])
      BY <1>5, <3>1, NoCauseNoMismatch
    <3> QED BY <1>0, <2>1, <3>1, <3>2 DEF Cause, Honest
  <2>4. ASSUME Verifies(d) PROVE StreamInv(d)'
    <3>1. StreamInv(d)
      BY <2>4
    <3>2. source[d] \notin decayed =>
            /\ position[d] + Len(c) <= Len(stored[source[d]])
            /\ hashed[d] \o c = SubSeq(stored[source[d]], 1, position[d] + Len(c))
      BY <1>5, <3>1, NextMessage
    <3> QED BY <1>0, <2>1, <2>2, <2>4, <3>2 DEF StreamInv
  <2> QED BY <1>0, <1>v, <2>1, <2>2, <2>3, <2>4 DEF CauseInv
<1> QED BY <1>1, <1>2, <1>3, <1>4, <1>5 DEF Read

LEMMA MismatchStep ==
  ASSUME StoreType, WriteType, ReadType, PublishedInv, VerifiedInv, VersionsGrow, MismatchInv,
         [Next]_vars
  PROVE  MismatchInv'
<1>0. LeftAlone
  BY StoreLeavesAlone
<1>1. CASE UNCHANGED download
  <2>1. \A d \in Downloads : Same(d) /\ SameStream(d)
    BY <1>1 DEF download, expected, stream, verified, Same, SameStream
  <2> QED BY <1>0, <2>1, StreamStays DEF MismatchInv
<1>2. ASSUME NEW d \in Downloads, Read(d) \/ Abandon(d) PROVE MismatchInv'
  <2>1. ASSUME NEW e \in Downloads PROVE CauseInv(e)' /\ (Verifies(e)' => StreamInv(e)')
    <3>1. CASE e = d
      BY <1>0, <1>2, <3>1, ReadStreams DEF MismatchInv, VerifiedInv
    <3>2. CASE e # d
      <4>1. Same(e) /\ SameStream(e)
        BY <1>2, <3>2, OthersStay, OtherStreamsStay
      <4> QED BY <1>0, <4>1, StreamStays DEF MismatchInv
    <3> QED BY <3>1, <3>2
  <2> QED BY <2>1 DEF MismatchInv
<1>3. UNCHANGED download \/ \E d \in Downloads : Read(d) \/ Abandon(d)
  BY DEF Next, vars
<1> QED BY <1>1, <1>2, <1>3

\* A download that reports a mismatch has seen one: another version streamed, damaged
\* bytes, a stream that ended early, or an uploader whose checksum was wrong.
THEOREM MismatchesAreReal == Spec => []MismatchHasACause
<1> DEFINE I == /\ StoreType /\ WriteType /\ ReadType /\ PublishedInv /\ VerifiedInv
                /\ MismatchInv
<1>1. Init => I
  <2>1. Init => PublishedInv
    BY DEF Init, StoreInit, UploadInit, PublishedInv, Writes
  <2>2. Init => MismatchInv
    BY DEF Init, DownloadInit, MismatchInv, CauseInv, StreamInv, Mismatches
  <2> QED BY <2>1, <2>2, TypeInit, VerifiedInit
<1>2. I /\ [Next]_vars => I'
  BY StoreSteps, WriteStep, ReadSteps, PublishedStep, VerifiedStep, MismatchStep
<1>3. I => MismatchHasACause
  BY DEF MismatchInv, CauseInv, Cause, Mismatches, MismatchHasACause
<1> QED BY <1>1, <1>2, <1>3, PTL DEF Spec

-------------------------------------------------------------------------------
(* The calendar *)

EraDays == 146097
EpochDay == 719468

\* The day the year that begins in March begins with, as days_from_civil counts it.
MarchFirst(s) ==
  era_of(s) * EraDays + (s - era_of(s) * 400) * 365
  + (s - era_of(s) * 400) \div 4 - (s - era_of(s) * 400) \div 100

\* The days of that year before the month.
DaysBefore(m) == (153 * (IF m > 2 THEN m - 3 ELSE m + 9) + 2) \div 5

LEMMA EraType == ASSUME NEW s \in Int PROVE era_of(s) \in Int
BY DEF era_of, Quotient

LEMMA MarchFirstType == ASSUME NEW s \in Int PROVE MarchFirst(s) \in Int
BY EraType, SMT DEF MarchFirst, EraDays

LEMMA MonthStarts ==
  /\ DaysBefore(3) = 0 /\ DaysBefore(4) = 31 /\ DaysBefore(5) = 61 /\ DaysBefore(6) = 92
  /\ DaysBefore(7) = 122 /\ DaysBefore(8) = 153 /\ DaysBefore(9) = 184
  /\ DaysBefore(10) = 214 /\ DaysBefore(11) = 245 /\ DaysBefore(12) = 275
  /\ DaysBefore(1) = 306 /\ DaysBefore(2) = 337
BY DEF DaysBefore

LEMMA DaysBeforeType == ASSUME NEW m \in 1..12 PROVE DaysBefore(m) \in Int
BY DEF DaysBefore

LEMMA CivilForm ==
  ASSUME NEW y \in Int, NEW m \in 1..12, NEW d \in Int
  PROVE  days_from_civil(y, m, d) =
           MarchFirst(IF m <= 2 THEN y - 1 ELSE y) + DaysBefore(m) + d - 1 - EpochDay
<1> DEFINE s == IF m <= 2 THEN y - 1 ELSE y
           e == era_of(s)
           leaps == (s - e * 400) \div 4
           centuries == (s - e * 400) \div 100
<1>1. s \in Int /\ e \in Int /\ leaps \in Int /\ centuries \in Int
  <2>1. s \in Int
    OBVIOUS
  <2> HIDE DEF s
  <2>2. e \in Int
    BY <2>1, EraType
  <2> HIDE DEF e
  <2> QED BY <2>1, <2>2
<1>2. MarchFirst(s) = e * EraDays + (s - e * 400) * 365 + leaps - centuries
  BY DEF MarchFirst
<1>3. days_from_civil(y, m, d)
        = e * EraDays + ((s - e * 400) * 365 + leaps - centuries + (DaysBefore(m) + d - 1)) - EpochDay
  BY SMT DEF days_from_civil, DaysBefore, EraDays, EpochDay
<1> HIDE DEF s, e, leaps, centuries
<1>4. days_from_civil(y, m, d) = MarchFirst(s) + DaysBefore(m) + d - 1 - EpochDay
  BY <1>1, <1>2, <1>3, DaysBeforeType, SMT DEF EraDays, EpochDay
<1> QED BY <1>4 DEF s

\* From March on, and in January and February, which belong to the year before.
LEMMA CivilLate ==
  ASSUME NEW y \in Int, NEW m \in 3..12, NEW d \in Int
  PROVE  days_from_civil(y, m, d) = MarchFirst(y) + DaysBefore(m) + d - 1 - EpochDay
<1>1. days_from_civil(y, m, d) =
        MarchFirst(IF m <= 2 THEN y - 1 ELSE y) + DaysBefore(m) + d - 1 - EpochDay
  BY CivilForm
<1>2. (IF m <= 2 THEN y - 1 ELSE y) = y
  OBVIOUS
<1> QED BY <1>1, <1>2

LEMMA CivilEarly ==
  ASSUME NEW y \in Int, NEW m \in 1..2, NEW d \in Int
  PROVE  days_from_civil(y, m, d) = MarchFirst(y - 1) + DaysBefore(m) + d - 1 - EpochDay
<1>1. days_from_civil(y, m, d) =
        MarchFirst(IF m <= 2 THEN y - 1 ELSE y) + DaysBefore(m) + d - 1 - EpochDay
  BY CivilForm
<1>2. (IF m <= 2 THEN y - 1 ELSE y) = y - 1
  OBVIOUS
<1> QED BY <1>1, <1>2

LEMMA PartTypes ==
  ASSUME NEW y \in Int, NEW m \in 1..12
  PROVE  /\ MarchFirst(y) \in Int /\ MarchFirst(y - 1) \in Int
         /\ DaysBefore(m) \in Int /\ EpochDay \in Int
<1>1. EpochDay \in Int
  BY SMT DEF EpochDay
<1> QED BY <1>1, MarchFirstType, DaysBeforeType

\* Within a month the days count up.
LEMMA DayOfMonth ==
  ASSUME NEW y \in Int, NEW m \in 1..12, NEW d \in Int
  PROVE  /\ days_from_civil(y, m, d) = days_from_civil(y, m, 1) + d - 1
         /\ days_from_civil(y, m, d) \in Int
<1>1. CASE m \in 3..12
  <2>1. days_from_civil(y, m, d) = MarchFirst(y) + DaysBefore(m) + d - 1 - EpochDay
    BY <1>1, CivilLate
  <2>2. days_from_civil(y, m, 1) = MarchFirst(y) + DaysBefore(m) + 1 - 1 - EpochDay
    BY <1>1, CivilLate
  <2>3. MarchFirst(y) \in Int /\ DaysBefore(m) \in Int /\ EpochDay \in Int
    BY PartTypes
  <2> QED BY <2>1, <2>2, <2>3
<1>2. CASE m \in 1..2
  <2>1. days_from_civil(y, m, d) = MarchFirst(y - 1) + DaysBefore(m) + d - 1 - EpochDay
    BY <1>2, CivilEarly
  <2>2. days_from_civil(y, m, 1) = MarchFirst(y - 1) + DaysBefore(m) + 1 - 1 - EpochDay
    BY <1>2, CivilEarly
  <2>3. MarchFirst(y - 1) \in Int /\ DaysBefore(m) \in Int /\ EpochDay \in Int
    BY PartTypes
  <2> QED BY <2>1, <2>2, <2>3
<1> QED BY <1>1, <1>2

\* The years of the parser need no truncated division but in the year before 0000.
LEMMA EraFacts ==
  ASSUME NEW s \in Int, s >= -1
  PROVE  /\ era_of(s) \in Int
         /\ s - era_of(s) * 400 \in 0..399
         /\ s - era_of(s) * 400 < 399 => era_of(s + 1) = era_of(s)
         /\ s - era_of(s) * 400 = 399 => era_of(s + 1) = era_of(s) + 1
<1>1. CASE s >= 0
  BY <1>1 DEF era_of, Quotient
<1>2. CASE s = -1
  BY <1>2 DEF era_of, Quotient
<1> QED BY <1>1, <1>2

\* The year that begins in March is as long as the February that ends it makes it.
LEMMA YearLength ==
  ASSUME NEW s \in Int, s >= -1
  PROVE  MarchFirst(s + 1) = MarchFirst(s) + 365 + (IF is_leap_year(s + 1) THEN 1 ELSE 0)
<1> DEFINE e == era_of(s)
           r == s - e * 400
<1>1. e \in Int /\ r \in 0..399 /\ s + 1 = 400 * e + (r + 1)
  BY EraFacts
<1>2. MarchFirst(s) = e * EraDays + r * 365 + r \div 4 - r \div 100
  BY DEF MarchFirst
<1>3. CASE r < 399
  <2>1. era_of(s + 1) = e /\ (s + 1) - era_of(s + 1) * 400 = r + 1
    BY <1>1, <1>3, EraFacts
  <2>2. MarchFirst(s + 1) = e * EraDays + (r + 1) * 365 + (r + 1) \div 4 - (r + 1) \div 100
    BY <2>1 DEF MarchFirst
  <2>3. is_leap_year(s + 1) <=> (r + 1) % 4 = 0 /\ (r + 1) % 100 # 0
    <3> HIDE DEF e, r
    <3>1. /\ (s + 1) % 4 = (r + 1) % 4 /\ (s + 1) % 100 = (r + 1) % 100
          /\ (s + 1) % 400 # 0
      BY <1>1, <1>3
    <3> QED BY <3>1 DEF is_leap_year
  <2> HIDE DEF e, r
  <2>4. /\ (r + 1) \div 4 = r \div 4 + (IF (r + 1) % 4 = 0 THEN 1 ELSE 0)
        /\ (r + 1) \div 100 = r \div 100 + (IF (r + 1) % 100 = 0 THEN 1 ELSE 0)
        /\ (r + 1) % 100 = 0 => (r + 1) % 4 = 0
    BY <1>1, <1>3
  <2> QED BY <1>1, <1>2, <2>2, <2>3, <2>4, SMT DEF EraDays
<1>4. CASE r = 399
  <2>1. era_of(s + 1) = e + 1 /\ (s + 1) - era_of(s + 1) * 400 = 0
    BY <1>1, <1>4, EraFacts
  <2>2. MarchFirst(s + 1) = (e + 1) * EraDays
    <3>1. MarchFirst(s + 1) = (e + 1) * EraDays + 0 * 365 + 0 \div 4 - 0 \div 100
      BY <2>1 DEF MarchFirst
    <3> HIDE DEF e
    <3> QED BY <1>1, <3>1, SMT DEF EraDays
  <2>3. is_leap_year(s + 1)
    <3> HIDE DEF e, r
    <3> QED BY <1>1, <1>4 DEF is_leap_year
  <2> HIDE DEF e, r
  <2> QED BY <1>1, <1>2, <1>4, <2>2, <2>3, SMT DEF EraDays
<1> QED BY <1>1, <1>3, <1>4

LEMMA MonthLengths ==
  ASSUME NEW y \in Int
  PROVE  /\ \A m \in {1, 3, 5, 7, 8, 10, 12} : days_in_month(y, m) = 31
         /\ \A m \in {4, 6, 9, 11} : days_in_month(y, m) = 30
         /\ days_in_month(y, 2) = IF is_leap_year(y) THEN 29 ELSE 28
BY DEF days_in_month

\* days_from_civil of the first of two months that follow each other differs by the
\* length of the first.
LEMMA NextMonthFirst ==
  ASSUME NEW y \in Nat, NEW m \in 1..12
  PROVE  days_from_civil(IF m < 12 THEN y ELSE y + 1, IF m < 12 THEN m + 1 ELSE 1, 1)
           = days_from_civil(y, m, 1) + days_in_month(y, m)
<1>1. MarchFirst(y) \in Int /\ MarchFirst(y - 1) \in Int
  BY MarchFirstType
<1>2. CASE m = 2
  <2>1. MarchFirst(y) = MarchFirst(y - 1) + 365 + (IF is_leap_year(y) THEN 1 ELSE 0)
    BY YearLength
  <2>2. days_from_civil(y, 2, 1) = MarchFirst(y - 1) + 337 - EpochDay
    BY <1>1, CivilForm, MonthStarts, SMT DEF EpochDay
  <2>3. days_from_civil(y, 3, 1) = MarchFirst(y) - EpochDay
    BY <1>1, CivilForm, MonthStarts, SMT DEF EpochDay
  <2> QED BY <1>1, <1>2, <2>1, <2>2, <2>3, MonthLengths, SMT DEF EpochDay
<1>3. CASE m = 1
  <2>1. days_from_civil(y, 1, 1) = MarchFirst(y - 1) + 306 - EpochDay
    BY <1>1, CivilForm, MonthStarts, SMT DEF EpochDay
  <2>2. days_from_civil(y, 2, 1) = MarchFirst(y - 1) + 337 - EpochDay
    BY <1>1, CivilForm, MonthStarts, SMT DEF EpochDay
  <2> QED BY <1>1, <1>3, <2>1, <2>2, MonthLengths, SMT DEF EpochDay
<1>4. CASE m = 12
  <2>1. days_from_civil(y, 12, 1) = MarchFirst(y) + 275 - EpochDay
    BY <1>1, CivilForm, MonthStarts, SMT DEF EpochDay
  <2>2. days_from_civil(y + 1, 1, 1) = MarchFirst(y) + 306 - EpochDay
    BY <1>1, CivilForm, MonthStarts, SMT DEF EpochDay
  <2> QED BY <1>1, <1>4, <2>1, <2>2, MonthLengths, SMT DEF EpochDay
<1>5. CASE m \in 3..11
  <2>1. days_from_civil(y, m, 1) = MarchFirst(y) + DaysBefore(m) + 1 - 1 - EpochDay
    BY <1>5, CivilLate
  <2>2. days_from_civil(y, m + 1, 1) = MarchFirst(y) + DaysBefore(m + 1) + 1 - 1 - EpochDay
    BY <1>5, CivilLate
  <2>3. DaysBefore(m + 1) = DaysBefore(m) + days_in_month(y, m) /\ DaysBefore(m) \in Int
        /\ days_in_month(y, m) \in Int
    BY <1>5, MonthStarts, MonthLengths
  <2> QED BY <1>1, <1>5, <2>1, <2>2, <2>3, SMT DEF EpochDay
<1> QED BY <1>2, <1>3, <1>4, <1>5

\* The walk stands at a month of the range, on the day the code gives its first.
CalendarInv ==
  /\ year \in FirstYear..LastYear /\ month \in 1..12
  /\ firstDay = days_from_civil(year, month, 1)

LEMMA FirstDayType ==
  ASSUME NEW y \in Nat, NEW m \in 1..12
  PROVE  days_from_civil(y, m, 1) \in Int /\ days_in_month(y, m) \in Int
<1>1. days_in_month(y, m) \in Int
  BY DEF days_in_month
<1>2. y \in Int /\ 1 \in Int
  OBVIOUS
<1>3. days_from_civil(y, m, 1) \in Int
  BY <1>2, DayOfMonth
<1> QED BY <1>1, <1>3

LEMMA CalendarStart == CalendarInit => CalendarInv
<1>1. days_from_civil(1970, 1, 1) = 0
  BY SMT DEF days_from_civil, era_of, Quotient
<1> QED BY <1>1, YearsAssumption, SMT DEF CalendarInit, CalendarInv

LEMMA CalendarStep == CalendarInv /\ [CalendarNext]_calendar => CalendarInv'
<1> SUFFICES ASSUME CalendarInv, [CalendarNext]_calendar PROVE CalendarInv'
  OBVIOUS
<1>1. year \in Nat /\ month \in 1..12 /\ FirstYear \in Nat /\ LastYear \in Nat
  BY YearsAssumption DEF CalendarInv
<1>2. CASE NextMonth
  <2>1. year' \in FirstYear..LastYear /\ month' \in 1..12
    BY <1>1, <1>2 DEF NextMonth, CalendarInv
  <2>2. firstDay' = days_from_civil(year, month, 1) + days_in_month(year, month)
    BY <1>2 DEF NextMonth, CalendarInv
  <2>3. year' = (IF month < 12 THEN year ELSE year + 1)
        /\ month' = (IF month < 12 THEN month + 1 ELSE 1)
    BY <1>2 DEF NextMonth
  <2>4. firstDay' = days_from_civil(year', month', 1)
    BY <1>1, <2>2, <2>3, NextMonthFirst
  <2> QED BY <2>1, <2>4 DEF CalendarInv
<1>3. CASE PreviousMonth
  <2>1. /\ year' \in FirstYear..LastYear /\ month' \in 1..12 /\ year' \in Nat
        /\ year = (IF month' < 12 THEN year' ELSE year' + 1)
        /\ month = (IF month' < 12 THEN month' + 1 ELSE 1)
    BY <1>1, <1>3 DEF PreviousMonth, CalendarInv
  <2>2. days_from_civil(year, month, 1)
          = days_from_civil(year', month', 1) + days_in_month(year', month')
    BY <2>1, NextMonthFirst
  <2>3. firstDay' = days_from_civil(year, month, 1) - days_in_month(year', month')
    BY <1>3 DEF PreviousMonth, CalendarInv
  <2>4. firstDay' = days_from_civil(year', month', 1)
    BY <2>1, <2>2, <2>3, FirstDayType
  <2> QED BY <2>1, <2>4 DEF CalendarInv
<1>4. CASE UNCHANGED calendar
  BY <1>4 DEF calendar, CalendarInv
<1> QED BY <1>2, <1>3, <1>4 DEF CalendarNext

LEMMA CalendarAlways == CalendarSpec => []CalendarInv
BY CalendarStart, CalendarStep, PTL DEF CalendarSpec

\* Over any range of years, whatever its eras and centuries, days_from_civil gives every
\* day the number that counting from the epoch gives it.
THEOREM EveryDayIsCounted == CalendarSpec => []DaysAreCounted
<1>1. CalendarInv => DaysAreCounted
  <2> SUFFICES ASSUME CalendarInv, NEW d \in 1..days_in_month(year, month)
               PROVE  days_from_civil(year, month, d) = firstDay + d - 1
    BY DEF DaysAreCounted
  <2>1. year \in Nat /\ year \in Int /\ month \in 1..12
    BY YearsAssumption DEF CalendarInv
  <2>2. days_in_month(year, month) \in Int
    BY <2>1, FirstDayType
  <2>3. d \in Int
    BY <2>2
  <2>4. days_from_civil(year, month, d) = days_from_civil(year, month, 1) + d - 1
    BY <2>1, <2>3, DayOfMonth
  <2> QED BY <2>4 DEF CalendarInv
<1> QED BY <1>1, CalendarAlways, PTL

-------------------------------------------------------------------------------
(* Timestamps *)

\* The timestamps of the month the walk stands at, with any offset and any fraction.
StampsHere ==
  [year: {year}, month: {month}, day: Nat, hour: Nat, minute: Nat, second: Nat,
   zone: [sign: {1, -1}, hours: Nat, minutes: Nat], fraction: Seq(0..9)]

NamesItsSecond ==
  \A t \in StampsHere : accepted(t) => parse_rfc3339(t).seconds = CountedSeconds(t)

\* Whole days are taken off a minute of the day, and minutes of it are left.
LEMMA MinuteOfTheDay ==
  ASSUME NEW u \in Int
  PROVE  /\ u \div 1440 \in Int /\ u % 1440 \in Int
         /\ u = 1440 * (u \div 1440) + (u % 1440)
BY SMT

\* An accepted timestamp names the second of the counted day its offset leads to.
THEOREM TimestampsNameTheirSecond == CalendarSpec => []NamesItsSecond
<1>1. ASSUME CalendarInv PROVE NamesItsSecond
  <2> SUFFICES ASSUME NEW t \in StampsHere, accepted(t)
               PROVE  parse_rfc3339(t).seconds = CountedSeconds(t)
    BY DEF NamesItsSecond
  <2>1. /\ t.year = year /\ t.month = month /\ t.day \in Int /\ t.hour \in Int
        /\ t.minute \in Int /\ t.second \in Int
        /\ t.zone.sign \in {1, -1} /\ t.zone.hours \in Int /\ t.zone.minutes \in Int
    BY DEF StampsHere
  <2>2. year \in Nat /\ year \in Int /\ month \in 1..12
    BY <1>1, YearsAssumption DEF CalendarInv
  <2>3. /\ days_from_civil(year, month, t.day) = days_from_civil(year, month, 1) + t.day - 1
        /\ days_from_civil(year, month, t.day) \in Int
    BY <2>1, <2>2, DayOfMonth
  <2>4. days_from_civil(year, month, 1) \in Int
    BY <2>2, FirstDayType
  <2> DEFINE u == UtcMinute(t)
             n == firstDay + t.day - 1
  <2>5. u \in Int /\ u * 60 = t.hour * 3600 + t.minute * 60 - parse_offset(t.zone)
        /\ parse_offset(t.zone) \in Int
    <3>1. CASE t.zone.sign = 1
      BY <2>1, <3>1 DEF UtcMinute, parse_offset
    <3>2. CASE t.zone.sign = -1
      BY <2>1, <3>2 DEF UtcMinute, parse_offset
    <3> QED BY <2>1, <3>1, <3>2
  <2>6. n = days_from_civil(t.year, t.month, t.day) /\ n \in Int
    BY <1>1, <2>1, <2>3, <2>4 DEF CalendarInv
  <2>7. parse_rfc3339(t).seconds
          = n * SecondsPerDay + t.hour * 3600 + t.minute * 60 + t.second - parse_offset(t.zone)
    BY <2>6 DEF parse_rfc3339
  <2>8. CountedSeconds(t) = (n + u \div 1440) * SecondsPerDay + (u % 1440) * 60 + t.second
    BY DEF CountedSeconds
  <2> HIDE DEF u, n
  <2>9. /\ u \div 1440 \in Int /\ u % 1440 \in Int
        /\ u = 1440 * (u \div 1440) + (u % 1440)
    BY <2>5, MinuteOfTheDay
  <2>10. n * SecondsPerDay + t.hour * 3600 + t.minute * 60 + t.second - parse_offset(t.zone)
           = n * SecondsPerDay + u * 60 + t.second
    BY <2>1, <2>5, <2>6, SMT DEF SecondsPerDay
  <2>11. (n + u \div 1440) * SecondsPerDay + (u % 1440) * 60 + t.second
           = n * SecondsPerDay + u * 60 + t.second
    BY <2>1, <2>5, <2>6, <2>9, SMT DEF SecondsPerDay
  <2> QED BY <2>7, <2>8, <2>10, <2>11
<1> QED BY <1>1, CalendarAlways, PTL

\* A distance from the epoch is that very instant on either side of it, and its
\* remainder is less than a second.
THEOREM SystemTimeIsExact ==
  ASSUME NanosPerSecond \in Nat, NEW seconds \in Int, NEW nanos \in 0..(NanosPerSecond - 1)
  PROVE  LET time == unix_instant_to_system_time(seconds, nanos)
         IN  /\ time.nanos \in 0..(NanosPerSecond - 1) /\ time.seconds \in Nat
             /\ SignedNanos(time) = seconds * NanosPerSecond + nanos
<1>1. CASE seconds >= 0
  <2>1. unix_instant_to_system_time(seconds, nanos)
          = [before |-> FALSE, seconds |-> seconds, nanos |-> nanos]
    BY <1>1 DEF unix_instant_to_system_time
  <2>2. 1 * (seconds * NanosPerSecond + nanos) = seconds * NanosPerSecond + nanos
    OBVIOUS
  <2> QED BY <1>1, <2>1, <2>2 DEF SignedNanos
<1>2. CASE seconds < 0 /\ nanos = 0
  <2>1. unix_instant_to_system_time(seconds, nanos)
          = [before |-> TRUE, seconds |-> -seconds, nanos |-> 0]
    BY <1>2 DEF unix_instant_to_system_time, Magnitude
  <2>2. (-1) * ((-seconds) * NanosPerSecond + 0) = seconds * NanosPerSecond
    OBVIOUS
  <2> QED BY <1>2, <2>1, <2>2 DEF SignedNanos
<1>3. CASE seconds < 0 /\ nanos # 0
  <2>1. unix_instant_to_system_time(seconds, nanos)
          = [before |-> TRUE, seconds |-> -seconds - 1, nanos |-> NanosPerSecond - nanos]
    BY <1>3 DEF unix_instant_to_system_time, Magnitude
  <2>2. (-1) * ((-seconds - 1) * NanosPerSecond + (NanosPerSecond - nanos))
          = seconds * NanosPerSecond + nanos
    OBVIOUS
  <2>3. NanosPerSecond - nanos \in 0..(NanosPerSecond - 1) /\ -seconds - 1 \in Nat
    BY <1>3
  <2> QED BY <1>3, <2>1, <2>2, <2>3 DEF SignedNanos
<1> QED BY <1>1, <1>2, <1>3

-------------------------------------------------------------------------------
(* Fractions *)

\* Induction, in the form the provers can use: a set of numbers has a least one.
\* Without one, i |-> i - 1 would map a finite set into itself, injectively but not
\* onto its greatest number.
LEMMA LeastElement ==
  ASSUME NEW T, T \subseteq Nat, T # {}
  PROVE  \E x \in T : \A y \in T : x <= y
<1> SUFFICES ASSUME \A x \in T : \E y \in T : y < x PROVE FALSE
  OBVIOUS
<1>1. PICK n \in T : TRUE
  OBVIOUS
<1> DEFINE D == {i \in 0..n : \E t \in T : t <= i}
           f == [i \in D |-> i - 1]
<1>2. IsFiniteSet(D)
  <2>1. IsFiniteSet(0..n)
    BY <1>1, FS_Interval
  <2> QED BY <2>1, FS_Subset
<1>3. f \in Injection(D, D)
  <2>1. ASSUME NEW i \in D PROVE i - 1 \in D
    <3>1. PICK t \in T : t <= i
      OBVIOUS
    <3>2. PICK u \in T : u < t
      OBVIOUS
    <3>3. u <= i - 1 /\ i - 1 \in 0..n
      BY <3>1, <3>2
    <3> QED BY <3>3
  <2>2. \A i, j \in D : f[i] = f[j] => i = j
    BY <1>1
  <2> HIDE DEF D
  <2>3. f \in [D -> D]
    BY <2>1
  <2> QED BY <2>2, <2>3 DEF Injection, IsInjective
<1>4. f \in Surjection(D, D)
  BY <1>2, <1>3, FS_Injection
<1>5. n \in D
  BY <1>1
<1>6. PICK i \in D : f[i] = n
  BY <1>4, <1>5 DEF Surjection
<1>7. i - 1 = n /\ i \in 0..n
  BY <1>6
<1> QED BY <1>7, <1>1

LEMMA Induction ==
  ASSUME NEW S, S \subseteq Nat, 0 \in S, \A k \in S : k + 1 \in S
  PROVE  S = Nat
<1> SUFFICES ASSUME Nat \ S # {} PROVE FALSE
  OBVIOUS
<1>1. PICK x \in Nat \ S : \A y \in Nat \ S : x <= y
  BY LeastElement
<1>2. x # 0 /\ x - 1 \in Nat
  BY <1>1
<1>3. x - 1 \in S
  BY <1>1, <1>2
<1> QED BY <1>1, <1>2, <1>3

\* The digit at a place, as Leading takes it.
Digit(digits, i) == IF i <= Len(digits) THEN digits[i] ELSE 0

\* What the recursive function of Leading satisfies.
MakesNumbers(f, digits, n) ==
  f = [i \in 0..n |-> IF i = 0 THEN 0 ELSE f[i - 1] * 10 + Digit(digits, i)]

LEMMA NumbersExist ==
  ASSUME NEW digits, NEW n \in Nat PROVE \E f : MakesNumbers(f, digits, n)
<1> DEFINE S == {k \in Nat : \E f : MakesNumbers(f, digits, k)}
<1>1. 0 \in S
  <2>1. MakesNumbers([i \in 0..0 |-> 0], digits, 0)
    BY DEF MakesNumbers
  <2> QED BY <2>1
<1>2. ASSUME NEW k \in S PROVE k + 1 \in S
  <2>1. PICK f : MakesNumbers(f, digits, k)
    OBVIOUS
  <2> DEFINE g == [i \in 0..(k + 1) |->
                     IF i = k + 1 THEN f[k] * 10 + Digit(digits, k + 1) ELSE f[i]]
  <2>2. k \in Nat /\ k + 1 \in Nat
    OBVIOUS
  <2>3. \A i \in 0..k : f[i] = IF i = 0 THEN 0 ELSE f[i - 1] * 10 + Digit(digits, i)
    BY <2>1 DEF MakesNumbers
  <2>4. \A i \in 0..(k + 1) : g[i] = IF i = 0 THEN 0 ELSE g[i - 1] * 10 + Digit(digits, i)
    <3> SUFFICES ASSUME NEW i \in 0..(k + 1)
                 PROVE  g[i] = IF i = 0 THEN 0 ELSE g[i - 1] * 10 + Digit(digits, i)
      OBVIOUS
    <3>1. CASE i = k + 1
      <4>1. g[i] = f[k] * 10 + Digit(digits, k + 1) /\ g[k] = f[k]
        BY <2>2, <3>1
      <4>2. i # 0 /\ i - 1 = k
        BY <2>2, <3>1
      <4> HIDE DEF g
      <4> QED BY <3>1, <4>1, <4>2
    <3>2. CASE i # k + 1
      <4>1. i \in 0..k
        BY <2>2, <3>2
      <4>2. g[i] = f[i]
        BY <4>1, <2>2
      <4>3. i # 0 => g[i - 1] = f[i - 1]
        BY <4>1, <2>2
      <4> HIDE DEF g
      <4> QED BY <2>3, <4>1, <4>2, <4>3
    <3> QED BY <3>1, <3>2
  <2>5. g = [i \in 0..(k + 1) |-> g[i]]
    OBVIOUS
  <2> HIDE DEF g
  <2>6. MakesNumbers(g, digits, k + 1)
    BY <2>4, <2>5 DEF MakesNumbers
  <2> QED BY <2>2, <2>6
<1>3. S = Nat
  <2> HIDE DEF S
  <2>1. S \subseteq Nat
    BY DEF S
  <2> QED BY <1>1, <1>2, <2>1, Induction
<1> QED BY <1>3

\* However far they go, such functions agree.
LEMMA NumbersAgree ==
  ASSUME NEW digits, NEW m \in Nat, NEW n \in Nat, NEW f, NEW g,
         MakesNumbers(f, digits, m), MakesNumbers(g, digits, n), m <= n
  PROVE  \A i \in 0..m : f[i] = g[i]
<1> DEFINE T == {i \in 0..m : f[i] # g[i]}
<1> SUFFICES ASSUME T # {} PROVE FALSE
  OBVIOUS
<1>1. PICK x \in T : \A y \in T : x <= y
  <2>1. T \subseteq Nat
    OBVIOUS
  <2> HIDE DEF T
  <2> QED BY <2>1, LeastElement
<1>2. /\ f[x] = IF x = 0 THEN 0 ELSE f[x - 1] * 10 + Digit(digits, x)
      /\ g[x] = IF x = 0 THEN 0 ELSE g[x - 1] * 10 + Digit(digits, x)
  <2>1. x \in 0..m /\ x \in 0..n
    OBVIOUS
  <2> HIDE DEF T
  <2> QED BY <2>1 DEF MakesNumbers
<1>3. x # 0 /\ x - 1 \in 0..m
  BY <1>2
<1>4. f[x - 1] = g[x - 1]
  BY <1>1, <1>3
<1> QED BY <1>2, <1>3, <1>4

LEMMA LeadingIsMade ==
  ASSUME NEW digits, NEW n \in Nat
  PROVE  \E f : MakesNumbers(f, digits, n) /\ Leading(digits, n) = f[n]
<1> DEFINE number == CHOOSE f : MakesNumbers(f, digits, n)
<1>1. MakesNumbers(number, digits, n)
  BY NumbersExist
<1>2. Leading(digits, n) = number[n]
  BY DEF Leading, MakesNumbers, Digit
<1> QED BY <1>1, <1>2

LEMMA LeadingRecursion ==
  ASSUME NEW digits
  PROVE  /\ Leading(digits, 0) = 0
         /\ \A n \in Nat : Leading(digits, n + 1) = Leading(digits, n) * 10 + Digit(digits, n + 1)
<1>1. Leading(digits, 0) = 0
  <2>1. PICK f : MakesNumbers(f, digits, 0) /\ Leading(digits, 0) = f[0]
    BY LeadingIsMade
  <2> QED BY <2>1 DEF MakesNumbers
<1>2. ASSUME NEW n \in Nat
      PROVE  Leading(digits, n + 1) = Leading(digits, n) * 10 + Digit(digits, n + 1)
  <2>1. n + 1 \in Nat /\ n <= n + 1 /\ n \in 0..n
    OBVIOUS
  <2>2. PICK f : MakesNumbers(f, digits, n) /\ Leading(digits, n) = f[n]
    BY LeadingIsMade
  <2>3. PICK g : MakesNumbers(g, digits, n + 1) /\ Leading(digits, n + 1) = g[n + 1]
    BY <2>1, LeadingIsMade
  <2>4. f[n] = g[n]
    BY <2>1, <2>2, <2>3, NumbersAgree
  <2>5. g[n + 1] = g[n] * 10 + Digit(digits, n + 1)
    BY <2>1, <2>3 DEF MakesNumbers
  <2> QED BY <2>2, <2>3, <2>4, <2>5
<1> QED BY <1>1, <1>2

LEMMA DigitType ==
  ASSUME NEW digits \in Seq(0..9), NEW i \in Nat \ {0}
  PROVE  Digit(digits, i) \in 0..9
BY DEF Digit

LEMMA LeadingType ==
  ASSUME NEW digits \in Seq(0..9)
  PROVE  \A n \in Nat : Leading(digits, n) \in Nat
<1> DEFINE S == {n \in Nat : Leading(digits, n) \in Nat}
<1>1. 0 \in S
  BY LeadingRecursion
<1>2. ASSUME NEW n \in S PROVE n + 1 \in S
  <2>1. n + 1 \in Nat \ {0} /\ Leading(digits, n) \in Nat
    OBVIOUS
  <2>2. Leading(digits, n + 1) = Leading(digits, n) * 10 + Digit(digits, n + 1)
    BY LeadingRecursion
  <2>3. Digit(digits, n + 1) \in Nat
    BY <2>1, DigitType
  <2> QED BY <2>1, <2>2, <2>3
<1>3. S = Nat
  <2> HIDE DEF S
  <2> QED BY <1>1, <1>2, Induction DEF S
<1> QED BY <1>3

\* A power of ten, which is not looked into.
Ten(k) == 10 ^ k

LEMMA TenFacts ==
  /\ Ten(0) = 1
  /\ \A k \in 0..MaxDigits : Ten(k) \in Nat \ {0} /\ Ten(k + 1) = 10 * Ten(k)
BY PowersOfTenAssumption DEF Ten

\* The digits after the first n add less than one unit of the n-th.
LEMMA LaterDigits ==
  ASSUME NEW digits \in Seq(0..9), NEW n \in Nat
  PROVE  \A k \in 0..MaxDigits :
           /\ Leading(digits, n) * Ten(k) <= Leading(digits, n + k)
           /\ Leading(digits, n + k) < (Leading(digits, n) + 1) * Ten(k)
<1> DEFINE Within(k) == /\ Leading(digits, n) * Ten(k) <= Leading(digits, n + k)
                        /\ Leading(digits, n + k) < (Leading(digits, n) + 1) * Ten(k)
           S == {k \in Nat : k <= MaxDigits => Within(k)}
<1>1. 0 \in S
  <2>1. Leading(digits, n) \in Nat /\ n + 0 = n
    BY LeadingType
  <2> QED BY <2>1, TenFacts
<1>2. ASSUME NEW k \in S PROVE k + 1 \in S
  <2> SUFFICES ASSUME k + 1 <= MaxDigits PROVE Within(k + 1)
    OBVIOUS
  <2> DEFINE v == Leading(digits, n)
             w == Leading(digits, n + k)
             d == Digit(digits, n + k + 1)
             p == Ten(k)
  <2>1. k \in Nat /\ k \in 0..MaxDigits /\ Within(k)
    BY PrecisionAssumption
  <2>2. v \in Nat /\ w \in Nat
    <3>1. n \in Nat /\ n + k \in Nat
      BY <2>1
    <3> QED BY <3>1, LeadingType
  <2>3. d \in 0..9
    <3>1. n + k + 1 \in Nat \ {0}
      BY <2>1
    <3> QED BY <3>1, DigitType
  <2>4. p \in Nat /\ Ten(k + 1) = 10 * p
    BY <2>1, TenFacts
  <2>5. Leading(digits, n + (k + 1)) = w * 10 + d
    <3>1. n + k \in Nat /\ n + (k + 1) = (n + k) + 1
      BY <2>1
    <3> QED BY <3>1, LeadingRecursion
  <2>6. v * p <= w /\ w < (v + 1) * p
    BY <2>1
  <2> HIDE DEF v, w, d, p
  <2>7. v * p \in Nat /\ (v + 1) * p \in Nat
    BY <2>2, <2>4
  <2>8. v * (10 * p) = 10 * (v * p) /\ (v + 1) * (10 * p) = 10 * ((v + 1) * p)
    BY <2>2, <2>4
  <2>9. v * (10 * p) <= w * 10 + d /\ w * 10 + d < (v + 1) * (10 * p)
    BY <2>2, <2>3, <2>6, <2>7, <2>8
  <2> QED BY <2>4, <2>5, <2>9 DEF v
<1>3. S = Nat
  <2> HIDE DEF S
  <2> QED BY <1>1, <1>2, Induction DEF S
<1> QED BY <1>3

\* Behind the last digit there are only zeros.
LEMMA MissingDigits ==
  ASSUME NEW digits \in Seq(0..9)
  PROVE  \A k \in 0..MaxDigits :
           Leading(digits, Len(digits) + k) = Leading(digits, Len(digits)) * Ten(k)
<1> DEFINE n == Len(digits)
           S == {k \in Nat : k <= MaxDigits =>
                   Leading(digits, n + k) = Leading(digits, n) * Ten(k)}
<1>0. n \in Nat
  OBVIOUS
<1> HIDE DEF n
<1>1. 0 \in S
  <2>1. Leading(digits, n) \in Nat /\ n + 0 = n
    BY <1>0, LeadingType
  <2> QED BY <2>1, TenFacts
<1>2. ASSUME NEW k \in S PROVE k + 1 \in S
  <2> SUFFICES ASSUME k + 1 <= MaxDigits
               PROVE  Leading(digits, n + (k + 1)) = Leading(digits, n) * Ten(k + 1)
    OBVIOUS
  <2>1. k \in Nat /\ k \in 0..MaxDigits
    BY PrecisionAssumption
  <2>2. Leading(digits, n + k) = Leading(digits, n) * Ten(k)
    BY <2>1
  <2>3. Ten(k) \in Nat /\ Ten(k + 1) = 10 * Ten(k) /\ Leading(digits, n) \in Nat
    BY <1>0, <2>1, TenFacts, LeadingType
  <2>4. Digit(digits, n + k + 1) = 0
    BY <1>0, <2>1 DEF Digit, n
  <2>5. Leading(digits, n + (k + 1)) = Leading(digits, n + k) * 10 + 0
    <3>1. n + k \in Nat /\ n + (k + 1) = (n + k) + 1
      BY <1>0, <2>1
    <3> QED BY <3>1, <2>4, LeadingRecursion
  <2> DEFINE v == Leading(digits, n)
             p == Ten(k)
  <2>6. v \in Nat /\ p \in Nat
    BY <2>3
  <2> HIDE DEF v, p
  <2>7. (v * p) * 10 + 0 = v * (10 * p)
    BY <2>6
  <2> QED BY <2>2, <2>3, <2>5, <2>7 DEF v, p
<1>3. S = Nat
  <2> HIDE DEF S
  <2> QED BY <1>1, <1>2, Induction DEF S
<1> QED BY <1>3 DEF n

LEMMA PowersMultiply ==
  ASSUME NEW a \in Nat
  PROVE  \A b \in Nat : a + b <= MaxDigits => Ten(a + b) = Ten(a) * Ten(b)
<1> DEFINE S == {b \in Nat : a + b <= MaxDigits => Ten(a + b) = Ten(a) * Ten(b)}
<1> USE PrecisionAssumption
<1>1. 0 \in S
  <2>1. a <= MaxDigits => Ten(a) \in Nat /\ a + 0 = a
    BY TenFacts
  <2> QED BY <2>1, TenFacts
<1>2. ASSUME NEW b \in S PROVE b + 1 \in S
  <2> SUFFICES ASSUME a + (b + 1) <= MaxDigits
               PROVE  Ten(a + (b + 1)) = Ten(a) * Ten(b + 1)
    OBVIOUS
  <2>1. /\ b \in Nat /\ a + b \in 0..MaxDigits /\ b \in 0..MaxDigits /\ a \in 0..MaxDigits
        /\ a + (b + 1) = (a + b) + 1
    OBVIOUS
  <2>2. Ten(a + b) = Ten(a) * Ten(b)
    BY <2>1
  <2>3. Ten(a + (b + 1)) = 10 * Ten(a + b) /\ Ten(b + 1) = 10 * Ten(b)
    BY <2>1, TenFacts
  <2>4. Ten(a) \in Nat /\ Ten(b) \in Nat
    BY <2>1, TenFacts
  <2>5. \A p, q \in Nat : 10 * (p * q) = p * (10 * q)
    OBVIOUS
  <2> QED BY <2>2, <2>3, <2>4, <2>5
<1>3. S = Nat
  <2> HIDE DEF S
  <2> QED BY <1>1, <1>2, Induction DEF S
<1> QED BY <1>3

LEMMA QuotientIs ==
  ASSUME NEW a \in Nat, NEW b \in Nat \ {0}, NEW q \in Nat, q * b <= a, a < (q + 1) * b
  PROVE  a \div b = q
<1> DEFINE d == a \div b
<1>1. d \in Nat /\ d * b <= a /\ a < (d + 1) * b
  BY SMT
<1> HIDE DEF d
<1>2. \A x, y \in Nat : x <= y => x * b <= y * b
  OBVIOUS
<1>3. ~ d <= q - 1
  <2> SUFFICES ASSUME d <= q - 1 PROVE FALSE
    OBVIOUS
  <2>1. d + 1 \in Nat /\ d + 1 <= q
    BY <1>1
  <2>2. (d + 1) * b <= q * b
    BY <1>2, <2>1
  <2>3. (d + 1) * b \in Nat /\ q * b \in Nat
    BY <1>1
  <2> QED BY <1>1, <2>2, <2>3
<1>4. ~ q <= d - 1
  <2> SUFFICES ASSUME q <= d - 1 PROVE FALSE
    OBVIOUS
  <2>1. q + 1 \in Nat /\ q + 1 <= d
    BY <1>1
  <2>2. (q + 1) * b <= d * b
    BY <1>1, <1>2, <2>1
  <2>3. (q + 1) * b \in Nat /\ d * b \in Nat
    BY <1>1
  <2> QED BY <1>1, <2>2, <2>3
<1>5. d = q
  BY <1>1, <1>3, <1>4
<1> QED BY <1>5 DEF d

\* Fractions of any length are cut off at the digits that are kept, and filled up with
\* zeros where they are shorter; what is kept is less than a second.
THEOREM FractionIsCutOff ==
  ASSUME NEW digits \in Seq(0..9), Len(digits) <= MaxDigits
  PROVE  /\ parse_fraction(digits) = KeptNanos(digits)
         /\ parse_fraction(digits) \in 0..(NanosPerSecond - 1)
<1> DEFINE L == Len(digits)
           v == Leading(digits, L)
           n == Leading(digits, NanoDigits)
<1> USE PrecisionAssumption
<1>1. L \in Nat /\ L <= MaxDigits /\ NanoDigits \in 0..MaxDigits /\ L \in 0..MaxDigits
  OBVIOUS
<1> HIDE DEF L
<1>2. v \in Nat /\ n \in Nat
  BY <1>1, LeadingType
<1>3. NanosPerSecond = Ten(NanoDigits)
  BY DEF NanosPerSecond, Ten
<1>4. Ten(NanoDigits) \in Nat \ {0} /\ Ten(L) \in Nat \ {0}
  BY <1>1, TenFacts
<1>5. KeptNanos(digits) = (v * Ten(NanoDigits)) \div Ten(L)
  BY <1>3 DEF KeptNanos, L, Ten
<1>6. n < Ten(NanoDigits)
  <2>1. Leading(digits, 0) = 0 /\ 0 \in Nat /\ 0 + NanoDigits = NanoDigits
    BY LeadingRecursion
  <2>2. Leading(digits, 0 + NanoDigits) < (Leading(digits, 0) + 1) * Ten(NanoDigits)
    BY <1>1, <2>1, LaterDigits
  <2> QED BY <1>4, <2>1, <2>2
<1>7. CASE L <= NanoDigits
  <2> DEFINE k == NanoDigits - L
  <2>1. k \in Nat /\ k \in 0..MaxDigits /\ L + k = NanoDigits
    BY <1>1, <1>7
  <2> HIDE DEF k
  <2>2. n = v * Ten(k)
    BY <2>1, MissingDigits DEF L
  <2>3. Ten(NanoDigits) = Ten(L) * Ten(k) /\ Ten(k) \in Nat
    BY <1>1, <2>1, PowersMultiply, TenFacts
  <2>4. \A p, q \in Nat : v * (p * q) = (v * q) * p
    BY <1>2
  <2>5. v * Ten(NanoDigits) = n * Ten(L)
    BY <1>4, <2>2, <2>3, <2>4
  <2>6. n * Ten(L) \in Nat /\ n * Ten(L) < (n + 1) * Ten(L)
    BY <1>2, <1>4
  <2>7. (n * Ten(L)) \div Ten(L) = n
    BY <1>2, <1>4, <2>6, QuotientIs
  <2> QED BY <1>2, <1>4, <1>5, <1>3, <1>6, <2>5, <2>7 DEF parse_fraction
<1>8. CASE ~(L <= NanoDigits)
  <2> DEFINE k == L - NanoDigits
  <2>1. k \in Nat /\ k \in 0..MaxDigits /\ NanoDigits + k = L
    BY <1>1, <1>8
  <2> HIDE DEF k
  <2>2. n * Ten(k) <= v /\ v < (n + 1) * Ten(k)
    BY <1>1, <2>1, LaterDigits
  <2>3. Ten(L) = Ten(NanoDigits) * Ten(k) /\ Ten(k) \in Nat
    BY <1>1, <2>1, PowersMultiply, TenFacts
  <2>4. \A x, y, p \in Nat : x <= y => x * p <= y * p
    OBVIOUS
  <2>5. \A x, y \in Nat, p \in Nat \ {0} : x < y => x * p < y * p
    OBVIOUS
  <2>6. n * Ten(k) \in Nat /\ (n + 1) * Ten(k) \in Nat
    BY <1>2, <2>3
  <2>7. /\ (n * Ten(k)) * Ten(NanoDigits) <= v * Ten(NanoDigits)
        /\ v * Ten(NanoDigits) < ((n + 1) * Ten(k)) * Ten(NanoDigits)
    BY <1>2, <1>4, <2>2, <2>4, <2>5, <2>6
  <2>8. \A x, p, q \in Nat : (x * q) * p = x * (p * q)
    OBVIOUS
  <2>9. /\ n * Ten(L) <= v * Ten(NanoDigits)
        /\ v * Ten(NanoDigits) < (n + 1) * Ten(L)
    <3>1. n + 1 \in Nat /\ Ten(NanoDigits) \in Nat
      BY <1>2, <1>4
    <3>2. (n * Ten(k)) * Ten(NanoDigits) = n * Ten(L)
      BY <1>2, <2>3, <2>8, <3>1
    <3>3. ((n + 1) * Ten(k)) * Ten(NanoDigits) = (n + 1) * Ten(L)
      BY <2>3, <2>8, <3>1
    <3> QED BY <2>7, <3>2, <3>3
  <2>10. v * Ten(NanoDigits) \in Nat
    BY <1>2, <1>4
  <2>11. (v * Ten(NanoDigits)) \div Ten(L) = n
    BY <1>2, <1>4, <2>9, <2>10, QuotientIs
  <2> QED BY <1>2, <1>4, <1>5, <1>3, <1>6, <2>11 DEF parse_fraction
<1> QED BY <1>7, <1>8

\* An accepted timestamp of any month names the instant its text says, to the digits
\* that are kept, and its SystemTime is that instant on either side of 1970.
THEOREM TimestampsAreExact == CalendarSpec => []InstantsAreExact
<1>1. NanosPerSecond \in Nat
  BY TenFacts, PrecisionAssumption DEF NanosPerSecond, Ten
<1>2. ASSUME CalendarInv, NamesItsSecond PROVE InstantsAreExact
  <2> SUFFICES ASSUME NEW text \in Texts, accepted(Stamp(text))
               PROVE  NamesItsInstant(Stamp(text)) /\ SystemTimeIsThatInstant(Stamp(text))
    BY DEF InstantsAreExact, NamesItsInstant, SystemTimeIsThatInstant
  <2> DEFINE t == Stamp(text)
  <2>1. t \in StampsHere
    BY TextsAssumption DEF Stamp, StampsHere, Zone
  <2>2. t.fraction \in Seq(0..9) /\ Len(t.fraction) <= MaxDigits
    BY TextsAssumption DEF Stamp
  <2>3. parse_rfc3339(t).seconds = CountedSeconds(t)
    BY <1>2, <2>1 DEF NamesItsSecond
  <2>4. /\ parse_fraction(t.fraction) = KeptNanos(t.fraction)
        /\ parse_fraction(t.fraction) \in 0..(NanosPerSecond - 1)
    BY <2>2, FractionIsCutOff
  <2>5. parse_rfc3339(t).nanos = parse_fraction(t.fraction)
    BY DEF parse_rfc3339
  <2>6. NamesItsInstant(t)
    BY <2>3, <2>4 DEF NamesItsInstant, parse_rfc3339
  <2>7. parse_rfc3339(t).seconds \in Int
    <3>1. /\ t.year = year /\ t.month = month /\ t.day \in Int /\ t.hour \in Int
          /\ t.minute \in Int /\ t.second \in Int
          /\ t.zone.sign \in {1, -1} /\ t.zone.hours \in Int /\ t.zone.minutes \in Int
      BY <2>1 DEF StampsHere
    <3>2. year \in Int /\ month \in 1..12
      BY <1>2, YearsAssumption DEF CalendarInv
    <3>3. days_from_civil(t.year, t.month, t.day) \in Int
      BY <3>1, <3>2, DayOfMonth
    <3>4. parse_offset(t.zone) \in Int
      BY <3>1 DEF parse_offset
    <3> HIDE DEF t
    <3> QED BY <3>1, <3>3, <3>4 DEF parse_rfc3339, SecondsPerDay
  <2> DEFINE s == parse_rfc3339(t).seconds
             f == parse_rfc3339(t).nanos
  <2>8. s \in Int /\ f \in 0..(NanosPerSecond - 1)
    BY <2>4, <2>5, <2>7
  <2>9. unix_nanos(t) = s * NanosPerSecond + f
    BY DEF unix_nanos
  <2> HIDE DEF t, s, f
  <2>10. LET time == unix_instant_to_system_time(s, f)
         IN  /\ time.nanos \in 0..(NanosPerSecond - 1) /\ time.seconds \in Nat
             /\ SignedNanos(time) = s * NanosPerSecond + f
    BY <1>1, <2>8, SystemTimeIsExact
  <2>11. SystemTimeIsThatInstant(t)
    BY <2>9, <2>10 DEF SystemTimeIsThatInstant, s, f
  <2> QED BY <2>6, <2>11 DEF t
<1>3. CalendarSpec => []NamesItsSecond
  BY TimestampsNameTheirSecond
<1> QED BY <1>2, <1>3, CalendarAlways, PTL

===============================================================================

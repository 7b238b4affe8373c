-------------------------- MODULE ChunkedUploadProofs --------------------------
(***************************************************************************)
(* Proofs about ChunkedUpload, for any chunk size, any declared sizes and  *)
(* any source.                                                             *)
(***************************************************************************)
EXTENDS ChunkedUpload, Integers, SequenceTheorems, TLAPS

-------------------------------------------------------------------------------
(* Runs of consecutive bytes *)

\* s holds the bytes of the source that follow the first k.
After(s, k) == s \in Bytes /\ \A i \in 1..Len(s) : s[i] = k + i

\* Cutting a run gives a run.
LEMMA SubSeqAfter ==
  ASSUME NEW s, NEW k \in Int, After(s, k),
         NEW m \in Nat, NEW n \in Nat, m <= n, n <= Len(s)
  PROVE  After(SubSeq(s, m + 1, n), k + m) /\ Len(SubSeq(s, m + 1, n)) = n - m
<1>1. s \in Seq(Nat) /\ Len(s) \in Nat
  BY DEF After, Bytes
<1>2. \A i \in (m + 1)..n : i \in 1..Len(s)
  BY <1>1
<1>3. \A i \in (m + 1)..n : s[i] \in Nat
  BY <1>1, <1>2, ElementOfSeq
<1>4. /\ SubSeq(s, m + 1, n) \in Seq(Nat)
      /\ Len(SubSeq(s, m + 1, n)) = IF m + 1 <= n THEN n - (m + 1) + 1 ELSE 0
      /\ \A i \in 1..(n - (m + 1) + 1) : SubSeq(s, m + 1, n)[i] = s[m + 1 + i - 1]
  BY <1>3, SubSeqProperties
<1>5. Len(SubSeq(s, m + 1, n)) = n - m
  BY <1>4
<1>6. ASSUME NEW i \in 1..Len(SubSeq(s, m + 1, n))
      PROVE  SubSeq(s, m + 1, n)[i] = (k + m) + i
  <2>1. i \in 1..(n - (m + 1) + 1) /\ m + 1 + i - 1 = m + i /\ m + i \in 1..Len(s)
    BY <1>1, <1>5
  <2>2. SubSeq(s, m + 1, n)[i] = s[m + i]
    BY <1>4, <2>1
  <2>3. s[m + i] = k + (m + i)
    BY <2>1 DEF After
  <2> QED BY <2>1, <2>2, <2>3
<1> QED BY <1>4, <1>5, <1>6 DEF After, Bytes

\* Putting two runs together that meet gives a run.
LEMMA ConcatAfter ==
  ASSUME NEW s, NEW t, NEW k \in Int, After(s, k), After(t, k + Len(s))
  PROVE  After(s \o t, k) /\ Len(s \o t) = Len(s) + Len(t)
<1>1. s \in Seq(Nat) /\ t \in Seq(Nat) /\ Len(s) \in Nat /\ Len(t) \in Nat
  BY DEF After, Bytes
<1>2. /\ s \o t \in Seq(Nat) /\ Len(s \o t) = Len(s) + Len(t)
      /\ \A i \in 1..(Len(s) + Len(t)) :
           (s \o t)[i] = IF i <= Len(s) THEN s[i] ELSE t[i - Len(s)]
  BY <1>1, ConcatProperties
<1>3. ASSUME NEW i \in 1..Len(s \o t) PROVE (s \o t)[i] = k + i
  <2>1. i \in Int /\ i \in 1..(Len(s) + Len(t))
    BY <1>1, <1>2
  <2>2. CASE i <= Len(s)
    <3>1. i \in 1..Len(s)
      BY <1>1, <2>1, <2>2
    <3> QED BY <1>2, <2>1, <2>2, <3>1 DEF After
  <2>3. CASE ~(i <= Len(s))
    <3>1. i - Len(s) \in 1..Len(t)
      BY <1>1, <2>1, <2>3
    <3>2. t[i - Len(s)] = (k + Len(s)) + (i - Len(s))
      BY <3>1 DEF After
    <3>3. (s \o t)[i] = t[i - Len(s)]
      BY <1>2, <2>1, <2>3
    <3> QED BY <1>1, <2>1, <3>2, <3>3
  <2> QED BY <2>2, <2>3
<1> QED BY <1>2, <1>3 DEF After, Bytes

\* The first n bytes of a run.
LEMMA PrefixAfter ==
  ASSUME NEW s, NEW k \in Int, After(s, k), NEW n \in Nat, n <= Len(s)
  PROVE  After(SubSeq(s, 1, n), k) /\ Len(SubSeq(s, 1, n)) = n
<1>1. 0 \in Nat /\ 0 <= n /\ 0 + 1 = 1 /\ k + 0 = k /\ n - 0 = n
  OBVIOUS
<1>2. After(SubSeq(s, 0 + 1, n), k + 0) /\ Len(SubSeq(s, 0 + 1, n)) = n - 0
  BY <1>1, SubSeqAfter
<1> QED BY <1>1, <1>2

LEMMA EmptyAfter ==
  ASSUME NEW k \in Int
  PROVE  After(<<>>, k) /\ Len(<<>>) = 0
BY DEF After, Bytes

\* A run from the beginning of the source is given by its length.
LEMMA AfterNothing ==
  ASSUME NEW s, After(s, 0)
  PROVE  s = Positions(Len(s))
<1>1. s \in Seq(Nat) /\ Len(s) \in Nat
  BY DEF After, Bytes
<1>2. \A i \in 1..Len(s) : s[i] = i
  BY DEF After
<1>3. DOMAIN s = 1..Len(s) /\ s = [i \in DOMAIN s |-> s[i]]
  BY <1>1, LenProperties
<1> QED BY <1>2, <1>3 DEF Positions

\* An item of the source continues the ones before it.
LEMMA ItemAfter ==
  ASSUME NEW k \in Nat, NEW n \in Nat
  PROVE  After([i \in 1..n |-> k + i], k) /\ Len([i \in 1..n |-> k + i]) = n
BY DEF After, Bytes

-------------------------------------------------------------------------------
(* The data: what the client holds continues what it sent *)

\* Every byte read is sent, in the buffer or in the tail of pending, in that order.
DataInv ==
  /\ pending_offset \in Nat /\ total_written \in Nat /\ read \in Nat
  /\ After(received, 0) /\ Len(received) = total_written
  /\ After(buffer, total_written) /\ Len(buffer) <= DEFAULT_CHUNK_SIZE
  /\ After(pending, read - Len(pending)) /\ pending_offset <= Len(pending)
  /\ pending = <<>> \/ pending_offset < Len(pending)
  /\ total_written + Len(buffer) + (Len(pending) - pending_offset) = read

LEMMA DataFacts ==
  ASSUME DataInv
  PROVE  /\ Len(received) \in Nat /\ Len(buffer) \in Nat /\ Len(pending) \in Nat
         /\ DEFAULT_CHUNK_SIZE \in Nat \ {0}
         /\ unsent_len \in Nat /\ total_written + unsent_len = read
         /\ buffer \in Bytes /\ pending \in Bytes /\ received \in Bytes
         /\ (buffer = <<>> <=> Len(buffer) = 0)
<1>1. buffer \in Seq(Nat) /\ pending \in Seq(Nat) /\ received \in Seq(Nat)
  BY DEF DataInv, After, Bytes
<1>2. Len(received) \in Nat /\ Len(buffer) \in Nat /\ Len(pending) \in Nat
  BY <1>1, LenProperties
<1>3. buffer = <<>> <=> Len(buffer) = 0
  BY <1>1, EmptySeq
<1>4. unsent_len \in Nat /\ total_written + unsent_len = read
  BY <1>2 DEF DataInv, unsent_len
<1> QED BY <1>1, <1>2, <1>3, <1>4, ChunkAssumption DEF Bytes

LEMMA IngestEffect ==
  ASSUME DataInv, ~has_pending, NEW n \in Nat, read' = read + n,
         Ingest([i \in 1..n |-> read + i])
  PROVE  /\ pending_offset' \in Nat /\ pending_offset' <= Len(pending')
         /\ After(buffer', total_written) /\ Len(buffer') <= DEFAULT_CHUNK_SIZE
         /\ After(pending', read' - Len(pending'))
         /\ pending' = <<>> \/ pending_offset' < Len(pending')
         /\ total_written + Len(buffer') + (Len(pending') - pending_offset') = read'
<1> DEFINE piece == [i \in 1..n |-> read + i]
           space_left == DEFAULT_CHUNK_SIZE - Len(buffer)
<1>1. After(piece, read) /\ Len(piece) = n
  BY ItemAfter DEF DataInv
<1>2. /\ n \in Nat /\ total_written \in Nat /\ read \in Nat /\ Len(buffer) \in Nat
      /\ Len(pending) \in Nat /\ pending_offset \in Nat /\ space_left \in Nat
      /\ Len(buffer) + space_left = DEFAULT_CHUNK_SIZE
      /\ DEFAULT_CHUNK_SIZE \in Nat
  BY DataFacts DEF DataInv
<1>3. /\ pending = <<>> /\ Len(pending) = 0 /\ pending_offset = 0
      /\ total_written + Len(buffer) = read
  <2>1. pending = <<>>
    BY DEF has_pending, DataInv
  <2>2. Len(pending) = 0
    BY <2>1, EmptyAfter
  <2> QED BY <1>2, <2>1, <2>2 DEF DataInv
<1>4. After(buffer, total_written)
  BY DEF DataInv
<1>5. read' - n = read /\ read' \in Nat
  BY <1>2
<1>6. /\ Len(piece) <= space_left =>
           buffer' = buffer \o piece /\ pending' = pending /\ pending_offset' = pending_offset
      /\ ~(Len(piece) <= space_left) =>
           /\ buffer' = buffer \o SubSeq(piece, 1, space_left)
           /\ pending' = piece /\ pending_offset' = space_left
  BY DEF Ingest
<1> HIDE DEF piece, space_left
<1>7. CASE Len(piece) <= space_left
  <2>1. buffer' = buffer \o piece /\ pending' = pending /\ pending_offset' = pending_offset
    BY <1>6, <1>7
  <2>2. After(piece, total_written + Len(buffer)) /\ total_written \in Int
    BY <1>1, <1>2, <1>3
  <2>3. After(buffer \o piece, total_written)
        /\ Len(buffer \o piece) = Len(buffer) + Len(piece)
    BY <1>4, <2>2, ConcatAfter
  <2>4. After(buffer', total_written) /\ Len(buffer') = Len(buffer) + n
    BY <1>1, <2>1, <2>3
  <2>5. After(pending', read' - Len(pending'))
    BY <1>3, <1>5, <2>1, EmptyAfter
  <2>6. /\ pending_offset' \in Nat /\ pending_offset' <= Len(pending')
        /\ Len(pending') - pending_offset' = 0
    BY <1>2, <1>3, <2>1
  <2>7. Len(buffer') <= DEFAULT_CHUNK_SIZE
        /\ total_written + Len(buffer') + (Len(pending') - pending_offset') = read'
    BY <1>1, <1>2, <1>3, <1>5, <1>7, <2>4, <2>6
  <2> QED BY <1>3, <2>1, <2>4, <2>5, <2>6, <2>7
<1>8. CASE ~(Len(piece) <= space_left)
  <2>1. /\ buffer' = buffer \o SubSeq(piece, 1, space_left)
        /\ pending' = piece /\ pending_offset' = space_left
    BY <1>6, <1>8
  <2>2. space_left <= Len(piece) /\ Len(piece) = n /\ read \in Int
    BY <1>1, <1>2, <1>8
  <2>3. /\ After(SubSeq(piece, 1, space_left), read)
        /\ Len(SubSeq(piece, 1, space_left)) = space_left
    BY <1>1, <1>2, <2>2, PrefixAfter
  <2>4. After(SubSeq(piece, 1, space_left), total_written + Len(buffer))
        /\ total_written \in Int
    BY <1>2, <1>3, <2>3
  <2>5. /\ After(buffer', total_written)
        /\ Len(buffer') = Len(buffer) + Len(SubSeq(piece, 1, space_left))
    BY <1>4, <2>1, <2>4, ConcatAfter
  <2>6. After(pending', read' - Len(pending')) /\ space_left < Len(piece)
    <3>1. read' - Len(pending') = read
      BY <1>1, <1>5, <2>1
    <3> QED BY <1>1, <1>2, <1>8, <2>1, <3>1
  <2>7. /\ pending_offset' \in Nat /\ pending_offset' <= Len(pending')
        /\ Len(pending') = n /\ Len(buffer') = Len(buffer) + space_left
        /\ pending_offset' = space_left
    BY <1>2, <2>1, <2>2, <2>3, <2>5
  <2>8. Len(buffer') <= DEFAULT_CHUNK_SIZE
        /\ total_written + Len(buffer') + (Len(pending') - pending_offset') = read'
    BY <1>2, <1>3, <2>7
  <2> QED BY <2>1, <2>5, <2>6, <2>7, <2>8
<1> QED BY <1>7, <1>8

LEMMA DrainEffect ==
  ASSUME DataInv, has_pending, DrainPending, read' = read
  PROVE  /\ pending_offset' \in Nat /\ pending_offset' <= Len(pending')
         /\ After(buffer', total_written) /\ Len(buffer') <= DEFAULT_CHUNK_SIZE
         /\ After(pending', read' - Len(pending'))
         /\ pending' = <<>> \/ pending_offset' < Len(pending')
         /\ total_written + Len(buffer') + (Len(pending') - pending_offset') = read'
<1> DEFINE take == Smaller(DEFAULT_CHUNK_SIZE - Len(buffer), Len(pending) - pending_offset)
           end == pending_offset + take
<1>1. /\ total_written \in Nat /\ read \in Nat /\ Len(buffer) \in Nat
      /\ Len(pending) \in Nat /\ pending_offset \in Nat
      /\ DEFAULT_CHUNK_SIZE - Len(buffer) \in Nat
      /\ Len(pending) - pending_offset \in Nat
      /\ After(buffer, total_written) /\ After(pending, read - Len(pending))
      /\ total_written + Len(buffer) + (Len(pending) - pending_offset) = read
  BY DataFacts DEF DataInv
<1>2. /\ take \in Nat /\ take <= DEFAULT_CHUNK_SIZE - Len(buffer)
      /\ take <= Len(pending) - pending_offset
  BY <1>1, DataFacts DEF Smaller
<1>3. /\ buffer' = buffer \o SubSeq(pending, pending_offset + 1, end)
      /\ pending' = IF end = Len(pending) THEN <<>> ELSE pending
      /\ pending_offset' = IF end = Len(pending) THEN 0 ELSE end
  BY DEF DrainPending
<1> HIDE DEF take
<1>4. end \in Nat /\ pending_offset <= end /\ end <= Len(pending)
  BY <1>1, <1>2
<1>5. /\ After(SubSeq(pending, pending_offset + 1, end),
               (read - Len(pending)) + pending_offset)
      /\ Len(SubSeq(pending, pending_offset + 1, end)) = end - pending_offset
  BY <1>1, <1>4, SubSeqAfter
<1>6. (read - Len(pending)) + pending_offset = total_written + Len(buffer)
  BY <1>1
<1>7. After(buffer', total_written) /\ Len(buffer') = Len(buffer) + take
  BY <1>1, <1>2, <1>3, <1>5, <1>6, ConcatAfter
<1>10. /\ Len(buffer') <= DEFAULT_CHUNK_SIZE
       /\ total_written + Len(buffer') + (Len(pending) - end) = read'
  <2>1. Len(buffer) + take <= DEFAULT_CHUNK_SIZE
    BY <1>1, <1>2, DataFacts
  <2> QED BY <1>1, <1>2, <1>7, <2>1
<1>8. CASE end = Len(pending)
  <2>1. pending' = <<>> /\ pending_offset' = 0 /\ Len(pending') = 0
    BY <1>3, <1>8, EmptyAfter
  <2>2. After(pending', read' - Len(pending'))
    BY <1>1, <2>1, EmptyAfter
  <2>3. Len(pending') - pending_offset' = Len(pending) - end
    BY <1>1, <1>8, <2>1
  <2> QED BY <1>10, <1>7, <2>1, <2>2, <2>3
<1>9. CASE end # Len(pending)
  <2>1. pending' = pending /\ pending_offset' = end
    BY <1>3, <1>9
  <2>2. After(pending', read' - Len(pending'))
    BY <1>1, <2>1
  <2>3. end < Len(pending)
    BY <1>1, <1>4, <1>9
  <2> QED BY <1>10, <1>4, <1>7, <2>1, <2>2, <2>3
<1> QED BY <1>8, <1>9

\* Sending the whole buffer.
LEMMA SendEffect ==
  ASSUME DataInv, NextRequest(buffer), buffer' = <<>>,
         UNCHANGED <<pending, pending_offset, read>>
  PROVE  DataInv' /\ total_written' = total_written + Len(buffer)
<1>1. /\ total_written \in Nat /\ read \in Nat /\ Len(buffer) \in Nat
      /\ After(received, 0) /\ Len(received) = total_written
      /\ After(buffer, total_written)
      /\ After(pending, read - Len(pending)) /\ Len(pending) \in Nat
      /\ pending_offset \in Nat /\ pending_offset <= Len(pending)
      /\ pending = <<>> \/ pending_offset < Len(pending)
      /\ total_written + Len(buffer) + (Len(pending) - pending_offset) = read
      /\ DEFAULT_CHUNK_SIZE \in Nat
  BY DataFacts DEF DataInv
<1>2. received' = received \o buffer /\ total_written' = total_written + Len(buffer)
  BY DEF NextRequest
<1>3. After(received', 0) /\ Len(received') = total_written + Len(buffer)
  BY <1>1, <1>2, ConcatAfter
<1>4. After(buffer', total_written') /\ Len(buffer') = 0
  BY <1>1, <1>2, EmptyAfter
<1> QED BY <1>1, <1>2, <1>3, <1>4 DEF DataInv

\* A full buffer is one chunk: sending the chunk sends all of it.
LEMMA FullBuffer ==
  ASSUME DataInv, Len(buffer) >= DEFAULT_CHUNK_SIZE
  PROVE  /\ Len(buffer) = DEFAULT_CHUNK_SIZE
         /\ SubSeq(buffer, 1, DEFAULT_CHUNK_SIZE) = buffer
         /\ SubSeq(buffer, DEFAULT_CHUNK_SIZE + 1, Len(buffer)) = <<>>
<1>1. Len(buffer) = DEFAULT_CHUNK_SIZE /\ buffer \in Seq(Nat)
      /\ DEFAULT_CHUNK_SIZE \in Nat
  BY DataFacts DEF DataInv, Bytes
<1>2. \A i \in 1..Len(buffer) : buffer[i] \in Nat
  BY <1>1, ElementOfSeq
<1>3. /\ SubSeq(buffer, 1, Len(buffer)) \in Seq(Nat)
      /\ Len(SubSeq(buffer, 1, Len(buffer))) = Len(buffer)
      /\ \A i \in 1..Len(buffer) : SubSeq(buffer, 1, Len(buffer))[i] = buffer[i]
  <2>1. /\ SubSeq(buffer, 1, Len(buffer)) \in Seq(Nat)
        /\ Len(SubSeq(buffer, 1, Len(buffer)))
             = IF 1 <= Len(buffer) THEN Len(buffer) - 1 + 1 ELSE 0
        /\ \A i \in 1..(Len(buffer) - 1 + 1) :
             SubSeq(buffer, 1, Len(buffer))[i] = buffer[1 + i - 1]
    BY <1>1, <1>2, SubSeqProperties
  <2>2. Len(buffer) - 1 + 1 = Len(buffer) /\ \A i \in 1..Len(buffer) : 1 + i - 1 = i
    BY <1>1
  <2> QED BY <1>1, <2>1, <2>2
<1>4. SubSeq(buffer, 1, Len(buffer)) = buffer
  BY <1>1, <1>3, SeqEqual
<1>5. SubSeq(buffer, DEFAULT_CHUNK_SIZE + 1, Len(buffer)) = <<>>
  BY <1>1, SubSeqEmpty
<1> QED BY <1>1, <1>4, <1>5

LEMMA DataInit == Init => DataInv
<1> SUFFICES ASSUME Init PROVE DataInv
  OBVIOUS
<1>1. /\ buffer = <<>> /\ pending = <<>> /\ received = <<>>
      /\ pending_offset = 0 /\ total_written = 0 /\ read = 0
  BY DEF Init
<1>2. /\ Len(buffer) = 0 /\ Len(pending) = 0 /\ Len(received) = 0
      /\ After(buffer, 0) /\ After(pending, 0) /\ After(received, 0)
  BY <1>1, EmptyAfter
<1> QED BY <1>1, <1>2, ChunkAssumption DEF DataInv

\* The steps of the call and of the server that leave the stream as it is.
Beside == OpenStream \/ RefuseSize \/ Return \/ Cancel \/ Over \/ Confirm \/ Refuse

LEMMA BesideEffect ==
  ASSUME Beside \/ UNCHANGED vars
  PROVE  UNCHANGED <<size_bytes, held, sent, source_exhausted, error_slot, ended,
                     chunks, published>>
<1> USE DEF vars, call, held, sent, chunks
<1>1. CASE OpenStream BY <1>1 DEF OpenStream
<1>2. CASE RefuseSize BY <1>2 DEF RefuseSize
<1>3. CASE Return BY <1>3 DEF Return
<1>4. CASE Cancel BY <1>4 DEF Cancel
<1>5. CASE Over BY <1>5 DEF Over
<1>6. CASE Confirm BY <1>6 DEF Confirm
<1>7. CASE Refuse BY <1>7 DEF Refuse
<1>8. CASE UNCHANGED vars BY <1>8
<1> QED BY <1>1, <1>2, <1>3, <1>4, <1>5, <1>6, <1>7, <1>8 DEF Beside

\* Without a byte read, moved or sent nothing of DataInv changes.
LEMMA DataKept ==
  ASSUME DataInv, UNCHANGED <<held, total_written, received, read>>
  PROVE  DataInv'
BY DEF DataInv, held

LEMMA SendFullChunkEffect ==
  ASSUME DataInv, SendFullChunk
  PROVE  /\ NextRequest(buffer) /\ buffer' = <<>> /\ Len(buffer) = DEFAULT_CHUNK_SIZE
         /\ UNCHANGED <<pending, pending_offset, read>>
<1>1. Len(buffer) >= DEFAULT_CHUNK_SIZE
  BY DEF SendFullChunk, full_chunk
<1> QED BY <1>1, FullBuffer DEF SendFullChunk, chunks

LEMMA DataStep == DataInv /\ [Next]_vars => DataInv'
<1> SUFFICES ASSUME DataInv, [Next]_vars PROVE DataInv'
  OBVIOUS
<1>1. CASE Beside \/ UNCHANGED vars
  BY <1>1, BesideEffect, DataKept DEF sent, chunks
<1>2. CASE Publish \/ RefuseOvershoot \/ PullEnd \/ PullError \/ EndStream
  <2>1. UNCHANGED <<held, total_written, received, read>>
    BY <1>2 DEF Publish, RefuseOvershoot, PullEnd, PullError, EndStream, sent, chunks
  <2> QED BY <2>1, DataKept
<1>3. CASE SendFullChunk
  BY <1>3, SendFullChunkEffect, SendEffect
<1>4. CASE Flush
  BY <1>4, SendEffect DEF Flush, chunks
<1>5. CASE Drain
  <2>1. has_pending /\ DrainPending /\ read' = read
    BY <1>5 DEF Drain, chunks
  <2>2. total_written' = total_written /\ received' = received
    BY <1>5 DEF Drain, sent
  <2> QED BY <2>1, <2>2, DrainEffect DEF DataInv
<1>6. CASE PullItem
  <2>1. ~has_pending /\ total_written' = total_written /\ received' = received
    BY <1>6 DEF PullItem, Pulls, sent
  <2>2. PICK n \in 0..MaxPiece :
          Ingest([i \in 1..n |-> read + i]) /\ read' = read + n
    BY <1>6 DEF PullItem
  <2>3. n \in Nat
    BY SourceAssumption
  <2>4. read' \in Nat
    BY <2>2, <2>3 DEF DataInv
  <2> QED BY <2>1, <2>2, <2>3, <2>4, IngestEffect DEF DataInv
<1> QED
  BY <1>1, <1>2, <1>3, <1>4, <1>5, <1>6 DEF Next, Rechunk, Beside

\* The bytes sent, buffered and pending are the source's, in order.
THEOREM DataInvariant == Spec => []DataInv
BY DataInit, DataStep, PTL DEF Spec

\* No byte of the source is lost, repeated or moved, however it was split.
THEOREM NoByteLost == Spec => []BytesStayInOrder
<1>1. DataInv => BytesStayInOrder
  <2> SUFFICES ASSUME DataInv PROVE BytesStayInOrder
    OBVIOUS
  <2> DEFINE tail == SubSeq(pending, pending_offset + 1, Len(pending))
  <2>1. /\ After(received, 0) /\ Len(received) = total_written
        /\ After(buffer, total_written) /\ After(pending, read - Len(pending))
        /\ total_written + Len(buffer) + (Len(pending) - pending_offset) = read
        /\ pending_offset \in Nat /\ pending_offset <= Len(pending)
        /\ total_written \in Nat /\ read \in Nat
        /\ Len(pending) \in Nat /\ Len(buffer) \in Nat
    BY DataFacts DEF DataInv
  <2>2. /\ (read - Len(pending)) + pending_offset = 0 + (total_written + Len(buffer))
        /\ read - Len(pending) \in Int /\ Len(pending) <= Len(pending)
        /\ 0 + total_written = total_written
    BY <2>1
  <2>3. /\ After(tail, (read - Len(pending)) + pending_offset)
        /\ Len(tail) = Len(pending) - pending_offset
    BY <2>1, <2>2, SubSeqAfter
  <2> HIDE DEF tail
  <2>4. After(received \o buffer, 0) /\ Len(received \o buffer) = total_written + Len(buffer)
    BY <2>1, <2>2, ConcatAfter
  <2>5. /\ After((received \o buffer) \o tail, 0)
        /\ Len((received \o buffer) \o tail) = total_written + Len(buffer) + Len(tail)
    <3>1. 0 + Len(received \o buffer) = (read - Len(pending)) + pending_offset
          /\ 0 \in Int
      BY <2>1, <2>2, <2>4
    <3>2. After(tail, 0 + Len(received \o buffer))
      BY <2>3, <3>1
    <3>3. /\ After((received \o buffer) \o tail, 0)
          /\ Len((received \o buffer) \o tail) = Len(received \o buffer) + Len(tail)
      BY <2>4, <3>1, <3>2, ConcatAfter
    <3> QED BY <2>4, <3>3
  <2>6. Len((received \o buffer) \o tail) = read
    BY <2>1, <2>3, <2>5
  <2> QED BY <2>5, <2>6, AfterNothing DEF BytesStayInOrder, tail
<1> QED BY <1>1, DataInvariant, PTL

-------------------------------------------------------------------------------
(* The verdict: who may still say that the upload failed *)

\* Every declared byte is with the server.
whole == wrote_any /\ total_written = size_bytes

\* Once the server has the file, the loop has nothing left that could fail; and a
\* failure of the source was weighed against everything that had been read.
VerdictInv ==
  /\ error_slot # "none" => ended
  /\ wrote_any <=> messages # <<>>
  /\ whole => source_exhausted /\ buffer = <<>> /\ ~has_pending /\ error_slot = "none"
  /\ published # <<>> => whole /\ published = <<received>>
  /\ failed => \/ /\ source_exhausted /\ error_slot = "none"
                  /\ size_bytes > 0 /\ read = size_bytes
               \/ ended /\ error_slot = "io" /\ ~(size_bytes > 0 /\ read = size_bytes)

LEMMA VerdictInit == Init => VerdictInv
BY DEF Init, VerdictInv, whole

LEMMA VerdictKept ==
  ASSUME VerdictInv, UNCHANGED <<size_bytes, held, sent, source_exhausted, error_slot,
                                 ended, chunks, published>>
  PROVE  VerdictInv'
BY DEF VerdictInv, whole, has_pending, held, sent, chunks

\* A request that leaves the client without bytes keeps the verdict, if it does not
\* complete the file before the source has ended.
LEMMA VerdictSent ==
  ASSUME VerdictInv, DataInv, Streaming, ~whole, NextRequest(buffer), buffer' = <<>>,
         UNCHANGED <<size_bytes, pending, pending_offset, source_exhausted, error_slot,
                     ended, chunks, published>>,
         total_written + Len(buffer) = size_bytes => source_exhausted /\ ~has_pending
  PROVE  VerdictInv'
<1>1. error_slot = "none" /\ published = <<>>
  BY DEF VerdictInv, Streaming
<1>2. total_written' = total_written + Len(buffer) /\ wrote_any' = TRUE
  BY DEF NextRequest
<1>3. messages' # <<>>
  <2>1. messages' = Append(messages, [len |-> Len(buffer), metadata |-> metadata])
    BY DEF NextRequest
  <2> QED BY <2>1
<1>4. whole' => source_exhausted' /\ ~has_pending'
  BY <1>2 DEF whole, has_pending
<1>5. UNCHANGED <<failed, read, size_bytes, source_exhausted, error_slot, ended,
                  published>>
  BY DEF chunks
<1> QED BY <1>1, <1>2, <1>3, <1>4, <1>5 DEF VerdictInv

LEMMA VerdictStep == VerdictInv /\ DataInv /\ [Next]_vars => VerdictInv'
<1> SUFFICES ASSUME VerdictInv, DataInv, [Next]_vars PROVE VerdictInv'
  OBVIOUS
<1>1. CASE Beside \/ UNCHANGED vars
  BY <1>1, BesideEffect, VerdictKept
<1>2. CASE Publish
  <2>1. /\ messages # <<>> /\ Len(received) = size_bytes /\ published' = <<received>>
        /\ UNCHANGED <<size_bytes, held, sent, source_exhausted, error_slot, ended, chunks>>
    BY <1>2 DEF Publish, call
  <2>2. whole
    BY <2>1 DEF whole, VerdictInv, DataInv
  <2> QED BY <2>1, <2>2 DEF VerdictInv, whole, has_pending, held, sent, chunks
<1>3. CASE RefuseOvershoot
  <2>1. /\ Streaming /\ total_written + unsent_len > size_bytes
        /\ error_slot' = "validation" /\ ended' = TRUE
        /\ UNCHANGED <<size_bytes, held, sent, source_exhausted, chunks, published>>
    BY <1>3 DEF RefuseOvershoot, overshoots, RecordError, call
  <2>2. ~(read = size_bytes)
    BY <2>1, DataFacts DEF DataInv
  <2>3. ~whole
    <3> SUFFICES ASSUME whole PROVE FALSE
      OBVIOUS
    <3>1. buffer = <<>> /\ ~has_pending /\ total_written = size_bytes
      BY DEF VerdictInv, whole
    <3>2. unsent_len = 0
      BY <3>1, DataFacts DEF unsent_len, has_pending, DataInv
    <3> QED BY <2>1, <2>2, <3>1, <3>2, DataFacts DEF DataInv
  <2>4. published = <<>>
    BY <2>3 DEF VerdictInv
  <2>5. ~failed
    BY <2>1, <2>2 DEF VerdictInv, Streaming
  <2> QED BY <2>1, <2>3, <2>4, <2>5 DEF VerdictInv, whole, has_pending, held, sent, chunks
<1>4. CASE SendFullChunk
  <2>1. /\ Streaming /\ ~overshoots /\ full_chunk
        /\ UNCHANGED <<size_bytes, source_exhausted, error_slot, ended, chunks, published>>
    BY <1>4 DEF SendFullChunk, call
  <2>2. /\ NextRequest(buffer) /\ buffer' = <<>> /\ Len(buffer) = DEFAULT_CHUNK_SIZE
        /\ UNCHANGED <<pending, pending_offset>>
    BY <1>4, SendFullChunkEffect
  <2>3. ~whole
    <3>1. buffer # <<>>
      BY <2>2, DataFacts
    <3> QED BY <3>1 DEF VerdictInv
  <2>4. total_written + Len(buffer) = size_bytes => source_exhausted /\ ~has_pending
    <3> SUFFICES ASSUME total_written + Len(buffer) = size_bytes
                 PROVE  source_exhausted /\ ~has_pending
      OBVIOUS
    <3>1. source_exhausted
      BY <2>1, <2>2 DEF full_chunk, completes_the_file
    <3>2. ~(total_written + (Len(buffer) + (Len(pending) - pending_offset)) > size_bytes)
      BY <2>1 DEF overshoots, unsent_len
    <3>3. ~(pending_offset < Len(pending))
      BY <3>2, DataFacts DEF DataInv
    <3> QED BY <3>1, <3>3 DEF has_pending
  <2> QED BY <2>1, <2>2, <2>3, <2>4, VerdictSent
<1>5. CASE Drain
  <2>1. /\ Streaming /\ has_pending
        /\ UNCHANGED <<size_bytes, sent, source_exhausted, error_slot, ended, chunks,
                       published>>
    BY <1>5 DEF Drain, call
  <2>2. ~whole /\ published = <<>>
    BY <2>1 DEF VerdictInv
  <2> QED BY <2>1, <2>2 DEF VerdictInv, whole, sent, chunks
<1>6. CASE PullItem
  <2>1. /\ Streaming /\ ~source_exhausted /\ failed' = failed
        /\ UNCHANGED <<size_bytes, sent, source_exhausted, error_slot, ended, published>>
    BY <1>6 DEF PullItem, Pulls, call
  <2>2. ~whole /\ published = <<>> /\ ~failed
    BY <2>1 DEF VerdictInv, Streaming
  <2> QED BY <2>1, <2>2 DEF VerdictInv, whole, sent
<1>7. CASE PullEnd
  <2>1. /\ Streaming /\ ~source_exhausted /\ source_exhausted' = TRUE
        /\ UNCHANGED <<size_bytes, held, sent, error_slot, ended, chunks, published>>
    BY <1>7 DEF PullEnd, Pulls, call
  <2> QED BY <2>1 DEF VerdictInv, whole, has_pending, held, sent, chunks
<1>8. CASE PullError
  <2>1. /\ Streaming /\ ~source_exhausted
        /\ UNCHANGED <<size_bytes, held, sent, read, published>>
    BY <1>8 DEF PullError, Pulls, call
  <2>2. ~whole /\ published = <<>> /\ error_slot = "none"
    BY <2>1 DEF VerdictInv, Streaming
  <2>3. every_declared_byte <=> size_bytes > 0 /\ read = size_bytes
    BY DataFacts DEF every_declared_byte
  <2>4. CASE every_declared_byte
    <3>1. source_exhausted' = TRUE /\ UNCHANGED <<error_slot, ended>>
      BY <1>8, <2>4 DEF PullError
    <3> QED BY <2>1, <2>2, <2>3, <2>4, <3>1 DEF VerdictInv, whole, sent
  <2>5. CASE ~every_declared_byte
    <3>1. error_slot' = "io" /\ ended' = TRUE /\ source_exhausted' = source_exhausted
      BY <1>8, <2>5 DEF PullError, RecordError
    <3> QED BY <2>1, <2>2, <2>3, <2>5, <3>1 DEF VerdictInv, whole, sent
  <2> QED BY <2>4, <2>5
<1>9. CASE Flush
  <2>1. /\ Streaming /\ ~has_pending /\ source_exhausted /\ (buffer # <<>> \/ ~wrote_any)
        /\ NextRequest(buffer) /\ buffer' = <<>>
        /\ UNCHANGED <<size_bytes, pending, pending_offset, source_exhausted, error_slot,
                       ended, chunks, published>>
    BY <1>9 DEF Flush, SourceIsOver, something_to_flush, call
  <2>2. ~whole
    BY <2>1 DEF VerdictInv, whole
  <2> QED BY <2>1, <2>2, VerdictSent
<1>10. CASE EndStream
  <2>1. /\ Streaming /\ ~has_pending /\ buffer = <<>> /\ wrote_any
        /\ ended' = TRUE
        /\ (total_written = size_bytes => error_slot' = error_slot)
        /\ UNCHANGED <<size_bytes, held, sent, source_exhausted, chunks, published>>
    BY <1>10 DEF EndStream, SourceIsOver, something_to_flush, RecordError, call
  <2>2. total_written = read
    BY <2>1, DataFacts DEF DataInv, has_pending
  <2>3. whole <=> total_written = size_bytes
    BY <2>1 DEF whole
  <2> QED BY <2>1, <2>2, <2>3 DEF VerdictInv, Streaming, whole, has_pending, held, sent, chunks
<1> QED
  BY <1>1, <1>2, <1>3, <1>4, <1>5, <1>6, <1>7, <1>8, <1>9, <1>10
  DEF Next, Rechunk, Beside

\* What can still fail once the server has the file: nothing.
THEOREM VerdictInvariant == Spec => []VerdictInv
<1>1. VerdictInv /\ DataInv /\ [Next]_vars => VerdictInv'
  BY VerdictStep
<1> QED BY <1>1, VerdictInit, DataInvariant, PTL DEF Spec

\* What is published is the whole source, and no failure of a source that yielded
\* nothing goes unreported.
THEOREM OnlyTheSource == Spec => []PublishedIsTheSource
<1>1. VerdictInv /\ DataInv => PublishedIsTheSource
  <2> SUFFICES ASSUME VerdictInv, DataInv, published # <<>>
               PROVE  /\ published = <<Positions(size_bytes)>> /\ read = size_bytes
                      /\ failed => size_bytes > 0
    BY DEF PublishedIsTheSource
  <2>1. /\ published = <<received>> /\ total_written = size_bytes
        /\ buffer = <<>> /\ ~has_pending
    BY DEF VerdictInv, whole
  <2>2. Len(received) = size_bytes
    BY <2>1 DEF DataInv
  <2>3. published = <<Positions(size_bytes)>>
    BY <2>1, <2>2, AfterNothing DEF DataInv
  <2>4. read = size_bytes
    BY <2>1, DataFacts DEF DataInv, has_pending
  <2>5. failed => size_bytes > 0
    BY <2>1, <2>4 DEF VerdictInv, whole
  <2> QED BY <2>3, <2>4, <2>5
<1> QED BY <1>1, VerdictInvariant, DataInvariant, PTL

\* A source that fails after its last declared byte fails no upload, at any size.
THEOREM LateFailureForgiven == Spec => []LateFailureIsForgiven
<1>1. VerdictInv => LateFailureIsForgiven
  BY DEF VerdictInv, LateFailureIsForgiven
<1> QED BY <1>1, VerdictInvariant, PTL

-------------------------------------------------------------------------------
(* The framing *)

\* Only the last message may be short, and after a short one there is no other.
FramingInv ==
  /\ messages \in Seq([len : Nat, metadata : BOOLEAN])
  /\ metadata \in BOOLEAN /\ wrote_any \in BOOLEAN
  /\ metadata <=> messages = <<>>
  /\ wrote_any <=> messages # <<>>
  /\ FramedForTheServer
  /\ messages # <<>> /\ messages[Len(messages)].len # DEFAULT_CHUNK_SIZE
       => source_exhausted /\ buffer = <<>> /\ ~has_pending

LEMMA FramingSent ==
  ASSUME FramingInv, DataInv, NextRequest(buffer),
         messages # <<>> => messages[Len(messages)].len = DEFAULT_CHUNK_SIZE,
         Len(buffer) = DEFAULT_CHUNK_SIZE
           \/ (source_exhausted' /\ buffer' = <<>> /\ ~has_pending')
  PROVE  FramingInv'
<1> DEFINE m == [len |-> Len(buffer), metadata |-> metadata]
           S == [len : Nat, metadata : BOOLEAN]
<1>1. messages' = Append(messages, m) /\ metadata' = FALSE /\ wrote_any' = TRUE
  BY DEF NextRequest
<1>2. m \in S /\ messages \in Seq(S)
  BY DataFacts DEF FramingInv
<1>3. m.len = Len(buffer) /\ m.metadata = metadata
  OBVIOUS
<1> HIDE DEF m, S
<1>4. /\ messages' \in Seq(S) /\ messages' # <<>> /\ Len(messages') = Len(messages) + 1
      /\ \A i \in 1..Len(messages) : messages'[i] = messages[i]
      /\ messages'[Len(messages) + 1] = m
      /\ Len(messages) \in Nat
  BY <1>1, <1>2, AppendProperties, LenProperties
<1>5. messages = <<>> <=> Len(messages) = 0
  BY <1>2, <1>4, EmptySeq
<1>6. ASSUME NEW i \in 1..Len(messages')
      PROVE  /\ messages'[i].metadata <=> i = 1
             /\ i < Len(messages') => messages'[i].len = DEFAULT_CHUNK_SIZE
  <2>1. i \in 1..Len(messages) \/ i = Len(messages) + 1
    BY <1>4
  <2>2. CASE i \in 1..Len(messages)
    <3>1. messages'[i] = messages[i] /\ messages # <<>>
      BY <1>4, <1>5, <2>2
    <3>2. messages[i].metadata <=> i = 1
      BY <2>2 DEF FramingInv, FramedForTheServer
    <3>3. messages[i].len = DEFAULT_CHUNK_SIZE
      <4>1. CASE i < Len(messages)
        BY <2>2, <4>1 DEF FramingInv, FramedForTheServer
      <4>2. CASE i = Len(messages)
        BY <3>1, <4>2
      <4> QED BY <1>4, <2>2, <4>1, <4>2
    <3> QED BY <3>1, <3>2, <3>3
  <2>3. CASE i = Len(messages) + 1
    <3>1. messages'[i].metadata <=> metadata
      BY <1>3, <1>4, <2>3
    <3>2. metadata <=> i = 1
      BY <1>4, <1>5, <2>3 DEF FramingInv
    <3>3. ~(i < Len(messages'))
      BY <1>4, <2>3
    <3> QED BY <3>1, <3>2, <3>3
  <2> QED BY <2>1, <2>2, <2>3
<1>7. messages'[Len(messages')].len = Len(buffer)
  BY <1>3, <1>4
<1>8. FramedForTheServer'
  BY <1>6 DEF FramedForTheServer
<1> QED BY <1>1, <1>4, <1>7, <1>8 DEF FramingInv, S

LEMMA FramingKept ==
  ASSUME FramingInv, UNCHANGED sent,
         messages # <<>> /\ messages[Len(messages)].len # DEFAULT_CHUNK_SIZE
           => UNCHANGED <<buffer, pending, pending_offset, source_exhausted>>
  PROVE  FramingInv'
BY DEF FramingInv, FramedForTheServer, has_pending, sent

LEMMA FramingStep == FramingInv /\ DataInv /\ [Next]_vars => FramingInv'
<1> SUFFICES ASSUME FramingInv, DataInv, [Next]_vars PROVE FramingInv'
  OBVIOUS
<1> DEFINE short == messages # <<>> /\ messages[Len(messages)].len # DEFAULT_CHUNK_SIZE
<1>1. short => source_exhausted /\ buffer = <<>> /\ ~has_pending /\ wrote_any
  BY DEF FramingInv
<1>2. CASE \/ Beside \/ UNCHANGED vars
           \/ Publish \/ RefuseOvershoot \/ EndStream
  <2>1. CASE Beside \/ UNCHANGED vars
    BY <2>1, BesideEffect, FramingKept DEF held
  <2>2. CASE Publish \/ RefuseOvershoot \/ EndStream
    BY <2>2, FramingKept DEF Publish, RefuseOvershoot, EndStream, held
  <2> QED BY <1>2, <2>1, <2>2
<1>3. CASE Drain \/ PullItem \/ PullEnd \/ PullError
  <2>1. UNCHANGED sent
    BY <1>3 DEF Drain, PullItem, PullEnd, PullError
  <2>2. ~short
    BY <1>1, <1>3 DEF Drain, PullItem, PullEnd, PullError, Pulls
  <2> QED BY <2>1, <2>2, FramingKept
<1>4. CASE SendFullChunk
  <2>1. NextRequest(buffer) /\ Len(buffer) = DEFAULT_CHUNK_SIZE
    BY <1>4, SendFullChunkEffect
  <2>2. ~short
    BY <1>1, <2>1, DataFacts
  <2> QED BY <2>1, <2>2, FramingSent
<1>5. CASE Flush
  <2>1. /\ NextRequest(buffer) /\ source_exhausted' /\ buffer' = <<>> /\ ~has_pending'
        /\ buffer # <<>> \/ ~wrote_any
    BY <1>5 DEF Flush, SourceIsOver, something_to_flush, has_pending
  <2>2. ~short
    BY <1>1, <2>1
  <2> QED BY <2>1, <2>2, FramingSent
<1> QED
  BY <1>2, <1>3, <1>4, <1>5 DEF Next, Rechunk, Beside

\* Only the last message is short, and nothing follows it.
THEOREM FramingInvariant == Spec => []FramingInv
<1>1. Init => FramingInv
  <2> SUFFICES ASSUME Init PROVE FramingInv
    OBVIOUS
  <2>1. messages = <<>> /\ Len(messages) = 0 /\ metadata = TRUE /\ wrote_any = FALSE
        /\ messages \in Seq([len : Nat, metadata : BOOLEAN])
    BY EmptySeq DEF Init
  <2>2. FramedForTheServer
    <3>1. 1..Len(messages) = {}
      BY <2>1
    <3> QED BY <3>1 DEF FramedForTheServer
  <2>3. /\ metadata <=> messages = <<>>
        /\ wrote_any <=> messages # <<>>
        /\ metadata \in BOOLEAN /\ wrote_any \in BOOLEAN
    BY <2>1
  <2> QED BY <2>1, <2>2, <2>3 DEF FramingInv
<1>2. FramingInv /\ DataInv /\ [Next]_vars => FramingInv'
  BY FramingStep
<1> QED BY <1>1, <1>2, DataInvariant, PTL DEF Spec

\* Every message but the last is a full chunk, and the first alone has the metadata.
THEOREM Framing == Spec => []FramedForTheServer
<1>1. FramingInv => FramedForTheServer
  BY DEF FramingInv
<1> QED BY <1>1, FramingInvariant, PTL

-------------------------------------------------------------------------------
(* Type correctness *)

\* Every variable keeps its type, and the buffer never holds more than one chunk.
THEOREM TypeCorrect == Spec => []TypeOK
<1> DEFINE Rest == /\ pc \in {"called", "streaming", "returned", "dropped"}
                   /\ size_bytes \in Sizes
                   /\ source_exhausted \in BOOLEAN /\ ended \in BOOLEAN
                   /\ error_slot \in LocalErrors \cup {"none"}
                   /\ items \in Nat /\ failed \in BOOLEAN
                   /\ published \in Seq(Bytes)
                   /\ reply \in {"none", "ok", "refused"}
                   /\ result \in LocalErrors \cup {"none", "ok", "refused"}
<1>1. Init => Rest
  <2> SUFFICES ASSUME Init PROVE Rest
    OBVIOUS
  <2>1. published \in Seq(Bytes)
    <3>1. published = <<>>
      BY DEF Init
    <3> QED BY <3>1, EmptySeq
  <2>2. /\ pc = "called" /\ size_bytes \in Sizes /\ source_exhausted = FALSE
        /\ error_slot = "none" /\ ended = FALSE /\ items = 0 /\ failed = FALSE
        /\ reply = "none" /\ result = "none"
    BY DEF Init
  <2> QED BY <2>1, <2>2
<1>2. Rest /\ DataInv /\ [Next]_vars => Rest'
  <2> SUFFICES ASSUME Rest, DataInv, [Next]_vars PROVE Rest'
    OBVIOUS
  <2> USE DEF call, chunks, held, sent, LocalErrors
  <2>1. CASE UNCHANGED vars \/ Over
    <3>1. UNCHANGED vars
      BY <2>1 DEF Over
    <3> QED BY <3>1 DEF vars
  <2>2. CASE OpenStream \/ RefuseSize \/ Cancel \/ Confirm \/ Refuse
    BY <2>2 DEF OpenStream, RefuseSize, Cancel, Confirm, Refuse
  <2>3. CASE Return
    BY <2>3 DEF Return
  <2>4. CASE RefuseOvershoot \/ SendFullChunk \/ Drain \/ Flush
    BY <2>4 DEF RefuseOvershoot, SendFullChunk, Drain, Flush, RecordError
  <2>5. CASE PullItem \/ PullEnd
    <3>1. CASE PullItem
      <4>1. items' = items + 1
            /\ UNCHANGED <<pc, size_bytes, result, source_exhausted, error_slot, ended,
                           failed, published, reply>>
        BY <3>1 DEF PullItem
      <4> QED BY <4>1
    <3>2. CASE PullEnd
      BY <3>2 DEF PullEnd
    <3> QED BY <2>5, <3>1, <3>2
  <2>6. CASE PullError
    BY <2>6 DEF PullError, RecordError
  <2>7. CASE EndStream
    BY <2>7 DEF EndStream, RecordError
  <2>8. CASE Publish
    <3>1. <<received>> \in Seq(Bytes)
      BY DataFacts
    <3> QED BY <2>8, <3>1 DEF Publish
  <2> QED
    BY <2>1, <2>2, <2>3, <2>4, <2>5, <2>6, <2>7, <2>8 DEF Next, Rechunk
<1>3. Rest /\ DataInv /\ FramingInv => TypeOK
  BY DataFacts DEF DataInv, FramingInv, TypeOK
<1> QED BY <1>1, <1>2, <1>3, DataInvariant, FramingInvariant, PTL DEF Spec

-------------------------------------------------------------------------------
(* What the caller is told *)

\* Where what the caller is told comes from.
AnswerInv ==
  /\ reply = "ok" => published # <<>>
  /\ result # "none" => pc = "returned"
  /\ pc = "called" => ~wrote_any /\ error_slot = "none"
  /\ pc = "returned" =>
       IF error_slot # "none"
       THEN result = error_slot
       ELSE result = reply \/ (result = "validation" /\ ~wrote_any)

LEMMA AnswerInit == Init => AnswerInv
BY DEF Init, AnswerInv

LEMMA AnswerStep == TypeOK /\ AnswerInv /\ [Next]_vars => AnswerInv'
<1> SUFFICES ASSUME TypeOK, AnswerInv, [Next]_vars PROVE AnswerInv'
  OBVIOUS
<1>1. CASE UNCHANGED vars \/ Over
  BY <1>1 DEF Over, vars, call, sent, AnswerInv
<1>2. CASE Rechunk
  <2>1. pc = "streaming" /\ UNCHANGED <<pc, result, reply, published>>
    BY <1>2 DEF Rechunk, RefuseOvershoot, SendFullChunk, Drain, PullItem, PullEnd,
       PullError, Flush, EndStream, Pulls, SourceIsOver, Streaming, call
  <2> QED BY <2>1 DEF AnswerInv
<1>3. CASE OpenStream \/ RefuseSize
  BY <1>3 DEF OpenStream, RefuseSize, sent, AnswerInv
<1>4. CASE Return
  BY <1>4 DEF Return, sent, AnswerInv
<1>5. CASE Cancel
  BY <1>5 DEF Cancel, sent, AnswerInv
<1>6. CASE Publish
  <2>1. published' # <<>> /\ UNCHANGED <<reply, result, pc, wrote_any, error_slot>>
    BY <1>6 DEF Publish, call, sent
  <2> QED BY <2>1 DEF AnswerInv
<1>7. CASE Confirm \/ Refuse
  BY <1>7 DEF Confirm, Refuse, call, sent, AnswerInv
<1> QED BY <1>1, <1>2, <1>3, <1>4, <1>5, <1>6, <1>7 DEF Next

\* What the caller is told of the upload is so: the client's own errors are returned
\* before any refusal, and only of files that are not published; Ok is of files that are.
THEOREM VerdictTrue == Spec => []VerdictIsTrue
<1>1. TypeOK /\ VerdictInv /\ AnswerInv /\ PublishedIsTheSource => VerdictIsTrue
  <2> SUFFICES ASSUME TypeOK, VerdictInv, AnswerInv, PublishedIsTheSource
               PROVE  VerdictIsTrue
    OBVIOUS
  <2>1. error_slot # "none" => published = <<>>
    BY DEF VerdictInv
  <2>2. ~wrote_any => published = <<>>
    BY DEF VerdictInv, whole
  <2>3. reply \in {"none", "ok", "refused"} /\ error_slot \in LocalErrors \cup {"none"}
    BY DEF TypeOK
  <2>4. result \in LocalErrors => published = <<>>
    BY <2>1, <2>2, <2>3 DEF AnswerInv, LocalErrors
  <2>5. result = "ok" => published = <<Positions(size_bytes)>>
    BY <2>3 DEF AnswerInv, PublishedIsTheSource, LocalErrors
  <2> QED BY <2>1, <2>4, <2>5 DEF VerdictIsTrue, AnswerInv
<1>2. TypeOK /\ AnswerInv /\ [Next]_vars => AnswerInv'
  BY AnswerStep
<1> QED
  BY <1>1, <1>2, AnswerInit, TypeCorrect, VerdictInvariant, OnlyTheSource, PTL DEF Spec

-------------------------------------------------------------------------------
(* The loop gets somewhere *)

\* What the loop still has to do if the source yields nothing more: drain, send, hear
\* of the end, send an empty file's one message, end.
WorkLeft ==
  IF ended THEN 0
  ELSE 1 + Len(buffer) + 2 * (Len(pending) - pending_offset)
         + (IF source_exhausted THEN 0 ELSE 1) + (IF wrote_any THEN 0 ELSE 1)

LEMMA WorkLeftType ==
  ASSUME DataInv
  PROVE  WorkLeft \in Nat /\ (~ended => WorkLeft >= 1)
<1>1. Len(buffer) \in Nat /\ Len(pending) - pending_offset \in Nat
  BY DataFacts DEF DataInv
<1> QED BY <1>1 DEF WorkLeft

\* Drain moves something: while the buffer keeps a full chunk back for the end of the
\* source, whatever is pending would be too much for size_bytes.
LEMMA DrainMoves ==
  ASSUME TypeOK, DataInv, Drain
  PROVE  /\ Len(buffer) < DEFAULT_CHUNK_SIZE
         /\ Len(buffer') + (Len(pending') - pending_offset')
              = Len(buffer) + (Len(pending) - pending_offset)
         /\ Len(buffer') > Len(buffer)
<1>1. /\ Len(buffer) \in Nat /\ Len(pending) \in Nat /\ pending_offset \in Nat
      /\ total_written \in Nat /\ size_bytes \in Nat /\ DEFAULT_CHUNK_SIZE \in Nat
      /\ Len(buffer) <= DEFAULT_CHUNK_SIZE /\ pending_offset < Len(pending)
  BY DataFacts, SizesAssumption DEF DataInv, TypeOK, Drain, has_pending
<1>2. Len(buffer) < DEFAULT_CHUNK_SIZE
  <2> SUFFICES ASSUME Len(buffer) = DEFAULT_CHUNK_SIZE PROVE FALSE
    BY <1>1
  <2>1. total_written + DEFAULT_CHUNK_SIZE = size_bytes
    BY <1>1 DEF Drain, full_chunk, completes_the_file
  <2>2. ~(total_written + (Len(buffer) + (Len(pending) - pending_offset)) > size_bytes)
    BY DEF Drain, overshoots, unsent_len
  <2> QED BY <1>1, <2>1, <2>2
<1> DEFINE take == Smaller(DEFAULT_CHUNK_SIZE - Len(buffer), Len(pending) - pending_offset)
<1>3. take \in Nat /\ take > 0 /\ take <= Len(pending) - pending_offset
  BY <1>1, <1>2 DEF Smaller
<1>4. /\ buffer' = buffer \o SubSeq(pending, pending_offset + 1, pending_offset + take)
      /\ pending' = IF pending_offset + take = Len(pending) THEN <<>> ELSE pending
      /\ pending_offset' = IF pending_offset + take = Len(pending) THEN 0 ELSE pending_offset + take
  BY DEF Drain, DrainPending
<1> HIDE DEF take
<1>5. Len(buffer') = Len(buffer) + take
  <2>1. /\ After(pending, read - Len(pending)) /\ After(buffer, total_written)
        /\ read - Len(pending) \in Int /\ read \in Nat
    BY <1>1 DEF DataInv
  <2>2. pending_offset + take \in Nat /\ pending_offset <= pending_offset + take
        /\ pending_offset + take <= Len(pending)
    BY <1>1, <1>3
  <2>3. /\ After(SubSeq(pending, pending_offset + 1, pending_offset + take),
                 (read - Len(pending)) + pending_offset)
        /\ Len(SubSeq(pending, pending_offset + 1, pending_offset + take))
             = (pending_offset + take) - pending_offset
    BY <1>1, <2>1, <2>2, SubSeqAfter
  <2>4. (read - Len(pending)) + pending_offset = total_written + Len(buffer)
    BY <1>1, <2>1 DEF DataInv
  <2>5. Len(buffer') = Len(buffer) + ((pending_offset + take) - pending_offset)
    BY <1>1, <1>4, <2>1, <2>3, <2>4, ConcatAfter
  <2> QED BY <1>1, <1>3, <2>5
<1>6. CASE pending_offset + take = Len(pending)
  <2>1. Len(pending') = 0 /\ pending_offset' = 0
    BY <1>4, <1>6, EmptyAfter
  <2>2. Len(buffer) + take = Len(buffer) + (Len(pending) - pending_offset)
    BY <1>1, <1>3, <1>6
  <2> QED BY <1>1, <1>2, <1>3, <1>5, <2>1, <2>2
<1>7. CASE pending_offset + take # Len(pending)
  <2>1. pending' = pending /\ pending_offset' = pending_offset + take
    BY <1>4, <1>7
  <2> QED BY <1>1, <1>2, <1>3, <1>5, <2>1
<1> QED BY <1>6, <1>7

\* The measure as arithmetic: b bytes are buffered and p pending.
LEMMA LessToDo ==
  ASSUME NEW b \in Nat, NEW p \in Nat, NEW s \in 0..1, NEW w \in 0..1,
         NEW b1 \in Nat, NEW p1 \in Nat, NEW s1 \in 0..1, NEW w1 \in 0..1,
         b1 + p1 <= b + p, p1 <= p, s1 <= s, w1 <= w,
         b1 + p1 < b + p \/ p1 < p \/ s1 < s \/ w1 < w
  PROVE  1 + b1 + 2 * p1 + s1 + w1 < 1 + b + 2 * p + s + w
OBVIOUS

\* What one buffer gains the other loses.
LEMMA MovedAcross ==
  ASSUME NEW b \in Nat, NEW p \in Nat, NEW b1 \in Nat, NEW p1 \in Nat,
         b1 + p1 = b + p, b1 > b
  PROVE  b1 + p1 <= b + p /\ p1 < p /\ p1 <= p
OBVIOUS

\* Each iteration of the loop pulls an item from the source or leaves less to do:
\* between two items there is an end to them, and after the source's end none goes on
\* for ever.
THEOREM LoopNeverSpins == Spec => [][Rechunk => PullItem \/ WorkLeft' < WorkLeft]_vars
<1>1. ASSUME TypeOK, DataInv, DataInv', Rechunk, ~PullItem PROVE WorkLeft' < WorkLeft
  <2>1. ~ended
    BY <1>1 DEF Rechunk, RefuseOvershoot, SendFullChunk, Drain, PullEnd, PullError, Pulls, Flush,
       EndStream, SourceIsOver, Streaming
  <2>2. WorkLeft \in Nat /\ WorkLeft >= 1
    BY <1>1, <2>1, WorkLeftType
  <2>3. CASE ended'
    <3>1. WorkLeft' = 0
      BY <2>3 DEF WorkLeft
    <3> QED BY <2>2, <3>1
  <2>4. ASSUME ~ended' PROVE WorkLeft' < WorkLeft
    <3> DEFINE b == Len(buffer)
               p == Len(pending) - pending_offset
               s == IF source_exhausted THEN 0 ELSE 1
               w == IF wrote_any THEN 0 ELSE 1
    <3>1. b \in Nat /\ p \in Nat /\ s \in 0..1 /\ w \in 0..1
      BY <1>1, DataFacts DEF DataInv
    <3>2. b' \in Nat /\ p' \in Nat /\ s' \in 0..1 /\ w' \in 0..1
      <4>1. (Len(buffer) \in Nat /\ Len(pending) \in Nat)'
        BY <1>1, DataFacts, PTL
      <4>2. pending_offset' \in Nat /\ pending_offset' <= Len(pending')
        BY <1>1 DEF DataInv
      <4> QED BY <4>1, <4>2
    <3>3. WorkLeft = 1 + b + 2 * p + s + w /\ WorkLeft' = 1 + b' + 2 * p' + s' + w'
      BY <2>1, <2>4 DEF WorkLeft
    <3>4. /\ b' + p' <= b + p /\ p' <= p /\ s' <= s /\ w' <= w
          /\ b' + p' < b + p \/ p' < p \/ s' < s \/ w' < w
      <4>1. CASE SendFullChunk
        <5>1. /\ b = DEFAULT_CHUNK_SIZE /\ buffer' = <<>> /\ p' = p /\ s' = s /\ w' = 0
          BY <1>1, <4>1, SendFullChunkEffect DEF SendFullChunk, NextRequest
        <5>2. b' = 0
          BY <5>1, EmptyAfter
        <5> HIDE DEF b, p, s, w
        <5> QED BY <3>1, <5>1, <5>2, ChunkAssumption
      <4>2. CASE Drain
        <5>1. s' = s /\ w' = w
          BY <4>2 DEF Drain, sent
        <5>2. b' + p' = b + p /\ b' > b
          BY <1>1, <4>2, DrainMoves
        <5> HIDE DEF b, p, s, w
        <5>3. b' + p' <= b + p /\ p' < p /\ p' <= p
          BY <3>1, <3>2, <5>2, MovedAcross
        <5>4. s' <= s /\ w' <= w
          BY <3>1, <5>1
        <5> QED BY <5>3, <5>4
      <4>3. CASE PullEnd \/ PullError
        <5>1. ~source_exhausted /\ source_exhausted' /\ UNCHANGED <<held, sent>>
          BY <2>4, <4>3 DEF PullEnd, PullError, Pulls, RecordError
        <5>2. b' = b /\ p' = p /\ w' = w /\ s = 1 /\ s' = 0
          BY <5>1 DEF held, sent
        <5> HIDE DEF b, p, s, w
        <5> QED BY <3>1, <5>2
      <4>4. CASE Flush
        <5>1. buffer' = <<>> /\ p' = p /\ s' = s /\ w' = 0
          BY <4>4 DEF Flush, NextRequest
        <5>2. b' = 0 /\ (b > 0 \/ w = 1)
          BY <1>1, <4>4, <5>1, EmptyAfter, DataFacts DEF Flush, something_to_flush
        <5> HIDE DEF b, p, s, w
        <5> QED BY <3>1, <5>1, <5>2
      <4>5. ~(RefuseOvershoot \/ EndStream)
        BY <2>4 DEF RefuseOvershoot, EndStream, RecordError
      <4> QED BY <1>1, <4>1, <4>2, <4>3, <4>4, <4>5 DEF Rechunk
    <3> HIDE DEF b, p, s, w
    <3> QED BY <3>1, <3>2, <3>3, <3>4, LessToDo
  <2> QED BY <2>3, <2>4
<1>2. TypeOK /\ DataInv /\ DataInv' /\ [Next]_vars => [Rechunk => PullItem \/ WorkLeft' < WorkLeft]_vars
  BY <1>1
<1> QED BY <1>2, TypeCorrect, DataInvariant, PTL DEF Spec

=============================================================================

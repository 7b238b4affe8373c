----------------------------- MODULE ChunkedUpload -----------------------------
(***************************************************************************)
(* upload_file_chunked (src/src/file.rs): the caller's stream of pieces is *)
(* cut again into messages of one chunk each while the server already      *)
(* reads them, and whether the upload may succeed is known only when the   *)
(* source has ended.                                                       *)
(*                                                                         *)
(* One iteration of the loop in rechunk_upload_requests is one action, so  *)
(* the server and the source come in between any two of them.  A byte is   *)
(* its position in the source: the first is 1.  The server publishes a     *)
(* file as soon as it has the bytes the first message declared.            *)
(***************************************************************************)
EXTENDS Naturals, Sequences

CONSTANTS
  DEFAULT_CHUNK_SIZE,
  Sizes,                \* what callers declare as size_bytes
  max_file_bytes,       \* RociaDbBuilder::max_file_bytes
  MaxPiece, MaxItems    \* bounds: a source's largest item, how many it yields

ASSUME ChunkAssumption == DEFAULT_CHUNK_SIZE \in Nat \ {0}
ASSUME SizesAssumption == Sizes \subseteq Nat /\ max_file_bytes \in Nat
ASSUME SourceAssumption == MaxPiece \in Nat /\ MaxItems \in Nat

VARIABLES
  pc,                   \* of upload_file_chunked
  size_bytes,
  buffer, pending, pending_offset, total_written, wrote_any, source_exhausted,
  metadata,             \* RechunkState still has it
  error_slot,
  ended,                \* the stream of requests is over
  items, read, failed,  \* history of the source: items, bytes, an Err
  messages,             \* history: length of each request, and whether it had
                        \* the metadata
  received,             \* the bytes the server has of the file
  published,            \* the versions the server published: none, or one
  reply,                \* the status of the RPC
  result                \* of upload_file_chunked

chunks == <<items, read, failed>>
held == <<buffer, pending, pending_offset>>
sent == <<total_written, wrote_any, metadata, messages, received>>
call == <<pc, size_bytes, result>>
vars == <<call, held, sent, source_exhausted, error_slot, ended, chunks, published,
          reply>>

Bytes == Seq(Nat)

\* What the stream of requests may end with: the bytes that come are not the declared
\* ones, or the source fails.  No status comes with them.
LocalErrors == {"validation", "io"}

TypeOK ==
  /\ pc \in {"called", "streaming", "returned", "dropped"}
  /\ size_bytes \in Sizes
  /\ buffer \in Bytes /\ Len(buffer) <= DEFAULT_CHUNK_SIZE
  /\ pending \in Bytes /\ pending_offset \in 0..Len(pending)
  /\ total_written \in Nat
  /\ wrote_any \in BOOLEAN /\ source_exhausted \in BOOLEAN /\ metadata \in BOOLEAN
  /\ error_slot \in LocalErrors \cup {"none"}
  /\ ended \in BOOLEAN
  /\ items \in Nat /\ read \in Nat /\ failed \in BOOLEAN
  /\ messages \in Seq([len : Nat, metadata : BOOLEAN])
  /\ received \in Bytes
  /\ published \in Seq(Bytes)
  /\ reply \in {"none", "ok", "refused"}
  /\ result \in LocalErrors \cup {"none", "ok", "refused"}

Init ==
  /\ pc = "called" /\ size_bytes \in Sizes
  /\ buffer = <<>> /\ pending = <<>> /\ pending_offset = 0
  /\ total_written = 0 /\ wrote_any = FALSE /\ source_exhausted = FALSE
  /\ metadata = TRUE /\ error_slot = "none" /\ ended = FALSE
  /\ items = 0 /\ read = 0 /\ failed = FALSE
  /\ messages = <<>> /\ received = <<>> /\ published = <<>>
  /\ reply = "none" /\ result = "none"

Smaller(a, b) == IF a <= b THEN a ELSE b

-------------------------------------------------------------------------------
(* Mutated forms of the definitions below, each a bug this code could have;   *)
(* no specification uses them.                                                *)

\* Only the chunk about to go out is held against size_bytes.
OvershootsInBuffer == total_written + Len(buffer) > size_bytes

\* The chunk that completes the file does not wait for the end of the source.
FullIsFull == Len(buffer) >= DEFAULT_CHUNK_SIZE

\* A failure is forgiven once the declared bytes have been sent, as it was.
ForgivenOnceSent == size_bytes > 0 /\ total_written = size_bytes

\* Without the carve-out for a declaration of zero.
ForgivenAtZero == total_written + Len(buffer) + (Len(pending) - pending_offset) = size_bytes

\* The tail of an item is buffered again from its beginning.
DrainFromTheStart ==
  LET take == Smaller(DEFAULT_CHUNK_SIZE - Len(buffer), Len(pending) - pending_offset)
      end == pending_offset + take
  IN /\ buffer' = buffer \o SubSeq(pending, 1, take)
     /\ pending' = IF end = Len(pending) THEN <<>> ELSE pending
     /\ pending_offset' = IF end = Len(pending) THEN 0 ELSE end

\* A refusal by the server hides what the stream recorded.
RefusalGoesFirst ==
  /\ pc = "streaming" /\ reply # "none"
  /\ pc' = "returned"
  /\ result' = IF reply = "ok" /\ error_slot # "none" THEN error_slot ELSE reply
  /\ UNCHANGED <<size_bytes, held, sent, source_exhausted, error_slot, ended, chunks,
                 published, reply>>

\* Every request carries the metadata.
RequestKeepsMetadata(chunk) ==
  /\ metadata' = metadata
  /\ messages' = Append(messages, [len |-> Len(chunk), metadata |-> metadata])
  /\ received' = received \o chunk
  /\ total_written' = total_written + Len(chunk)
  /\ wrote_any' = TRUE

-------------------------------------------------------------------------------
(* RechunkState *)

has_pending == pending_offset < Len(pending)

unsent_len == Len(buffer) + (Len(pending) - pending_offset)

\* ingest: what does not fit in the buffer waits in pending.
Ingest(piece) ==
  LET space_left == DEFAULT_CHUNK_SIZE - Len(buffer)
  IN IF Len(piece) <= space_left
     THEN buffer' = buffer \o piece /\ UNCHANGED <<pending, pending_offset>>
     ELSE /\ buffer' = buffer \o SubSeq(piece, 1, space_left)
          /\ pending' = piece /\ pending_offset' = space_left

DrainPending ==
  LET take == Smaller(DEFAULT_CHUNK_SIZE - Len(buffer), Len(pending) - pending_offset)
      end == pending_offset + take
  IN /\ buffer' = buffer \o SubSeq(pending, pending_offset + 1, end)
     /\ pending' = IF end = Len(pending) THEN <<>> ELSE pending
     /\ pending_offset' = IF end = Len(pending) THEN 0 ELSE end

\* next_request, with the accounting around it.
NextRequest(chunk) ==
  /\ metadata' = FALSE
  /\ messages' = Append(messages, [len |-> Len(chunk), metadata |-> metadata])
  /\ received' = received \o chunk
  /\ total_written' = total_written + Len(chunk)
  /\ wrote_any' = TRUE

RecordError(kind) == error_slot' = kind /\ ended' = TRUE

-------------------------------------------------------------------------------
(* rechunk_upload_requests, one iteration of its loop at a time *)

Streaming == pc = "streaming" /\ ~ended

overshoots == total_written + unsent_len > size_bytes

completes_the_file == total_written + DEFAULT_CHUNK_SIZE = size_bytes

full_chunk ==
  /\ Len(buffer) >= DEFAULT_CHUNK_SIZE
  /\ ~completes_the_file \/ source_exhausted

RefuseOvershoot ==
  /\ Streaming /\ overshoots
  /\ RecordError("validation")
  /\ UNCHANGED <<call, held, sent, source_exhausted, chunks, published, reply>>

SendFullChunk ==
  /\ Streaming /\ ~overshoots /\ full_chunk
  /\ NextRequest(SubSeq(buffer, 1, DEFAULT_CHUNK_SIZE))
  /\ buffer' = SubSeq(buffer, DEFAULT_CHUNK_SIZE + 1, Len(buffer))
  /\ UNCHANGED <<call, pending, pending_offset, source_exhausted, error_slot, ended,
                 chunks, published, reply>>

Drain ==
  /\ Streaming /\ ~overshoots /\ ~full_chunk /\ has_pending
  /\ DrainPending
  /\ UNCHANGED <<call, sent, source_exhausted, error_slot, ended, chunks, published,
                 reply>>

\* The loop awaits the source.
Pulls ==
  /\ Streaming /\ ~overshoots /\ ~full_chunk /\ ~has_pending
  /\ ~source_exhausted

PullItem ==
  /\ Pulls
  /\ items < MaxItems
  /\ items' = items + 1
  /\ \E n \in 0..MaxPiece :
       /\ Ingest([i \in 1..n |-> read + i])
       /\ read' = read + n
  /\ UNCHANGED <<call, sent, source_exhausted, error_slot, ended, failed, published,
                 reply>>

PullEnd ==
  /\ Pulls
  /\ source_exhausted' = TRUE
  /\ UNCHANGED <<call, held, sent, error_slot, ended, chunks, published, reply>>

every_declared_byte == size_bytes > 0 /\ total_written + unsent_len = size_bytes

PullError ==
  /\ Pulls
  /\ failed' = TRUE
  /\ \/ /\ every_declared_byte
        /\ source_exhausted' = TRUE
        /\ UNCHANGED <<error_slot, ended>>
     \/ /\ ~every_declared_byte
        /\ RecordError("io")
        /\ UNCHANGED source_exhausted
  /\ UNCHANGED <<call, held, sent, items, read, published, reply>>

SourceIsOver ==
  /\ Streaming /\ ~overshoots /\ ~full_chunk /\ ~has_pending
  /\ source_exhausted

something_to_flush == buffer # <<>> \/ ~wrote_any

Flush ==
  /\ SourceIsOver /\ something_to_flush
  /\ NextRequest(buffer)
  /\ buffer' = <<>>
  /\ UNCHANGED <<call, pending, pending_offset, source_exhausted, error_slot, ended,
                 chunks, published, reply>>

EndStream ==
  /\ SourceIsOver /\ ~something_to_flush
  /\ IF total_written = size_bytes
     THEN ended' = TRUE /\ UNCHANGED error_slot
     ELSE RecordError("validation")
  /\ UNCHANGED <<call, held, sent, source_exhausted, chunks, published, reply>>

-------------------------------------------------------------------------------
(* upload_file_chunked *)

OpenStream ==
  /\ pc = "called" /\ size_bytes <= max_file_bytes
  /\ pc' = "streaming"
  /\ UNCHANGED <<size_bytes, result, held, sent, source_exhausted, error_slot, ended,
                 chunks, published, reply>>

RefuseSize ==
  /\ pc = "called" /\ size_bytes > max_file_bytes
  /\ pc' = "returned" /\ result' = "validation"
  /\ UNCHANGED <<size_bytes, held, sent, source_exhausted, error_slot, ended, chunks,
                 published, reply>>

\* What the stream recorded goes before what the server made of it.
Return ==
  /\ pc = "streaming" /\ reply # "none"
  /\ pc' = "returned"
  /\ result' = IF error_slot # "none" THEN error_slot ELSE reply
  /\ UNCHANGED <<size_bytes, held, sent, source_exhausted, error_slot, ended, chunks,
                 published, reply>>

\* The caller drops the call: nothing polls the stream any more.
Cancel ==
  /\ pc = "streaming"
  /\ pc' = "dropped"
  /\ UNCHANGED <<size_bytes, result, held, sent, source_exhausted, error_slot, ended,
                 chunks, published, reply>>

\* There is nothing left to do for the client.
Over ==
  /\ pc \in {"returned", "dropped"}
  /\ UNCHANGED vars

-------------------------------------------------------------------------------
(* The server *)

Publish ==
  /\ published = <<>>
  /\ messages # <<>> /\ messages[1].metadata /\ Len(received) = size_bytes
  /\ published' = <<received>>
  /\ UNCHANGED <<call, held, sent, source_exhausted, error_slot, ended, chunks, reply>>

\* The client learns of it when the stream has ended too.
Confirm ==
  /\ pc = "streaming" /\ reply = "none" /\ ended /\ published # <<>>
  /\ reply' = "ok"
  /\ UNCHANGED <<call, held, sent, source_exhausted, error_slot, ended, chunks,
                 published>>

\* The server refuses the upload, or the connection breaks, also after the file
\* was published.
Refuse ==
  /\ pc = "streaming" /\ reply = "none"
  /\ reply' = "refused"
  /\ UNCHANGED <<call, held, sent, source_exhausted, error_slot, ended, chunks,
                 published>>

-------------------------------------------------------------------------------
Rechunk ==
  \/ RefuseOvershoot \/ SendFullChunk \/ Drain
  \/ PullItem \/ PullEnd \/ PullError
  \/ Flush \/ EndStream

Next ==
  \/ OpenStream \/ RefuseSize \/ Rechunk \/ Return \/ Cancel \/ Over
  \/ Publish \/ Confirm \/ Refuse

Spec == Init /\ [][Next]_vars

\* The executor polls the call, and the source, which is finite, yields.
FairSpec == Spec /\ WF_vars(OpenStream \/ RefuseSize) /\ WF_vars(Rechunk)

-------------------------------------------------------------------------------
(* Properties *)

Positions(n) == [i \in 1..n |-> i]

\* No byte of the source is lost, repeated or moved, however it was split.
BytesStayInOrder ==
  received \o buffer \o SubSeq(pending, pending_offset + 1, Len(pending))
    = Positions(read)

\* The server is given chunks of DEFAULT_CHUNK_SIZE, the last possibly shorter,
\* and the metadata once, with the first.
FramedForTheServer ==
  \A i \in 1..Len(messages) :
    /\ messages[i].metadata <=> i = 1
    /\ i < Len(messages) => messages[i].len = DEFAULT_CHUNK_SIZE

\* What the caller is told of the upload is so, whenever the server answers and
\* whatever the source does meanwhile.  One of the client's own errors is returned
\* whether the server has refused the upload or not, and only of a file that was
\* not published and will not be.  Ok is of a file that was.  A refusal, or a broken
\* connection, says nothing of that, and is returned only if the client found no
\* error of its own.
VerdictIsTrue ==
  /\ error_slot # "none" => published = <<>>
  /\ result \in LocalErrors => published = <<>>
  /\ pc = "returned" /\ error_slot # "none" => result = error_slot
  /\ result = "ok" => published = <<Positions(size_bytes)>>

\* What is published is the whole source, no more and no less, and a source that
\* failed when it had nothing to yield does not replace a stored file with nothing.
PublishedIsTheSource ==
  published # <<>> =>
    /\ published = <<Positions(size_bytes)>> /\ read = size_bytes
    /\ failed => size_bytes > 0

\* A source that fails after its last declared byte fails no upload, at any size.
LateFailureIsForgiven ==
  failed /\ read = size_bytes /\ size_bytes > 0 => error_slot = "none"

\* Every upload from a source that ends comes to the end of its stream of
\* requests, unless the server broke it off: the loop never waits on itself.
StreamEnds == <>(ended \/ reply # "none" \/ pc \in {"returned", "dropped"})

=============================================================================

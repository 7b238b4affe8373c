------------------------------ MODULE FileUpload ------------------------------
(***************************************************************************)
(* upload_file and delete_file (src/src/file.rs): the two writes of a file *)
(* that may send themselves a second time.                                 *)
(*                                                                         *)
(* An upload cuts the buffer it owns into messages as the server takes     *)
(* them, and a request that was refused as UNAUTHENTICATED is replayed     *)
(* once, after one refresh of the token, under the request_id it had.  The *)
(* server may say UNAUTHENTICATED of a write it has executed, the          *)
(* connection may break, and a request whose client stopped waiting may    *)
(* still be executed, after a later write.                                 *)
(***************************************************************************)
EXTENDS FileStore

CONSTANTS
  Uploads, Deletes,     \* calls of upload_file and of delete_file
  DEFAULT_CHUNK_SIZE,   \* which is also INLINE_CHECKSUM_LIMIT
  max_file_bytes,
  Buffers               \* what callers upload

ASSUME ChunkAssumption == DEFAULT_CHUNK_SIZE \in Nat \ {0} /\ max_file_bytes \in Nat
ASSUME BuffersAssumption == Buffers \subseteq Bytes
ASSUME WritesAssumption == Uploads \cap Deletes = {}

VARIABLES
  wpc,
  buffer,               \* the bytes upload_file was given
  checksum,             \* the caller's, then the one that is sent
  request_id,           \* how many the call has made: the last one is its key
  replayed,
  reply,                \* what the server answered the request waited for
  result,
  wire                  \* requests the server has yet to deal with

caller == <<buffer, checksum>>
client == <<wpc, caller, request_id, replayed, reply, result>>

Writes == Uploads \cup Deletes

NoChecksum == [absent |-> TRUE]

\* Nothing was sent of an upload before its first message was taken.
NoHead == [size_bytes |-> 0, checksum |-> NoChecksum]

\* Every refusal but UNAUTHENTICATED is final.
Refusals == {"UNAUTHENTICATED", "FAILED"}

UploadInit ==
  /\ wpc = [w \in Writes |-> "called"]
  /\ buffer \in [Uploads -> Buffers]
  /\ checksum \in [Uploads -> {NoChecksum} \cup {Sha256(b) : b \in Buffers}]
  /\ request_id = [w \in Writes |-> 0]
  /\ replayed = [w \in Writes |-> FALSE]
  /\ reply = [w \in Writes |-> "none"] /\ result = [w \in Writes |-> "none"]
  /\ wire = {}

Size(u) == Len(buffer[u])

Smaller(a, b) == IF a <= b THEN a ELSE b

-------------------------------------------------------------------------------
(* Mutated forms of the definitions below, each a bug this code could have;   *)
(* no specification uses them.                                                *)

\* The closure that builds the requests mints the key.
SendUnderANewKey(w) ==
  /\ wpc[w] = "ready"
  /\ wpc' = [wpc EXCEPT ![w] = "sent"]
  /\ request_id' = [request_id EXCEPT ![w] = @ + 1]
  /\ wire' = wire \cup {[by |-> w, key |-> <<w, request_id[w] + 1>>,
                         replay |-> replayed[w], taken |-> 0, head |-> NoHead,
                         bytes |-> <<>>]}
  /\ reply' = [reply EXCEPT ![w] = "none"]
  /\ UNCHANGED <<caller, replayed, result>>

\* What the server makes of the replay is not looked at.
ReceiveTakesReplayForOk(w) ==
  /\ wpc[w] = "sent" /\ reply[w] # "none"
  /\ reply' = [reply EXCEPT ![w] = "none"]
  /\ IF reply[w] = "UNAUTHENTICATED" /\ ~replayed[w]
     THEN /\ wpc' = [wpc EXCEPT ![w] = "refreshing"]
          /\ UNCHANGED result
     ELSE /\ wpc' = [wpc EXCEPT ![w] = "done"]
          /\ result' = [result EXCEPT ![w] = IF replayed[w] THEN "OK" ELSE reply[w]]
  /\ UNCHANGED <<caller, request_id, replayed, wire>>

-------------------------------------------------------------------------------
(* upload_file, up to its first request *)

\* resolve_checksum: the digest is computed unless the caller knows one.
Resolved(u) == IF checksum[u] = NoChecksum THEN Sha256(buffer[u]) ELSE checksum[u]

RefuseSize(u) ==
  /\ wpc[u] = "called" /\ Size(u) > max_file_bytes
  /\ wpc' = [wpc EXCEPT ![u] = "done"]
  /\ result' = [result EXCEPT ![u] = "validation"]
  /\ UNCHANGED <<caller, request_id, replayed, reply, wire>>

\* A large buffer without a digest is hashed on the blocking pool.
Offload(u) ==
  /\ wpc[u] = "called" /\ Size(u) <= max_file_bytes
  /\ checksum[u] = NoChecksum /\ Size(u) > DEFAULT_CHUNK_SIZE
  /\ wpc' = [wpc EXCEPT ![u] = "hashing"]
  /\ UNCHANGED <<caller, request_id, replayed, reply, result, wire>>

\* The digest is there, from the pool, inline, or inline because the pool is gone,
\* and the call has its request_id.
Prepare(u) ==
  /\ \/ wpc[u] = "hashing"
     \/ /\ wpc[u] = "called" /\ Size(u) <= max_file_bytes
        /\ checksum[u] # NoChecksum \/ Size(u) <= DEFAULT_CHUNK_SIZE
  /\ wpc' = [wpc EXCEPT ![u] = "ready"]
  /\ checksum' = [checksum EXCEPT ![u] = Resolved(u)]
  /\ request_id' = [request_id EXCEPT ![u] = @ + 1]
  /\ UNCHANGED <<buffer, replayed, reply, result, wire>>

\* delete_file has nothing to prepare but its request_id.
BeginDelete(d) ==
  /\ wpc[d] = "called"
  /\ wpc' = [wpc EXCEPT ![d] = "ready"]
  /\ request_id' = [request_id EXCEPT ![d] = @ + 1]
  /\ UNCHANGED <<caller, replayed, reply, result, wire>>

-------------------------------------------------------------------------------
(* One request, and the one replay of it *)

\* Whether the pre-flight refresh of upload_raw worked makes no difference here.
Send(w) ==
  /\ wpc[w] = "ready"
  /\ wpc' = [wpc EXCEPT ![w] = "sent"]
  /\ wire' = wire \cup {[by |-> w, key |-> <<w, request_id[w]>>,
                         replay |-> replayed[w], taken |-> 0, head |-> NoHead,
                         bytes |-> <<>>]}
  /\ reply' = [reply EXCEPT ![w] = "none"]
  /\ UNCHANGED <<caller, request_id, replayed, result>>

\* A file without a byte takes a message all the same.
chunk_count(u) ==
  IF buffer[u] = <<>> THEN 1
  ELSE (Size(u) + DEFAULT_CHUNK_SIZE - 1) \div DEFAULT_CHUNK_SIZE

chunk(u, i) ==
  SubSeq(buffer[u], (i - 1) * DEFAULT_CHUNK_SIZE + 1, Smaller(i * DEFAULT_CHUNK_SIZE, Size(u)))

\* chunk_upload_requests: the metadata goes with the first message.
declared(u, i, head) ==
  IF i = 1 THEN [size_bytes |-> Size(u), checksum |-> checksum[u]] ELSE head

Receive(w) ==
  /\ wpc[w] = "sent" /\ reply[w] # "none"
  /\ reply' = [reply EXCEPT ![w] = "none"]
  /\ IF reply[w] = "UNAUTHENTICATED" /\ ~replayed[w]
     THEN /\ wpc' = [wpc EXCEPT ![w] = "refreshing"]
          /\ UNCHANGED result
     ELSE /\ wpc' = [wpc EXCEPT ![w] = "done"]
          /\ result' = [result EXCEPT ![w] = reply[w]]
  /\ UNCHANGED <<caller, request_id, replayed, wire>>

RefreshSucceeds(w) ==
  /\ wpc[w] = "refreshing"
  /\ wpc' = [wpc EXCEPT ![w] = "ready"]
  /\ replayed' = [replayed EXCEPT ![w] = TRUE]
  /\ UNCHANGED <<caller, request_id, reply, result, wire>>

\* The caller gets the UNAUTHENTICATED that led here.
RefreshFails(w) ==
  /\ wpc[w] = "refreshing"
  /\ wpc' = [wpc EXCEPT ![w] = "done"]
  /\ result' = [result EXCEPT ![w] = "UNAUTHENTICATED"]
  /\ UNCHANGED <<caller, request_id, replayed, reply, wire>>

\* The call ends without an answer; what it sent may still be executed.
Forsake(w) ==
  /\ wpc' = [wpc EXCEPT ![w] = "done"]
  /\ reply' = [reply EXCEPT ![w] = "none"]
  /\ UNCHANGED <<caller, request_id, replayed, result, wire>>

\* delete_file is a unary call and may have a deadline; an upload has none.
DeadlinePasses(d) == wpc[d] = "sent" /\ Forsake(d)

\* The connection breaks, or the caller drops the future.
GiveUp(w) == wpc[w] \in {"hashing", "ready", "sent", "refreshing"} /\ Forsake(w) /\ UNCHANGED store

-------------------------------------------------------------------------------
(* The server *)

\* The client still feeds the request, or waits for its answer.
Waited(m) == wpc[m.by] = "sent" /\ m.replay = replayed[m.by]

Answer(m, status) ==
  /\ wire' = wire \ {m}
  /\ reply' = IF Waited(m) THEN [reply EXCEPT ![m.by] = status] ELSE reply
  /\ UNCHANGED <<wpc, caller, request_id, replayed, result>>

Take(m) ==
  /\ m.by \in Uploads /\ Waited(m) /\ m.taken < chunk_count(m.by)
  /\ wire' = (wire \ {m}) \cup
       {[m EXCEPT !.taken = @ + 1, !.head = declared(m.by, m.taken + 1, @),
                  !.bytes = @ \o chunk(m.by, m.taken + 1)]}
  /\ UNCHANGED <<client, store>>

\* It has been received as a whole, and adds up.
Complete(m) ==
  m.by \in Uploads =>
    /\ m.taken = chunk_count(m.by)
    /\ Len(m.bytes) = m.head.size_bytes

\* The client may be told of a failure although the write was executed.
Execute(m) ==
  /\ Complete(m) /\ m.key \notin markers
  /\ IF m.by \in Uploads
     THEN StoreUpload(m.by, m.key, m.head.size_bytes, m.head.checksum, m.bytes)
     ELSE StoreDelete(m.by, m.key)
  /\ \E status \in {"OK", "FAILED", "UNAUTHENTICATED"} : Answer(m, status)

RecognizeReplay(m) ==
  /\ Complete(m) /\ m.key \in markers
  /\ Answer(m, "OK")
  /\ UNCHANGED store

Refuse(m) ==
  /\ \E status \in Refusals : Answer(m, status)
  /\ UNCHANGED store

\* The request, or what is left of it, never arrives.
Lose(m) ==
  /\ wire' = wire \ {m}
  /\ UNCHANGED <<client, store>>

-------------------------------------------------------------------------------
Write(w) ==
  /\ \/ w \in Uploads /\ (RefuseSize(w) \/ Offload(w) \/ Prepare(w))
     \/ w \in Deletes /\ (BeginDelete(w) \/ DeadlinePasses(w))
     \/ Send(w) \/ Receive(w) \/ RefreshSucceeds(w) \/ RefreshFails(w)
  /\ UNCHANGED store

Serve(m) == Take(m) \/ Execute(m) \/ RecognizeReplay(m) \/ Refuse(m)

===============================================================================

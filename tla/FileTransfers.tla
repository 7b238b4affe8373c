----------------------------- MODULE FileTransfers -----------------------------
(***************************************************************************)
(* The uploads, deletions and downloads of one file beside each other:     *)
(* FileUpload and VerifiedDownload share the server's FileStore.           *)
(***************************************************************************)
EXTENDS FileUpload, VerifiedDownload

vars == <<store, client, wire, download>>

TypeOK ==
  /\ versions \in Seq([by : Uploads, size : Nat, checksum : Digests])
  /\ stored \in Seq(Bytes) /\ Len(stored) = Len(versions)
  /\ published \in 0..Len(versions)
  /\ markers \subseteq Writes \X Nat
  /\ executed \in Seq(Writes)
  /\ decayed \subseteq 1..Len(versions)
  /\ wpc \in [Writes -> {"called", "hashing", "ready", "sent", "refreshing", "done"}]
  /\ buffer \in [Uploads -> Bytes]
  /\ DOMAIN checksum = Uploads
  /\ \A u \in Uploads : checksum[u] \in Digests \cup {NoChecksum}
  /\ reply \in [Writes -> {"none", "OK"} \cup Refusals]
  /\ result \in [Writes -> {"none", "OK", "validation"} \cup Refusals]
  /\ request_id \in [Writes -> Nat] /\ replayed \in [Writes -> BOOLEAN]
  /\ rpc \in [Downloads -> {"called", "opening", "refreshing", "reading", "done"}]
  /\ kind \in [Downloads -> Kinds]
  /\ seen \in [Downloads -> 0..Len(versions)]
  /\ source \in [Downloads -> 0..Len(versions)]
  /\ metadata \in [Downloads -> [size : Nat, checksum : Digests]]
  /\ position \in [Downloads -> Nat] /\ written \in [Downloads -> Nat]
  /\ hashed \in [Downloads -> Bytes] /\ writer \in [Downloads -> Bytes]
  /\ cut \in [Downloads -> BOOLEAN] /\ reopened \in [Downloads -> BOOLEAN]
  /\ outcome \in [Downloads -> {"none", "ok", "size_mismatch", "checksum_mismatch", "io",
                                "status", "not_found", "gone"}]

Init == StoreInit /\ UploadInit /\ DownloadInit

ServerServes == \E m \in wire : Serve(m)

Next ==
  \/ \E w \in Writes : (Write(w) \/ GiveUp(w)) /\ UNCHANGED download
  \/ ServerServes /\ UNCHANGED download
  \/ \E m \in wire : Lose(m) /\ UNCHANGED download
  \/ \E d \in Downloads : (Read(d) \/ Abandon(d)) /\ UNCHANGED <<client, wire>>
  \/ \E v \in 1..Len(versions) : Decay(v) /\ UNCHANGED <<client, wire, download>>

Spec == Init /\ [][Next]_vars

-------------------------------------------------------------------------------
(* Properties *)

\* The uploads and deletions as WriteContract knows them: each is a write of its own, under
\* a request_id of its own.
Promise ==
  INSTANCE WriteContract WITH
    Writes <- Writes,
    Before <- {},
    supplied <- TRUE,
    keys <- 1,
    times <- [w \in Writes |-> Cardinality({i \in 1..Len(executed) : executed[i] = w})],
    acknowledged <- {w \in Writes : result[w] = "OK"}

\* Each upload and each deletion takes effect at most once, however it was replayed
\* and however late, and before its Ok: no request that is still under way undoes what
\* others wrote since the call returned.
KeepsTheContract == [][Promise!Next]_(Promise!wvars)

\* In particular no write takes effect twice.
EachWriteHappensOnce ==
  \A i, j \in 1..Len(executed) : executed[i] = executed[j] => i = j

\* An upload that returned Ok was published, and whatever an upload published is
\* the buffer it was given, under the size of that buffer.
PublishedIsTheBuffer ==
  /\ \A u \in Uploads : result[u] = "OK" => \E v \in 1..Len(versions) : versions[v].by = u
  /\ \A v \in 1..Len(versions) \ decayed :
       /\ stored[v] = buffer[versions[v].by]
       /\ versions[v].size = Len(buffer[versions[v].by])

\* The checksum a version was published under is that of its bytes.
Honest(v) == versions[v].checksum = Sha256(buffer[versions[v].by])

Verifies(d) == kind[d] # "plain"

\* A verified download that returned Ok gave its caller exactly the bytes that the
\* upload it had asked about was given, although another version may have been
\* streamed, damaged, or cut short.
VerifiedIsTheUpload ==
  \A d \in Downloads :
    Verifies(d) /\ outcome[d] = "ok" /\ Honest(seen[d]) =>
      writer[d] = buffer[versions[seen[d]].by]

\* A verified download never hands its writer a byte beyond the size it was told,
\* whether it succeeds or not, nor any byte out of its place in the stream.
NothingBeyondTheSize ==
  \A d \in Downloads : Verifies(d) =>
    /\ Len(writer[d]) <= metadata[d].size
    /\ Len(writer[d]) <= Len(hashed[d])
    /\ writer[d] = SubSeq(hashed[d], 1, Len(writer[d]))

\* A file that is what its uploader declared, and is left alone from stat_file to
\* the end of the stream, is not reported as a mismatch.
MismatchHasACause ==
  \A d \in Downloads :
    outcome[d] \in Mismatches =>
      \/ source[d] # seen[d]
      \/ source[d] \in decayed \/ cut[d]
      \/ ~Honest(seen[d])

================================================================================

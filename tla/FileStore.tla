------------------------------- MODULE FileStore -------------------------------
(***************************************************************************)
(* One file_id at the server, as the uploads and downloads of              *)
(* src/src/file.rs rely on it.  Nothing here is the client's.              *)
(*                                                                         *)
(* A version is published when its upload was received in full, and        *)
(* replaces the published one at once; a download goes on with the version *)
(* it began with.  The server keeps the checksum the uploader declared and *)
(* never computes one.  What it stored of a version may decay.             *)
(***************************************************************************)
EXTENDS Naturals, Sequences, FiniteSets

CONSTANTS
  Byte,
  MaxDecays             \* bound: how many versions are damaged, each once

ASSUME DecaysAssumption == MaxDecays \in Nat

VARIABLES
  versions,             \* every version ever published: the write it came from
                        \* and what its uploader declared
  stored,               \* the bytes the server has of each
  published,            \* the one that is published, or 0
  markers,              \* idempotency markers, one per request_id
  executed,             \* history: the writes that took effect, in order
  decayed               \* history: the versions whose stored bytes changed

store == <<versions, stored, published, markers, executed, decayed>>

Bytes == Seq(Byte)

\* A digest is known by the bytes it is the digest of.
Sha256(bytes) == [sha256_of |-> bytes]
Digests == [sha256_of : Bytes]

StoreInit ==
  /\ versions = <<>> /\ stored = <<>> /\ published = 0
  /\ markers = {} /\ executed = <<>> /\ decayed = {}

\* The write w takes effect under its key, as a new version or as a deletion.
StoreUpload(w, key, size, checksum, bytes) ==
  /\ versions' = Append(versions, [by |-> w, size |-> size, checksum |-> checksum])
  /\ stored' = Append(stored, bytes)
  /\ published' = Len(versions) + 1
  /\ markers' = markers \cup {key}
  /\ executed' = Append(executed, w)
  /\ UNCHANGED decayed

StoreDelete(w, key) ==
  /\ published' = 0
  /\ markers' = markers \cup {key}
  /\ executed' = Append(executed, w)
  /\ UNCHANGED <<versions, stored, decayed>>

\* Bytes of a stored version are lost at its end, changed, or added.
Decayed(bytes) ==
  {SubSeq(bytes, 1, n) : n \in 0..(Len(bytes) - 1)} \cup
  {[bytes EXCEPT ![i] = b] : i \in 1..Len(bytes), b \in Byte} \cup
  {Append(bytes, b) : b \in Byte}

Decay(v) ==
  /\ v \notin decayed /\ Cardinality(decayed) < MaxDecays
  /\ decayed' = decayed \cup {v}
  /\ \E bytes \in Decayed(stored[v]) : stored' = [stored EXCEPT ![v] = bytes]
  /\ UNCHANGED <<versions, published, markers, executed>>

================================================================================

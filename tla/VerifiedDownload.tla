---------------------------- MODULE VerifiedDownload ----------------------------
(***************************************************************************)
(* The downloads of src/src/file.rs: download_file, which believes what it *)
(* is sent, and download_file_verified and download_file_verified_to,      *)
(* which ask stat_file what to expect and hold the stream against it.      *)
(*                                                                         *)
(* stat_file and the stream are two calls, and the file may be replaced,   *)
(* deleted, damaged, or its stream cut short, at any time between and      *)
(* during them.  One message of the stream is one action: it is hashed,    *)
(* counted, and handed to the writer, which may refuse it part way.        *)
(***************************************************************************)
EXTENDS FileStore

CONSTANTS
  Downloads,            \* calls
  MaxChunk              \* bound: the longest message the server sends

ASSUME MaxChunkAssumption == MaxChunk \in Nat \ {0}

VARIABLES
  rpc,
  kind,                 \* which of the three
  seen,                 \* the version stat_file described, or 0
  metadata,             \* what it said of it
  reopened,             \* the opening call was replayed
  source,               \* the version being streamed, or 0
  position,             \* how much of it was sent
  hashed, written,      \* VerifiedDownload: the bytes given to the hasher, their count
  writer,               \* what the caller's writer, or the buffer, has
  cut,                  \* history: the stream ended before the version did
  outcome

expected == <<seen, metadata>>
stream == <<source, position, cut>>
verified == <<hashed, written>>
download == <<rpc, kind, expected, reopened, stream, verified, writer, outcome>>

Kinds == {"plain", "buffer", "writer"}

\* The two errors that say something of the bytes: what came is not what was described.
Mismatches == {"size_mismatch", "checksum_mismatch"}

\* FileMetadata, as far as a download reads it.
NoMetadata == [size |-> 0, checksum |-> [sha256_of |-> <<>>]]

DownloadInit ==
  /\ rpc = [d \in Downloads |-> "called"]
  /\ kind \in [Downloads -> Kinds]
  /\ seen = [d \in Downloads |-> 0]
  /\ metadata = [d \in Downloads |-> NoMetadata]
  /\ reopened = [d \in Downloads |-> FALSE]
  /\ source = [d \in Downloads |-> 0] /\ position = [d \in Downloads |-> 0]
  /\ hashed = [d \in Downloads |-> <<>>] /\ written = [d \in Downloads |-> 0]
  /\ writer = [d \in Downloads |-> <<>>]
  /\ cut = [d \in Downloads |-> FALSE]
  /\ outcome = [d \in Downloads |-> "none"]

Finish(d, o) ==
  /\ rpc' = [rpc EXCEPT ![d] = "done"]
  /\ outcome' = [outcome EXCEPT ![d] = o]

-------------------------------------------------------------------------------
(* Mutated forms of the definitions below, each a bug this code could have;   *)
(* no specification uses them.                                                *)

\* The size is left to the end of the stream.
NeverOvershoots(d, c) == FALSE

\* A file that has come to its end is taken for one that goes on too long.
OvershootsAtTheEnd(d, c) == written[d] + Len(c) >= metadata[d].size

\* The size decides alone.
OnlySizeCounts(d) == TRUE

-------------------------------------------------------------------------------
(* stat_file, and the call that opens the stream *)

\* A download that does not verify opens its stream at once.
SkipStat(d) ==
  /\ rpc[d] = "called" /\ kind[d] = "plain"
  /\ rpc' = [rpc EXCEPT ![d] = "opening"]
  /\ UNCHANGED <<kind, expected, reopened, stream, verified, writer, outcome>>

Stat(d) ==
  /\ rpc[d] = "called" /\ kind[d] # "plain" /\ published # 0
  /\ rpc' = [rpc EXCEPT ![d] = "opening"]
  /\ seen' = [seen EXCEPT ![d] = published]
  /\ metadata' = [metadata EXCEPT ![d] =
       [size |-> versions[published].size, checksum |-> versions[published].checksum]]
  /\ UNCHANGED <<kind, reopened, stream, verified, writer, outcome>>

\* There is no such file, or the unary call failed, after its own replay if any.
StatFails(d) ==
  /\ rpc[d] = "called" /\ kind[d] # "plain"
  /\ \/ published = 0 /\ Finish(d, "not_found")
     \/ Finish(d, "status")
  /\ UNCHANGED <<kind, expected, reopened, stream, verified, writer>>

\* The server streams the version that is published now.
Open(d) ==
  /\ rpc[d] = "opening" /\ published # 0
  /\ rpc' = [rpc EXCEPT ![d] = "reading"]
  /\ source' = [source EXCEPT ![d] = published]
  /\ UNCHANGED <<kind, expected, reopened, position, cut, verified, writer, outcome>>

OpenFails(d) ==
  /\ rpc[d] = "opening"
  /\ \/ published = 0 /\ Finish(d, "not_found")
     \/ Finish(d, "status")
  /\ UNCHANGED <<kind, expected, reopened, stream, verified, writer>>

\* The opening call is refused as UNAUTHENTICATED, and made once more when the
\* token could be refreshed.
OpenRefused(d) ==
  /\ rpc[d] = "opening" /\ ~reopened[d]
  /\ rpc' = [rpc EXCEPT ![d] = "refreshing"]
  /\ UNCHANGED <<kind, expected, reopened, stream, verified, writer, outcome>>

Reopen(d) ==
  /\ rpc[d] = "refreshing"
  /\ rpc' = [rpc EXCEPT ![d] = "opening"]
  /\ reopened' = [reopened EXCEPT ![d] = TRUE]
  /\ UNCHANGED <<kind, expected, stream, verified, writer, outcome>>

RefreshRefused(d) ==
  /\ rpc[d] = "refreshing"
  /\ Finish(d, "status")
  /\ UNCHANGED <<kind, expected, reopened, stream, verified, writer>>

-------------------------------------------------------------------------------
(* download_verified_into, and the loop of download_file *)

\* record
Record(d, c) ==
  /\ hashed' = [hashed EXCEPT ![d] = @ \o c]
  /\ written' = [written EXCEPT ![d] = @ + Len(c)]

Overshoots(d, c) == written[d] + Len(c) > metadata[d].size

\* The rest of the version, as the server has it now.
Rest(d) == SubSeq(stored[source[d]], position[d] + 1, Len(stored[source[d]]))

\* What the next message may be.
Messages(d) == {SubSeq(Rest(d), 1, n) : n \in {m \in 1..MaxChunk : m <= Len(Rest(d))}}

Message(d, c) ==
  /\ rpc[d] = "reading"
  /\ position' = [position EXCEPT ![d] = @ + Len(c)]

\* extend_from_slice, and no questions.
Collect(d, c) ==
  /\ kind[d] = "plain" /\ Message(d, c)
  /\ writer' = [writer EXCEPT ![d] = @ \o c]
  /\ UNCHANGED <<rpc, kind, expected, reopened, source, cut, verified, outcome>>

\* absorb: the message is recorded and then written.
Absorb(d, c) ==
  /\ kind[d] # "plain" /\ Message(d, c)
  /\ Record(d, c)
  /\ ~Overshoots(d, c)
  /\ writer' = [writer EXCEPT ![d] = @ \o c]
  /\ UNCHANGED <<rpc, kind, expected, reopened, source, cut, outcome>>

\* A message that overshoots is recorded and goes no further.
CutOff(d, c) ==
  /\ kind[d] # "plain" /\ Message(d, c)
  /\ Record(d, c)
  /\ Overshoots(d, c)
  /\ Finish(d, "size_mismatch")
  /\ UNCHANGED <<kind, expected, reopened, source, cut, writer>>

\* The caller's writer refuses the message, having taken some of it.
WriterRefuses(d, c) ==
  /\ kind[d] = "writer" /\ Message(d, c)
  /\ Record(d, c)
  /\ ~Overshoots(d, c)
  /\ \E n \in 0..(Len(c) - 1) :
       writer' = [writer EXCEPT ![d] = @ \o SubSeq(c, 1, n)]
  /\ Finish(d, "io")
  /\ UNCHANGED <<kind, expected, reopened, source, cut>>

\* finish: the size is held against the metadata first.
DigestAgrees(d) == Sha256(hashed[d]) = metadata[d].checksum

Verdict(d) ==
  IF written[d] # metadata[d].size THEN "size_mismatch"
  ELSE IF ~DigestAgrees(d) THEN "checksum_mismatch"
  ELSE "ok"

\* The stream ends, where the version does or before, without a status.
StreamEnds(d) ==
  /\ rpc[d] = "reading"
  /\ cut' = [cut EXCEPT ![d] = Rest(d) # <<>>]
  /\ \/ Finish(d, IF kind[d] = "plain" THEN "ok" ELSE Verdict(d))
     \/ kind[d] = "writer" /\ Verdict(d) = "ok" /\ Finish(d, "io")    \* flush
  /\ UNCHANGED <<kind, expected, reopened, source, position, verified, writer>>

\* The stream ends with a status: it is not opened again.
StreamBreaks(d) ==
  /\ rpc[d] = "reading"
  /\ Finish(d, "status")
  /\ UNCHANGED <<kind, expected, reopened, stream, verified, writer>>

\* The caller drops the future.
Abandon(d) ==
  /\ rpc[d] # "done"
  /\ Finish(d, "gone")
  /\ UNCHANGED <<kind, expected, reopened, stream, verified, writer, store>>

-------------------------------------------------------------------------------
Read(d) ==
  /\ \/ SkipStat(d) \/ Stat(d) \/ StatFails(d)
     \/ Open(d) \/ OpenFails(d) \/ OpenRefused(d) \/ Reopen(d) \/ RefreshRefused(d)
     \/ /\ rpc[d] = "reading"
        /\ \E c \in Messages(d) :
             Collect(d, c) \/ Absorb(d, c) \/ CutOff(d, c) \/ WriterRefuses(d, c)
     \/ StreamEnds(d) \/ StreamBreaks(d)
  /\ UNCHANGED store

================================================================================

---------------------------- MODULE MCFileTransfers ----------------------------
(***************************************************************************)
(* FileTransfers on a small instance: a file that is there, and two of an  *)
(* upload that replaces it, a deletion, and a download.                    *)
(***************************************************************************)
EXTENDS FileTransfers

CONSTANTS
  u0,                   \* the upload that the file came from
  u1, x1, d1            \* the calls

MCBuffers == {<<>>, <<1>>, <<1, 2, 1>>, <<2, 1, 2>>, <<1, 1, 1, 1>>}

\* u0 has sent its buffer, was executed, and has returned Ok; one of the others
\* is not made, and stands as one that is over.
MCInit ==
  \E absent \in {u1, x1, d1} :
    /\ buffer \in [Uploads -> Buffers]
    /\ buffer[u0] \in {<<1>>, <<1, 2, 1>>}
    /\ buffer[u1] \in IF absent = u1 THEN {<<>>}
                     ELSE IF absent = d1 THEN {<<2, 1, 2>>, <<1, 1, 1, 1>>}
                     ELSE {<<>>, <<2, 1, 2>>}
    /\ checksum \in {[u \in Uploads |-> IF u = u0 THEN Sha256(buffer[u0]) ELSE c] :
                        c \in {NoChecksum, Sha256(<<2>>)}}
    /\ versions = <<[by |-> u0, size |-> Size(u0), checksum |-> Sha256(buffer[u0])]>>
    /\ stored = <<buffer[u0]>> /\ published = 1
    /\ markers = {<<u0, 1>>} /\ executed = <<u0>> /\ decayed = {}
    /\ wpc = [w \in Writes |-> IF w \in {u0, absent} THEN "done" ELSE "called"]
    /\ request_id = [w \in Writes |-> IF w = u0 THEN 1 ELSE 0]
    /\ result = [w \in Writes |-> IF w = u0 THEN "OK" ELSE "none"]
    /\ replayed = [w \in Writes |-> FALSE] /\ reply = [w \in Writes |-> "none"]
    /\ wire = {}
    /\ kind \in [Downloads -> Kinds]
    /\ rpc = [d \in Downloads |-> IF d = absent THEN "done" ELSE "called"]
    /\ seen = [d \in Downloads |-> 0] /\ metadata = [d \in Downloads |-> NoMetadata]
    /\ source = [d \in Downloads |-> 0] /\ position = [d \in Downloads |-> 0]
    /\ hashed = [d \in Downloads |-> <<>>] /\ written = [d \in Downloads |-> 0]
    /\ writer = [d \in Downloads |-> <<>>]
    /\ cut = [d \in Downloads |-> FALSE] /\ reopened = [d \in Downloads |-> FALSE]
    /\ outcome = [d \in Downloads |-> "none"]

MCSpec == MCInit /\ [][Next]_vars

================================================================================

---------------------------- MODULE WriteContract ----------------------------
(***************************************************************************)
(* What the SDK promises a caller that makes one call again until it       *)
(* succeeds, without the requests, the answers and the markers that make   *)
(* it so.  A call makes one or several writes:                             *)
(*                                                                         *)
(*   - a write is executed at most once for each request_id the call has   *)
(*     used: once in all under a request_id of the application's, and      *)
(*     otherwise once for each time the call was run;                      *)
(*   - a write is never ahead of the writes that come before it;           *)
(*   - Ok is returned of writes that were executed.                        *)
(*                                                                         *)
(* Under a request_id of the application's nothing is therefore executed   *)
(* after the Ok.                                                           *)
(***************************************************************************)
EXTENDS Naturals

CONSTANTS
  Writes,               \* what the call writes
  Before                \* the pairs of writes of which the one comes first

VARIABLES
  supplied,             \* the application supplies the request_id
  keys,                 \* how many the call has used
  times,                \* how often each write was executed
  acknowledged          \* the writes of which the caller was told Ok

wvars == <<supplied, keys, times, acknowledged>>

Init ==
  /\ supplied \in BOOLEAN
  /\ keys = IF supplied THEN 1 ELSE 0
  /\ times = [w \in Writes |-> 0]
  /\ acknowledged = {}

\* The call is run, or made, again, without a request_id of the application's.
UseNewKey ==
  /\ ~supplied /\ acknowledged = {}
  /\ keys' = keys + 1
  /\ UNCHANGED <<supplied, times, acknowledged>>

Execute(w) ==
  /\ times[w] < keys
  /\ \A v \in Writes : <<v, w>> \in Before => times[v] > times[w]
  /\ times' = [times EXCEPT ![w] = @ + 1]
  /\ UNCHANGED <<supplied, keys, acknowledged>>

Acknowledge ==
  /\ acknowledged' \in SUBSET Writes /\ acknowledged \subseteq acknowledged'
  /\ \A w \in acknowledged' : times[w] >= 1
  /\ UNCHANGED <<supplied, keys, times>>

Next == UseNewKey \/ Acknowledge \/ \E w \in Writes : Execute(w)

Spec == Init /\ [][Next]_wvars

=============================================================================

--------------------------- MODULE MCRefreshSchedule ----------------------------
(***************************************************************************)
(* Two settings of RefreshSchedule in one run, with different lifetimes.   *)
(* Alone, the background task meets any outages, and is asked to refresh   *)
(* at any time.  Shared, RPCs refresh the token too: what they begin and   *)
(* the outages are counted and bounded together, since each may come at    *)
(* every moment.                                                           *)
(***************************************************************************)
EXTENDS RefreshSchedule

CONSTANTS
  Alone, Shared,        \* the lifetimes of either setting
  MaxDisturbances       \* outages and refreshes of RPCs, when shared

VARIABLES shared, disturbances

MCLifetimes == Alone \cup Shared

MCInit ==
  /\ Init
  /\ shared \in BOOLEAN /\ disturbances = 0
  /\ expires_in \in (IF shared THEN Shared ELSE Alone)

Disturbance ==
  \/ attempt = "none" /\ attempt' = "caller"
  \/ up /\ ~up'

MCNext ==
  /\ Next
  /\ UNCHANGED shared
  /\ disturbances' = IF shared /\ Disturbance THEN disturbances + 1 ELSE disturbances
  /\ disturbances' <= MaxDisturbances
  /\ IF shared THEN ~permit' ELSE attempt' # "caller"
  /\ life' \in {0} \cup (IF shared THEN Shared ELSE Alone)

MCSpec == MCInit /\ [][MCNext]_<<vars, shared, disturbances>>

=============================================================================

--------------------------- MODULE RefreshContract ---------------------------
(***************************************************************************)
(* What TokenManager::refresh_now (src/src/auth.rs) promises the tasks     *)
(* that share one token manager, without the lock, the queue or the        *)
(* generation counter that make it so:                                     *)
(*                                                                         *)
(*   - attempts to refresh the token happen one after the other; an        *)
(*     attempt that succeeds has installed exactly one token, newer than   *)
(*     every token installed before, and one that fails has installed      *)
(*     none;                                                               *)
(*   - a call is answered with the outcome of the latest completed         *)
(*     attempt, and only if that attempt completed after the call began:   *)
(*     an answer is never stale, whether the call made the request itself  *)
(*     or was coalesced into another caller's;                             *)
(*   - a caller may give up (its future is dropped) without an answer.     *)
(***************************************************************************)
EXTENDS Naturals

CONSTANT Procs          \* the tasks that call refresh_now

VARIABLES
  installed,            \* the token in the authorization header
  fresh,                \* the attempt under way has installed its token
  completed,            \* how many attempts have completed
  last,                 \* outcome of the latest completed attempt
  openedAt,             \* completed when the process' open call began
  open,                 \* the processes whose call has not returned
  answer                \* what the process' latest call returned

cvars == <<installed, fresh, completed, last, openedAt, open, answer>>

Outcomes == {"ok", "err"}

Init ==
  /\ installed = 0
  /\ fresh = FALSE
  /\ completed = 0
  /\ last = "ok"
  /\ openedAt = [p \in Procs |-> 0]
  /\ open = {}
  /\ answer = [p \in Procs |-> "none"]

Invoke(p) ==
  /\ p \notin open
  /\ open' = open \cup {p}
  /\ openedAt' = [openedAt EXCEPT ![p] = completed]
  /\ answer' = [answer EXCEPT ![p] = "none"]
  /\ UNCHANGED <<installed, fresh, completed, last>>

\* The token is replaced, once per attempt and only by a newer one.
Install ==
  /\ ~fresh
  /\ fresh' = TRUE
  /\ installed' \in Nat
  /\ installed' > installed
  /\ UNCHANGED <<completed, last, openedAt, open, answer>>

\* An attempt completes: successfully if and only if it installed a token.
Complete ==
  /\ completed' = completed + 1
  /\ last' = IF fresh THEN "ok" ELSE "err"
  /\ fresh' = FALSE
  /\ UNCHANGED <<installed, openedAt, open, answer>>

Close(p) ==
  /\ open' = open \ {p}
  /\ openedAt' = [openedAt EXCEPT ![p] = 0]

Return(p) ==
  /\ p \in open
  /\ completed > openedAt[p]
  /\ answer' = [answer EXCEPT ![p] = last]
  /\ Close(p)
  /\ UNCHANGED <<installed, fresh, completed, last>>

Abandon(p) ==
  /\ p \in open
  /\ Close(p)
  /\ UNCHANGED <<installed, fresh, completed, last, answer>>

Next ==
  \/ \E p \in Procs : Invoke(p) \/ Return(p) \/ Abandon(p)
  \/ Install
  \/ Complete

Spec == Init /\ [][Next]_cvars

=============================================================================

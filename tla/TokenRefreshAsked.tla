--------------------------- MODULE TokenRefreshAsked ---------------------------
(***************************************************************************)
(* TokenRefresh with one more history variable: how many tokens the IdP    *)
(* had issued when a process called refresh_now.                           *)
(***************************************************************************)
EXTENDS TokenRefresh

VARIABLE askedAt        \* issued when the process' latest call began

askedVars == <<vars, askedAt>>

AskedInit == Init /\ askedAt = [p \in Procs |-> 0]

AskedNext ==
  /\ Next
  /\ askedAt' = [p \in Procs |->
                   IF pc[p] # "begin" /\ pc'[p] = "begin" THEN issued ELSE askedAt[p]]

AskedSpec == AskedInit /\ [][AskedNext]_askedVars

\* A refresh_now that answers Ok leaves a token in the header that the IdP
\* issued after the call: what a caller needs that knows the current token to
\* be revoked, or wants a rotated credential picked up (the doc of
\* refresh_auth_token, and the comment on a coalesced answer in refresh_now).
OkTokenWasIssuedAfterTheCall ==
  \A p \in Procs : pc[p] = "idle" /\ outcome[p] = "ok" => header > askedAt[p]

=============================================================================

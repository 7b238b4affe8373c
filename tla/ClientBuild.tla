------------------------------ MODULE ClientBuild -------------------------------
(***************************************************************************)
(* RociaDbBuilder::build and build_with_channel (src/src/lib.rs), the      *)
(* first token of TokenManager::new (src/src/auth.rs), and what the client *)
(* they return keeps alive: one background refresh task, which the guard   *)
(* shared by all clones stops when the last of them is dropped.            *)
(*                                                                         *)
(* The builder is used by reference, so that several builds of one         *)
(* configuration run side by side, each of them a future that can be       *)
(* dropped wherever it waits.  A time is counted in Parts to a second.     *)
(***************************************************************************)
EXTENDS Integers, FiniteSets

CONSTANTS
  Builds,
  Parts,                \* of a second, the precision of a reported lifetime
  Reported,             \* lifetimes an identity provider reports, in Parts
  MaxClones             \* bound: on the clones of a client held at a time

ASSUME LifetimeAssumption == Parts \in Nat \ {0} /\ Reported \subseteq Int
ASSUME CloneAssumption == MaxClones \in Nat \ {0}

VARIABLES
  config,               \* what the setters of the builder were given
  environment,          \* the AUTH_* values that are set
  stage,
  error,                \* the variant of the RociaDbError it failed with
  sockets,              \* the builds that have opened a connection
  posts,                \* the builds that have sent the IdP a request
  answer,               \* the response the IdP gave
  lifetime,             \* TokenLifetime::expires_in
  holders,              \* the clones of the client that are held
  task                  \* the background task

build == <<stage, error, sockets, posts, answer, lifetime>>
client == <<holders, task>>
vars == <<config, environment, build, client>>

AuthValues == {"AUTH_TOKEN_URL", "AUTH_CLIENT_ID", "AUTH_CLIENT_SECRET"}

\* A host is one of build's, or a label where the caller supplies the channel.
Configs ==
  [channel: {"dialed", "supplied"}, host_ok: BOOLEAN, endpoint_ok: BOOLEAN,
   connect_timeout_ok: BOOLEAN, max_file_bytes_ok: BOOLEAN,
   request_timeout_ok: BOOLEAN, auth: BOOLEAN, given: {{}, {"AUTH_CLIENT_ID"}, AuthValues}]

NoAnswer == [form |-> "none", value |-> 0, header_ok |-> FALSE]

\* expires_in is left out, a number, a number as text, or no number at all; and the
\* token does or does not make a header value.
Answers ==
  [form: {"number", "text"}, value: Reported, header_ok: BOOLEAN]
  \cup [form: {"absent", "garbage"}, value: {0}, header_ok: BOOLEAN]

\* The variants a build fails with: it was not attempted, not reached upstream, or given
\* no token.
Errors == {"Config", "Connection", "Auth"}

TypeOK ==
  /\ config \in Configs /\ environment \subseteq AuthValues
  /\ stage \in [Builds -> {"idle", "dialing", "connected", "fetching", "ok", "failed", "gone"}]
  /\ error \in [Builds -> Errors \cup {"none"}]
  /\ sockets \subseteq Builds /\ posts \subseteq Builds
  /\ answer \in [Builds -> Answers \cup {NoAnswer}]
  /\ lifetime \in [Builds -> Nat]
  /\ holders \in [Builds -> 0..MaxClones]
  /\ task \in [Builds -> {"none", "running", "aborted", "ended"}]

Init ==
  /\ config \in Configs /\ environment \in {{}, AuthValues}
  /\ stage = [b \in Builds |-> "idle"] /\ error = [b \in Builds |-> "none"]
  /\ sockets = {} /\ posts = {}
  /\ answer = [b \in Builds |-> NoAnswer] /\ lifetime = [b \in Builds |-> 0]
  /\ holders = [b \in Builds |-> 0] /\ task = [b \in Builds |-> "none"]

-------------------------------------------------------------------------------
(* Mutated forms of the definitions below, each a bug this code could have;   *)
(* no specification uses them.                                                *)

\* The HTTP client has no timeout.
WaitForever(b) == stage[b] = "fetching" /\ FALSE /\ UNCHANGED vars

\* Each clone carries a guard of its own.
AnyHolder(b) == TRUE

-------------------------------------------------------------------------------
(* The configuration *)

\* resolve_connect_timeout and resolve_max_file_bytes, of both entry points; the host
\* and the endpoint belong to the channel build dials itself.
TimeoutsAndSize == config.connect_timeout_ok /\ config.max_file_bytes_ok

HostAndEndpoint == config.channel = "supplied" \/ (config.host_ok /\ config.endpoint_ok)

\* An explicit value, or the variable of the environment.
HasCredentials == AuthValues \subseteq config.given \cup environment

Fail(b, variant) ==
  /\ stage' = [stage EXCEPT ![b] = "failed"]
  /\ error' = [error EXCEPT ![b] = variant]

-------------------------------------------------------------------------------
(* The channel *)

Begin(b) ==
  /\ stage[b] = "idle"
  /\ TimeoutsAndSize /\ HostAndEndpoint
  /\ stage' = [stage EXCEPT ![b] = IF config.channel = "supplied" THEN "connected" ELSE "dialing"]
  /\ sockets' = IF config.channel = "supplied" THEN sockets ELSE sockets \cup {b}
  /\ UNCHANGED <<config, environment, error, posts, answer, lifetime, client>>

RefuseConfig(b) ==
  /\ stage[b] = "idle"
  /\ ~(TimeoutsAndSize /\ HostAndEndpoint)
  /\ Fail(b, "Config")
  /\ UNCHANGED <<config, environment, sockets, posts, answer, lifetime, client>>

Connected(b) ==
  /\ stage[b] = "dialing"
  /\ stage' = [stage EXCEPT ![b] = "connected"]
  /\ UNCHANGED <<config, environment, error, sockets, posts, answer, lifetime, client>>

\* Refused, or not answered within connect_timeout.
DialFails(b) ==
  /\ stage[b] = "dialing"
  /\ Fail(b, "Connection")
  /\ UNCHANGED <<config, environment, sockets, posts, answer, lifetime, client>>

-------------------------------------------------------------------------------
(* build_on_channel *)

MayFetch == config.request_timeout_ok /\ config.auth /\ HasCredentials

RefuseSetUp(b) ==
  /\ stage[b] = "connected"
  /\ ~config.request_timeout_ok \/ (config.auth /\ ~HasCredentials)
  /\ Fail(b, "Config")
  /\ UNCHANGED <<config, environment, sockets, posts, answer, lifetime, client>>

BuildWithoutAuth(b) ==
  /\ stage[b] = "connected" /\ config.request_timeout_ok /\ ~config.auth
  /\ stage' = [stage EXCEPT ![b] = "ok"]
  /\ holders' = [holders EXCEPT ![b] = 1]
  /\ UNCHANGED <<config, environment, error, sockets, posts, answer, lifetime, task>>

Post(b) ==
  /\ stage[b] = "connected" /\ MayFetch
  /\ stage' = [stage EXCEPT ![b] = "fetching"]
  /\ posts' = posts \cup {b}
  /\ UNCHANGED <<config, environment, error, sockets, answer, lifetime, client>>

-------------------------------------------------------------------------------
(* TokenManager::new *)

ASSUMED_EXPIRES_IN_SECS == 300

truncate_seconds(value) == value \div Parts

\* RawExpiresIn::seconds: not text that is no number, not a negative number.
Usable(a) == a.form = "absent" \/ (a.form \in {"number", "text"} /\ a.value >= 0)

seconds(a) ==
  IF a.form = "absent" THEN ASSUMED_EXPIRES_IN_SECS ELSE truncate_seconds(a.value)

\* The header is built, the task spawned, the guard put into the client.
Finish(b, a) ==
  /\ stage[b] = "fetching" /\ Usable(a) /\ a.header_ok
  /\ stage' = [stage EXCEPT ![b] = "ok"]
  /\ answer' = [answer EXCEPT ![b] = a]
  /\ lifetime' = [lifetime EXCEPT ![b] = seconds(a)]
  /\ holders' = [holders EXCEPT ![b] = 1]
  /\ task' = [task EXCEPT ![b] = "running"]
  /\ UNCHANGED <<config, environment, error, sockets, posts>>

RefuseToken(b, a) ==
  /\ stage[b] = "fetching" /\ ~(Usable(a) /\ a.header_ok)
  /\ answer' = [answer EXCEPT ![b] = a]
  /\ Fail(b, "Auth")
  /\ UNCHANGED <<config, environment, sockets, posts, lifetime, client>>

\* An error status, a broken connection.
FetchFails(b) ==
  /\ stage[b] = "fetching"
  /\ Fail(b, "Auth")
  /\ UNCHANGED <<config, environment, sockets, posts, answer, lifetime, client>>

\* OAUTH_HTTP_REQUEST_TIMEOUT and connect_timeout of the HTTP client.
FetchTimesOut(b) == FetchFails(b)

\* The future of the build is dropped where it waits.
Cancel(b) ==
  /\ stage[b] \in {"dialing", "fetching"}
  /\ stage' = [stage EXCEPT ![b] = "gone"]
  /\ UNCHANGED <<config, environment, error, sockets, posts, answer, lifetime, client>>

-------------------------------------------------------------------------------
(* The client *)

Clone(b) ==
  /\ holders[b] \in 1..(MaxClones - 1)
  /\ holders' = [holders EXCEPT ![b] = @ + 1]
  /\ UNCHANGED <<config, environment, build, task>>

\* The guard sits in an Arc: the last clone drops it.
LastHolder(b) == holders[b] = 1

\* TokenRefreshGuard::drop
DropGuard(b) == task' = [task EXCEPT ![b] = IF @ = "running" THEN "aborted" ELSE @]

Drop(b) ==
  /\ holders[b] > 0
  /\ holders' = [holders EXCEPT ![b] = @ - 1]
  /\ IF LastHolder(b) THEN DropGuard(b) ELSE UNCHANGED task
  /\ UNCHANGED <<config, environment, build>>

TaskEnds(b) ==
  /\ task[b] = "aborted"
  /\ task' = [task EXCEPT ![b] = "ended"]
  /\ UNCHANGED <<config, environment, build, holders>>

\* The application sets the variables, or clears them, between two builds.
EnvironmentChanges ==
  /\ environment' \in {{}, AuthValues} /\ environment' # environment
  /\ UNCHANGED <<config, build, client>>

-------------------------------------------------------------------------------
Build(b) ==
  \/ Begin(b) \/ RefuseConfig(b) \/ Connected(b) \/ DialFails(b)
  \/ RefuseSetUp(b) \/ BuildWithoutAuth(b) \/ Post(b)
  \/ FetchFails(b) \/ FetchTimesOut(b) \/ Cancel(b)
  \/ \E a \in Answers : Finish(b, a) \/ RefuseToken(b, a)

Hold(b) == Clone(b) \/ Drop(b) \/ TaskEnds(b)

Next == EnvironmentChanges \/ \E b \in Builds : Build(b) \/ Hold(b)

\* The executor polls the builds and the tasks, and the timers fire; nobody need answer.
Fairness ==
  \A b \in Builds :
    /\ WF_vars(DialFails(b)) /\ WF_vars(RefuseSetUp(b) \/ BuildWithoutAuth(b) \/ Post(b))
    /\ WF_vars(FetchTimesOut(b)) /\ WF_vars(TaskEnds(b))

Spec == Init /\ [][Next]_vars
FairSpec == Spec /\ Fairness

-------------------------------------------------------------------------------
(* Properties *)

\* The lifetime a build starts with is the whole seconds of the one the token came
\* with, never a second more, and a guess only where the answer gave none.
ReportedLifetime(b) ==
  \/ answer[b].form = "absent" /\ lifetime[b] = ASSUMED_EXPIRES_IN_SECS
  \/ /\ answer[b].form \in {"number", "text"}
     /\ lifetime[b] * Parts \in (answer[b].value - Parts + 1)..answer[b].value

\* As long as a clone of an authenticated client is held its background task runs, on
\* the lifetime its token was reported with; and no task runs for anybody else: not for
\* a build that failed or was dropped, not for a client whose last clone is gone.
HeldClientsAreRefreshed ==
  \A b \in Builds :
    /\ task[b] = "running" <=> (config.auth /\ holders[b] > 0)
    /\ task[b] = "running" => ReportedLifetime(b)

\* A build that was begun ends, although neither the upstream nor the identity provider
\* ever answers; and so does every task whose client is gone.
BuildEnds ==
  \A b \in Builds :
    /\ stage[b] \in {"dialing", "connected", "fetching"} ~> stage[b] \in {"ok", "failed", "gone"}
    /\ task[b] = "aborted" ~> task[b] = "ended"

===============================================================================

# TLA+ models of the RociaDB Rust SDK

The SDK (`src/src/*.rs`) is a client library: an application builds one
`RociaDbClient`, clones it into its tasks, and calls methods that make gRPC
requests to RociaDB's document, graph and file services. The client keeps almost
nothing, but what it keeps is shared by every task, and most of its promises are
about calls that overlap, fail half-way, time out while the server still works,
or are made again. Those promises are what is modelled here.

Run a model with `tlc -config X.cfg M`, where the table under *Runs* gives `M`
and `X`; check a proof module with `tlapm M.tla`.

## Inventory

| Component | State it keeps | Operations | Interacts with |
|---|---|---|---|
| Token manager (`auth.rs`) | cached header, recorded lifetime, `refresh_lock`, `refresh_generation`, `last_attempt_failure`, `refresh_notify` | `refresh_now`, `ensure_fresh`, `request_refresh`, the background task, its guard | every RPC through the interceptor; the identity provider (IdP) |
| Refresh schedule (`auth.rs`, `lib.rs`) | the ticker, `consecutive_failures`, `TokenLifetime` | tick, reset, back off, the margin before a stream | token manager |
| Unary calls (`lib.rs`) | none between calls; within one: attempt, replay | `unary`, `attempt_with_replay`, `refresh_for_replay`, `attempt`, `server_streaming` | token manager, server |
| Retry policy (`retry.rs`) | attempt count of one call | `retry`, `delay` | the calls it wraps |
| Document writes (`document.rs`) | the request_id of one call | `put_document` (one or two RPCs), `delete_document` | unary; the server's idempotency markers |
| Document reads (`document.rs`) | none | get, list, search, query, collections | unary |
| Chunked upload (`file.rs`) | `RechunkState`, `error_slot` | `upload_file_chunked` | the caller's source, the server, which reads while the source is pulled |
| In-memory and raw upload (`file.rs`) | the buffer of one call | `upload_file`, `upload_file_stream` | token manager (before the stream, and the replay) |
| Downloads (`file.rs`) | running size and hash of one call | `download_file*`, `download_file_verified*` | server, the caller's writer |
| Graph batches (`graph.rs`) | the groups in flight | `put_nodes`, `add_edges` | unary, one call per item |
| Neighbor reads (`graph.rs`) | cursors seen, neighbors, calls in flight | `neighbor_nodes_*`, `get_*_neighbor_nodes` | unary |
| Other graph, file, tenant calls | none | one unary call each | unary |
| Builder (`lib.rs`) | its configuration, read by reference; the guard that all clones of a client share | `build`, `build_with_channel`, clone and drop of the client | the upstream's channel, the IdP, the token manager it starts |
| Timestamps (`file.rs`), delays (`retry.rs`, `auth.rs`) | none | `parse_rfc3339`, `system_time`, `unix_nanos`; `delay_ceiling`, `full_jitter`, `retry_backoff` | what the server and the IdP say |
| Errors (`error.rs`), generated code (`pb.rs`, `build.rs`) | none | — | tonic |

What is hard, and the property that makes each part correct:

* **Token manager** — tasks on several threads, futures dropped at any await, a
  task aborted while it holds a lock. Attempts are serialized and shared; the
  header only moves forward; an answer is the outcome of an attempt that completed
  during the call; nobody waits for more than one; no request to refresh is lost.
* **Refresh schedule** — three clocks that start at different moments. The ticker
  fires before the token expires; after an outage the token is good again within a
  bounded time; a margin that is left means a token the server accepts.
* **Writes** — a request whose client stopped waiting may still be executed. Under
  the application's key each write happens once, Ok means it happened, and nothing
  happens after Ok. Without one it happens at most once for each time it was run.
* **Chunked upload** — the server publishes the moment it has the declared bytes,
  and the source may turn out wrong one item later. An error that the client finds
  itself goes before whatever the server answers, and is never of a published file; Ok is
  of a published one; nothing but the source is published.
* **Graph batches** — concurrent groups, ordered inside; abandoned, and submitted
  again. Each item once, in order, last one wins.
* **Neighbor reads** — the server decides where the pages lead. Each page once, all
  of them, in order, and an end.
* **Listings** — other tasks write between two pages, pages are short or empty in the
  middle, and in a sorted query a rewrite moves a document across the cursor. What stayed
  where it was is listed once; what never was there is not listed.
* **File writes** — a replay, of a request the server may have executed, after others
  have replaced the file. Once each, and what is published is the caller's buffer.
* **Downloads** — `stat_file` and the stream may be about two versions of the file. A
  verified Ok is the version that was described; the writer gets nothing beyond its size.
* **Builder** — builds side by side, dropped or failing at any await. A refresh task
  runs exactly for the clients that are held, and a build ends.
* **Timestamps and delays** — numbers from outside, at the edges of their types.

`PROJECT.json` lists each hazard at its line with the properties that cover it.

## Modules

| Module | Models | Checked or proved in |
|---|---|---|
| `RefreshContract` | the promise of `refresh_now`, without lock, queue or generation | target of `ImplementsContract` |
| `TokenRefresh` | the token manager, one step per access to shared state | `MCTokenRefresh`, `TokenRefreshProofs` |
| `TokenRefreshAsked` | the same with one more history variable | itself |
| `RefreshSchedule` | cadence, backoff and lifetimes in discrete time | `MCRefreshSchedule`, itself, `RefreshScheduleProofs` |
| `WriteContract` | the promise of a write that is made again: at most once per `request_id`, in order, before its Ok | target of the next, of `GraphBatch` and of `FileTransfers` |
| `DocumentWrite` | `retry` around `put_document` around `unary`, and the server's deduplication | itself, `DocumentWriteProofs` |
| `ChunkedUpload` | `upload_file_chunked`, the source and the server | itself, `ChunkedUploadProofs` |
| `GraphBatch` | `put_nodes` and `add_edges`, and the server | `MCGraphBatch`, `GraphBatchProofs` |
| `NeighborWalk` | the walk over the pages of neighbors and the fan-out over nodes | `MCReads`, `ReadProofs` |
| `PagedListing` | the nine listings and the neighbors of a node, a loop over one of them, reads by id of what it listed, and the writers beside it | `MCReads`, `ReadProofs` |
| `FileStore` | one file at the server (external), for the next two | — |
| `FileUpload` | `upload_file` and `delete_file`, with their replays | `FileTransfers` |
| `VerifiedDownload` | the three downloads | `FileTransfers` |
| `FileTransfers` | uploads, deletions and downloads of one file together | `MCFileTransfers`, `FileProofs` |
| `ClientBuild` | builds, first tokens, clones and the guard | `MCClientBuild`, `ClientProofs` |
| `CalendarTime` | the instant a timestamp names | `MCArithmetic`, `FileProofs` |
| `Delays` | the delays of `retry` and of the background task, at the width of their integers | `MCArithmetic`, `ClientProofs` |

Variables and actions carry the names of the code where it has one. Each module
begins with what its steps and values stand for. A section of *mutated forms*
holds plausible bugs of the code as definitions that no specification uses:
substituting one for the definition it resembles breaks a property, which shows
that the property can be broken.

### TokenRefresh

A process is a task that calls `refresh_now`, or the background task. A call goes
`begin` → `snapped` (it read the generation) → `locked`, perhaps through `waiting`
→ `fetching` → `answered` → `installing` (lifetime written) → `installed` (header
written) → `recorded` → `bumped` → `idle`; or from `locked` back to `idle` when
another attempt completed meanwhile (`Coalesce`). Between any two of these steps
other processes run, because tokio's tasks run on several threads. `waiting`,
`fetching` and `answered` are awaits, where `Cancel` drops a caller's future and
`TaskStops` aborts the background task; both give up the lock or the place in its
queue (`Withdraw`). `refresh_lock` is tokio's fair Mutex: `HandOver` gives it to the
head of its queue. Tokens are numbered in the order in which the IdP issued them.

`RefreshContract` knows only attempts, calls and answers. The mapping takes a call
to be open from its snapshot of the generation to its return, `fresh` to be the
stretch in which a successful attempt has installed its token and not yet been
counted, and `openedAt` to be `observed_generation`.

`generation` counts attempts and is not given the width of its `u64`: it grows by
one per HTTP round trip.

### RefreshSchedule

An attempt is an interval. `left` is how long the server still accepts the cached
token, `remaining` is what `TokenLifetime` says, `timer` what is left until the
ticker fires; they differ because the first runs from the moment the IdP issues,
the second from the arrival of the answer, and the third from whenever the
background task last reset it. `IdpCanFail` takes the IdP down at any time, together
with the request or the answer in flight. `Second` gives the fineness of time, so that a
jittered delay and a latency of a fraction of a second are in it. Several lifetimes
model an IdP that changes the lifetime with each token.

Up to `MaxCallers` RPCs refresh the token beside the background task, without the ticker
hearing of it (`CallerRefreshes`). The task that finds one of their attempts in flight
queues behind it and behind `ahead` more callers (`RefreshNow`). An attempt that
completes answers it (`Install`, `FetchFails`); one whose future is dropped at an await
completes nothing (`CallerDropped`): the next in the queue begins a fetch of its own, and
when all before it were dropped the task does (`Begin`), one fetch of each later than it
asked. `HealBound` counts these.

`setFor` remembers for which lifetime the ticker was set. A caller may install a token of
another lifetime, and where that one's interval is the shorter the ticker is left behind:
`InStep` says that it is not. `NextRefreshBeforeExpiry` and `ValidOnceHealed` hold in step, with
any lifetimes and callers; out of step the token may expire before the ticker fires, which
is one of the findings below and happens in the run.

### WriteContract

A caller that makes one call until it succeeds knows of its writes how often each was
executed (`times`), under how many keys the call was made (`keys`), and of which it was
told Ok (`acknowledged`). `Execute` says that a write is executed at most once for each key
and is never ahead of one that comes before it, `Acknowledge` that Ok is returned of
executed writes, and `UseNewKey` that a new key is made only without a `request_id` of
the application's (`supplied`) and before an Ok. Three modules implement it:

| | `Writes` | `Before` | `keys` | `times` | `acknowledged` |
|---|---|---|---|---|---|
| `DocumentWrite` | the call's RPCs | document before node | `key`, or 1 if `supplied` | `applied` | all, once `status` is `OK` |
| `GraphBatch` | the items | the earlier of two of one id | `run`, or 1 under the application's keys | `applied` | all, once `pc` is `ok` |
| `FileTransfers` | uploads and deletions | none | 1, made by the call | places in `executed` | those whose `result` is `OK` |

### DocumentWrite

`supplied` is whether the application gave the call a `request_id`; without one each run
of the closure makes its own, as `default_document_request_id` does. `Call` is the
application's, `RunAgain` a run of the closure by `retry`, `Send` an attempt of `unary`,
and what an attempt comes to (`Receive`, `DeadlinePasses`, `ConnectionBreaks`) goes
through `AttemptEnds`: to the next RPC, to the replay after one refresh, to the sleep
before another run, or to the end. `wire` holds the requests the server has yet to deal
with, in no order and for any time, those given up included. The server executes a request
once per operation and `request_id`; an executed one may be answered `ABORTED`, because
confirming the marker may conflict. `delete_document` and single graph writes are this
with `HasBinding` FALSE.

### ChunkedUpload

A byte is its position in the source, so order and completeness are visible. One
pass of the loop in `rechunk_upload_requests` is one action, chosen by the guards in
the order of the code: overshoot, full chunk, drain, pull, flush, end. The source may
yield items of any size, none, end, or fail. The server publishes, confirms or
refuses between any two of them. `Return` reads `error_slot` before the status, as
the code does: the server may refuse an upload, published or not, at the same time as the
client finds something wrong, and then the client's own error is returned (`VerdictIsTrue`).

### GraphBatch

A group per id; `StartGroup` takes a free place of `try_for_each_concurrent`, in
any order because the groups come out of a `HashMap`. An error, a deadline or a
broken connection ends the batch and drops the rest, whose requests stay on the
wire; `Submit` may follow. An item's `unary` call is one request: its replay
follows an `UNAUTHENTICATED`, which says that the first request is over and changed
nothing; `DocumentWrite` has the two apart. `CallerKeys` says that the application gives
each item a key of its own, which it keeps from one submission to the next; otherwise
each submission makes new ones.

### NeighborWalk

The server answers a page with any number of items and any next cursor, one it
has used before included. The fan-out is futures' `buffered`: a place is taken from
the start of a `GetNode` call until its node is collected, and nodes are collected in
the order of the listing, so that an early answer waits for a late one. The reads of
one page and of all pages are the two values of `whole`.

### PagedListing

The nine listings, and `neighbors_out` and `neighbors_in` where the application reads the
pages itself, differ in what they list (documents, nodes, edges or names), in whether a
value is encoded before the request (`RefuseRequest`) and in whether each item is decoded,
so that one document of another shape fails the page (`Decodes`), whether they are of what
fulfils a condition (a searched value, filters, the ends and the label of an edge), and
whether they are sorted. `Ask` is `page_request` and the call, `PageIsRead` what the
server answers from one state of its store: the next places of its index up to the limit,
of which some may name entries that are gone or have moved, so that a page in the middle
may be short or empty; only an empty cursor ends the listing (`IsLastPage`). `AskAgain` is
the application reading the same page once more after a failure.

Every entry has a `place`. Without a sort list it is the id's. With one, the fields that
are sorted by give it, ties broken by the id, so that no two share a place, and a rewrite may
take the document to any free one (`PlacesFor`), before or behind the cursor. A cursor is
taken to be the place where its page ended: the SDK's docs call cursors opaque, and
promise an order that is total and stable across pages, which a cursor that counted
entries would not keep under writes.

`Put`, `AddEdge`, `Delete` and `DeleteEdge` are other tasks'; what is put again may no
longer belong in the listing (`Leaves`), and is then still found by its id. `present` and
`absent` remember what was in the listing, or was not, during the whole loop, `settled`
what has been in one place only; without a sort list that is everything (`Kept`). A
document whose sorted fields are rewritten during the loop may be passed over, or be
listed twice, though it was there all the while: no doc promises otherwise
(`docs/pagination.md` 93–95), the run has such behaviours, and `ListsWhatStayed` leaves
those documents out and holds of the others beside them. What a loop has listed may then
be read by its id, by `get_document`, `get_node` or `get_edge`: it is found, found in
another shape, not found, or not answered (`ValueArrives`, `NotFound`, `LookupFails`),
while the writers go on. `missing` has the ids that were not found.

### FileStore, FileUpload, VerifiedDownload and FileTransfers

`FileStore` is the server's side of one file: versions are published whole and
replace each other at once, a reader keeps the version it began with, the declared
checksum is kept and not computed, and stored bytes may decay. `Sha256` is injective:
two buffers have the same digest only if they are the same.

An upload goes `called` → `hashing` (the checksum is computed on a blocking thread,
where the caller gave none and the buffer is longer than one chunk) → `ready` → `sent`,
and, refused as `UNAUTHENTICATED`, through `refreshing` once to `sent` again, under the
`request_id` it has. The server takes its messages one by one (`Take`); what a message
holds is `chunk`, and what the first says of the whole, `declared`. A request the
caller gave up stays on the wire. `delete_file` goes through `unary` and is therefore
the same without messages, and with a deadline.

A download of `kind` `plain` skips `stat_file`; the other two ask it, open the stream
(replayed once, as `server_streaming` does), and feed each message to
`VerifiedDownload`: counted and hashed (`Record`), cut off if it overshoots, then
written. `Verdict` compares size before digest. `FileTransfers` lets all of them run
beside each other on one store, the decay included.

### ClientBuild

A build is a future: `Begin` up to the dial, `Connected`, the set-up of
authentication, `Post` up to the answer, `Finish`. `Cancel` drops it at either await.
A configuration is the record of what is wrong with it; `EnvironmentChanges` sets or
clears the `AUTH_*` variables between the steps of two builds. `holders` counts the
clones of a client: the last one drops the guard. `answer` is what a token response
comes to, `lifetime` what is recorded of it.

### CalendarTime and Delays

`CalendarTime` counts days by walking the calendar month by month from the epoch, in
both directions, and holds `days_from_civil`, which is a closed formula, against it.
`parse_rfc3339` works on the record of a timestamp's fields, of which `Texts` has the
ones that are compared; `Leading` is what the loop over the digits of a fraction has
after so many of them. `MaxDigits` bounds the digits of a text.

`Delays` has each saturating, checked or panicking operation of the code as what it
does at a given width, and the widths as constants: 32, 64 and 128 bits in the code,
a few in the run, any in the proofs. A jittered delay is any the jitter can draw.

## Runs

| Run | Module, configuration | What it shows |
|---|---|---|
| `token_refresh_safety` | `MCTokenRefresh`, `TokenRefreshSafety` | the lifetime describes the header but for one window; a queued call sits through one attempt; the header never goes back; `RefreshContract` is implemented |
| `token_refresh_liveness` | `MCTokenRefresh`, `TokenRefreshLiveness` | calls return, the guard stops the task, no request is lost |
| `token_refresh_asked` | `TokenRefreshAsked`, `TokenRefreshAsked` | finding 1 |
| `refresh_schedule` | `MCRefreshSchedule`, `RefreshSchedule` | with changing lifetimes and outages, and beside RPCs that refresh behind the ticker's back or are dropped while the task queues behind them: unless the ticker is out of step it is in time and recovery is bounded; the margin is enough |
| `refresh_schedule_slow_idp` | `RefreshSchedule`, `RefreshScheduleSlowIdp` | finding 2 |
| `document_write` | `DocumentWrite`, `DocumentWrite` | `WriteContract` is implemented, with and without the application's key; Ok is true, document before node, a bound on requests, the call ends |
| `chunked_upload` | `ChunkedUpload`, `ChunkedUpload` | order, framing, verdicts that are true whichever error comes first, only the source is published, the stream ends |
| `graph_batch` | `MCGraphBatch`, `GraphBatch` | `WriteContract` is implemented; in order, last one wins, the batch ends |
| `paged_reads` | `MCReads`, `Reads` | of neighbors: each page once and all of them, order, the walk ends; of listings: what stayed where it was is listed once, and what is listed and not found by its id was deleted |
| `file_transfers` | `MCFileTransfers`, `FileTransfers` | uploads and deletions are writes of `WriteContract`, what is published is the buffer; a verified Ok is the upload that was asked about, the writer gets no byte too many, a mismatch has a cause |
| `client_build` | `MCClientBuild`, `ClientBuild` | a task runs exactly for the clients that are held, on the reported lifetime; builds and tasks end |
| `arithmetic` | `MCArithmetic`, `Arithmetic` | days and instants of timestamps against counting; delays that saturate; a ticker that never panics |

### Bounds, and why they are enough

* `token_refresh_safety`: two callers and the background task give a holder and a
  queue of two, the least in which a failed attempt could be repeated by the second
  in the queue; two calls each let a call follow an attempt of its own caller. Two
  callers are symmetric. `token_refresh_liveness` has one caller and a background
  task that is woken up to three times, so that the second wake-up can come while it
  is busy with the first.
* `refresh_schedule`: of the lifetimes 2 and 7 the floor of 5 exceeds the one and
  decides over two thirds of the other; they follow each other in any order while the
  task is alone. Beside RPCs the lifetimes are 7 and 12, and the ticker of the longer
  one, set to 8 s, is late for the shorter: both in and out of step happen. There, two callers
  may be ahead of the task, and two disturbances, an outage and a refresh
  of a caller's, are enough for two callers to be dropped one after the other when the IdP is back: with a `HealBound` that is
  two units shorter, `ValidOnceHealed` fails. The proofs have any lifetimes and any number
  of each. The timeout of the HTTP client is shortened to 2 units, except in the run
  about the slow IdP, which has its real 30 s. `upFor` is capped at `HealBound`.
* `document_write`: two calls of two attempts of two RPCs of two sends, enough for a
  request of the first call to arrive during the second and after it, and for a fourth
  key where each run makes its own.
* `chunked_upload`: a chunk of 3 bytes, declared sizes around one and two chunks and
  one above the limit, items of up to 8 bytes, which fill the buffer more than
  twice, and up to 5 of them.
* `graph_batch`: three groups for two places, one of two items; three submissions,
  of which two may have been abandoned with requests on the wire.
* `paged_reads`: three cursors form cycles of one, two and three pages, also back
  into the middle; up to eight neighbors for two places. Three entries in pages of
  one and two, with limits of zero and beyond the server's, changed twice. A fourth place
  lets a document of a sorted query move to either side of the cursor. A listing begins
  with one of each set of states that no property can tell apart (`Representative`). Four calls
  are a loop of two pages with one asked for again and a read by id, or one of single
  entries to its empty last page.
* `file_transfers`: the file is there, from a first upload, and two of an upload that
  replaces it, a deletion and a download run beside each other. Buffers of none to
  four bytes make none, one and two messages and one file that is too large. The run
  starts where the first upload has returned, a state `Spec` reaches; the proofs start
  from `Init`. One version decays.
* `client_build`: two builds of every configuration; lifetimes that are negative,
  zero, whole and fractional; up to two clones.
* `arithmetic`: every month of the years 0 to 9999. Instants are compared where
  TLC's 32-bit integers hold them: seconds from 1902 to 2037, hundredths of a
  second within some months of the epoch, with fractions shorter and longer than two
  digits. The widths are a few bits, so
  that the factor, the product, the jitter and the clock all overflow within a few
  retries.

Deadlock is not checked where the system may stop: no caller has to call again, and
a bound that is used up stops it too. `refresh_schedule` and `chunked_upload` are
checked for it.

### Fairness

Only what the executor and the timers do is fair. A task that can run is polled
(`Step`, `Notified`, `Send`, `Collect`, the steps of the upload's stream), a deadline
that was set fires (`DeadlinePasses`, `PageDeadline`, `GetDeadline`), the HTTP client's
own timeout ends a fetch (`FetchTimesOut`), the connect timeout a dial (`DialFails`).
The server need not answer, the source need not be pulled to its end by anything but
the loop, and nobody has to call. `CallEnds`, `BatchEnds` and `WalkEnds` therefore rest
on `request_timeout`, without which the code promises no such thing, and `WalkEnds` on
finitely many cursors: a listing that never repeats a cursor never ends, as the comment
on `next_pagination_cursor` says. Uploads and download streams have no deadline, and
no liveness is claimed of them; `StreamEnds` is about the stream of requests that the
client itself produces.

## Findings

Places where a comment says more than the code does. Two are shown by a run of their
own, and `PROJECT.json` quotes the lines.

1. `OkTokenWasIssuedAfterTheCall`: a coalesced `refresh_now` takes the answer of an
   attempt that completed during the call, but that attempt's token may have been
   issued before the call. A caller who knows the token to be revoked may be told Ok
   about a token of before the revocation.
2. `EnoughLeftIsValid` with a slow IdP: the remaining lifetime is counted from the
   arrival of the answer. A fetch may take 30 seconds, the margin is five.

The others are visible in the models without a run:

* The doc of the field `lifetime` (`auth.rs` 349–351) says that the recorded lifetime
  always describes the cached token. `fetch_and_install` writes the two under two
  locks, and `ensure_fresh` reads the first with neither: between the writes it sees
  the new token's lifetime beside the old header. In every other state it holds,
  which is `LifetimeDescribesHeaderOutsideInstall`.
* The ticker is reset after the background task's refreshes only (`auth.rs` 759), so a
  shorter-lived token that an RPC installed can expire before the next tick, while
  `lib.rs` 83–85 says that the cadence tracks an IdP that changes the lifetime, and 1295
  that the background task refreshes before the token expires. Such a ticker is out of
  step (`InStep`), the one case the properties of `RefreshSchedule` except.
* The doc of `build` (`lib.rs` 1073–1077) and that of `RociaDbError::Config`
  (`error.rs` 107–118) say that every `Config` error is found before a connection is
  attempted. A zero `request_timeout` and a missing `AUTH_*` value are found by
  `build_on_channel`, after the dial: `RefuseSetUp` follows `Connected`, and the `Connection`
  error of an unreachable host hides them.

## Proofs

TLAPS proves, for every value of the constants, the theorems `PROJECT.json` lists.
What they assume is in the `ASSUME`s of the modules and in their own statements.

* **TokenRefreshProofs**. The invariant has four parts beside
  the types and the fact that an ended attempt has an outcome (`OutcomeOK`): a process in
  the critical section is the holder, a queued process is in the queue once
  (`LockInv`); tokens are below `issued`, and the one in hand is newer than the
  header (`TokenInv`); `lastAttemptFailure` is the last outcome once counted, and the
  generation is the number of completed attempts (`AttemptInv`); and for the bound on
  waiting, `WaitInv`: when one attempt has completed since a process joined the queue,
  everyone before it in the queue has an old snapshot and will coalesce. Without that
  last part the bound is not inductive: it depends on what those ahead will do. From
  it follow serialization, the lifetime, the header, the bound, and, step by step, that
  `TokenRefresh` implements `RefreshContract`. `RequestInv` follows a `request_refresh`: it
  is in the permit, or the background task is about to take a snapshot, or took one
  that the next attempt answers (`NoRequestIsForgotten`).
* **RefreshScheduleProofs**. `StreamMarginCoversLatency` keeps `remaining - left` within
  the latency, and assumes answers within the margin of five seconds. The others assume
  `RoomFor` a margin: that `refresh_interval` ends early enough for an answer under way
  and, beyond it, for the fetches of the callers that may be dropped ahead of the task and
  for its own. `IntervalLeavesRoom` derives that from the code's floor, clamp and two
  thirds, for latencies below a second, or below a third of the lifetime from eight
  seconds on. Three invariants carry them. `CadenceInv`: while the task waits without a
  failure behind it and the ticker is in step, the ticker is that much ahead of the
  token's expiry. `QueueInv`: the task queues only behind an attempt of a caller, with
  fewer than `MaxCallers` behind that. `RecoveryInv`: while the task waits after a
  failure, the time the IdP has been up and the wait that is left add up to no more than
  `LongestWait`; an attempt that was lost began before the IdP came back; and while one
  that will be answered is under way, either it and a fetch of each caller still ahead end
  within `HealBound` (`InTime`), or nothing has failed and they end before the token
  expires (`BeforeExpiry`). A dropped attempt takes one turn off the queue and its time
  with it. From the first follows `CadenceLeavesMargin`, from all `OutageIsHealed`, for
  any outages and callers, and from that `HealthyTokenNeverExpires`.
* **DocumentWriteProofs**. How often a write was executed is the number of markers it
  has (`KeyInv`), which are among the keys the call has made; that bounds the executions by
  the keys, of which there is one if the application gave it. A node's request is sent
  under a key under which the document was executed, and stays so however late it arrives
  (`ServerInv`), and a reply `OK` of the RPC that is waited for means a marker
  of it (`ClientInv`). Together (`WriteInv`) they show, step by step, that `DocumentWrite`
  implements `WriteContract` (`PutDocumentImplementsContract`), and, where `supplied`, that
  each write happens once and none after the Ok (`CallerKeyWritesOnce`, `NothingAfterOk`).
  `RequestsAreBounded` counts: what a call may still send, by its attempt, its RPC and
  whether that was replayed, and what it has sent stay within the bound together.
  `CallTakesFewSteps` counts the same way the steps before the call's end (`Work`).
* **ChunkedUploadProofs**. Three invariants: of the data (what was sent, buffered and
  pending are consecutive stretches of the source), of the framing, and of the verdict
  (the server lacks a byte as long as an error can still be recorded). The verdict
  needs both others, for any chunk size, sizes and source; what the caller is told comes from it
  and from where `Return` looks first (`AnswerInv`), so that `VerdictTrue` holds whatever the
  server says. `LoopNeverSpins` weighs what the
  loop still holds (`WorkLeft`): a byte in `pending` twice, in `buffer` once, so that to
  drain is progress. `Drain` moves at least one byte because the buffer never exceeds a
  chunk (`TypeOK`), and a full one is held back only where it completes the file, when a
  pending byte would be one too many.
* **GraphBatchProofs**. The invariant says of the server that an item has been executed
  as often as it has markers, and under no key under which those before it of its id
  were not (`ServerInv`), and under the application's keys that the last executed one is stored
  (`StoredInv`); of every request on the wire, whenever it
  was sent, that its predecessors of the same id are executed (`WireInv`), which is
  what makes late requests of an abandoned submission harmless; of the call that what
  it no longer has to do is executed (`CallInv`); and of the current submission that it
  has one request per waiting group (`SentInv`). `BoundInv` bounds the requests of each
  submission. `BatchImplementsContract` and `LimitHolds` hold with any keys;
  `LastWriteWins` and `ItemsArriveInOrder` assume the application's, because an item
  that is executed again under another key overwrites a later one.
* **ReadProofs**. What `get_neighbor_nodes` has asked for is exactly what it has seen, and
  the first page; the result is a prefix of the listing; the places taken are those
  started and not collected. Of a listing, that of what kept its place everything listed
  so far lies up to the cursor, in order, and includes whatever of `present` lies up to
  it; and that only what was listed is read by its id (`ListingIsWhole`, for any pages,
  places, writes and limits).
* **FileProofs**. Of the writes, a request on the wire has the one key of its call, and
  an execution leaves its marker (`WritesHappenOnce`); what has a marker was executed, and
  an Ok, answered or returned, has one (`DoneInv`), so that each call is a write of
  `WriteContract` (`FileWritesKeepTheContract`); and the messages taken so far are the
  first chunks of the buffer, so that a complete one is the buffer (`PublishedAsGiven`).
  Of the downloads, that `hashed` is a prefix of what is stored of `source` unless that
  was damaged or cut short, and that `writer` is a prefix of `hashed` within the described
  size (`WriterIsNeverOverrun`, `MismatchesAreReal`); that an accepted digest is the
  buffer's because digests are injective (`OkIsTheUpload`). Of timestamps, that the
  closed formula of `days_from_civil` moves by the length of the month from one month to
  the next, over any eras (`EveryDayIsCounted`); and of their fractions that the loop's
  number is the digits it kept, by induction over the digits (`FractionIsCutOff`), so that
  an accepted text names its instant to the nanosecond (`TimestampsAreExact`). The
  induction is over a set of numbers (`LeastElement`, `Induction`): the library's own
  induction theorems have a predicate as a parameter, which no prover here can instantiate.
* **ClientProofs**. The ceiling of a call is that of its retry, and ceilings double
  until they saturate (`CeilingsDouble`, `SleepIsLimited`); the ticker's period fits the
  clock (`BackgroundTaskNeverPanics`, which assumes `RealClock`: widths related as those of
  the code are). A build that is past its post has exactly the task its clones keep
  (`HeldMeansRefreshed`).

`PowersAssumption`, in `Delays` and `RefreshSchedule`, says that the powers of two up to
the width in use are natural numbers, each twice the one before; the provers know
nothing of `^`, and TLC evaluates it at the values of the runs. `PowersOfTenAssumption` in
`CalendarTime` says the same of ten, up to `MaxDigits`; `TextsAssumption` says what fields a
text has.

Theorems that no run repeats: the type invariants (`TypeCorrect` of each module,
`ListingTypeCorrect`, `BuildTypeCorrect`), `FetchesAreSerialized`, `IntervalLeavesRoom`,
`HealthyTokenNeverExpires`, `CallerKeyWritesOnce`, `NothingAfterOk`, `NothingTwice`,
`LimitHolds`, `WritesHappenOnce`, `NoPageIsReadTwice`, `NoPageIsMissed`,
`FanOutIsBounded`, `FractionIsCutOff`, `TimestampsNameTheirSecond`, `SystemTimeIsExact`,
`SleepIsLimited`, and what is safety in four liveness properties: `NoRequestIsForgotten`
in `RequestsAreHonoured`, `NobodyIsLeftWaiting` in `CallsReturn`, `CallTakesFewSteps` in
`CallEnds` and `LoopNeverSpins` in `StreamEnds`.

Only model-checked: liveness (`CallsReturn`, `GuardStopsTask`, `RequestsAreHonoured`,
`CallEnds`, `StreamEnds`, `BatchEnds`, `WalkEnds`, `BuildEnds`), since fairness and
ENABLED are beyond the prover. Every safety property that a passing run checks is the
statement of a theorem.

## Not modelled

* The calls of `delete_edge`, of a single `put_node` and of `add_edge`: in
  `PagedListing` they are writes of other tasks that take effect at once. What `unary` does
  to a write with one RPC is in `DocumentWrite`.
* Errors: `RociaDbError` carries a status or a cause and answers questions about it.
  The distinctions that decide what the client does next are values in the models.
* The layout of text: which byte of a timestamp is which field, JSON payloads,
  `token_type`, `redact_token_url`. A failure to decode is one of the ways a call fails.
  The floating-point limits of `expires_in` are left out.
* Settings that are handed to tonic and reqwest (TLS, keep-alive, message sizes), and
  generated code.
* The server beyond what the client relies on: deduplication by operation and key,
  publication of a complete upload, cursors. Its markers do not expire in the models.
* A cancelled `interval`, a missed tick: tokio's own. A process that crashes takes all
  its state with it; the client persists nothing.
* In `RefreshSchedule`, lifetimes of zero and one second are left to the unit tests
  of `refresh_interval`: the interval cannot be shorter than the lifetime there, and
  the docs claim no more.

Of the lines of `src/src` some two thirds are documentation and tests. The models stand
for about two thirds of the rest; what remains is mostly structs, setters, the text of
errors and the functions listed above.

## Further work

1. A composition of `TokenRefresh` with `unary`: several calls that are refused with
   the same token, coalesce, and replay with what was installed.
2. Measures like those of `CallTakesFewSteps` and `LoopNeverSpins` for `BatchEnds`,
   `WalkEnds` and `BuildEnds`.

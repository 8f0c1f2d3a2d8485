# A verification project for Posthorn

Posthorn delivers webhooks: an application posts a message, Posthorn stores it,
fans it out to the endpoints that subscribe to its event type, and a background
worker sends signed HTTP requests until each is answered with 2xx or given up on.
Everything runs in one Node process over one SQLite database. This directory
models the parts of `src/src/` where that can go wrong: TLA+ modules, TLC
configurations that check them on small instances, and TLAPS proofs, for all
instances, of every safety property that the runs check, and that the queue
implements what it promises. Paths below are relative to the repository
(`src/worker.ts` is the worker).

## 1. Inventory

The database is one `node:sqlite` connection (`src/storage.ts`) shared by the
HTTP gateway and the worker, and its API is synchronous: a transaction, or any
code between two `await`s, runs without interruption. The dashboard's script runs
in a browser, under the same rule. Interleaving happens
only at an `await`: the arrival of a request's body, the `fetch` of a delivery, a
timer. A crash can come anywhere and leaves the last committed transaction.

| Component | State | Operations | Talks to |
| --- | --- | --- | --- |
| Worker: leased queue (`src/worker.ts`) | rows of `deliveries` (status, attempt_count, next_attempt_at, lease_expires_at), `delivery_attempts`; in memory, the tasks of each tick | claim, send, recordSuccess, recordFailure, auto-disable | reads endpoints and messages once, at the claim; writes usage |
| Worker: throttle (`src/worker.ts`, `src/endpoints.ts`) | rate_limit_per_second and its window, on each endpoint | candidate selection, claim, PATCH | the queue |
| Worker: poll loop (`src/worker.ts`) | stopped, timer, activeTick; the request slots of a tick | start, stop, timer callback, tick settles | called by the server process |
| Message intake (`src/messages.ts`) | `messages`, new `deliveries` | acceptMessage, acceptMessageBatch, retryMessage | quota and usage, endpoints; feeds the queue |
| Usage (`src/usage.ts`) | `usage_months` | quota check, two counters | called inside the transactions of intake and worker |
| Endpoints (`src/endpoints.ts`) | `endpoints` | create, update, delete, rotate the secret | cascade to deliveries and attempts |
| Secrets and signing (`src/endpoints.ts`, `src/worker.ts`, `src/endpoint-tests.ts`) | current and previous secret, its expiry | rotate, sign a delivery, sign a test | the queue's snapshots |
| Admin (`src/admin.ts`), authentication (`src/auth.ts`) | `apps`, `api_keys` | create, update, delete, revoke, rotate the system secret | cascade to everything of the app |
| Portal sessions, event types (`src/portal-sessions.ts`, `src/event-types.ts`) | `portal_sessions`, `event_types` | create; create, update, archive | cascade from endpoints and apps |
| Dashboard (`src/dashboard.ts`) | token, selection, loaded rows and cursor of each page; its panels; its requests | connect, refresh, load more, inspect; create, select, revoke; an answer or an error arrives | the gateway |
| Gateway (`src/gateway.ts`) and server (`src/server.ts`) | server, storage, address, startPromise | start (with a port scan), stop, handle a request | everything |
| Listings, statistics, metrics (`src/deliveries.ts`, `src/messages.ts`, `src/endpoint-observability.ts`, `src/metrics.ts`) | none | keyset-paginated queries, sums | read the tables |
| `webhooks.ts`, `secret-protection.ts` | a local key | sign, verify, encrypt | pure but for the key |
| Clients, CLI, OpenAPI | none | wrappers and generated text | the gateway |

What makes each of them correct, and what makes that hard:

- **Queue.** No two outcomes are recorded for one claim, no attempt is lost or
  logged or billed twice, a settled delivery stays settled, no row becomes
  unclaimable, and everything is settled in the end. Hard: a lease is only a time;
  tasks wait for a request slot while it runs; an outcome arrives after the lease
  was lost; the process dies between sending and recording; operators delete and
  retry meanwhile. The fence is an SQL `WHERE` on the lease's expiry time.
- **Throttle.** The limit holds as far as fixed windows allow, one endpoint's
  limit never delays another endpoint, order and progress are kept. Hard: the line
  is not first come, first served, as an expired lease leaves its delivery where it
  was and a retried dead letter is due since its creation.
- **Poll loop.** One loop at a time whatever start/stop sequence, nothing left
  after stop, errors do not end it.
- **Intake.** A retried send never fans out twice, windows and quotas hold at their
  boundaries and half-way through a batch, tenants stay apart. Hard: one item of a
  batch affects the next, a crash leaves a batch half-done, authentication happens
  before the body arrives.
- **Secrets.** What an operator was told about the old secret stays true, for
  deliveries claimed before and after the rotation.
- **Tenants' tables.** No row dangles, names are unique, nobody writes for another
  tenant. Hard: a request acts for the app it was authenticated for, and on the
  endpoint it names, after it has waited for its body.
- **Dashboard.** What a page shows is what the server has of the tenant and of
  the selection, and a panel is told the end of every load. Hard: one click sends up
  to five requests, which are answered in any order, or fail one by one, while the
  user goes on and rows are inserted between two pages.
- **Reports.** Statistics and metrics are computed from different tables of one
  history and must agree, whatever races and retries made that history. A client
  that reads a listing page by page must miss nothing, though rows enter and leave
  the listing between two of its requests.

`PROJECT.json` lists the components with their status and the hazards by line.

## 2. The modules

| Module | Models | Variables stand for |
| --- | --- | --- |
| `DeliveryQueue` | the leased queue, in detail | columns of deliveries, endpoints, delivery_attempts, the billing meter; `claim[w][d]` is the task a tick holds in memory |
| `DeliveryOwnership` | what the queue promises, without clock and leases | status, count, "timer has run out", owner |
| `DeliveryQueueProofs` | theorems about `DeliveryQueue`, that it implements `DeliveryOwnership`, and about `DeliveryReports` and `ListingReader` | |
| `EndpointThrottle` | which due deliveries a claim takes | limit, window (by age), the state and count of each delivery, the moments they are due by |
| `EndpointThrottleProofs` | theorems about `EndpointThrottle` | |
| `WorkerLoop` | poll loop and request slots | the closure variables of createDeliveryWorker, pending timers, ticks |
| `WorkerLoopProofs` | theorems about `WorkerLoop` | |
| `MessageIntake` | accepting messages | apps, keys, endpoints, messages, deliveries, usage; the request in progress |
| `MessageIntakeProofs` | theorems about `MessageIntake` | |
| `GatewayLifecycle` | starting and stopping the gateway | the closure variables of createGateway; the servers that listen, the storages that are open, requests in flight |
| `GatewayLifecycleProofs` | theorems about `GatewayLifecycle` | |
| `SecretRotation` | rotation and signing | the endpoint's secrets, the snapshot of a task |
| `SecretRotationProofs` | theorems about `SecretRotation` | |
| `TenantResources` | endpoints, event types, portal sessions behind their requests | their tables; the app a request was authenticated for |
| `TenantResourcesProofs` | theorems about `TenantResources` | |
| `Listings` | ORDER BY, LIMIT and the cursor | none: operators that the listings of all modules share |
| `ListingReader` | a client that follows the cursors of any listing | `walk`: its query, its cursor, what it was shown |
| `DeliveryListings` | such a client of the deliveries, beside the queue | `walk`, and the variables of `DeliveryOwnership` |
| `DeliveryReports` | a page of attempts, statistics and metrics of the queue | none of its own: operators over `DeliveryQueue`'s |
| `DashboardPage` | what the two pages share | `ui`, the closure variables of a page's script, its panels and its requests |
| `TenantPage`, `AdminPage` | the two pages over the part of the API they use | the messages table; the apps and api_keys tables |
| `Dashboard` | both pages, and what is claimed of them | |
| `DashboardProofs` | theorems about `Dashboard` | |
| `MC...` | instances for TLC | |

How they fit together: `DeliveryQueue` leaves open which claimable rows a claim
picks (any `BatchSize` of them), `EndpointThrottle` is exactly that choice and leaves
open when and how attempts end. `WorkerLoop` is when ticks start and how many requests run;
`DeliveryQueue` has several ticks at once and `Concurrency` slots in each.
`MessageIntake` ends where a delivery row is inserted, which is `Enqueue` in
`DeliveryQueue`. `DeliveryQueue` implements `DeliveryOwnership` under the mapping at
its end (`INSTANCE ... WITH`): the owner of a row is the tick that holds the row's
lease. `DeliveryReports` extends `DeliveryQueue`: what an operator reads in one
request is an operator over each state that the queue can reach, and the run checks
both at once. What takes several requests is `ListingReader`, which
`DeliveryListings` composes with `DeliveryOwnership`: of the queue a listing sees
statuses, and these the queue has in common with what it implements. `TenantPage`
has the message listing of `src/messages.ts` as the server's side of the dashboard;
`AdminPage` has `src/admin.ts`.

### DeliveryQueue

One action per synchronous section of the program:

| Action | Code |
| --- | --- |
| `Enqueue` | the delivery inserts of acceptMessage |
| `Claim(w)` | claimDeliveries: transaction, then the snapshot of the claimed rows |
| `Send` | a slot of mapWithConcurrency takes the next task (no second look at the lease) |
| `ReceiverAccepts` | the receiver answers 2xx; the answer can still be lost |
| `RecordSuccess`, `RecordFailure`, `RecordDeadLetter` | the two recording transactions, with the log, the meter and the auto-disable |
| `RecordStale` | the fence matched no row: roll back |
| `Crash` | the process dies, restarts, repairs nothing |
| `RetryMessage`, `SetEnabled`, `DeleteEndpoint` | operator requests; deleting cascades |

Deleting an app is, for this module, deleting its endpoints. Left out: payload,
headers, `last_error`, `updated_at`; the rows' ids.

### DeliveryOwnership

The same life of a delivery with an `owner` in place of leases and a flag in
place of times. It is small enough for liveness without a bound on the clock.

### EndpointThrottle

Time is relative, so that it is unbounded and the state space finite: a window has
an age, and `timeline` is the order of the past moments that a claim sorts by. A
delivery is due by its `next_attempt_at` or, without one, by its `created_at`
(`DueAt`, the query's COALESCE).

| Action | Code | Where the delivery is in line afterwards |
| --- | --- | --- |
| `Create(d)` | acceptMessage | at the end |
| `Claim`, `LeaseExpires(d)` | claimDeliveries; nobody recorded in time | where it was |
| `Fail(d)`, then `BackoffEnds(d)` | recordFailure; next_attempt_at has come | at the end |
| `Fail(d)` with the budget used up, then `RetryMessage(S)` | recordFailure; retryMessage, which leaves next_attempt_at NULL | where its creation put it, ahead of all that became due since |
| `Succeed(d)` | recordSuccess | nowhere |
| `SetRateLimit`, `SetEnabled` | updateEndpoint | where it was |

`Batch` is the candidate query: eligible deliveries in due order, no more of an
endpoint than its remaining capacity, up to the batch size. It is a set, and the
query's `ROW_NUMBER` and `LIMIT` are ranks (`EndpointRank`, the count in `Batch`),
as SQL has them. A delivery that succeeded frees its name for a new one, so
deliveries never run out; auto-disabling is a `SetEnabled` here.

### WorkerLoop

`TimerFires`, `TickSettles`, `Start`, `Stop` are the closures of
createDeliveryWorker; `TaskEnds` and `TaskThrows` are what a slot of
mapWithConcurrency sees. A task throws when its outcome cannot be recorded.
`Promise.all` then rejects at once, and the tick's other slots straggle on: the
phase "straggling" is that.

### MessageIntake

`Authenticate`, then (any time later) `StartItems` or `BodyReadFails`, then the
items, each in one of `Replay`, `Conflict`, `Deduplicate`, `FailOnMissingApp`,
`RejectOverQuota`, `Accept`, in the order of the code's checks. While items are
accepted only a crash can intervene (`EventLoopIsFree`).

### GatewayLifecycle

`Start`, `PortIsTaken`, `ListenSucceeds`, `ListenFails` are one start() with its
scan for a free port; `Stop` and `CloseStorage` are stop() before and after it
awaits closeServer; `StopWaits` is a stop() during a start. A failed start closes
what it opened in the same step: its server never listened, so closeServer has
nothing to wait for. A request takes the gateway's storage when it is
authenticated and keeps it; every use it makes of it is before it ends
(`RequestEnds`), because a handler whose client went away gives up on the body,
and a test request does not touch the storage after its fetch.

### SecretRotation

A request carries the set of secrets it is signed with. Secrets are numbered in
the order they are created. The endpoint exists and is enabled throughout.

### TenantResources

`Authenticate` looks the key up, `BodyArrives` is what every handler with a body
starts with, and the other actions are handlers after it: `CreateEndpoint`,
`UpdateEndpoint`, `CreateEventType`, `UpdateEventType`, `CreatePortalSession`.
DELETE has no body and acts as it authenticates (`ActsAtOnce`). A handler that
finds its app, endpoint or event type gone is `RequestEnds`. What a PATCH writes is
the row's `version`. `RevokeKey` and `DeleteApp` are the admin's. A history variable,
`writer`, is the app for which the last step wrote. Nothing in `src/` accepts a
portal session's token or sets `revoked_at`, so neither has an action.

### Listings, ListingReader, DeliveryListings, DeliveryReports

`OrderBy` is a query's rows in its order: a row's place is how many come before it.
`Page` is `LIMIT limit + 1`, of which `limit` are shown and the last shown is the
cursor; `PageAfter` puts the cursor's `WHERE` before both. The cursor is a place,
not a row: the row may have left the query, or the table.

`ListingReader` is a client of any listing. `FirstPage` and `NextPage` are requests,
and between two of them the rows that match its query change (`Observes`). The
history variable `walk.stayed` holds the rows that have matched ever since its first
page. `DeliveryListings` is that client beside the queue, with the filters of
`listDeliveries` by status and endpoint (`Queries`): each step is one of
`DeliveryOwnership`, which the client only observes, or one of its requests.

`DeliveryReports` has what one request reads: `ListMessageAttempts`,
`GetEndpointDeliveryStats`, `DeliveriesTotal`, `DeliveryTasks`. The statistics have the
numbers of the code's answer: deliveries by status and their total, whether there is
an average duration, and the failed and dead-lettered attempts of the daily rows,
summed. Daily successes are, in the code too, the rows whose status is succeeded.
Ids are random (`src/worker.ts:903`), so attempts of one moment are listed in any
order; the property is stated for every assignment of ids (`RandomIds`).

### DashboardPage, TenantPage, AdminPage, Dashboard

The script between two awaits is an operator from the page's state to the next, of
the function's name (`LoadMessages`, `SelectMessage`, `ClearSelectedMessage`,
`LoadAdmin`, ...). A request carries the token, what it asks about, and what its
answer continues: whether a `Promise.all` waits for it (`joint`) and whether it
replaces the list (`reset`). It is in `ui.flight` until its answer arrives or it
fails, in any order. The server handles a request at any time before that where
it matters when (`HandleList`, the admin's requests); for the tenant's usage,
endpoints, deliveries and attempts only whose rows they are matters, and they are
read as the answer arrives. A user is patient (waits until nothing is under way) or
hasty: what is promised to the one is more than to the other.

## 3. The runs

| Run | Instance | What it shows |
| --- | --- | --- |
| `DeliveryQueue` | 2 deliveries to 2 endpoints, 2 ticks, batch 2, 1 slot, lease 2, budget 2, clock to 3, 1 crash, 1 operator request | leases exclude, the fence is sound, log and meter agree with the rows, no row is stranded, settled is settled, auto-disable needs older evidence of its own; the queue implements `DeliveryOwnership`; pages of attempts, statistics and metrics agree |
| `DeliveryOwnership` | 2 deliveries, 1 tick, 2 crashes, 2 operator requests, no clock; a client that lists by endpoint, status, both or neither, page size 1 | every delivery settles; a listing read page by page meanwhile misses none that matched throughout and shows none twice |
| `MessageIntake` | 2 tenants, 3 requests (two with 2 items), 3 sends, 2 months, 1 crash, 1 operator request | idempotency, deduplication, usage, quota, isolation |
| `EndpointThrottle` | 2 deliveries to an endpoint with limit none, 1 or 2, one to another, batch 2, budget 2, any number of failures, retries and new deliveries, 1 lease expiry or PATCH | bursts, no endpoint held back by another's limit, oldest first, no starvation |
| `WorkerLoop` | batch 3, 2 slots, 3 ticks, 2 throws | one loop, quiet after stop, bounded requests, it goes on, stop returns |
| `SecretRotation` | 3 secrets, overlaps 1 and 2, clock to 4 | the old secret works as long as promised and no longer, if rotations do not overlap |
| `GatewayLifecycle` | 3 sessions that may overlap, 2 requests, 3 ports, 2 stops that wait for one start | nothing is left listening or open, no session closes its storage under its own requests |
| `RotateTwice` | the same with overlapping rotations | **violated**: see below |
| `TenantResources` | 2 tenants with a key each, 2 requests in flight, 3 rows, 1 event name, session TTL 1 and clock to 2 | no dangling row or key, unique names, no row written for another tenant, what has ended has ended |
| `Dashboard` | both pages; 5 clicks of a patient user or 2 of a hasty one; 3 messages, two of the same moment, page size 1; 3 apps and keys | every panel is told the end of its load; a patient user sees what the server has |
| `DashboardMixUp` | the tenant page, 3 clicks of a hasty user | **violated**: see below |
| `RetryHorizon` | 1 delivery, default schedule, minutes | **violated**: see below |

Why these bounds are enough to be interesting. In `DeliveryQueue`, a lease of 2
within a clock of 3 lets a lease expire while a task is queued behind the one
slot, be reclaimed by the other tick, and both report; the clock then still has
room for the backoff of 1 and the second attempt of the budget of 2, so that
dead letters, auto-disable (window 2) and a retry of a dead letter occur. Two
workers are what a race takes; two endpoints are what it takes to confuse one's
failures with the other's. Deliveries (with their endpoints and messages) and
workers are symmetric; the run has no liveness property, for which symmetry would
be unsound. In `MessageIntake` the requests reuse one idempotency key for another
body and repeat one deduplication key with and without an idempotency key, within
and after the window; a quota of 1 is hit in the middle of a batch; a month lasts
2 so that it changes. In `TenantResources` three rows are an endpoint, a session for
it and one more; two requests and two tenants let each act for, or on a row of, the
other after its app, key or endpoint has gone. In `Dashboard` five clicks are
connect, inspect, load more twice and refresh, and pages of one message are cut
at, before and after two messages of the same moment; two hasty clicks have up to
ten requests in flight. Three ids are an app with two keys or two apps with one. The
listing of `DeliveryOwnership` has two pages of one row, and between them its first
row can be claimed, settled, retried or deleted and its second inserted; longer
listings are in the theorem `PagesMissNothing`. Pages of attempts hold two
(`PageLimit`), of up to three attempts of a delivery. In `EndpointThrottle` a batch of
two leaves one of three waiting, which the others can overtake as often as they are
retried. Each property has a mutant in `PROJECT.json`: a plausible slip
in one definition (an alternative defined just before it) with which TLC finds
the property violated, so none holds by lack of behaviour.

`CHECK_DEADLOCK FALSE` is set where the model really can stop: when the clock has
reached its bound and everything is settled, (`TenantResources`) when every
app is deleted, and (`Dashboard`) when the clicks are used up. `EndpointThrottle`,
`WorkerLoop` and `GatewayLifecycle` never stop and are checked for deadlock. So is
`DeliveryOwnership`, where it says little: the client can always ask again.

Every module takes the clock to be nondecreasing. `DeliveryOwnership` starts from
none; its timers just run out.

### Fairness

- `DeliveryOwnership`: timers run out; the poll loop claims again within
  `idlePollMs`; each attempt ends because `fetch` is aborted after
  `requestTimeoutMs`. Nothing is assumed of receivers or operators. One worker tick
  at a time: that is the server's poll loop and the only deployment the docs
  support (`docs/PARITY.md:66`). With two ticks whose requests outlast their
  leases the property is false: each takes the row from the other for ever.
  Nothing is assumed of the client that lists: it may stop at any page.
- `EndpointThrottle`: time passes and the loop claims. Nothing is assumed of when
  attempts end, or how, or of when messages are accepted and retried. Leases that run
  out and PATCHes are bounded (`MaxUpsets`), as a delivery whose tick dies each time,
  or a limit that is set again and again, does hold others back for ever.
- `WorkerLoop`: timers fire, requests end, promises settle. Weak fairness
  throughout: none of these is disabled again and again while it waits.

### Findings

- `RotateTwice`. Rotating a secret again while the last overlap is open forgets
  the secret replaced first, although its `previousSecretExpiresAt` was given to
  the operator as its "last usable delivery-signature time"
  (`roadmap/briefs/F-0019.md:35`). Code: `src/endpoints.ts:243`.
- `DashboardMixUp`. "Read selected message delivery status" and "attempt logs"
  (`roadmap/briefs/F-0018.md:36-37`): loadMessageStatus and loadAttempts append
  their rows without asking whether their message is still selected. Inspecting a
  second message before the first is answered shows the first one's rows under the
  second's heading. Code: `src/dashboard.ts:973`.
- `RetryHorizon`. "8 attempts over ~28h" (`README.md:77`): with the default
  schedule the eighth attempt comes 123 minutes after the first.

Behaviours that are worth knowing and that the properties leave out:

- A delivery claimed before a rotation and attempted after it is signed with the
  replaced secret alone, where `F-0019.md:16` says "both" for the overlap.
- `posthorn_deliveries_total` is a counter (`src/metrics.ts:41`) that falls when an
  endpoint or an app is deleted, which an increase over it
  (`docs/prometheus-alerts.yml:32`) takes for a restart; nothing else makes it fall
  (`CounterOnlyFallsByDeletion`).
- A dead letter that is retried goes ahead of everything accepted since it was
  created (`src/messages.ts:402`, `src/worker.ts:308`). With a budget of two or more
  attempts that is once per delivery and retry, and its next attempt queues at the
  end; with a budget of one (`attemptBudget: 1`) whoever retries the same dead letters
  again and again keeps newer deliveries waiting, and `NoStarvation` is false. The
  mutant `RetryOnce` shows the same of a retry that granted one attempt only.
- On the tenant page, submitting a blank key leaves the last tenant's rows on the
  screen. Inspecting a message re-enables "Load more" while a page is loading, and
  a second click shows that page twice; a page that fails leaves the button disabled.
- On the admin page, a new key's secret appears beside whatever tenant is selected
  when it arrives, and submitting the token again leaves it there.
- No route accepts a portal session's token, and nothing signs with an app's system
  secret.
- start() while a stop() that was not awaited is pending, which no documented use
  reaches: `WorkerLoop` with `RestartDuringStop = TRUE` violates `OneLoop`, as the
  tick that stop() awaits reschedules on finding `stopped` cleared again, beside the
  timer start() set. Likewise a gateway that is started while its last stop() still
  waits: a connection of the old session that is authenticated only then takes the
  new session's storage, for which the new session's stop() does not wait.
  `ClosedStorageIsUnused` is therefore stated for requests that work with the
  storage of their own session. The server never does either.

## 4. What is proved

Every theorem is proved with TLAPS for all values of the constants that satisfy the
named assumptions of its module. TLC has checked each inductive invariant on the
small instances before. The sections give the invariant and why it is needed.

### The leased queue (`DeliveryQueueProofs`)

| Theorem | States |
| --- | --- |
| `QueueInductive` | `Spec => []IInv` |
| `TypeCorrect` | `TypeOK` |
| `LeaseSafety` | `LiveLeaseIsOwner` |
| `FencingSafety` | `FencingTokenUnique` |
| `SnapshotSafety` | `OwnerSnapshotIsFresh` |
| `ProgressPossible` | `NoRowIsStranded` |
| `SettledIsFinal` | `SettledRowsStay` |
| `AuditTrailIsComplete` | `AuditTrail` |
| `MeterIsExact` | `AttemptsAreMetered` |
| `DisablingIsJustified` | `DisabledOnItsOwnOlderFailure` |
| `CounterOnlyFallsByDeletion` | no step but a deletion makes `DeliveriesTotal`, of `DeliveryReports`, fall |
| `QueueImplementsOwnership` | `ImplementsOwnership`, see below |
| `EveryAttemptIsPlaced` | `LogIsPlaced`, see the reports below |
| `AttemptsFollowEachOther` | `LogIsInOrder`, likewise |
| `ReportsDoAgree` | `ReportsAgree`, of `DeliveryReports` |
| `PagesMissNothing` | `Reader!WalkSpec => []Reader!WalkIsWhole`, of `ListingReader` |

Assumptions: `QueueAssumption` (sizes and timeouts are positive integers, as
resolveWorkerOptions demands; None is none of the values) and `BackoffAssumption`
(the backoff of each attempt is a positive integer, which calculateRetryBackoffMs
ensures or throws).

None of these invariants is inductive by itself, and they hold each
other up. A claim takes a row only when its lease is over, so *while a lease runs
its holder is the owner* (`LiveLeaseIsOwner`); hence a new lease, which ends later
than now, differs from every lease another tick holds for that row, and *fencing
tokens are unique*. By uniqueness the outcome that passes the fence comes from the
only task that could pass it, so once it is recorded nobody owns the row, and the
snapshot of whoever owns it next was taken after the count was written: *the
owner's snapshot is fresh*. Freshness is what bounds the count by the budget, and so
*types* and *no stranded rows* follow. `IInv` is the conjunction of these and of
`AbsentRowsAreUntouched` (a row that was never inserted has no history and no
task). The audit trail stands on top: the owner's snapshot is the row's count, so
the number it logs is the next one, and only an owner logs. `SettledRowsStay`
follows from the same invariant.

The meter and the counter are about how many rows the log has. The log is taken as
the finite set of its places, pairs of a delivery and an index
(`LoggedAttempts`): recording an outcome adds one, deleting an endpoint removes some,
nothing else changes it (`LogAndMeter`). That is a fact about cardinalities, where a
sum over a recursion would have needed induction. That disabling is justified needs
that the older failure cannot be the row being appended, which is not older than
itself.

Layout: one lemma per action that it preserves `IInv`, `NextIInv` to combine
them, and one temporal step per theorem. `OwnerRecords` is what the recording
actions share: whoever passes the fence is the only one, and holds a fresh count.
`LogGrows` is the fact about appending to a log that the audit trail needs.

### The queue implements what it promises (`DeliveryQueueProofs`)

`QueueImplementsOwnership` states `Spec => ImplementsOwnership`, the specification
without fairness of `DeliveryOwnership` under the mapping at the end of `DeliveryQueue`.
The invariant is `IInv` and `AbsentRowsAreDue` (a row that is not inserted has no
due time, so that it is born due). `FencingTokenUnique` makes the mapped owner, a
CHOOSE, well defined (`OwnersAreUnique`). One lemma per action shows it to be
the abstract action of its name, or a stutter for `Send` and for what happens
between lease and clock; the tick of the clock is the subtle one, as it makes
timers run out and owners late for many rows at once.

### The reports agree (`DeliveryQueueProofs`)

`ReportsAgree` compares numbers and pages computed from different tables, so it
needs what the history of those tables was. The run has it as one invariant; the
proof is in three parts, one for each of its conjuncts. `ReportsAssumption` adds to
those of the queue that deliveries and endpoints are finitely many, that a page has
at least one row, and that None is no row.

- **Statistics** (`StatisticsDoAgree`). The counts by status are sums over disjoint sets
  of rows. That there is an average duration exactly when a row counts as succeeded
  needs both directions of `LogIsPlaced`, where an attempt's outcome is decided by its
  number and its place: a logged success is the last attempt of a row that succeeded,
  and a row that succeeded ends its log with one (`SuccessesAreLogged`). The bound on
  failures is from the same: a failure is below the budget, of this epoch or of one
  that a dead letter ended. `IInv` does not imply it: it bounds the row's count and
  says nothing of outcomes.
- **Metrics** (`MetricsDoAgree`). `posthorn_deliveries_total` is the meter as long as no
  row was deleted (`MeterTellsDeletions`, inductive as a deletion is final). The sum
  over the endpoints is the fold of the community modules, a recursion; `SumIsUnique`
  shows, by the well-foundedness of the strict subset order and not by induction,
  that a function with the fold's equation has one value only, and the cardinality
  of the union has that equation.
- **Attempts** (`AttemptPagesDoAgree`). The listing is ordered by a strict total order,
  whatever ids were drawn. `OrderByEnumerates`: for a finite set and such an order,
  the place of a row is how many come before it and each place from 1 is taken. That a
  delivery's attempts are listed last first, though ids are random, needs
  `LogIsInOrder`: the log's times do not decrease, because whoever may still record
  was sent after everything that is logged.

### Pages miss nothing (`DeliveryQueueProofs`)

`PagesMissNothing` is about a client of any listing: any finite table, strict total
order, set of filters and page size, and rows that match or not as they please at
each step (`IsListing`, `WalkSpec`). The invariant `WalkInv`: what was shown is in
order; all of it is at or before the cursor, so that the next page continues it; and
each row that has matched throughout (`walk.stayed`) and is not after the cursor was
shown. A page keeps that, as its rows are the first of those that match after the
cursor (`PagesAre`), and the rows that stayed match now. Steps of the table keep it,
as they only shrink `walk.stayed`. The cursor's own row is never looked up, which is
why it may leave. The run checks the same property with the queue's own steps.

### The throttle (`EndpointThrottleProofs`)

| Theorem | States |
| --- | --- |
| `ThrottleInvariant` | `Spec => [](TypeOK /\ Bursts)` |
| `ThrottleTypes` | `TypeOK`, with that no window counts beyond its limit and the timeline holds no moment twice |
| `BurstsStayBounded` | `BurstIsBounded`: at most 2N - 1 claims in any second |
| `ClaimsStayFair` | `ClaimsAreFair`: only an endpoint's own limit or a full batch holds a delivery back; oldest first |

`ThrottleAssumption`: positive sizes and limits, None is not a number. `TypeOK`
alone bounds a window, not a second that two windows share. `Bursts` says what the
second in between must look like: while a window is open, it counts exactly the
claims as young as itself, and those of the last second that are older than the
window are fewer than the limit; when none is open, no claim is of this instant and
those of the last second are fewer than the limit (the one that opened the last
window has aged out of the second with it). Two times N - 1, and the claim that
opened the window. For fairness, a claim is a set chosen by ranks: `EndpointRank`
first, then the rank among the candidates (`Batch`). The lemmas on "the first k of a
finite set in an order" say that such a set has k members or is everything, and has
no gap; they are proved from the library's finite sets and the well-foundedness of
the strict subset order, without induction over data.

### The poll loop (`WorkerLoopProofs`)

| Theorem | States |
| --- | --- |
| `LoopInvariant` | `Spec => []IInv` |
| `LoopTypes` | `TypeOK` |
| `LoopIsOne` | `OneLoop` |
| `StopIsQuiet` | `QuietAfterStop` |

`LoopAssumption` (positive batch size and slots; None is no timer and no tick), and
`RestartDuringStop = FALSE`: start() is not called while a stop() is awaited.
`src/server.ts` awaits stop() and never starts a worker again; without it the
properties are false (see above). The invariant: the loop is in one of three states,
`Waiting` (one timer, no tick), `InTick` (one running tick, no timer; a pending stop
awaits this very tick), `Idle`; each tick's slots are accounted for (`SlotsAreAccounted`:
only a tick that threw leaves requests behind, and it lost a slot); and
no more ticks threw than there were faults. `OneLoop`'s bound on requests is a sum
over ticks, stated as the cardinality of a set of (tick, slot) pairs.

### The gateway (`GatewayLifecycleProofs`)

| Theorem | States |
| --- | --- |
| `GatewayInvariant` | `Spec => []IInv` |
| `GatewayTypes` | `TypeOK` |
| `GatewayLeaksNothing` | `NothingLeaks` |
| `StorageOutlivesItsRequests` | `ClosedStorageIsUnused` |

`GatewayAssumption`: None is no session. The invariant: the closure's variables
agree with what listens and what is open (`ClosureInv`); each pending stop() has
a session of its own, which is not the gateway's any more and whose storage is still
open (`ClosingInv`: a second stop() of one session would close it under the first's
requests); a request came to a session that is not over, and if it holds the storage
of that session, the gateway or a pending stop still owns it (`HandlerInv`).

### Rotation (`SecretRotationProofs`)

| Theorem | States |
| --- | --- |
| `RotationInvariant` | `Spec => []IInv` |
| `RotationTypes` | `TypeOK` |
| `ExpiredSecretsAreDead` | `ExpiredSecretIsDead` |
| `PromisedSecretsWork` | `OldSecretWorksUntilPromised`, if `RotatesEarly = FALSE` |

`RotationAssumption`: overlaps are positive. The invariant is about rows that
were read at any time in the past, as tasks and requests hold them: each says of the
secret before its own what the operator was told (`Truthful`), so its signers never
include a secret after its promised end, even when rotations overlap. That none is
missing *before* its end needs that the overlaps which a row has forgotten were
over when it was read (`OverlapsWereOver`), and that is where overlapping rotations
must be excluded; the run `RotateTwice` shows the property false with them.

### Intake (`MessageIntakeProofs`)

| Theorem | States |
| --- | --- |
| `IntakeInvariant` | `Spec => []IInv` |
| `IntakeTypes` | `TypeOK` |
| `AnswersAreIdempotent` | `IdempotentAnswers` |
| `DuplicatesStayOut` | `DuplicatesAreSuppressed` |
| `UsageIsExact` | `UsageCountsMessages` |
| `TenantsStayApart` | `TenantsAreIsolated` |
| `QuotaHolds` | `QuotaIsKept` |

`IntakeAssumption`: keys and endpoints have apps, windows and the month are positive.
Idempotency is a property of answers that were given, and what keeps it is in the
table: ids are issued once (`MessagesAreOnce`), an app has at most one message per
idempotency key (`OneOriginal`), and an answer's message is still that one for as long
as its app exists (`AnswersAreStored`). Usage is the cardinality of the month's
messages of an app, which a send grows by one and a deleted app empties. Isolation
needs that a delivery's endpoint is of its message's app (`DeliveriesInv`) and that an
answer was given to the app whose key asked.

### Tenants' tables (`TenantResourcesProofs`)

For any number of tenants, keys, names and
requests and under `ResourcesAssumption` (each key has an app; None is neither an
app nor an id; the bounds are natural numbers and the TTL is positive):

| Theorem | States |
| --- | --- |
| `ResourcesInductive` | `Spec => [](TypeOK /\ ReferencesAreIntact)` |
| `TypesAreKept` | `TypeOK`: types, and that every row is of an app that exists |
| `ReferencesStayIntact` | `ReferencesAreIntact` |
| `RowsAreWrittenForTheirOwner` | `OwnersOnly` |

`TypeOK` and `ReferencesAreIntact` are inductive together: that a session is for an
endpoint of its own app is what makes deleting an app take both. `OwnersOnly`
needs one fact more, `IdsAreUnique` (ids are drawn once): deleting an endpoint takes
the sessions that name its id, and these are its owner's only because no other
tenant's endpoint has that id. One lemma per action, as before.

### The dashboard (`DashboardProofs`)

| Theorem | States |
| --- | --- |
| `PagesInductive` | `Spec => []PageOK` |
| `TypeCorrect` | `TypeOK` |
| `PanelsAlwaysSettle` | `PanelsSettle` |
| `PatientTenantHolds` | `patient /\ page = "tenant" => TenantTrue(...)` |
| `PatientAdminHolds` | `patient /\ page = "admin" => AdminTrue(...)` |
| `PatientSees` | `PatientSeesTheTruth` |

`PageAssumption`, `TenantAssumption`, `AdminAssumption`: the bounds and times are
numbers, each message has a tenant, `None` is nothing else. The number of messages,
apps, keys and clicks and the size of a page are arbitrary.

`PageOK` holds for hasty users too. Besides types it says that a panel which says
"loading" has a request under way that ends its load: one of its own, or for the
connection panel one that a `Promise.all` waits for (tenant), or the tenants' list
(admin); after a revocation, the keys' panel has the revocation or the reload that
follows it. `Promise.all` is the hard case: the first failure settles the connection
panel and releases the others (`RejectedTo`), which go on to settle their own.

`TenantTrue` is about requests, because what is shown later is decided by what is
asked now: all are of the last click, with the page's token, at most one of each
kind, each about the message that is selected now. A request for a page of messages
starts at the page's cursor, and its answer, which may be older than the last
message accepted, is the part of the tenant's history that follows the cursor.
The first page's answer fixes that history (`since`); a later one was given
after it, so it leaves nothing of it out, and appending keeps the list complete down to its
end (`Complete`). That the list has no gap between two messages of one moment is
that `Newer` is a strict total order (`NewerIsTotal`) and the cursor a position in it.

`AdminTrue` has the same for an operator, where only usage and keys are asked for
together. An answer under way with the list of tenants has every app that the server
has; the list on the page has them too, except while the panel for a new tenant says
that one is being created. The keys shown, or in an answer under way, are the
server's own, because whatever else changes them (a key created or revoked) waits
for its answer and reloads them. After an error the page may show less than there
is, and the panel says so: that is why the property excepts it.

The server's lists are enumerations as in the reports, and the same lemma is proved
here for `Listings!OrderBy`; the apps are a sequence, newest first, from which a
deleted app is removed (`RowRemoved`).

The bulk of the module is one lemma per operator of the script that says what it
changes and what it leaves alone (`LoadTenantIs`, `SelectTenantIs`, ...); the steps
use those and never the nested EXCEPTs.

### Only model-checked

Liveness: `EveryDeliverySettles`, `NoStarvation`, `LoopGoesOn`,
`EveryStopReturns`, as fairness and ENABLED are beyond the prover. Every other
property of a passing run is stated by a theorem. The three violated properties are
counterexamples, which only TLC can give.

The bounds that the runs give (clocks, crashes, operator requests) are constants of
any size in the proofs.

## 5. Plan

Done, in this order: `DeliveryOwnership`, `DeliveryQueue` and the refinement between
them, its inductive invariant and proofs, `MessageIntake`, `EndpointThrottle`,
`WorkerLoop`, `SecretRotation`, `RetryHorizon`, `GatewayLifecycle`, the dashboard's
modules, `TenantResources` and its proofs, `DeliveryReports`, `ListingReader` and
`DeliveryListings`; then the proofs of the meter, of auto-disabling and of the
refinement, those of the poll loop, the gateway, rotation, intake and the throttle,
and last those of the dashboard and of the reports.

Left, in the order of what they would tell:

1. the server process, as the composition of gateway and worker at shutdown
   (see below for what it relies on now);
2. the time windows of the statistics, where a row can leave a window between two
   of the sums;
3. a hasty user of the dashboard: which panels may be wrong, and that a refresh
   after all answers puts them right.

## 6. Not modelled

`src/client.ts`, `src/cli.ts`, `src/openapi.ts`, `src/index.ts`, the Python client
and the scripts hold no state. `src/webhooks.ts` and `src/secret-protection.ts` are
cryptography, `src/config.ts` is a pure function of the environment. Schema
migrations run once, before anything else. `src/server.ts` starts the gateway, then
the worker, and stops the worker, then the gateway; what it relies on of each is
checked separately (`QuietAfterStop`, `EveryStopReturns`, `NothingLeaks`), and the
two are not composed: stragglers of a tick that threw may find the storage closed,
and their attempts then go unrecorded, which for the queue is a crash between send
and record. `rotateAdminAppSystemSecret` is the rotation of an endpoint's secret on
another row. Of the reports, time windows and days, the length of durations, failure
reasons and filters by event type or reason are left out; of the pages, text and
layout. Several processes on one database are not supported by the docs
(`docs/PARITY.md:66`), though the safety properties of `DeliveryQueue` do not depend
on how many ticks there are.

## 7. Running it

    tlc -config DeliveryQueue.cfg MCDeliveryQueue
    tlapm DeliveryQueueProofs.tla
    tlapm EndpointThrottleProofs.tla
    tlapm WorkerLoopProofs.tla
    tlapm MessageIntakeProofs.tla
    tlapm GatewayLifecycleProofs.tla
    tlapm SecretRotationProofs.tla
    tlapm TenantResourcesProofs.tla
    tlapm DashboardProofs.tla

and likewise for the other runs; the longest takes about a minute and a half, the
proofs of a module up to about ten minutes (`DashboardProofs`, `DeliveryQueueProofs`).

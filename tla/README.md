# OrbitPlus in TLA+

OrbitPlus keeps a cache of bus-trip documents (search results and seat maps)
fresh.  Orionmax tells the **Master** (`src/orbitplus`) that inventory changed;
the Master records a job in Cassandra (`queue_metrix`), publishes it to
RabbitMQ, and **Worker** processes (`src/orbitplusworker`) consume it, fetch the
current documents from BITS and push them back to the Master, which stores them
in Dragonfly (cache) and Cassandra (metadata).  Readers get the cached
documents from the Master, which may verify them live against BITS.

This directory holds TLA+ models of that system, TLC configurations that check
them on small instances, and TLAPS proofs of the main results for all values of
the constants.

    tlc -workers 2 -config MCWorkerDelivery_redelivery.cfg MCWorkerDelivery
    tlapm WorkerDeliveryProofs.tla

## 1. Inventory

| Component | State | Operations | What makes it correct |
|---|---|---|---|
| Worker delivery (`worker.go`, `rabbitmq/consumer.go`, `delivery.go`, `cmd/orbitplusworker/main.go`) | AMQP channel with prefetch, output channel, goroutine pool, attempt counter, run context | consume, forward, Handle (credential, health, fetch, push, retry, dead-letter report, ack), shutdown | no job lost or acknowledged without an outcome; a delivery has one owner; the pool always drains |
| BITS fetch and merge (`search_busmap.go`, `bits/`, `orbit/`) | none | search, one busmap call per entry, merge | every answer validated; the merged document belongs to the job |
| BITS zone rate limit (`ratelimit.go`, `dragonfly/rate_limiter.go` on both sides) | one counter with expiry per zone, shared by all processes | acquire, wait for reset, refuse, fail open | the quota of a window holds across processes; nobody waits longer than the reset; no zone stays blocked |
| Confirmed publication (`inventory_event_publisher.go`) | connection, channel, confirmation channel, mutex | connect, publish, await confirmation | confirmed means stored by the broker; the mutex is never kept |
| Inventory intake (`orionmax_inventory_change_receiver.go`, `orionmax_inventory_job_builder.go`) | set of routes in flight | register operator, claim, save, publish, mark, release | claims neither leak nor collide; a row exists before its job |
| Results (`tripdetails_receiver.go`, `queue_metrix.go`) | `queue_metrix` rows | store, mark completed, mark dead | COMPLETED means stored; terminal states stay |
| TripDetails storage (`tripdetails_storage_coordinator.go` and the three stores) | cache entries with TTL, metadata rows | store an entry: cache, then metadata | metadata never points at nothing; a newer document is not replaced by an older |
| Read path (`tripdetails_reader.go`, `cold_cache_refresher.go`, `stage_route_matcher.go`) | none | look up, refresh if cold, resolve stages, merge busmap into search | only fresh or repaired entries are served; the merge keeps the identity of the trip |
| Live verification (`cache_freshness_verifier.go`, `_comparator.go`, `_source.go`) | semaphore of slots | fetch live, compare, record, repair | upstream calls stay within slots and quota; a repair does not undo a newer result |
| Route refresh (`orbit_route_refresh.go`) | ticker, mutex; the route metadata says what is stale | list stale routes, fetch Orbit's routes per operator, find, save, publish, mark | a version of a route is queued once; no stale route stays blocked |
| Operator registry (`cassandra/operator.go`) | one row per operator in the active or the inactive partition | register, find, switch | a known operator stays known; what a call answers is what the table holds; a registration leaves the status alone |
| Worker start-up and readiness (`config.go`, `env_loader.go`, `health.go`, `cmd/orbitplusworker/main.go`) | accepted configuration, readiness flag, run context, health server | load, validate, connect, consume, signal, deferred shutdown | what is accepted once is not refused later; ready only while it takes work; a signal ends it |
| Master start-up (`config.go` and its groups, `cmd/orbitplusmaster/main.go`) | what is configured and what was built | load, build, compose, listen | only load-bearing parts end the start; what is missing is reported |
| Dashboards, history, analytics readers | none | read-only projections | what cannot be read is reported |
| HTTP router, UI access | none shared | routes, cookies | -- |
| V1 (`src/V1`) | markers in Redis, documents in Bleve indexes | search, seat map, operators of a route, removals | a marker is only as good as its document; no goroutine is left behind; a removal takes effect |

How they interact: Orionmax -> intake (HTTP) -> publisher -> RabbitMQ -> Worker
-> Master's `/api/tripdetails` or `/api/tripdetails/dlq` (HTTP) -> results ->
storage.  Shared mutable state is the `queue_metrix` row (intake, results and
route refresh write it without conditions), the AMQP channel (all publishers),
the zone counters (all Workers and the Master) and the cache entries (results,
repairs and cold refreshes write them).

What is hard: redelivery after crashes, lost channels and lost
acknowledgements; HTTP calls that go on after their client has timed out;
confirmations that arrive after their request was cancelled; unconditional
writes of one row by several handlers; multi-step writes that fail in the
middle; time windows.  `PROJECT.json` lists each hazard at its line.

## 2. Modules

| Module | Models |
|---|---|
| `DeliveryContract` | the abstract promise: the broker forgets a job only after an outcome of it exists, and for good |
| `WorkerDelivery` | Worker processes, their channels and goroutines; implements `DeliveryContract` |
| `InventoryPublisher` | `publish` and `awaitConfirmation` with concurrent callers |
| `JobLifecycle` | extends `InventoryPublisher` by the request handlers, the row, the Worker as the Master sees it, and the two callbacks; implements `DeliveryContract` |
| `RouteRefresh` | extends `JobLifecycle` by the scheduler and the route metadata; its pipeline still implements `DeliveryContract` |
| `WindowQuota` | the abstract promise of the limiters: Hits grants per window, windows start on the first grant |
| `RateLimitPolicy` | the quota both limiters are given |
| `ZoneRateLimit` | the shared Dragonfly counter and its clients; implements `WindowQuota` |
| `InMemoryRateLimit` | the limiter of a Worker without Dragonfly; implements `WindowQuota` |
| `RateLimiter` | the choice between the two at process start |
| `OperatorRegistry` | one operator's rows in the two partitions, each call statement by statement |
| `TripCache` | the documents and the metadata of one trip: Worker results, cached reads, cold refreshes, live verification and repair, write by write |
| `TripDocuments` | what those documents say: merged by the Worker, split and indexed by the storage, put together by the reader, compared and overwritten by live reads |
| `JobContract` | what one job says, from the item or route it is built from through every check of the Worker |
| `WorkerStartup` | the Worker process: settings, construction, readiness, signals, shutdown |
| `MasterStartup` | the Master process: setting groups, construction, and requests to what is missing |
| `LegacyOperators`, `LegacySearch`, `LegacySeatMaps` | V1: the operators of a route; searches, which ask those operators; seat maps |
| `LegacyService` | V1 as one service: searches beside seat maps |
| `WorkerDeliveryProofs`, `InventoryPublisherProofs`, `JobLifecycleProofs`, `RouteRefreshProofs`, `TripCacheProofs` | theorems and proofs about the module of that name |
| `SharedStoresProofs` | about `ZoneRateLimit`, `InMemoryRateLimit`, `OperatorRegistry` and `TripDocuments` |
| `StartUpProofs` | about `WorkerStartup`, `MasterStartup` and `JobContract` |
| `LegacyProofs` | about `LegacyOperators`, `LegacySearch` and `LegacySeatMaps`, as `LegacyService` puts them together |
| `MC*` | constants for TLC |

A definition whose comment says "mutant" is a plausible bug that takes
the place of the definition after it; none is used by a specification.

### WorkerDelivery

`queue`, `unacked`, `settled` are the broker's; `acks` are acknowledgements
written to the socket that the broker may never see.  `buffer` is what the
client library received and no goroutine has taken; `channel` tells "closed" (by
a failure: the output closes after the last forwarded delivery) from
"cancelled" (the forwarder left because of the context).  A goroutine's `pc`
walks through `processOnce` and `Handle`; each stage is one action with the
outcomes of its call.  A call that changes the Master's state and whose answer
is lost is the `outcome` changed together with a failed stage.  `Fail` is the
decision after every stage: stop on a cancelled context, report on a final
failure or the last attempt, else back off.

Two clients validate the message again before their calls, so `DatePasses`
may turn a valid job into a final failure between two stages.  `CheckHealth` is
modelled from `checkOrbitPlusHealth`: the interface `OrbitPlusClient` requires it
(`orbitplus.go:69`), but the HTTP client of this commit lacks the method.  The wait
for the zone's rate limit is a stage of its own ("slot"), before every BITS call, of
which SEARCHBUSMAP makes one and one more for each entry (`calls`): `AcquireSlot` is
the refusals with their sleeps up to the admission, `AbandonSlot` a cancelled context.
Messages
that do not validate are acknowledged without a call ("discarded"), as
`worker.go:65-74` has it; spec.md:63 (FR-009) would leave them unacknowledged.
Equally the code acknowledges a dead-lettered delivery (spec.md:62, FR-008,
reserves the ack for ACCEPTED) and dead-letters after the last attempt.  The
model follows the code in all three.

### InventoryPublisher

Callers queue on `mutex`.  `wire` is the publications the broker has not seen,
`confirms` the confirmations nobody has read.  `Send` reconnects when the
connection is dead, which replaces the confirmation channel.  The Go channel for
confirmations has a buffer of one; the library's reader holds the others back
until it is read, which makes no difference to who reads which, so `confirms` is
one sequence, of which at most one entry outlives the connection.
`PublishWithContext` does not look at its context, so only `awaitConfirmation`
sees a cancelled request.

### JobLifecycle

A handler's `pc` is its place in the loop of `ReceiveInventoryChange`; `todo`
are the items left.  `Write` is one write of the row: it fails with or without
effect, and without when the request is cancelled.  A Worker goroutine (`work`)
holds a copy of a job, fails before the push (for good or until the next attempt),
pushes or reports, waits for its call or times out; or it discards the copy, whose
date is over, and acknowledges it without a word to the Master.  `discarded` are the
jobs whose copies are no longer valid, since a date that is over stays so; their rows
stay as they are.  A call to the Master (`call`) runs on after the timeout:
results are stored under a context of their own, the dead-letter report under
the request's, so a report whose Worker has gone fails.  `Restart` empties the
Master's memory and nothing else.  Items without a reference ID end the request
before they touch anything and are left out, as is the schedule lookup, which
only decides whether a job can be built.

### RouteRefresh

`step` is where `Run` is: it lists the stale routes (`candidates`), takes one
operator after another (`fetch`), and for each route that Orbit lists looks the
row up (`find`), saves, publishes and marks it.  The ID of a job is a hash of the
route and of the timestamp of its newest metadata row, so a job is a record
`[route, version]` and the same version is the same job.  `Listed` are routes
that are surely in an active operator's date window and known to Orbit; for
others each of the two filters may go either way in every run, as the date filter may
for a route a job of which was discarded (`Over`): the next runs need not list it.  The first error
ends a run for all operators.  The ticker's goroutine calls `Run` itself, so a
tick during a run is dropped and the `TryLock` never fails; the context is the
background one, which nothing cancels.  A stored result writes the metadata of
the route its job was for (`StoreRoute`), a repair after a live read likewise
(`RepairRoute`); a store that fails may have done so.  That BITS answers for the
route it was asked about is taken for granted here.  Priorities 9 and 8, which the
broker may or may not honour, change no order this model fixes.

### OperatorRegistry

Every call starts with `operatorByCode`, which looks into the active partition
and then into the inactive one; `LookActive`, `LookInactive` and `Execute` are
one Cassandra statement each, `pc` says which is next.  The INSERT of a new
operator is conditional, the other writes are upserts.  `Fail` ends a call after
a statement that had its effect or not; nothing is undone.  `alone` observes
whether a call was overlapped and is read by no action.  Statements never
concern two operators, so one operator is modelled; `created_at`, the validation
that precedes any statement, and the two list operations, which only read, are
left out.

### TripCache

`age` and `ttl` are the documents in Dragonfly, `updated` the age of the route
metadata row, which has no expiry.  A thread is one HTTP request: a pushed
result (`Store`, one write per step, an error ends it), a cached read (`Lookup`,
then `ReadStage`, then the Trip or the BUSMAP document), a cached read with
credentials, which goes through `Verify` when the row is cold, or a live read,
which is `Verify` alone.  `Verify` is slot, quota, fetch, reading and comparing
the cached copy (which renews it as any read does), repair by the same `Store`,
and for a seat map the companion SEARCH.  `seen`, `oldest` and `repaired` observe
what a request saw and are read by no action.

Ticks are hours, requests take seconds: `Tick` waits for requests that were
running at the last one, so a request spans at most one tick.  `CacheAssumption`
asks that content outlives trust by more than that (`ColdAfter + 2 < HotTTL`);
the defaults are 6 h and 24 h, and nothing in the code validates the environment
variables that change them.

One trip with one stage on one route is modelled.  The tier of a route is that of
its newest row, so a fresh sibling keeps a cold trip from being refreshed: `Lookup`
may go on with cold metadata for that reason too, and `seen` is this trip's own.
Left out are documents of the legacy layout, schedule metadata rows, and the
recording of differences, which runs in the background.

### TripDocuments

The other half of the cache: `TripCache` knows when a document was written,
`TripDocuments` what is in it.  A document is a function from its fields to their
values, and a value says whose it is (a trip's or a stage's) and of which version
at BITS.  `cache` holds the documents by trip and by stage and the rows of the
route metadata.  Every action is a whole operation: a result of the Worker
(`WorkerSearch`, `WorkerSearchBusMap`, `WorkerBusMap`), a live read with its repair
(`VerifySearch`, `VerifyBusMap` with its companion), the expiry of one document, a
change at BITS.  Results can be of an earlier version than BITS has by now;
a seat map may lack identifiers or be about another stage, which it then names.
An answer about another stage that names nothing could not be told from the right
one, by the code or by anyone.  That a Search lists the stages that begin and end
where it asks, and that the trip's own fields agree in its entries, is assumed of
BITS.  Several fields that go together are one (`stations` for the two ends and
the points between, `bus` without its layout, `seatLayoutList` for the layout in
it); nested paths, the cap of a thousand differences, and number formats are left
out, but the comparison's rule that absent, null and empty are equal is `ValueAt`.
`agreed` and `bare` observe and are read by no action.

### JobContract

One job, all of whose texts are empty, of spaces, or something; its date is a number
of days from the first, or none.  The Master tests texts for "" and trims few of them,
the Worker trims all; the Master's zone table and its overrides name any URL, the Worker
accepts what its `APP_ENV` allows; both compare dates with their own today, and
`Midnight` may pass before every step.  `stage` is what became of the job last, a failed
call of a service kept apart from a refusal by the Worker's own check.

### WorkerStartup, MasterStartup

A setting of the Worker has a value in the process, in .env and in the file: "unset",
"blank", "bad", or a good one.  `applyEnvironment` and `loadDotEnv` say which one counts,
`Validate` what is accepted, `ConsumerAccepts` and `ClientsAccept` what the constructors
check by themselves.  Then `at` is where `main` is, and its deferred calls are the steps
from "closing" on; the forwarder of deliveries, the signal goroutine and the health
server have variables of their own.  What the pool does in between is `WorkerDelivery`.

The Master's groups of settings are "none", "bad" or "good"; `built` is what came of
them, `broken` what failed.  An endpoint is asked when the process serves: it answers,
reports that it is not configured, or its handler is aborted by a panic, which the
server recovers from.  `GivenPointer` are the repositories that `main` passes as they
are, nil or not.

### LegacyOperators, LegacySearch, LegacySeatMaps

V1 keeps a marker in Redis and a document in a Bleve index for everything, written one
after the other; dates count whole seconds.  A request is `at` one of these calls.
`LegacySearch` extends `LegacyOperators`, whose answer it needs; every operator's
goroutine sends to one unbuffered channel, and the search receives as often as it
started one (`awaited`).  A search of the operator index returns `MaxHits` documents
at most, 150 in the code (`search.go:398-401`), and which ones is left open when there
are more; Orbit's listing is one of `Listings`.  A process that ends loses its requests and keeps both stores
(`RestartSearch`, `Restart`).  `LegacyService` puts the searches beside the seat maps,
which share the process and Redis but no marker, index or request, and gives the seat
maps' variables names, and their operators a set, of their own.

### ZoneRateLimit, InMemoryRateLimit, RateLimiter

`newZoneRateLimiter` chooses Dragonfly, when a cache is configured, or counting in memory,
for the life of the process (`WorkerStartup` has what it does when Dragonfly is down); `RateLimiter` starts either model with the same policy.
Deadlines are ticks left (`ttl`, `wait`), not instants, so the state space is
finite without a horizon.  `recent` is the history of grants over the last
`Window` ticks; it is observed and never read by an action.  The Worker's
one-second fallback for a missing expiry is below the tick and is not modelled:
`CounterExpires`, which `KeepsQuota` implies and a theorem states, shows the script never
leaves one missing.  Calls let through
by fail-open are outside the quota and are not counted in `recent`.

## 3. Runs

| Run | Question | Bounds | States |
|---|---|---|---|
| `worker_redelivery` | is a job ever lost, acknowledged early, or owned twice; does handling end unless the quota keeps it, does shutdown drain the pool? | 2 processes of 1 goroutine, 1 job, prefetch 1, 2 attempts of up to 2 BITS calls, 2 faults anywhere, any number of shutdowns | 182 k |
| `worker_abandoned` | "failed deliveries MUST be retried or dead-lettered" | 1 process of 2 goroutines, no fault | *violated* |
| `publisher_cancelled` | is a confirmation taken for another's? | 2 callers, 3 calls, 1 cancel, 1 break | *violated* |
| `job_dispatch` | do claims leak or collide, has a published job its row, is an item collapsed only into a recorded one, are confirmations kept apart while nobody cancels, is every request answered? | 2 handlers, 2 two-item events with a shared route and an inactive operator, 1 cancel, 2 breaks, 1 fault | 181 k |
| `route_refresh` | is a version of a route ever queued twice, does a row ever block a stale route, do rows and results agree through timeouts and restarts? | 1 route, 2 updates, 1 goroutine, 2 calls at once, 2 attempts, 1 break, 1 fault, any job overdue | 172 k |
| `job_status` | "RECEIVED -> QUEUED -> COMPLETED, or -> DEAD" | 1 job, no fault | *violated* |
| `trip_reads` | are trusted and repaired trips served, and as fresh as promised; does a seat map end with its retention; are slots returned? | 2 requests at once of 3, 1 slot, trust 1, retention 4 and 2 ticks, 1 failed call | 2.6 M |
| `shared_stores` | do quota, expiry and wake-up hold with shared counters, and the quota in memory; is an operator ever lost, does an undisturbed call tell the truth; is anything but attributes of one stage served as another's, is every covered route indexed, are entries whole, does a repair leave nothing to repair? | limiter: 2 zones, 2 Workers, 1 live read, 2 hits per 3 ticks, 1 outage; registry: 2 callers and 1 administrator at once, 3 calls, 2 failed statements, 2 zones; documents: 3 stages of 2 trips, 3 routes, 2 versions, 3 operations, 2 changes | 384 k |
| `operator_reactivated` | "preserves an existing active state" | 1 registration, 1 administrator, no fault | *violated* |
| `legacy_service` | V1: are stable operators served, marked days kept, goroutines received from, removals final? | 2 requests at once of 3, 3 operators of which a search returns 2, 2 listings, 2 operators' seat maps, 1 trip, 2 seconds, 1 removal, 1 fault | 2.6 M |
| `start_up` | is what is accepted refused later, is a stopped Worker ready, a limit lost, a signal ignored; does anything optional end the Master's start; does the Worker drop what the Master publishes? | two settings of a complete deployment changed in any source, 2 signals; every combination of setting groups and failed stores; every job content, 3 days | 12 k |
| `missing_storage` | "an unavailable integration never fabricates or hides other data" | as `start_up` | *violated* |

`shared_stores`, `start_up` and `legacy_service` check several modules that share no
variable: each runs while the others are in their initial states, so that every behaviour
of each is seen and none twice.

Why the bounds are enough: the interesting schedules need two owners of one
job (two processes), one
retry before the last attempt (two attempts), a stale confirmation and a
publication to read it (two callers, one cancel, one break), and a push that
overlaps its own retry (two executions).  A second crash repeats the first: it
starts from a state that is reachable without it but for `outcome` and
`settled`, and the proofs cover any number, as they do jobs that wait behind each
other.
In `route_refresh` the second update shows that a new version is queued while rows
of the old one remain; a second route would only lengthen a run, whose steps for
different routes share nothing but the mutex of the publisher.  In `trip_reads` two
requests are what one write can fall between; the third is the
one that set the scene, and four ticks of retention let content expire before,
during and after the time its metadata is trusted.  Its threads are symmetric.
For the documents two stages share a trip, one passes through the other's
route and changes its stations, and a third returns to a station of its own; three
operations are one that sets the scene, one that overwrites a part of it, and one
that repairs or fails to.  For the registry three calls are a switch, what overlaps it,
and one that nobody disturbs and that must agree with what the two left.  In
`start_up` a setting can only be shadowed by one other source at a time and be
inconsistent with one other setting, hence two changes; signals after the second find
nothing new.  In `legacy_service` two seconds tell an older date from a newer one, and
one operator more than a search returns is enough for an answer to miss some; one
listing has as many operators as that and the other one more.  Its requests are
symmetric.  In `worker_redelivery` a second BITS call is what has a goroutine wait for a
slot with an answer in hand.

Fairness.  Goroutines that can run do run (the Go scheduler); every HTTP call
ends because the clients carry timeouts; timers fire; the broker serves an open
channel.  Nothing is assumed of the wait for a rate-limit slot: `awaitZoneRateLimit`
(`worker.go:152-180`) asks a counter that keeps no queue again after every reset, and a
goroutine may be late in every window.  `HandleReturns` therefore says that a goroutine
comes back to its deliveries again and again or is refused from some moment on, and that
nothing else can keep it; a shutdown ends that wait too, so that `ShutdownCompletes`
holds without exception.  `sync.Mutex` hands a waiting goroutine the lock after a millisecond
(starvation mode), hence strong fairness for `Lock`.  Nothing is assumed of
faults, of cancellations or of the arrival of work, and no redelivery is assumed
beyond `Deliver`.  `SignalEndsIt` asks that main's calls return (the dial and the
shutdown of the health server have timeouts, and the pool drains by `ShutdownCompletes`)
and that the forwarder, whose `select` may prefer a delivery to a cancelled context,
does not do so for ever; nothing is asked of the loading of settings.  In `route_refresh` the ticker ticks and an idle Worker takes what
the broker has.  Deadlock is checked in every run but those whose calls are
bounded, where the system ends with all calls answered.

### What the violated runs say

* **Abandoned delivery** (`worker_abandoned`).  When the dead-letter report
  fails, `Handle` returns DLQ_ERROR and `Run` drops it: the delivery stays
  unacknowledged on a healthy channel until the process ends, with its prefetch
  slot.  The constitution (`.specify/memory/constitution.md:48`) wants failed
  deliveries retried or dead-lettered.
* **Mistaken confirmation** (`publisher_cancelled`).  A request cancelled in
  `awaitConfirmation` leaves its confirmation on the shared channel; the next
  publication reads it as its own and is recorded QUEUED, "a broker-confirmed
  publication" (`queue_metrix.go:78`), though the broker may have lost it.
  `ConfirmedUnlessCancelled` (checked and proved) says this is the only way.
* **COMPLETED is overwritten** (`job_status`).  `MarkQueued` comes after the
  publication and is unconditional; a Worker that is faster leaves the row
  QUEUED for ever, against `create_cassandra_tables.cql:24`.
* **A switch is undone** (`operator_reactivated`).  `RegisterOperator` reads
  both partitions and then upserts the zone where it found the operator.  If an
  administrator switches the operator off in between, the UPDATE creates the
  active row again, and every later lookup prefers it, against
  `operator.go:19`.  Two administrators at once can lose an operator, which is
  why `KnownStays` asks for one.

* **A request ends without an answer** (`missing_storage`).  A Master without storage
  starts, and passes nil repositories as interfaces to services whose guards then see
  something (`main.go:87, 110, 111, 117`): the dashboard, queue and table endpoints and
  the intake panic, where they were to report what is not configured.  The intake
  keeps the route's claim, so that the same item sent again is answered as done.

Not a run, but worth knowing: README.md:94 of `src/orbitplus` says every item is
recorded, and an item skipped as a duplicate of a route in flight is answered
with success and has no row of its own.  `CollapsedIsRecorded` says what is true:
its route has one, unless a call failed.

`JobContract` shows two.  The zone table of the Master names `http` URLs, which a Worker
in its default environment, production, refuses: without overrides every job is
dead-lettered.  And a job the Worker cannot validate is acknowledged and reported to
nobody (`discarded` in `JobLifecycle`), so its row stays QUEUED.  `PublishedIsAccepted` says which jobs these are.

In V1 all days of a route share one document, whose trips have no date of their own and
are therefore trusted by no search of a marked day: every search asks the operators
again, and one of a marked day that finds a document with a single trip panics.  The
marker of the operators is written after the first document of the first refresh, so that
until the last one a search is answered with some of them, and with more documents than
`MaxHits` always.  A fetch of a seat map that failed still marks its trip.
`StableOperatorsAreServed`, `MarkedDayHasDocument` and `RemovedIsNotServed` say what
remains true.

`RouteRefresh` shows two.  What `ListedIsRefreshed` excludes is real: a job that the
Workers dead-letter before the scheduler has marked it keeps a QUEUED row, as does
one whose delivery was abandoned or whose confirmation was mistaken, and a QUEUED
row keeps its route from being queued until something else updates the route or its
date passes.  And one active operator whose zone is unknown, or one whose routes
Orbit does not answer for, ends every run before the operators after it.

`TripCache` shows four things that are no runs of their own.  `RefreshCold`
promises true "only when ... the cache was refreshed"
(`cold_cache_refresher.go:60-63`) and returns true after a failed repair too:
the caller reads the old rows again, which does no harm.  A SEARCH re-stamps the
row of a trip whose BUSMAP document it does not touch, so a seat map of up to
its 12 h of retention, which no read prolongs (`SeatMapExpires`), is served as not cold,
although an entry older than 6 h is "too old to trust"
(`tripdetails_cache_storage.go:30-33`).  The companion SEARCH of a
repaired seat map takes neither a slot nor quota.  And a stale trip is served
unrefreshed next to a fresh one of the same route.  This is why
`TrustedSearchIsServed` speaks of SEARCH and of the trip's own row.

`TripDocuments` shows why two of its properties are no stronger.
"A second cacheFlag=0 call ... will report MATCH" (`cache_freshness_verifier.go:214-215`)
does not hold: a repair deletes nothing, so a stage that was withdrawn, or that only
passes through the route and is found by its intermediate stations, is reported
missing in BITS by every call.  `RepairConverges` says what is true.  It does not
speak of a route that SEARCHBUSMAP stored last, either: fields that only a seat map
has, outside the layout, go into the Trip document, so that a live SEARCH differs
from the cache though nothing is stale, and the entries of all stages of the trip
carry those of the stage stored last, although "BUSMAP content ... must not mix data
across stages" (`specs/orbitplus/phase-2-cache-requirements.md:76`).  Those are the
attributes (`additionalAttributes`), and `OnlyAttributesAreMixed` names them as the one
exception: those of a Search entry may be of any stage of its trip.  The
entry's own they are not: two live seat maps of two stages of one trip suffice, which TLC
finds in the run's instance.  And a live seat
map overwrites Trip and Stage by the fields it has: until a SEARCH of the trip and
stage is stored, all entries of the trip lack the others, which is what
`EntriesAreWhole` excludes by `bare`.

## 4. Proofs

All theorems hold for every value of the constants under the named assumptions
of the modules, and none needs the fairness conditions.

* `WorkerDeliveryProofs`.  `IInv` is the inductive invariant: the four safety
  properties are not inductive by themselves.  `ExclusiveWork` needs to know
  that a goroutine that takes a delivery finds it unacknowledged
  (`BufferedIsUnacked`); `AcknowledgedHasOutcome` that Handle reaches its
  acknowledgement only with an outcome (`AckHasOutcome`); `RetryDelayDefined`
  that attempts are counted from 1 (`AttemptCounted`).  The proof has one lemma
  per action.  `PoolKeepsContract` maps `Settle` to `BrokerSettles`, `Record` to
  `PushTripDetails`, `ReportFailure` and the discarding `Take`, and everything
  else to stuttering.  `HandleEnds` counts down: `StepsLeft` is smaller after every step of
  Handle, because a retry uses up an attempt and a BITS call one of the attempt's, and no
  other step changes a running goroutine except to end it.  A refusal of the rate limit is
  no step, so it bounds what a goroutine does and not how long it waits.
* `InventoryPublisherProofs`.  `PInv` relates the channel to the caller that
  holds the mutex: while nobody has been cancelled, `confirms` followed by
  `wire` holds at most the current publication, and nothing outside the
  critical section.  From it: mutual exclusion and `ConfirmedUnlessCancelled`.
  `NobodyIsStuck` adds, of cancelled requests too, that a publication stays on the wire or
  becomes a confirmation, and that only the one who awaits takes one away (`AnswerComes`);
  that the mutex is held by a caller that sends or awaits is `MutexHeld`.
* `JobLifecycleProofs`.  `CompletedIsStored` needs to know that a call about to mark
  a row has stored its result (`CompletesStored`), and the contract that a goroutine
  waits for a call about its own job (`WaitsForOwn`) and acknowledges what has an
  outcome (`AckHasOutcome`), which for a job nobody worked on is "discarded"; together that is `OInv`.  Steps that touch neither Workers
  nor calls, which are most of them, are `Quiet` and preserve all of it at once.
  `HInv` is about the handlers of requests.  `ClaimsAreHeld` is inductive only with the
  items a handler still has (`RequestsOwnItems`); `PublishedIsRecorded` needs that a
  handler past `SaveReceived` has a row (`SavedRows`), and that what is on the wire or
  with the broker was sent by such a handler (`PublishedRecorded`), which rests on the
  publisher's own `PInv`.  `CollapsedIsRecorded` needs the reason why an item may be
  dropped: its operator is inactive, its route has a row, or a handler that has claimed
  the route is about to save one (`NothingDropped`); such a handler gives up
  its claim without the write only after a fault or a cancellation.  `ConfirmedUnlessCancelled`
  and `NobodyWaitsInVain` carry over from the publisher to the pipeline.  `RequestsEnd`
  needs that a handler is inside the publisher exactly while it is publishing
  (`PublishStages`): then the publisher's steps, too, leave the request less to do.
* `RouteRefreshProofs`.  Every step of the scheduler is `Quiet` or one of
  `JobLifecycle`, so its results carry over (`RefreshKeepsRequests` for the four just
  named).  For `CompletedIsOutdated`, `VInv`
  follows the periodic job from the scheduler to the callback: wherever one is,
  in the run, on the wire, at the broker, with a goroutine or in a call, it is
  `Made`, of a version its route has reached and not the last one the bound
  allows; a call about to mark its row has `Outdated` it.  Versions only grow,
  which preserves both (`GrowsKeeps`), and the items of requests are no periodic
  jobs (`RequestsOwnItems`).  `NoRepublication` speaks of runs without a fault and
  without a broken connection, and `NInv` says what the row tells in those: a job
  without a row was never sent, a RECEIVED one is the one being sent (`RowsTell`), so the
  lookup before the save finds every earlier publication; and nothing takes the paths
  that a failure opens (`NothingFails`).  Requests may be cancelled all the while.
* `SharedStoresProofs`, the rate limiters.  `RInv` is `TypeOK`, `CounterExpires` and
  `WakesAtReset`, which is inductive as it stands, and with it every step of the
  counter is a step of `WindowQuota` or stutters.  For the limiter in memory
  `MemoryTypeOK` suffices.  `SlidingQuota` is stated of the set of a zone's remembered
  grants.  `QuotaInv` divides them: those of the window the counter is in, `Used` at most,
  and the older ones of the span, `Hits` at most.  A tick makes all of them older and those
  beyond the span forgotten; a tick that ends the window makes its grants the older ones,
  those of the window before it being forgotten by then; and with no window open there is
  no grant as young as the next one.
* `SharedStoresProofs`, the registry.  `KnownStays` is an action property; its invariant
  `RegistryInv` adds that only registrations insert and update (`RegistersZone`) and
  that a lone administrator about to delete a row has written the other one
  (`TargetWritten`).  `EffectFacts` says what one statement does to the table.
  `UndisturbedCallsAgree` needs `AloneSees`: as long as nobody has overlapped a call, it is
  the only one, and each of its statements finds what the one before it saw or left.
* `SharedStoresProofs`, the documents.  The invariant `DInv` says of every stored document whose it
  is and which fields it has (`DocumentsOwn`), that every route a stage document covers has
  its row (rows are written by records of the stations and judged by
  `stageContainsRoute`; `CoveredIsIndexed` is the link), that only what a live
  seat map left is incomplete (`DocumentsWhole`), and of a route that a live Search has
  just repaired that each stage listed there is stored as BITS lists it (`RouteAgrees`).
  Lemmas say what the projections, the split and the merge of documents keep.
  That no document speaks of another trip, and a Search entry of another stage only by the
  attributes a seat map left in the Trip document, holds
  unconditionally (`NoOtherTrip`).  A seat map, too, is with its attributes the one of
  its stage (`OnlyAttributesAreMixed`) under `StagesToldApart`: a seat map of BITS names its stage, or its
  trip is sold as one stage on the route, as the run's instance has it.  The hypothesis is
  needed: with a trip of two stages on a route and a seat map that lacks its stage code,
  TLC finds it stored for the wrong stage, because the Worker then takes it for the one
  it asked for (`search_busmap.go:84-88`).
* `StartUpProofs`.  `WorkerInv`: the configuration in use is one that `Validate` accepted,
  the limiter is the one `newZoneRateLimiter` chose for it, and there is no forwarder
  before `Consume`.  From it `AcceptedIsNotRefused` (`ValidIsAccepted`: the constructors'
  own checks follow from `Validate`), `NeverDowngraded`, and `StoppedIsNotReady`.
  `OptionalNeverFatal` is inductive as it stands, by what each loader may return.
  `JobInv` says of every job past the Master what the Master has checked: none of its
  texts is empty and its date has no time, so that what the Worker can still object to is
  what `PublishedIsAccepted` lists.
* `LegacyProofs`.  `StableOperatorsAreServed` needs that a listing is empty or names every
  operator that was in all listings (`ListingsNameAlways`), and that what a refresh that
  has missed nothing has written of them still serves the route, whoever has overwritten
  it since (`WrittenServe`): the overwriting refresh has such a listing too.  A search
  names what the documents say only as long as it returns them all, which is the
  property's premise (`DocumentsFit`, `HitsServe`).  `NoCallerIsLeft` needs that a search
  that gathers has exactly as many receives to make as goroutines that have not sent
  (`CallersMatch`).
  `MarkedDayHasDocument` needs that a day is marked last and only after trips were kept.
  For `RemovedIsNotServed`, `RemovedAreOutdated` dates the documents: one older than the
  last removal of its trip's marker is older than the marker, than the fills under way
  and than the marker read by a request that began after the removal.
* `TripCacheProofs`.  `IInv` says that what is in the cache is kept for its
  retention (`KeptForRetention`), that metadata is never much younger than the
  Trip and Stage documents it points to (`MetadataBacked`), and of each request
  that it has written what it should have (`WrittenSoFar`) and that what it has
  still to read is recent enough (`ReadsTrusted`, `ReadsRepaired`).  Every action
  but `Tick` only makes documents younger and keeps them longer, which is the
  lemma that carries the other requests' conjuncts; `Tick` uses up the slack
  that the time of one request leaves.  `SeatMapExpires` is inductive with the types: only
  its own write touches a seat map, so that a route stamped anew by a Search
  (`tripdetails_cache_storage.go:30`) serves one no older than its retention.

Only model-checked:

* Liveness (`HandleReturns`, `ShutdownCompletes`, `RequestAnswered`,
  `ListedIsRefreshed`, `SignalEndsIt`): it rests on fairness, hence on ENABLED, which the
  prover does not handle.  Of the first and the third, the part that needs no fairness is
  proved: `HandleIsBounded` and `RequestIsBounded` count the steps a delivery or a request
  has left, and `NobodyWaitsInVain` says that whatever is waited for in the publisher is on
  its way.  What stays with fairness is that goroutines, the broker and the
  calls to other services move on.

The theorems `NoOtherTrip`, `HandleEnds`, `NobodyIsStuck`, `PipelineNeverStuck` and
`RequestsEnd` state properties that no run of the project checks; TLC found them true of
the runs' instances before they were proved.

The types of the proved modules are proved (`TypeCorrect` and its like) and not run, as is
`RetryDelayInRange`; `AcceptedIsNotRefused` checks its assumption, that attempts and
delays agree, where the settings are read.

## 5. Not modelled, and why

* Dashboards, history, log and analytics readers, the RabbitMQ management
  client, router, UI access: read-only or stateless.
* Of V1: the three listings of markers and the raw index query, which only read; and
  the legs of a trip, which its keys do not tell apart.
* Within the start-up modules, what settings treated alike have of their own, log files
  and the contents of TLS files.  The Worker's date is local and the Master's UTC;
  `Midnight` stands for both.
* The AMQP library: a confirmation that nobody reads blocks its reader goroutine
  (`inventory_event_publisher.go:53`) until somebody publishes again.
* `InventoryEventPublisher.Close`: `main` ends through `log.Fatalf`, which runs no
  deferred call.
* Decoding and encoding of payloads, logging, metrics of AMQP.

## 6. Plan

Done, in order of importance: delivery, publication, job lifecycle, route refresh,
rate limit, the operator registry, the trip cache with its reads and repairs, the
documents in it, V1, the content of jobs, and both start-ups; and a proof of every
safety property that a run checks.  Next:

1. Several trips of one route in `TripCache`, for the tier by the newest row, and its
   proofs.
2. The quota by zone: `RateLimitPolicy.Limit` with its overrides and zones whose
   quota is disabled, in `RateLimitPolicy`, for Worker and Master.
3. The schedule rows of the metadata, which the job builder looks a trip code up in, and
   the priorities of jobs.
4. The answers of BITS, Orbit and the Master as the clients classify them
   (status, body, size limit), where `WorkerDelivery` has a success, a retryable
   or a final failure.
5. The comparator on nested values, against the equality it stands for, and the
   cap on the differences it collects; legacy seat maps and their reconstruction.

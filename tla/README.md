# Verification of Self-RSS in TLA+

Self-RSS is a self-hosted feed reader: an API server (Hono, SQLite through
Drizzle and bun:sqlite, Redis), a worker process that fetches publishers'
feeds, a React web client and an Android client with an offline store. This
directory holds TLA+ modules of its core, the TLC configurations that check
them, and machine-checked proofs. Paths below are relative to `packages/api/src`
unless they say otherwise; `web/` is `packages/web/src`.

Contents: 1 inventory, 2 the modules, 3 how they are composed and checked,
4 proofs, 5 known divergences, 6 what is not modelled.

## 1. Inventory

The server runs one of two ingestion pipelines: `FEED_PIPELINE_MODE=v2`, a
durable queue in SQLite, and the legacy one, coordinated through Redis. API and
worker are two processes over one SQLite file in WAL mode, plus Redis
(`DEPLOY.md`); several workers may run. bun:sqlite is synchronous, so a
transaction is atomic and everything between two awaits of one process is one
turn of its event loop; other processes come in between any two transactions.

| Component | State | Interacts through | Hard behaviour | Correct means | Module |
|---|---|---|---|---|---|
| Durable fetch queue | `feed_fetch_jobs`, `feed_sources`, `feed_origins`; claims in memory | SQLite, publisher HTTP, timers, abort signal | leases, crash, stall, shutdown, batches, retries | one request per origin; backoff, block and cadence respected; no lease stolen; no job lost | `FetchJobs` |
| Fetch policy and the health of sources | delays in seconds; failure counts, circuits, blocks | what claims read when they begin and write when they end | failures of several kinds in a row, claims of one origin side by side | waits bounded and growing, a week's rest after eight failures, forgiven by a success only | `FetchPolicy`, `FeedHealth` |
| Refresh requests and deliveries | requests, items, deliveries, pending feeds | the job and its snapshot; API and worker share the tables | aggregation outside the item's transaction, API between two worker writes, crash recovery | an item waits only while something works on it, is completed only when delivered; every request ends | `RefreshRequests` |
| Snapshot delivery | articles, delivery leases | deliveries, realtime, cache | an older snapshot after a newer, source replaced, a process that lost its lease | articles of the right source, newest content wins, each told once | `SnapshotDelivery` |
| Replacement and discovery | pending source, candidates, idempotency keys | refresh requests, parse | cancel against parse, two calls at once | the feed gets only what was staged for it last | `Replacement` |
| Operational cleanup | all ingestion tables | fetch queue, deliveries | deleting what is still referenced | nothing live is deleted | `Cleanup` |
| Legacy synchronisation | Redis locks, cooldowns, lists; job state | Redis, feed rows | lock expiry in mid-run, late heartbeats, failed writes | one sync of a feed at a time, one request per cooldown, every due feed synced, no accepted refresh dropped | `FeedSync`, `BulkSync` |
| Article enrichment | queue columns, Redis locks | article rows, legacy sync | two workers, sync between read and write | full content is not lost, one fetcher, bounded attempts | `Enrichment` |
| Article cache | Redis list, generation, details | deliveries, enrichment, warmers | fills that are older than an invalidation | no stale list | `ArticleCache` |
| Realtime events | Redis subscriber, handlers, counts | Redis, SSE streams | reconnection, streams that leave while they join | counts agree, nothing leaks, every stream hears again | `Realtime` |
| Article state and outbox | per-user states, ledger; IndexedDB outbox | HTTP, Web Locks, other tabs | lost answers, repeated mutations, edits in flight | the change asked for last takes effect before it is forgotten | `Outbox`, `Intents` |
| Authentication sessions | users, sessions, tombstones | cookies, Redis | concurrent rotation, revocation during a check | a session has one live token, none once revoked | `AuthSessions` |
| Browser session | refresh cookie, IndexedDB, tokens per tab | API, other tabs | an answer after a sign-out | a sign-out sticks | `BrowserSession` |
| Category hierarchy | tree, sort orders | import, sidebar | concurrent moves, deletion against creation | no category lost and siblings apart, but by a request that another overtook; orders as computed | `Categories`, `CategoryOrder` |
| Read state, pages, refresh, preferences in the web client | query caches | answers, events, timers | any order of these | what is shown is what the server has | `ReadView`, `ArticlePages`, `RefreshView`, `Preferences` |
| OPML quota | Redis counters | imports at a time | crash between take and give back | the cap holds, no slot is lost | `ImportQuota` |
| Product analytics | events in localStorage, marks in Redis, rows per user and day | several tabs, lost answers | a failure between mark and row, an event sent again | each event is counted once, for its user | `Analytics` |
| Worker process | timers, loops' flags, shutdowns | signals, the pipelines' loops | which loop runs when another starts, two signals, a loop that hangs | no enrichment beside a sync, quiet shutdown, a signal ends it | `Worker` |
| Database migrations | guard, ledger, rows | API start, `db:migrate` | two processes, edited files | each once, nothing protected removed | `Migrations` |

## 2. The modules

Each module is one component: its state as variables, one action per
transaction, handler or step, with its guard and early returns. What is
nondeterministic is what the environment decides: which request comes, what a
publisher answers, when a process dies or stalls, what the network loses. Every
bound (`Max...`, `Days`, `Horizon`, ...) is a constant named in its module.

### FetchJobs

*State.* `job`, `source` and `origin` are the rows of the three tables, reduced
to the columns that some condition reads. `phase`, `batch` and `task` are what
a worker process holds in memory: where its drain loop stands, the claims of the
current `drainOnce`, and where each `processClaim` stands together with the time
it read at its start. `stalled` and `faults` are the environment. `asked` and
`requested` are history variables no action reads: the latest moment an origin
asked us to wait for, and when each source was last asked.

| Action | Code |
|---|---|
| `EnqueueDueSources` | `enqueueDueSources`, by the 30 s scheduler tick |
| `Refresh`, `Subscribe`, `Unsubscribe` | `queueDurableRefresh`, `createPendingFeed`, deletion of the last feed |
| `ClaimFetchJob`, `ClaimNothing` | `claimEligibleFetchJob`: sweep of exhausted leases, retirement of unsubscribed jobs, candidate, lease, start gap |
| `Begin`, `ReceiveBody`, `ParseOk` | `processClaim` up to the parsed snapshot |
| `CompleteParsed`, `NotModified`, `Discover`, `PublisherFailure`, `RejectBody`, `FailRetryable` | the ways a claim ends, each with its `finishFetchJob` |
| `Renew`, `Stop`, `Release` | heartbeat; SIGTERM; `releaseFetchJob` |
| `ClaimError`, `TaskError` | a database call that throws in the claim loop, or at the end of a claim |
| `Crash`, `Stall`, `Resume`, `Start`, `Tick` | the environment |

*Abstractions.* The claims and context reads of one `drainOnce` run without
leaving the microtask queue, so a signal cannot land among them. NULL is 0 and
the clock starts late enough for that. `retryAfterUntil` is merged into
`blockedUntil` and `nextAllowedRequestAt` into `lastRequestAt`: the code writes
each pair together; where it clears only one of them (304) the gates keep the
later of the two. A delay is any member of `FailureDelays`, by assumption not
below the interval; that `classifyFetchFailure` gives none below a quarter of an hour is
`BackoffIsBounded` of `FeedHealth`. A `Retry-After` on
another status than 429 and 503 may be shorter and is not enumerated. A snapshot
in parse state `pending` or `failed` is `raw`. The 24 h expiry of raw bodies is
in `Cleanup`. A worker whose lease expired may not claim a job it is still
processing. `Tick` lets a heartbeat of a process that is not stalled be in
time, which is what a timer at a third of the lease gives as long as the event
loop turns.

### RefreshRequests

*State.* One source, its `Feed`s, requests (`Manual`, and one `feed-create` request
per feed) and their items, deliveries per snapshot and feed, and the loops of the
one worker process. `task` is the claim of the fetch loop, `carrying` the claimed
delivery, `owed` the requests that a loop has yet to aggregate.

*Actions.* `RequestRefresh`, `RequestDeferred`, `CreateFeed`,
`CreateFeedFromSnapshot` (API); `ClaimFetchJob` ... `FailItems` (fetch loop);
`ClaimDelivery`, `ExhaustDelivery`, `Deliver`, `DeliveryFails` (deliver loop);
`ExpireManual`, `EnqueueDueSource` (schedule loop); `Aggregate`; `Crash`; `Lapse`
(the snapshot's 24 h retention). Once the fetch loop has parsed, it keeps the
event loop until it has aggregated; so does the deliver loop from claim to
aggregation (`MidRun`, `Turn`).

*Abstractions.* There is no clock: retry delays and the five-minute deadline
pass at any moment, the lease of a running job has run out exactly when its
process lost it. A request's counts are reduced to its status.
`failRefreshItemsForJob` reads the request ids before it updates the items;
nothing of the worker comes in between, so the read is merged with the preceding
`finishFetchJob`. A request that the API attaches to a retried job between the
two is failed but not aggregated until the retry, which is why `RequestsReported`
exempts requests on an active job. Ids of jobs are not used again.

*Fairness.* Weak fairness of the fetch loop, of the deliver loop and of
`ExpireManual` with its aggregation: `runNonOverlappingLoop` runs them every
250 ms, 250 ms and 30 s, errors are caught by `guarded`, a publisher request is
cut off after its timeout, and delays are finite. Nothing is assumed of the API,
of the scheduling of due sources, or of the outcome of any request.

### SnapshotDelivery

One feed, several processes. A delivery is claimed under a lease (`Deliver` from
"idle"), compared with the stored articles, written by a transaction that checks
lease and source again, finished, and only then told to caches and clients. The
runtime gives every process the worker id `durable-delivery`, so the lease check
says no more than that the row is `running`. Between claim and finish a process
awaits nothing of its own (`Free`); another process, the API (`RequestReplacement`,
`CancelReplacement`), enrichment (`Enrich`), a stall, an error and a crash come in.
Content is the number of the snapshot it comes from, or `Page`. No clock: `Pass`
lets a lease no live process works under, or a retry's delay, run out.

### Replacement

Calls (`AskCreate/Create`, `AskReplace/Replace`, `AskSelect/Select`, `Cancel`) are
a check and a transaction; a source's job is at one of its transactions
(`Schedule`, `Claim`, `Parse`, `ParseFails`, `Finish`, `ReadItems`, `Offer`,
`Close`, `Tell`, `Refuse`, `FailItems`), and `end` is what its worker has yet to do
after finishing. Requests have one item, kept by feed and source. All fetched
answers are 200. The history `want` has, for each feed, the source it was last asked to
get and the one last staged for it, which are not always the same (section 5). Two places
of the interface that do not fit together were seen
on the way: the cancel button is shown for a paused feed that has no source of
its own, where `cancelReplacement` answers 404; and a retry right after a
cancellation attaches to a job that is past its parse.

### Cleanup

The hourly transaction (`Clean`: body expiry, requests, snapshots, deliveries,
jobs, in bounded batches) against the whole life of a job of one source. Ages are
days (body 1, snapshot kept 1, the rest `Retention`). `Prompt`: the hourly cleanups
of a day see to all of its rows. Finishing a delivery and its aggregation are one
step; expiry of candidates is in `Replacement`.

### Outbox and Intents

`Intents` is the promise: the change asked for last takes effect at the server
before the client forgets that it was asked for, unless the article is gone.
`Outbox` is what the code does: IndexedDB shared by tabs, a flush under a Web Lock,
mutation ids and the server's ledger, base revisions, a conflict that is rebased
under a new id, lost requests and answers, requests that arrive after they were
given up (`Late`), other devices, deleted articles, expired ledger records, closed
tabs. `Outbox!KeepsPromise` maps the queue to `wanted` and the ledger to `done`.
*Fairness*: a tab's queueing, its flush and the start of a flush go on (a change,
going online, opening the app and Retry start one), and the network serves.

### FetchPolicy, FeedHealth

`FetchPolicy` has no state: ladder, `Retry-After`, circuit and pause of
`classifyFetchFailure` and the delay of `computeNextFetchAt`, in seconds from the
outcome. `FeedHealth` lets the claims of one origin's sources read both rows when they
begin and write them when they end (`CompleteParsed`, `NotModified`, `Discover`, `Fails`;
`Abandon` for a claim that `finishFetchJob` refuses), while other claims write the
origin's. It has no clock: `FetchJobs` is where waits are kept to.

### AuthSessions, BrowserSession

`AuthSessions`: registration, login, rotation, logout, revocation, password
change, administration and the check of an access token, as requests that read at
one await and write at a later one. Rows are atomic; Redis tombstones may fail to
be written or read. `BrowserSession`: tabs share the refresh cookie and IndexedDB
(tombstone of a local sign-out, last user, queued changes) and hold access tokens
of their own. A request carries the cookie of the moment it is sent; an answer
sets the cookie when it arrives. `Lossy` is what the network loses, `Overlap` whether
signing in or out may overlap other requests. A tab knows its user from the moment its page
was loaded with one (`user`): what `clearLocalSession` deletes of the queue is of that user,
and a page that is starting does not hear of a sign-out in another tab. The history `behind`
has the sessions whose newest token the browser may miss: a refresh of them was under way
together with a sign-out or another refresh, or its answer was lost.

### FeedSync, BulkSync

`FeedSync`: one tick is the heartbeat's five minutes; the lock of a feed is
deleted by its owner, the lock of a URL is left for a last time to live and is
thereby the publisher's cooldown. Scheduled, manual and delayed syncs and previews;
writes that fail (`Faults`), crashes, heartbeats that come a tick late.
*Fairness*: strong for `Tick` (time is not held up by what happens at one instant),
weak for the steps of jobs and the scheduler's loops. `BulkSync`: the list of users
in Redis with marker, request and lock, the workers that serve its head in batches
with a deadline, and the loops of a process that make room for each other; a tick
is a little less than the ninety seconds of a fresh heartbeat. *Fairness*: strong
for `Work`, which the other loops interrupt again and again.

### Enrichment, ArticleCache

`Enrichment`: the queue in the columns of an article, the lock in Redis, attempts
and retries (a tick is the 30 s of the first), readers who ask, syncs that read
rows, compare and write. Content is a rank; `from` is a history of the process that fetched
it from the page. *Fairness*: strong for `Tick`.
`ArticleCache`: a row is its version; the first page of the list with a generation,
the details of an article, the warming lock; a tick is the two minutes of a cached
list; Redis may come back from an old snapshot.

### Categories, CategoryOrder

`Categories`: requests read, check and write; foreign keys and unique indexes hold. The
indexes are on slugs: a name gets the first of its slugs (`Slugs`: foo, foo-2, foo-3) that
its siblings do not have when they are read, and is itself only compared, without case,
before the write. The history `under` has what others wrote since a request's first check.
`CategoryOrder`: the sidebar works out new orders
from its copy and sends the rows that change.

### Realtime, ImportQuota, Migrations

`Realtime`: all streams of a process share one Redis connection; every await is a
step boundary, and what was waited for and is there goes on first (`Settled`).
*Fairness*: weak for each stream, each connection and the timer `Fix`.
`ImportQuota`: each Redis command is a step; the counter of a day exists or not, with
or without a time to live; a slot is taken by the INCR script and given back by DECR
and DEL on the day computed anew. `Migrations`: the reads before the transaction are
steps, the transaction is one; the primary key of the guard refuses a second
application; the previous release's worker goes on writing protected rows.

### Analytics, Worker

`Analytics`: events wait in localStorage, which tabs share, and are sent by one flush of a
tab at a time; `recordClientEvents` sets a mark for each event, then increments the rows
of the days one by one, and takes marks back when an increment fails. A request, an
increment, a mark may fail or the process die at each step; days pass between requests.
`Worker`: the loops of `worker.ts` with either pipeline, in the order in which they are
started within one turn, who makes way for whom, and one shutdown per signal.
*Fairness*: the loops of v2 end (each of their steps is bounded by a timeout) and a
shutdown goes on; the bodies of the timed loops may hang.

### ReadView, RefreshView, Preferences, ArticlePages

One tab of the web client each. The effects of a render run before anything else
(`Commit`); answers, events and timers come in any order. TanStack Query is modelled
from its use: a new fetch cancels the one under way, a next page is put after the
pages as they were when it was asked for, equal data do not run effects again.
*Fairness* (`ReadView`, `ArticlePages`): requests are answered, events arrive, the
silent refresh recurs while the tab is looked at, the user scrolls on. In `ReadView` a
list answer that was overtaken is healed by the next request of that list, which the
property asks to come. The history `crossed` of `ReadView` has the states of articles of which
a toggle and the event of a change elsewhere were under way together, or whose change a flush
left behind in the outbox, until the server answers or another device changes it with nothing
else under way.

## 3. Composition and runs

The components above meet only through the tables and keys that their modules share
in the code; what one of them needs of another is in its own module as the other's
effect on the shared rows (enrichment in `SnapshotDelivery`, deletion in `Outbox`,
parsing in `Cleanup`, and so on), at every moment at which the other can produce it.
So each component is checked against an environment that does at least what its
neighbours do, and no product of two full state machines is needed.

`MCIngestion`, `MCRedis`, `MCAccounts`, `MCBrowser` and `MCProgress` hold several
instances each. A behaviour belongs to one `part`, chosen initially: that instance's
`Init` and `Next` are used and the variables of the others stay `None`. Variables of the
same name are shared by instances, which never run at a time. A property of such a
module is a conjunction of `part = "..." => Instance!Property`. The constants of each
instance stand at its `INSTANCE`, with a comment on what the instance is about.
`MCProgress` states the fairness of each component for its part.

| Run | Instance | Shows |
|---|---|---|
| `origin` | 2 workers, 2 sources of one origin, one of which gains and loses feeds, a crash, 3 moments | `TypeOK`, `LeaseHeld`, `OriginSingleFlight`, `RequestsRespectBlocks` |
| `stall` | 2 workers, 1 source with two job rows that loses its feed, one stall and one error | `LeaseNotStolen`, `CadenceKept` |
| `batch` | 4 sources on 4 origins, batches of 2, a shutdown, no clock | `BatchesHold`: at most `NetworkConcurrency` requests; a stop gives back every claim |
| `settles` | 2 feeds, 2 jobs, 2 attempts of job and delivery, no fault | `TypeOK`, `AnswersHold` (an open item is worked on, a change is reported), `CreationSettles` |
| `recovery` | 1 feed, 1 manual request, 2 jobs, one crash or error | `CompletedMeansDelivered`, `ManualSettles` |
| `ingestion` | deliveries of 4 snapshots without faults and of 3 in two processes with one; replacement of two feeds, of one feed back and forth in three calls, discovery; cleanup of two jobs, and of a snapshot that is reused; one source that fails in every way, two sources of an origin | `TypesHold`, `ArticlesOfSource`, `NeverGoesBack`, `OnlyAsked`, `BackoffHolds`, `ActiveKept` |
| `redis` | 15 instances of `FeedSync`, `BulkSync`, `Enrichment`, `ArticleCache`, `ImportQuota`, `Realtime`, `Worker` | `TypesHold`, `LimitsHold`, `RefreshKept`, `ListFresh`, `FullKept` |
| `accounts` | 14 instances of `AuthSessions`, `Categories`, `Migrations`, `Analytics` | `TypesHold`, `AccountsHold`, `TreeHolds`, `EventsCounted`, `GrantedBeforeEnded`, `MigratedRight` |
| `browser` | 14 instances of the web client's modules | `TypesHold`, `PagesWhole`, `Agrees`, `DraftKept`, `OnlyForCause`, `MovesLand` |
| `outbox` | 2 tabs, 1 switch, 3 changes, 2 faults, 1 change elsewhere | `KeepsPromise` (refines `Intents`), `OutboxDrains` |
| `progress` | 12 instances under fairness, shutdowns among them | `SyncHappens`, `IngestionEnds`, `ClientsServed` |
| `stranded` | 1 feed, 1 job, a crash | expected violation of `NoItemStranded`, see 5 |

Why these bounds. Rules that relate two leases, two requests or two tabs need two
actors; single flight and blocks need a second source on the origin, one snapshot
with deliveries that end differently needs two feeds, and a request of an earlier job
that is open while a later one runs needs two jobs. Two attempts make a retry and an
exhaustion. A lock lives two or three ticks, so that it is renewed once, expires once,
and is taken over once. One fault at every point of the longest path shows what a
crash leaves; a second one is used where a recovery may fail in turn. The clock of
`FetchJobs` starts at `Epoch` = 2. In `stall` it goes to 5 with `Interval` 2, `Lease` 2,
`StartGap` 1: long enough for a lease to expire inside a request, for a cadence to pass and for
a backoff (3) to outlast a retry. In `origin` it goes to 4 with an interval of 1, so that a
claim of one source may write a block or backoff of 2 on the origin after a claim of the other
has been made or has read the row, and before its request. Runs with liveness use no symmetry; deadlock is not checked
(`CHECK_DEADLOCK FALSE`) where a bounded environment stops for good.

Some properties are not true as one would first state them. `OnlyAsked`, `FullKept`,
`TreeHolds`, `Agrees` and `OnlyForCause` therefore name the case in which the code does not keep
them, by a history variable, and their instances are large enough for that case to happen: three
calls go back and forth between sources; a worker or the API syncs, after the article was
inserted, beside another worker that fetches its page;
moves, names and deletions overtake each other; toggles meet events and a flush that breaks off;
refreshes of two tabs meet sign-outs and lost answers. Without the exemption TLC finds each of
them violated there, and the unqualified forms stay in the modules: `LastAsked`, `AllShown`,
`NamesApart`, `FeedsStay`, `AgreesAlways`, `SignOutSticks`, `SignOutRevokes`,
`DiscardedForCause` (section 5). The instance `leaving` checks `SignOutSticks` and
`SignOutRevokes` as they are, of tabs whose requests do not overlap; `racing` and `staying` are
the ones where they do.

Three instances are as small as they are because the property is not true of larger ones, and
say so here: `order` has one worker process, and `AttemptsBounded` is checked of one worker
(section 4 says what goes wrong with more). `locks` and `polite` differ for the same reason: one
request per cooldown is a promise to one subscription per URL.

## 4. Proofs

Everything below is checked by TLAPS for every value of the constants: any number of
processes, workers, sources, feeds, jobs, requests, sessions and articles, and any bounds.
The theorems are safety properties of `Spec`; no fairness is used. The only assumptions are
the named ones on the constants: `ParametersAssumption` of `FetchJobs` and `RefreshRequests`
and `OutboxAssumption` are ASSUMEs that TLC evaluates in their runs; those of the other
modules are definitions, because these are instantiated several times, and the MC modules
ASSUME them of each instance. A theorem that needs more says so in its hypothesis. A module
of proofs is about the component it is named for and about one or two more that share its
database, its Redis or its client; those come in by an INSTANCE in the middle of the module.

| Module | Theorem | States | Under |
|---|---|---|---|
| `FetchJobs_proofs` | `TypeCorrect` | `[]TypeOK`: an active job has an attempt left or a lease | |
| | `LeasesAreHeld` | `[]LeaseHeld` | |
| | `OneRequestPerOrigin` | `[]OriginSingleFlight` | |
| | `NoLeaseIsStolen` | `LeaseNotStolen` | |
| | `RequestsWaitForBlocks` | `RequestsRespectBlocks` | |
| | `CadenceHolds` | `CadenceKept` | |
| | `BatchesKept` | `[]BatchesHold` | |
| | `HealthTypes` | `FeedHealth`: `[]TypeOK` | |
| | `BackoffIsBounded` | `[](WaitsBounded /\ LongFailureRests /\ ClosedIsHealthy)` | |
| | `BackoffGrows` | `[][OnlySuccessForgives /\ WaitsGrow]_vars` | |
| `RefreshRequests_proofs` | `TypesHold` | `[]TypeOK`, with one active job per source | |
| | `CompletedIsDelivered` | `[]CompletedMeansDelivered` | |
| | `UsersAreAnswered` | `[]AnswersHold` | |
| `SnapshotDelivery_proofs` | `TypesKept` | `[]TypeOK` | |
| | `SourceFollowed` | `[]ArticlesOfSource` | |
| | `ToldAtMostOnce`, `ToldUnlessFaults` | `[]ToldOnce`, `[]Told` | |
| | `OrderKept` | `[][NeverGoesBack /\ EnrichedKept]_vars` | `OneProcess` |
| | `TreeTypes`, `KeysAreKept` | `Categories`: `[]TypeOK`, `[]KeysHold` | |
| | `NothingDisappears` | `[][TreeKept]_vars` | |
| | `AppliedOnce` | `Migrations`: `[](TypeOK /\ AppliedOnce)` | |
| | `UpOnItsRelease` | `[][UpMatches]_vars` | `OneHistory`, `InOrder` |
| | `ProtectedRowsKept` | `[][KnownRowsKept]_vars` | |
| `Cleanup_proofs` | `TypesKept` | `[]TypeOK` | |
| | `RetainedKeepsJob` | `[]RetainedHasJob` | |
| | `NothingActiveGoes` | `[][ActiveKept]_vars` | |
| | `BulkTypesHold` | `BulkSync`: `[]TypeOK` | |
| | `NoRefreshIsDropped` | `[](NotDropped /\ StatusKnows /\ CountsAddUp)` | |
| `FeedSync_proofs` | `TypesKept` | `[]TypeOK` | |
| | `OneSync` | `[]OneSyncPerFeed` | `Punctual` |
| | `OneRequest` | `[]OneRequestPerCooldown` | `Punctual`, `NotShared` |
| | `LoopsTypes` | `Worker`: `[]TypeOK` | |
| | `ShutdownsAreQuiet` | `[](NoneBeside /\ ClosedQuiet)` | |
| | `NoSlotIsLost` | `ImportQuota`: `[]NoSlotLost` | no faults |
| | `CapIsKept` | `[]CapHolds` | one day, no import fails |
| `Enrichment_proofs` | `OneFetches` | `[]OneFetcher` | |
| | `PageKept` | `[][FullKept]_vars` | |
| | `AttemptsEnd` | `[]AttemptsBounded` | `OneWorker` |
| | `StaleEndsSoon` | `ArticleCache`: `[]StaleEnds` | |
| | `ListsAreFresh` | `[]ListFresh` | Redis keeps its data, no enrichment |
| `AuthSessions_proofs` | `TypesKept` | `[]TypeOK` | |
| | `AccountsAgree` | `[]AccountsHold` | |
| | `RevokedIsRefused` | `[][GrantedBeforeEnded]_vars` | |
| | `EventsTypes` | `Analytics`: `[]TypeOK` | |
| | `EventsAreCountedOnce` | `[](CountedOnce /\ CountedForUser)` | |
| | `LoneTabLosesNothing` | `[]NothingLost` | one tab, only increments fail |
| | `TabTypes` | `BrowserSession`: `[]TypeOK` | |
| | `SignOutsLast` | `[][SignOutSticks]_vars` | no `Overlap` |
| | `SignOutsRevoke` | `[]SignOutRevokes` | no `Overlap`, no answer lost |
| `Outbox_proofs` | `TypesHold` | `[]TypeOK` | |
| | `AppliedOnce` | `[]ChangedOnce` | |
| | `PromiseKept` | `KeepsPromise`: `Outbox` implements `Intents` | |
| | `LiveTypesHold` | `Realtime`: `[]TypeOK` | |
| | `NoStreamLeaks` | `[](CountsAgree /\ NothingLeaks)` | |
| | `PanelTypes` | `Preferences`: `[]TypeOK` | |
| | `OneSaveRuns` | `[]OneSaveAtATime` | |
| | `ChoicesAreKept` | `[](DraftKept /\ ClosedKept)` | |
| | `PagesTypes` | `ArticlePages`: `[]TypeOK` | |
| | `PagesAreWhole` | `[](NoGap /\ NoRepeat /\ ReadHereStays)` | |

What a theorem states was checked by TLC on small instances before it was proved. The proofs
have a lemma per action, which says what the action does to the parts of the invariant, and
a lemma that puts the actions together; the theorems follow from that.

*FetchJobs.* `TypeOK` is inductive. `OriginSingleFlight` is about tasks, but
`claimEligibleFetchJob` decides on rows, so its invariant is

    IInv == TypeOK /\ NoneStalled /\ DownIdle /\ LeaseHeld
            /\ FetchingBare /\ OneLeasePerOrigin

where all but `TypeOK` and `DownIdle` are claimed as long as nothing has stalled: a claim
in progress owns an unexpired lease (`LeaseHeld`), a claim that is fetching owns
it on a row without snapshot (`FetchingBare`), and each origin has one such
lease at most (`OneLeasePerOrigin`, kept by the claim's test of the origin). Two
requests in flight would then be two leases. A process that is down holds no
claim (`DownIdle`). `NoLeaseIsStolen` is an action property that follows from
`TypeOK` and the fence on owner and lease in every late write.

A claim reads the source's backoff and the origin's block, and the request goes out later.
That nothing may have been written between the two takes `OneActive`, one active job per
source whatever inserts it, and that only a request in flight writes an origin's block,
which the lease of the origin excludes: `RInv == IInv /\ OneActive /\ ClaimsFree`. The
cadence (`CInv == RInv /\ (Clean => Cadence)`) adds where the time of the last request is:
written with the next one at least `Interval` later (`Stamped`), or still with the task
that sent it (`RequestsStamped`), which ends by writing it as long as nothing fails.
`BInv` is about memory and table together: tasks are those of the batch, a batch is not
larger than `NetworkConcurrency` (`BatchBounded`), and without crash or error each lease
has its task (`LeasesWorked`), so that a process that has stopped leaves none.

*FeedHealth.* What a claim has read is a row that was once there (`ClaimFits`), so whatever
it is joined with when it is written, failures and circuit agree; the waits follow from the
ladder, of which each rung is between a quarter of an hour and a week, and from the bound on
`Retry-After`. `BackoffGrows` compares the waits of one kind after n and n + 1 failures:
the ladder, the circuit and the pause can only add.

*RefreshRequests.* `CompletedMeansDelivered` is disturbed by whatever adds a
delivery after an item was completed. Only parsing and the reuse of a retained
snapshot do, so the invariant follows a job from its creation to its parsing:

    IInv == TypeOK /\ CompletedMeansDelivered /\ Bare /\ Working
            /\ Uncompleted /\ Fresh /\ Unborn /\ Carried

An unparsed job has no delivery (`Bare`), and no completed item while it is active
(`Uncompleted`), which rests on a new row having no items yet (`Fresh`) and on
the fetch loop working on a running job (`Working`); a feed that does not exist
has no item on a job (`Unborn`), so its first delivery contradicts none; the
delivery being carried is open (`Carried`). Actions that end a job, settle a delivery or
enqueue a job share a lemma each (`Ending`, `Delivering`, `EnqueueKept`).

`AnswersHold` holds as long as nothing has failed (`AInv == IInv /\ (faults = 0 => SInv)`).
An open item stays served because a job that ends settles its items or hands them to
deliveries made in the same turn of the event loop (`Undelivered`). A change is reported
because the loop that made it owes its request an aggregation and does not pay before the
second transaction of a failure (`FailingOwes`, `CarryingOwes`).

*SnapshotDelivery.* That clients are told at most once is kept by who has yet to tell
(`OwedOnce`): whoever has inserted an article is the only one that owes it. While nothing
fails, each running delivery is carried by one process, and what is stored is told or owed
(`Calm`). `OrderKept` rests on `Ordered`, deliveries are carried out in the order of their
snapshots, and `Loaded`, the rows that were read are still those of the table when it is
written. Both need one process: two may carry two snapshots side by side and store the older
one last, or write over a page that the other has fetched meanwhile. TLC finds both with two
processes, one item, two snapshots and no fault.

*Categories.* Unique indexes, on slugs, and foreign keys make `KeysHold` inductive as soon as it
is known what a request may have in hand (`ReqTyped`). `NothingDisappears` is about single
requests among any number of them: unless another has written under it (`under`), what a request
found out is still so when it writes. The new parent of a move is not below the category, a name
is no sibling's, and a category that is deleted has no feed that was not counted. Then the tree
stays whole, siblings stay apart and no feed goes. Of a request that was overtaken nothing is
promised but `KeysHold`: two overlapping moves can make a loop. A tree is connected when no set
of categories is closed upwards (`NoLoop`), which is how ancestors are defined in the model, too:
by the least closed set instead of by recursion.

*Migrations.* Who migrates twice is stopped by the key of the guard, except for what was
applied before there was a guard; `Watched` says that this is all that the guard may not
know, and `ToDo` that none of it is ever pending, because pending is what is later than all
that is applied. `UpOnItsRelease` follows what a process has found out from its check to its
end (`Seen`): the guard and the ledger agree with its release. It takes releases that hold
the same migrations and, outside of what was applied at first, the same files (`OneHistory`):
a newer release that commits between the check and the selection lets an older one come up
(section 5). And what was applied at first has no gap (`InOrder`), or the gap is never filled.
Two baselines at a time do no harm because both begin with the first date, which only one
of them can enter.

*Cleanup.* What is open is protected by the conditions of the deletions, provided that the
job of an open item is there (`Followed`). That a retained snapshot keeps its job is a
matter of ages: a snapshot is parsed only under a job that runs (`Runs`), so a parsed
snapshot is not younger than the end of its job (`Aged`), and its day is over before the
job's retention.

*FeedSync.* A job between its locks and its end owns the lock of its feed, with a time
to live that at most the late beats so far have taken something of (`Guarding`); so two jobs of a
feed would be two owners of one lock. It needs `Punctual == MaxStalls < Cooldown`: beats that
are late for a whole time to live lose the lock, in the code as in the model (with as many
late beats as `Cooldown` TLC finds two syncs). One
request per cooldown is the sum of two times (`Cooling`: what the lock of a URL has left
and what has passed since the request make a cooldown; a tick takes from one and adds to
the other, and a crash leaves the lock to run out) and the right to ask (`Covered`: who is
about to ask has the lock of the URL, unused, or the text of a preview). The text is a
right for one only, hence `NotShared == \A f, g \in Feed : UrlOf[f] = UrlOf[g] => f = g`;
with two subscriptions to one URL the code breaks its word (section 5).

*Worker.* The first body of a loop runs in the turn that starts it, so what it makes way for
depends on `Order`; after a signal no timer is left and the controller has aborted, hence
nothing starts any more (`LoopsInv`), and a shutdown that is past a wait has seen the end of
what it waited for, or has waited for as long as it does.

*ImportQuota.* A counter is worth the slots that it stands for (`SlotHolds`, an inequality
over finite sets of imports). No slot is lost as long as Redis answers and no process dies
(`MaxFaults` = 0). The cap is kept under crashes and lost answers, but only within a day and
while no import fails: a slot is given back to the counter of the day on which the import
fails, not of that on which it was taken, and a counter that is given back to zero is
deleted by a second command, which may take an import with it that came in between. TLC finds
one import too many with either.

*BulkSync.* A user leaves the list only when a worker that still has the lock has ended a run,
and that run was of the refresh that was accepted last (`Serving`). The flag of a request
names the accepted refresh or nothing (`Requested`), and a status that began while the user
was in the list notices the removal (`Watching`), so it never answers from what it read
before. The list is a sequence without repetitions; the proofs look at the set of its members
and at what `RemoveAt` does to a sequence.

*Enrichment.* A worker between lock and release has the lock of its article
(`LocksOwned`); as a lock that outlived its worker has no owner, none deletes another's.
`FullKept` is about a sync that reads rows, goes to the network and writes: while it does, its
process enriches nothing, because its loops exclude each other (`Quiet`), so a page that this
process fetched was there when the sync read the row and is left alone (`SeenFull`). Whoever
else syncs, another worker or the API, may have read the row before the page was written and
overwrites it, which the property excepts and TLC finds. `AttemptsBounded` of one
worker (`OneWorker`) rests on `Counted`, in which each attempt is paid for before it begins:
by the limit, a reader's ask, a sync or a crash. Two workers may both find an article
before either counts, and TLC finds an attempt too many.

*ArticleCache.* `StaleEndsSoon` is about time: whatever is in Redis, in its old snapshot or in
the hands of a filler had at its reading all that was quiet by then, and lives no longer
than its life from there (`StaleInv`). `ListsAreFresh` is about generations: rows under a
generation that is not past have all that deliveries have told the cache of, because a
delivery tells after it has written and the list is read after the generation (`FreshInv`).
A Redis that comes back from an old snapshot brings an old generation back, and enrichment
does not touch the list, so both are left to the first theorem.

*AuthSessions.* A request reads at one await and writes at a later one, so the invariant
says for each step of each request what it may still rely on (`Right`): no other request can make that
part of its record untrue. A rotation that was read before a revocation, for instance,
finds its token traded or its session ended when it writes. With `Traded` (a traded token
is nobody's and is not drawn again), `EndedOver` (an ended session is not revived) and
`SessionsMatchAccount` this is inductive. `RevokedIsRefused`: a request at its second look in
Redis either belongs to no ended session or finds the tombstone there.

*Analytics.* One request at most has marked an event and not yet counted it, and as long as it
has, the mark is whole; an event that was counted has its mark, or was counted a mark's life
ago (`EventFits`). For a lone tab and failing increments, a mark says that its event has been
counted or is about to be (`MarkSure`), and what an answer lets the tab forget has been
counted (`PostSure`).

*Outbox.* `KeepsPromise` is a refinement: `wanted` of `Intents` is what is queued, typed or
being flushed, `done` what the server made of it. The step that matters is that an entry is
forgotten, and it is right because of what a mutation id stands for: an entry never changes
under its id (`Same`), so a request under way with the id of a queued change asks for
exactly that change, and an answer that is no conflict bears an id that was effective
(`Answered`, `LedgerTrue`). Each step of `Outbox` maps to one step of `Intents` or to a stutter.

*Realtime.* Where a stream's handler is follows from where the stream is on its way
(`Placing`), the counter of a user is the number of its handlers (`Tallying`), and an
unsubscription that Redis has still to answer has its one stream waiting for it
(`Commanded`), so that no answer is taken for another's when a connection breaks.

*Preferences.* The queue of the panel is a loop over awaits: what it takes out of the queue it
has under way, and puts back under what was chosen in the meantime when the save fails. The
invariant (`PanelKept`) relates the phases to the calls: of the panel at most one save is under
way, and it belongs to the loop that says it is saving; and each choice is in the queue or, with
its value, in that save.

*ArticlePages.* Each page begins after the cursor of the page before it (`PagesOrdered`), and the
pages hold what has stayed in the view up to the last cursor (`PagesCover`). Both are needed of
the pages of a request under way as well as of the shown ones, with what they are to cover
(`RequestBase`): for a further page what the shown pages cover, for a fetch of all what was in
the view at its first answer. The page of a server is one such page because it has the
lowest rows after its cursor, of which there are a first and a last: a set of naturals
has a least member (`LeastNatural`, from the library's facts on well-founded relations).

*BrowserSession.* What a tab waits for is under way (`Asks`), even while other tabs sign in and
out. That a sign-out lasts takes requests in turn (`TurnInv`): a sign-in or sign-out is alone
under way (`SignsAlone`), and once it has been sent no tab starts because of the tombstone
(`Shut`), until the answer has deleted the cookie and with it every way back (`Gone`). That it
ends the session takes the tokens as well (`LeaveInv`): the browser has the current one or it is
on its way (`Followed`), and a token on its way is carried by no other request
(`NewestIssued`), so that the sign-out presents the token of the row. With `Overlap` TLC finds
the session live after the sign-out (section 5), and so it does when the answer to a refresh is
lost before it: the sign-out then presents the token before the current one. What remains true
there (`SticksUnlessBehind`, `RevokesUnlessBehind`, `DiscardedUnlessBehind`) is model-checked.

*What stays with TLC.* Liveness (`CreationSettles`, `ManualSettles`, `OutboxDrains`,
`SyncHappens`, `IngestionEnds`, `ClientsServed`, the last with the shutdown of `Worker`) and whatever else speaks of fairness. `TypeOK` of
`Enrichment`: its rows hold 2^attempts ticks of backoff, and that this is bounded is an
induction; its proofs use a weaker `Typed` that leaves the time of the next attempt open.
`TypeOK` of `ArticleCache`: its generation is bounded by a sum over what may still happen.
The components that no theorem is about
(`Replacement`, `CategoryOrder`, `ReadView`, `RefreshView`) are model-checked only.


## 5. Known divergences

Places where a comment, a document or a test says one thing and the code does another.
`NoItemStranded` is run (`stranded`): the worker crashes after parsing and before finishing,
the delivery completes the item, the recovered job's `finishFetchJob` sets it to `running`
again, and no delivery is left to complete it; a creation or replacement request then stays
open for good, a manual one until its deadline. The others are stated in their modules, where
they stay for whoever changes the code, and are part of no run; TLC finds each one violated
on the instance given with it (a name such as OneUrl or TwoOfOne stands for the small set or
function that it says).

**FetchJobs**

- `OriginKeepsItsBlock` (`packages/api/src/services/durable-feed-worker.ts:361`).
  completeParsed writes retryAfterUntil and blockedUntil null on the origin whatever the
  origin asked for since the claim, so a job recovered from its snapshot (which bypasses the
  origin's gates) erases the block of a 429 another source has just got.
  packages/api/tests/integration/feed-ingestion-persistence.integration.test.ts:1756 says
  'blocks an origin on 429 without inline retry and manual priority cannot bypass it'.
  Instance: Worker = {w1}; Source = {s1, s2}; SharedOrigin = TRUE; Fickle = {}; IdsPerSource =
  1; MaxAttempts = 2; NetworkConcurrency = 1; Lease = 2; StartGap = 1; Interval = 2; Pause =
  4; FailureDelays = {4}; Epoch = 2; Horizon = 6; Crashes = 0; Stalls = 0; Errors = 1; Stops =
  0.
- `SafetyInterval` (`packages/api/src/services/durable-refresh-queue.ts:100`). releaseFetchJob
  delays a job aborted in mid-request by 15 minutes (source-work repository :378) but records
  no lastFetchAt, and enqueueOrAttachDurableJob pulls availableAt to now, so a manual refresh
  has the source asked again at once.
  packages/api/tests/integration/feed-ingestion-persistence.integration.test.ts:1246 says
  'defers manual refresh inside the publisher safety interval without queuing a fetch' and
  :1223 'lets manual refresh bypass scheduled cadence after the publisher safety interval'.
  Instance: Worker = {w1}; Source = {s1}; SharedOrigin = TRUE; Fickle = {}; IdsPerSource = 1;
  MaxAttempts = 2; NetworkConcurrency = 2; Lease = 2; StartGap = 1; Interval = 2; Pause = 4;
  FailureDelays = {3}; Epoch = 2; Horizon = 5; Crashes = 0; Stalls = 0; Errors = 0; Stops = 1.

**RefreshRequests**

- `UnchangedServesCreation` (`packages/api/src/services/durable-feed-worker.ts:376`).
  completeUnchanged completes the items of the job, but a pending feed is attached to its
  source in markSnapshotParseSucceeded only: a feed created while no snapshot is retained
  stays pending through every 304, although each of them is recorded as a success
  (lastSuccessAt). packages/web/src/lib/feed-lifecycle.ts:32 tells the user 'SelfFeed is
  validating this source. Articles will appear after the first successful fetch.'
  Instance: Feed = {f1, f2}; Manual = {}; Jobs = 2; MaxAttempts = 2; MaxDeliveryAttempts = 2;
  MaxFaults = 0.
- `ParsedServesCreation` (`packages/api/src/services/durable-feed-facade.service.ts:181`).
  createPendingFeed rides on an active job whose snapshot may already be parsed;
  finishFetchJob (source-work repository :460-473) then completes the item, because the feed
  has no delivery, and nothing attaches the feed. packages/web/src/lib/feed-lifecycle.ts:32
  tells the user 'Articles will appear after the first successful fetch.'
  Instance: Feed = {f1, f2}; Manual = {}; Jobs = 2; MaxAttempts = 2; MaxDeliveryAttempts = 2;
  MaxFaults = 0.

**ArticleCache**

- `DetailFresh` (`packages/api/src/services/article.service.ts:223`). A reader that missed
  writes what it has read without a look at what was invalidated meanwhile, so the old content
  is back in the cache after an enrichment dropped it; README.md:223 says clients should
  'refresh cached detail when its content version changes', and who does is shown the old
  version for five minutes.
  Instance: Article = {a1}; Warmer = {}; Reader = {r1, r2}; Asks = {"detail"}; DetailLife = 1;
  Kinds = {"insert", "enrich"}; MaxVersion = 2; MaxCrashes = 0; MaxRestarts = 0.
- `DetailFresh` (`packages/api/src/jobs/durable-ingestion-runtime.ts:55`). A delivery that
  revises an article invalidates the list and not the article's details;
  packages/api/src/services/article.service.ts:329 says of the drop of the details that it is
  'Called whenever a field that the response includes (isRead, media, heroImageUrl, etc.)
  changes'.
  Instance: Article = {a1}; Warmer = {}; Reader = {r1}; Asks = {"detail"}; DetailLife = 1;
  Kinds = {"insert", "revise"}; MaxVersion = 2; MaxCrashes = 0; MaxRestarts = 0.

**ArticlePages**

- `EndReached` (`packages/web/src/hooks/queries/article-hooks.ts:373`). After a refused cursor
  resetQueries drops the pages and fetches the first one; a mark of the article that is still
  open (retained) cancels that fetch, and nothing begins it again until an event or a refresh
  comes: packages/web/tests/unit/queries-hooks.test.tsx:253 'resets to page one when the
  server rejects a persisted cursor'.
  Instance: Articles = 2; Limit = 1; UnreadOnly = TRUE; Visible = TRUE; MaxChanges = 1;
  MaxToggles = 2; MaxGen = 1.
- `PagesKept` (`packages/web/src/hooks/queries/article-hooks.ts:177`). A further page is put
  after the pages as they were when it was asked for, so the read state that an event of
  another device set on a row meanwhile is lost until the next refetch:
  packages/web/tests/unit/queries-hooks.test.tsx:71 'updates cached article detail and bumps
  feed unread count for foreign events'.
  Instance: Articles = 3; Limit = 1; UnreadOnly = FALSE; Visible = FALSE; MaxChanges = 1;
  MaxToggles = 1; MaxGen = 0.
- `OpenKept` (`packages/web/src/components/articles/feed-view.tsx:197`). When new articles
  push the open one off the last page that is loaded, the refetch that shows them closes it
  although it is still in the view: plans/005-safe-silent-article-refresh.md:136 stops at 'The
  chosen invalidation/refetch path causes visible selection loss'.
  Instance: Articles = 3; Limit = 1; UnreadOnly = FALSE; Visible = TRUE; MaxChanges = 2;
  MaxToggles = 0; MaxGen = 0.
- `ToggleShown` (`packages/web/src/components/articles/use-retained-read-articles.ts:38`). A
  retained article is a copy that is read for good: once its row has left the pages, marking
  it unread changes the server and not the list, and the key marks it unread again.
  README.md:24 '`m` to toggle read'.
  Instance: Articles = 2; Limit = 1; UnreadOnly = TRUE; Visible = TRUE; MaxChanges = 0;
  MaxToggles = 2; MaxGen = 0.
- `AllSeen` (`packages/web/src/hooks/queries/article-hooks.ts:177`). The refetch that an event
  asked for is cancelled by a further page; the article is then on no page, and the silent
  refresh, which looks at the first page only, sees no change.
  packages/web/src/hooks/use-silent-article-refresh.ts:59 'Query refetching keeps all pages
  and cursors aligned with'.
  Instance: Articles = 4; Limit = 1; UnreadOnly = FALSE; Visible = TRUE; MaxChanges = 1;
  MaxToggles = 0; MaxGen = 0.

**BrowserSession**

- `SignOutSticks` (`packages/web/src/providers/auth.tsx:346`). A logout revokes the session
  only if the cookie it carries holds the current token
  (packages/api/src/services/auth.service.ts:155), and is answered with success either way. If
  a refresh is served in between, the session stays, the tombstone is lifted because the
  logout succeeded, and the answer to the refresh sets a cookie that signs the next page in.
  packages/web/tests/unit/offline-store.test.ts:224 says 'a local sign-out tombstone prevents
  refresh-cookie resurrection'; packages/web/tests/e2e/flows.e2e.spec.ts:741 says 'user can
  sign out and the session is cleared'. The run has the same with two tabs; there a page that was
  starting when another tab signed out, and does not hear of it, comes back offline when its refresh
  is lost.
  Instance: Tab = {t1}; Lossy = {}; Overlap = TRUE; MaxLogins = 1; MaxRefresh = 3; MaxLoads =
  1; MaxFaults = 0.
- `DiscardedForCause` (`packages/web/src/lib/api.ts:127`). The server has rotated the token
  when the answer to a refresh is lost, so the next refresh is rejected, and clearLocalSession
  deletes the cached data and the queued changes of the user. packages/web/src/lib/api.ts:187
  says 'A network or server failure while refreshing is not proof that the session was
  revoked. Keep the offline identity and cached data until the refresh endpoint explicitly
  rejects it.' Without any loss it happens to two tabs that refresh with one cookie at a time: the
  second is rejected, because `refreshPromise` (line 97) is of one tab.
  Instance: Tab = {t1}; Lossy = {"answer"}; Overlap = FALSE; MaxLogins = 1; MaxRefresh = 3;
  MaxLoads = 0; MaxFaults = 1.
  Instance: Tab = {t1, t2}; Lossy = {}; Overlap = TRUE; MaxLogins = 1; MaxRefresh = 3; MaxLoads
  = 1; MaxFaults = 0.

**Categories**

- `AllShown` (`packages/api/src/services/category.service.ts:94`). Two moves that run at once
  each find no cycle and write one: the categories leave the tree and the export;
  packages/api/src/services/category.service.ts:100 refuses with 'Category cannot be moved
  under one of its descendants.'
  Instance: Category = {c1, c2}; Feed = {f1}; Name = {n1, n2}; Slug = Three; Slugs = SameSlugs;
  Request = {r1, r2}; Kinds = {"create","update"}.
- `NamesApart` (`packages/api/src/services/category.service.ts:187`). A name is compared with
  those of the siblings before the write, and the unique index is on the slug
  (db/schema.ts:167), which is made unique by a number: a name that another request gives to a
  sibling in between is given twice, when the slugs differ. The service refuses with 'Category
  already exists in this parent'.
  Instance: Category = {c1, c2}; Feed = {f1}; Name = {n1, n2}; Slug = Three; Slugs = SameSlugs;
  Request = {r1, r2}; Kinds = {"create","update"}.
- `FeedsStay` (`packages/api/src/services/category.service.ts:155`). A feed that is added
  after the count and before the delete goes with the category, articles included, by the
  cascade of db/schema.ts:302; packages/api/src/services/category.service.ts:157 says 'Cannot
  delete category with feeds. Move or delete feeds first.'
  Instance: Category = {c1}; Feed = {f1}; Name = {n1}; Slug = Three; Slugs = SameSlugs; Request =
  {r1, r2}; Kinds = {"create","delete","place"}.

**CategoryOrder**

- `DropsBelow` (`packages/web/src/components/layout/sidebar-reorder.ts:44`). A row that is
  dropped two or more rows below itself ends in front of the target, and the sidebar announces
  the place behind it; packages/web/src/components/layout/sidebar-reorder.ts:36 says
  'Otherwise insert after the target row, matching the visual "move below this row" behavior.'
  Instance: N = 3; Parent = {p1}; Client = {k1}; MaxSort = 0.

**Cleanup**

- `ParsedIsStored`
  (`packages/api/src/repositories/feed-ingestion-operations.repository.ts:106`). A body
  expires a day after the fetch whatever becomes of its job: when that job is being parsed
  again (after a crash and a day), markSnapshotParseSucceeded refuses to store what was
  parsed, the parser does not look at its answer, and the job is completed with its requests
  although nothing is delivered.
  packages/api/tests/integration/feed-ingestion-persistence.integration.test.ts:176 says the
  cleanup 'cleans terminal history in bounded batches without deleting active or retained
  work'.
  Instance: Feed = {f1}; Job = {j1, j2}; Retention = 1; Batch = 1; MaxAttempts = 2; MaxFaults
  = 1; Prompt = FALSE.

**Enrichment**

- `AskedFirst` (`packages/api/src/repositories/article-enrichment.persistence.ts:55`). An
  attempt sets the time of its row to NULL, which sorts before the epoch that a reader's
  request sets: a row left by a worker that died is served before it;
  packages/api/tests/unit/feed-sync.service.test.ts:24 says 'prioritizes user-visible article
  enrichment ahead of background work'.
  Instance: Article = {a1, a2}; Worker = {w1}; Syncers = {w1}; MaxAttempts = 2; LockLife = 2;
  MaxAsks = 1; MaxSyncs = 1; MaxCrashes = 1.
- `StaysReady` (`packages/api/src/services/feed-sync.service.ts:738`). A worker that finds the
  article's lock taken records a failed attempt on the row, although the other worker has
  completed the article meanwhile; packages/api/tests/unit/feed-sync.service.test.ts:45 says
  'skips article enrichment when another worker holds the article lock'.
  Instance: Article = {a1}; Worker = {w1, w2}; Syncers = {w1}; MaxAttempts = 2; LockLife = 2;
  MaxAsks = 0; MaxSyncs = 1; MaxCrashes = 0.
- `VersionTells` (`packages/api/src/repositories/article.repository.ts:523`). A legacy sync
  replaces the content of an article and leaves its version alone; README.md:223 says clients
  should 'refresh cached detail when its content version changes'.
  Instance: Article = {a1}; Worker = {w1}; Syncers = {w1}; MaxAttempts = 2; LockLife = 2;
  MaxAsks = 0; MaxSyncs = 2; MaxCrashes = 0.

**FeedSync**

- `DueIsSynced` (`packages/api/src/services/feed-sync.service.ts:162`). syncRunRepo.create and
  the update to 'syncing' stand between the locks and the try whose finally releases them:
  when one of them throws, the locks are never released, and their heartbeats renew them as
  long as the process lives, so the feed and its URL are skipped by every sync.
  packages/api/src/services/feed-sync.service.ts:93 says 'The heartbeat keeps live fetches
  locked indefinitely. A short TTL only affects dead workers, allowing their unfinished feeds
  to resume promptly.'
  Instance: Feed = {f1}; Url = {u1}; UrlOf = OneUrl; Process = {p1}; Kinds = {"scheduled"};
  Cooldown = 3; Stale = 1; Poll = 2; MaxRetry = 2; Faults = {"create"}; MaxAsks = 0;
  MaxCrashes = 0; MaxStalls = 0.
- `OneRequestPerCooldown` (`packages/api/src/services/feed-fetch-guard.ts:98`). The text of a
  preview stands in for the lock of the URL, but one sync uses it up: a second sync that had
  seen it asks the publisher, within the cooldown and without the lock.
  packages/api/tests/unit/feed-sync.service.test.ts:601 says 'uses a URL-scoped lock and
  retains it for a fifteen-minute fetch cooldown'.
  Instance: Feed = {f1, f2}; Url = {u1}; UrlOf = SharedUrl; Process = {p1}; Kinds =
  {"scheduled", "manual", "preview"}; Cooldown = 3; Stale = 1; Poll = 3; MaxRetry = 2; Faults
  = {}; MaxAsks = 2; MaxCrashes = 0; MaxStalls = 0.
- `PutOffIsServed` (`packages/api/src/services/feed-sync-delayed.ts:72`). A manual refresh
  that meets a delayed sync of the feed, which has fetched already, is put off by rescoring
  the entry of that sync, which removes it when it ends.
  packages/api/src/services/feed-sync.service.ts:576 says 'Publisher requests are never
  retried inline. Throttled work is resumed by the durable delayed queue after its cooldown
  expires.'
  Instance: Feed = {f1}; Url = {u1}; UrlOf = OneUrl; Process = {p1}; Kinds = {"scheduled",
  "manual", "delayed"}; Cooldown = 3; Stale = 1; Poll = 2; MaxRetry = 2; Faults = {}; MaxAsks
  = 2; MaxCrashes = 0; MaxStalls = 0.

**Migrations**

- `ComesUp` (`packages/api/src/db/migrations.ts:364`). The rows of a baseline are committed
  one by one: a process that dies in between leaves a guard that knows of some migrations, and
  no process ever starts again ('Applied migration ... is not tracked by the migration
  guard'). README.md:255 says 'The API service applies database migrations automatically on
  boot, so schema changes are handled seamlessly.'
  Instance: Process = {api}; Release = Alone; Initially = Two; Guarded = FALSE; Row = {};
  Drops = Nothing; Adds = Nothing; MaxCrash = 1.
- `UpMatches` (`packages/api/src/db/migrations.ts:421`). What is applied is read once for the
  check and again to select what is pending: when a newer release commits in between, nothing
  is pending and the older one comes up on a schema that it would have refused as 'Database
  has applied migration ... that is not present in local migrations'
  (packages/api/src/db/migrations.ts:356).
  Instance: Process = {api, command}; Release = Newer; Initially = First; Guarded = TRUE; Row
  = {}; Drops = Nothing; Adds = Nothing; MaxCrash = 0.
- `UpMatches` (`packages/api/src/db/migrations.ts:392`). Only migrations younger than the
  latest one applied are pending: one that was merged with an older date is never applied, and
  the process comes up without it. README.md:106 says 'Apply pending SQL migrations to your
  database by running `bun run db:migrate`.'
  Instance: Process = {api}; Release = Alone; Initially = Late; Guarded = TRUE; Row = {};
  Drops = Nothing; Adds = Nothing; MaxCrash = 0.
- `RowsKept` (`packages/api/src/db/migrations.ts:428`). The protected rows are copied before
  the transaction begins, and none is backed up when there is none: a row inserted by the
  worker of the release before, until the transaction begins, may be removed by a migration
  unnoticed. packages/api/tests/integration/migrations.integration.test.ts:552 says migrations
  are applied so that it 'rolls back pending migrations that would remove protected data'.
  Instance: Process = {api}; Release = Alone; Initially = First; Guarded = TRUE; Row = {a};
  Drops = DropsA; Adds = Nothing; MaxCrash = 0.

**Outbox**

- `LastIntentWins` (`packages/web/src/lib/offline-store.ts:285`). Without navigator.locks two
  tabs flush at once, and two changes of one article whose revision the client does not know
  yet (baseRevision undefined: no compare at
  packages/api/src/repositories/article-state.persistence.ts:59) are applied in the order in
  which they arrive. packages/web/src/lib/offline-store.ts:209-210 says 'IndexedDB read/write
  transactions are serialized across tabs, covering browsers that do not implement Web Locks.'
  Instance: Tab = {t1, t2}; Item = {i1}; WebLocks = FALSE; Late = FALSE; MaxIntents = 2;
  MaxOthers = 0; MaxFaults = 0.
- `LastIntentWins` (`packages/web/src/lib/offline-store.ts:485`). The first change of an
  article carries no base revision, and a change that changes nothing leaves the revision as
  it was (article-state.persistence.ts:61), so a request the client gave up after 45 s
  (packages/web/src/lib/api.ts:253) still applies when it arrives after the change that
  replaced it. packages/api/tests/integration/transaction-atomicity.integration.test.ts:90
  says 'orders and deduplicates offline article-state mutations';
  packages/web/tests/unit/offline-store.test.ts:123 says 'coalesces rapid toggles to the
  newest desired state'.
  Instance: Tab = {t1}; Item = {i1}; WebLocks = TRUE; Late = TRUE; MaxIntents = 2; MaxOthers =
  0; MaxFaults = 1.

**Preferences**

- `SavedIsTrue` (`packages/web/src/hooks/queries/preferences-hooks.ts:213`). Revert goes back
  to the preferences last acknowledged and asks the server for nothing: when the save that
  seemed to fail was written, the panel, the cache and the theme show the old values as
  'Saved'. plans/011-reliable-preferences-autosave.md:45 says 'Reconcile draft, theme preview,
  and query cache after retry or revert.'
  Instance: Last = 1; Calls = 2; MaxEdits = 1; MaxFaults = 1; Others = FALSE; Buttons = {}.
- `LastChoice` (`packages/web/src/components/layout/top-bar.tsx:50`). Each click sends a PATCH
  of its own, outside the save queue; written in the other order, the theme that is drawn and
  kept in localStorage is not the one that is saved.
  plans/011-reliable-preferences-autosave.md:39 says 'never run concurrent preference PATCH
  requests'.
  Instance: Last = 2; Calls = 2; MaxEdits = 2; MaxFaults = 0; Others = FALSE; Buttons = Top.
- `RolledBack` (`packages/web/src/hooks/queries/preferences-hooks.ts:58`). The rollback of a
  failed save restores the data found when it was sent, with the value of an earlier save that
  has failed since: the cache keeps a preference that no save ever stored.
  plans/011-reliable-preferences-autosave.md:25 says the hook 'optimistically updates and
  rolls back the query cache on error'.
  Instance: Last = 1; Calls = 2; MaxEdits = 2; MaxFaults = 2; Others = FALSE; Buttons = All.

**ImportQuota**

- `CapHolds` (`packages/api/src/utils/rate-limiter.ts:107`). A counter found at zero is
  deleted by a command of its own: the slot that another import took in between is forgotten,
  and more imports than the limit are let through. packages/api/src/routes/feeds.ts:86
  'Per-user daily import cap.'; :97 'OPML import daily limit reached'.
  Instance: Calls = {c1, c2}; Limit = 1; WindowMax = 3; Days = 1; MaxCalls = 4; MaxFails = 2;
  MaxFaults = 0.
- `OwnSlotFreed` (`packages/api/src/utils/rate-limiter.ts:102`). releaseDailyCount computes
  the day anew, so an import that was begun before midnight and fails after it gives back a
  slot of the next day, which another import may hold. packages/api/src/routes/feeds.ts:87
  'release it if import parsing or persistence'.
  Instance: Calls = {c1, c2}; Limit = 1; WindowMax = 3; Days = 2; MaxCalls = 3; MaxFails = 1;
  MaxFaults = 0.
- `TurnedAwayForCause` (`packages/api/src/utils/rate-limiter.ts:43`). The release of a counter
  that is not there yet makes it -1 until it is deleted; the next import counts to 0, which
  incrementWithTtl takes for an invalid answer, and is turned away as if Redis were not there.
  packages/api/src/utils/rate-limiter.ts:81 'Fails closed (throws) when Redis is unavailable
  to prevent quota bypass.'
  Instance: Calls = {c1, c2}; Limit = 1; WindowMax = 3; Days = 2; MaxCalls = 3; MaxFails = 1;
  MaxFaults = 0.
- `CountersExpire` (`packages/api/src/utils/rate-limiter.ts:105`). A counter made by a release
  has no time to live; when the deletion that follows is lost, it stays until somebody imports
  on that day. packages/api/src/utils/rate-limiter.ts:74 'The key is created with a 48h TTL to
  bound its lifetime.'
  Instance: Calls = {c1, c2}; Limit = 1; WindowMax = 3; Days = 2; MaxCalls = 3; MaxFails = 1;
  MaxFaults = 1.

**ReadView**

- `AgreesAlways` (`packages/web/src/hooks/queries/article-mutation-rollback.ts:54`). The baseline is
  dropped when a toggle settles, also when its change is still in the outbox; the next toggle
  takes the unconfirmed state for its baseline, and a refusal rolls back to what the server
  never had. packages/web/tests/unit/article-mutation-reconciliation.test.tsx:154 says it
  'rolls coalesced rejected toggles back to the state before either optimistic change'.
  Instance: Article = {a1}; View = OnlyAll; Refreshes = FALSE; MaxToggles = 2; MaxOthers = 0;
  MaxFaults = 1; MaxStrands = 1.
- `IntentShown` (`packages/web/src/hooks/queries/article-hooks.ts:394`). Whether a change is
  pending is read before the next toggle has reached the outbox, and the old answer is shown
  over that toggle; when the server is then away, what is queued is not what is shown.
  packages/web/tests/unit/article-mutation-reconciliation.test.tsx:198 says the client
  'preserves a newer queued intent when another article stops the flush'.
  Instance: Article = {a1}; View = OnlyAll; Refreshes = FALSE; MaxToggles = 2; MaxOthers = 0;
  MaxFaults = 0; MaxStrands = 1.
- `AgreesAlways` (`packages/web/src/hooks/use-read-state-sync.ts:67`). An event is dropped because
  it contradicts a queued change that the server has answered already, and the older answer is
  then shown for good; or the event of an older change is shown over the answer. And a toggle
  that is refused after an event goes back to the state from before the event (MaxFaults = 1).
  packages/web/tests/unit/read-state-sync.test.ts:175 says the client
  'applies remote read events to details, lists, unread-only lists, counts, and stats'.
  Instance: Article = {a1}; View = OnlyAll; Refreshes = FALSE; MaxToggles = 1; MaxOthers = 1;
  MaxFaults = 0; MaxStrands = 0.
- `Followed` (`packages/web/src/hooks/queries/cache-utils.ts:56`). An event does not cancel
  the request for a list that the server answered before the change: its rows replace what the
  event showed. packages/web/tests/unit/read-state-sync.test.ts:175 says the client 'applies
  remote read events to details, lists, unread-only lists, counts, and stats'.
  Instance: Article = {a1}; View = OnlyAll; Refreshes = TRUE; MaxToggles = 0; MaxOthers = 1;
  MaxFaults = 0; MaxStrands = 0.
- `Followed` (`packages/web/src/hooks/queries/article-mutation-rollback.ts:41`). Only this
  tab's own toggles keep the row that an unsaving took out of the list in sync; after an event
  it comes back as it was. packages/web/src/hooks/queries/article-mutation-rollback.ts:35 says
  'Keep its rollback copy in sync until saving settles'.
  Instance: Article = {a1}; View = OnlySaved; Refreshes = FALSE; MaxToggles = 1; MaxOthers =
  1; MaxFaults = 1; MaxStrands = 0.

**Realtime**

- `HeardAgain` (`packages/api/src/services/realtime.service.ts:158`). Attempts are counted
  over the life of the process and reset only by close(), which nothing calls; an error that
  comes while the last replacement takes up its channels leaves no subscriber, and open
  streams get heartbeats and never an event.
  packages/api/tests/unit/realtime.service.test.ts:499 says of the service that it 'subscribes
  to existing channels after reconnection'.
  Instance: User = {u1}; Stream = {s1}; Owner = Alone; MaxStreams = 2; MaxReconnect = 1; Conns
  = 4; MaxBreaks = 2; MaxOpens = 1.
- `OnlyErrorsFail` (`packages/api/src/services/realtime.service.ts:244`). Between the wait for
  the unsubscription and the quit the map of handlers is empty although a new stream waits for
  its subscription: the connection is given up under it, and it fails with 'Realtime
  subscriber closed while subscribing'; packages/api/tests/unit/realtime.service.test.ts:295
  says the service 'allows reconnection after a handler is removed'.
  Instance: User = {u1}; Stream = {s1, s2}; Owner = TwoOfOne; MaxStreams = 2; MaxReconnect =
  2; Conns = 3; MaxBreaks = 0; MaxOpens = 3.

**RefreshView**

- `StartsInFront` (`packages/web/src/lib/feed-sync-status.ts:221`). The dates of the finished
  request that the page still holds say how long a new refresh has taken: it is shown as
  'Still syncing in background' from the click on, and its local state is dropped, until the
  answer comes. packages/web/tests/unit/feed-sync-status.test.ts:106 says the page 'keeps
  local refresh state active while waiting for a post-refresh status response'.
  Instance: Requests = 2; MaxClicks = 2; MaxFaults = 0; Poll = 1; Foreground = 2; MaxMonitor =
  4; Deadline = 3; Scopes = AllFeeds; Others = FALSE; Reloads = FALSE.
- `NotRevived` (`packages/web/src/hooks/use-feed-refresh.ts:92`). The page goes back to the
  query of the latest request, which still holds the answer to the POST: a refresh shown as
  finished is shown as active again until that query is fetched, and for longer when it fails.
  packages/web/tests/unit/use-feed-refresh.test.tsx:87 says the hook 'releases a completed
  tracked request and resumes latest-status tracking'.
  Instance: Requests = 1; MaxClicks = 1; MaxFaults = 0; Poll = 1; Foreground = 2; MaxMonitor =
  4; Deadline = 3; Scopes = AllFeeds; Others = FALSE; Reloads = FALSE.
- `FeedReleased` (`packages/web/src/hooks/use-feed-refresh.ts:146`). An answer equal to the
  one before (as of a job that waits for its publisher) is no change of the data, the effect
  that sets the next poll does not run again, and the loader of one feed stays for as long as
  the event stream stays connected; packages/web/src/hooks/queries/feed-hooks.ts:187 says the
  query is 'the initial snapshot and reconnect/focus fallback', but
  packages/web/src/providers/query.tsx:16 turns the refetch on focus off.
  Instance: Requests = 1; MaxClicks = 1; MaxFaults = 0; Poll = 1; Foreground = 2; MaxMonitor =
  4; Deadline = 3; Scopes = OneFeed; Others = FALSE; Reloads = FALSE.
- `ErrorIsTrue` (`packages/web/src/hooks/use-feed-refresh.ts:232`). A refresh that was
  accepted and has ended when the page asks, after its answer was lost, is reported as failed.
  packages/web/tests/unit/use-feed-refresh.test.tsx:347 says the hook 'keeps loading when the
  queue response fails after the backend accepted the refresh'.
  Instance: Requests = 1; MaxClicks = 1; MaxFaults = 1; Poll = 1; Foreground = 2; MaxMonitor =
  4; Deadline = 3; Scopes = AllFeeds; Others = FALSE; Reloads = FALSE.

**Replacement**

- `OneFeedPerSource` (`packages/api/src/services/durable-feed-facade.service.ts:73`). The
  check of a new feed is made before its transaction and not again in it, as that of a
  replacement is: a replacement that is staged in between leaves two feeds waiting for one
  source, whose snapshot then cannot be stored (the URL is unique per user).
  packages/api/tests/integration/feed-ingestion-persistence.integration.test.ts:1423 says a
  replacement 'rejects duplicate pending targets'.
  Instance: Feed = {f1, f2}; Source = Two; Op = {o1, o2}; Site = {}; Offers = {}; Held =
  OneHeld; Own = OwnOne; Recurring = {}; MaxCalls = 2; MaxFaults = 0.
- `LastAsked` (`packages/api/src/services/durable-feed-facade.service.ts:209`). A request for
  the source that was asked for before last is answered with its old request and stages
  nothing: the feed gets the other source. packages/api/src/services/feed.service.ts:187 tells
  the user of the source just asked for that 'Existing articles remain available until the new
  source validates; activation replaces them atomically.'
  Instance: Feed = {f1}; Source = Three; Op = {o1}; Site = {}; Offers = {}; Held = OneHeld;
  Own = OwnOne; Recurring = {}; MaxCalls = 3; MaxFaults = 0.
- `NeverEmptied` (`packages/api/src/repositories/feed-ingestion.repository.ts:322`). The
  transaction that activates a source deletes the feed's articles, and the delivery of the new
  ones is another, later one that may fail. packages/web/src/lib/feed-lifecycle.ts:44 says
  'Existing articles remain available until the new source succeeds.', and
  packages/api/src/services/feed.service.ts:187 'activation replaces them atomically'.
  Instance: Feed = {f1}; Source = Two; Op = {o1}; Site = {}; Offers = {}; Held = OneHeld; Own
  = OwnOne; Recurring = {}; MaxCalls = 1; MaxFaults = 0.
- `CancelEnds` (`packages/api/src/services/durable-feed-facade.service.ts:256`). Only items of
  scope 'feed_replacement' are ended by a cancellation; a source that was chosen from a
  website's has scope 'discovery' and its item goes on being waited for.
  packages/api/tests/integration/feed-ingestion-persistence.integration.test.ts:1364 says the
  facade 'terminalizes cancellation without stopping shared work and permits immediate retry'.
  Instance: Feed = {f1}; Source = Three; Op = {o1}; Site = {s2}; Offers = {s3}; Held =
  OneHeld; Own = OwnOne; Recurring = {}; MaxCalls = 2; MaxFaults = 0.
- `NoDeadEnd` (`packages/api/src/services/durable-feed-discovery.ts:89`). A day after a
  website was added nothing can be chosen any more: the weekly fetch of the site offers
  candidates only to items of its own job, and a new feed has no replacement to give up.
  packages/web/src/lib/feed-lifecycle.ts:59 goes on saying 'Select a discovered feed before
  refreshing.'
  Instance: Feed = {f1}; Source = Two; Op = {o1}; Site = {s2}; Offers = {s1}; Held = Nothing;
  Own = OwnNone; Recurring = {}; MaxCalls = 1; MaxFaults = 0.

**SnapshotDelivery**

- `WritesUnderOwnClaim` (`packages/api/src/jobs/durable-ingestion-runtime.ts:105`). The
  runtime of every process delivers as 'durable-delivery', so the lease check of
  persistSyncResults (repositories/snapshot-delivery.persistence.ts:27-36) is passed by a
  process whose claim was reclaimed by another one.
  packages/api/tests/integration/snapshot-delivery-fencing.integration.test.ts:137 says 'does
  not write articles under an %s lease' for a reclaimed lease.
  Instance: Process = {p1, p2}; Source = {a}; Guid = {g1}; Snapshots = 2; SourceOf =
  MCOneSource; ItemsOf = MCOneItems; MaxAttempts = 2; MaxFaults = 1.

The rest was seen while the models were written; the properties of the runs are stated so that
they hold beside it, and the theorems say in their hypotheses where it is kept out.

**FeedHealth**

- The failures of an origin are written from what the claim read when it began
  (`packages/api/src/services/durable-feed-worker.ts:555`). Two claims that fail side by side
  count once; a success that another claim wrote in between is forgotten, so the circuit of
  an origin may open although every other fetch of its sources succeeds. A 304 sets the
  origin's failures to zero and leaves its circuit open (line 376).

**Enrichment**

- A sync of another process than the one that fetched a page, a second worker or the API, that
  had read the article before overwrites its full content with what the feed has
  (`packages/api/src/services/feed-sync.service.ts:980`); `FullKept` says that nothing else does.

**Analytics**

- Events are lost that should wait in the browser: with two tabs, when the increment of one
  request fails after the other has been told that nothing is left to count; when an answer is
  lost and the increment then fails; when Redis fails in mid-marking
  (`packages/api/src/services/product-analytics.service.ts:73`, outside of the `try`); and
  when the process dies between marks and row. An event that is sent again after eight days is
  counted twice.
- `getReport` goes through yesterday (`throughDate`), but `totals.activeUsers` has those of
  today, too (line 134 compares with the first day only).

**Worker**

- 'Do not leave feeds waiting for the first interval after a worker restart or deployment'
  (`packages/api/src/jobs/scheduler.ts:103`): the queued worker is started first and sets its
  flag before its first await, so the first body of the scheduler, in the same turn, makes way
  for it, and due feeds wait for the first interval. Its module models it so (`Init`).
- 'This ensures that in-progress feed syncs complete before shutdown'
  (`packages/api/src/worker.ts:172`): for as long as the drain lasts. Redis and the database
  are closed under the retention, session and mutation cleanups and the cache warmer, which
  nothing waits for, while `stop()` of v2 is waited for without bound.


## 6. What is not modelled

- *Publisher hints* (`feed-publisher-hints.ts`) and the text of `Retry-After`: reading of
  headers; `FetchPolicy` begins with the number that comes out.
- *Parsing and network* (XML, hashing, relay, proxies): their outcomes are
  nondeterministic choices of `FetchJobs`, `RefreshRequests` and `Replacement`.
- *Android*: Room transactions of the same outbox protocol and a user interface of
  their own, which no module here translates.
- *Settings, statistics, metrics*: single statements or counters.
- *Shared schemas, OpenAPI, rendering, routing, static files*: without state of
  their own that a rule of this project relates.
- Within modelled components: forced unconditional fetches, the jitter's distribution, legacy
  JWT refresh tokens, rate limits of logins, items inside a feed of the legacy pipeline,
  switching accounts in mid-flush and the limit of 1000 queued changes, foreign-key checks
  and a busy database during migrations.

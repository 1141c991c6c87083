------------------------------ MODULE MCRedis -------------------------------
(***************************************************************************)
(* Instances of what processes coordinate through Redis: the locks, lists  *)
(* and batches of the legacy pipeline, the article cache, the import quota *)
(* and the event channels. Each behaviour is one of a part; the parts      *)
(* share no key.                                                           *)
(***************************************************************************)
EXTENDS Integers, Sequences, TLC

CONSTANTS
  None, Api, f1, f2, f3, r1, u1, u2, w1, w2, w3, w4, a1, a2, c1, c2, c3, s1, s2, s3

VARIABLES
  part, \* which of the parts the behaviour is one of
  row, feedLock, urlLock, prefetched, delayed, job, asks, crashes, stalls, since, tooSoon, asked,
  list, marker, request, lock, worker, busy, reader, jobs, accepted, ran, article, sync, feed,
  syncs, redis, saved, change, warmer, restarts, told, age, day, count, lasting, window, call,
  done, wronged, calls, fails, faults, sub, joining, handlers, pending, attempts, conn, again,
  str, gone, registry, fix, opens, breaks, timers, running, stopping, down, closed, process

\* FeedSync: two subscriptions to one publisher in two processes, with a crash.
Locks == INSTANCE FeedSync WITH
  Feed <- {f1, f2}, Url <- {r1}, UrlOf <- [f \in {f1, f2} |-> r1], Process <- {w1, w2},
  Kinds <- {"scheduled", "manual"}, Cooldown <- 2, Stale <- 1, Poll <- 2, MaxRetry <- 1,
  Faults <- {"create", "settle"}, MaxAsks <- 1, MaxCrashes <- 1, MaxStalls <- 0
\* One subscription and previews of its address, with a longer cooldown.
Polite == INSTANCE FeedSync WITH
  Feed <- {f3}, Url <- {r1}, UrlOf <- [f \in {f3} |-> r1], Process <- {w1, w2},
  Kinds <- {"scheduled", "delayed", "manual", "preview"}, Cooldown <- 3, Stale <- 1, Poll <- 2,
  MaxRetry <- 2, Faults <- {"persist"}, MaxAsks <- 2, MaxCrashes <- 1, MaxStalls <- 1
\* BulkSync: two workers, a crash and two stalls.
Queue == INSTANCE BulkSync WITH
  User <- {u1}, Worker <- {w1, w2}, Fresh <- 0, Life <- 2, Feeds <- 1, Loops <- {}, MaxJobs <- 2,
  MaxCrashes <- 1, MaxStalls <- 2
\* One worker with its other loops, two users of two feeds each.
Batch == INSTANCE BulkSync WITH
  User <- {u1, u2}, Worker <- {w3}, Fresh <- 1, Life <- 2, Feeds <- 2,
  Loops <- {"due", "enrich"}, MaxJobs <- 2, MaxCrashes <- 1, MaxStalls <- 0
\* Enrichment: two articles, one worker that also syncs their feed.
Pages == INSTANCE Enrichment WITH
  Article <- {a1, a2}, Worker <- {w3}, Syncers <- {w3}, MaxAttempts <- 2, LockLife <- 2,
  MaxAsks <- 1, MaxSyncs <- 2, MaxCrashes <- 1
\* One article, two workers, a crash.
Fetchers == INSTANCE Enrichment WITH
  Article <- {a1}, Worker <- {w1, w2}, Syncers <- {w1, w2, Api}, MaxAttempts <- 2, LockLife <- 2,
  MaxAsks <- 1, MaxSyncs <- 1, MaxCrashes <- 1
\* The same, and a second sync, which may have read the article before its page is written.
Apart == INSTANCE Enrichment WITH
  Article <- {a1}, Worker <- {w1, w2}, Syncers <- {w1, w2, Api}, MaxAttempts <- 2, LockLife <- 2,
  MaxAsks <- 0, MaxSyncs <- 2, MaxCrashes <- 0
\* ArticleCache: two warmers and a reader.
Lists == INSTANCE ArticleCache WITH
  Article <- {a1}, Warmer <- {w1, w2}, Reader <- {r1}, Asks <- {"list"}, DetailLife <- 1,
  Kinds <- {"insert", "revise"}, MaxVersion <- 2, MaxCrashes <- 0, MaxRestarts <- 0
\* Articles by themselves, too, and a Redis that comes back from a snapshot.
Details == INSTANCE ArticleCache WITH
  Article <- {a1}, Warmer <- {w3}, Reader <- {r1}, Asks <- {"list", "detail"}, DetailLife <- 1,
  Kinds <- {"enrich"}, MaxVersion <- 2, MaxCrashes <- 0, MaxRestarts <- 1
\* A worker that dies before it has cleared the lists.
Unheard == INSTANCE ArticleCache WITH
  Article <- {a1}, Warmer <- {w3}, Reader <- {r1}, Asks <- {"list", "detail"}, DetailLife <- 1,
  Kinds <- {"insert"}, MaxVersion <- 2, MaxCrashes <- 1, MaxRestarts <- 0
\* ImportQuota: imports that do not fail, crashes and failures of Redis.
Cap == INSTANCE ImportQuota WITH
  Calls <- {c1, c2, c3}, Limit <- 2, WindowMax <- 3, Days <- 1, MaxCalls <- 5, MaxFails <- 0,
  MaxFaults <- 2
\* Imports that fail, over midnight too.
Slots == INSTANCE ImportQuota WITH
  Calls <- {c1, c2, c3}, Limit <- 1, WindowMax <- 3, Days <- 2, MaxCalls <- 3, MaxFails <- 2,
  MaxFaults <- 0
\* Realtime: three streams of one user, connections that break.
Streams == INSTANCE Realtime WITH
  User <- {u1}, Stream <- {s1, s2, s3}, Owner <- [s \in {s1, s2, s3} |-> u1], MaxStreams <- 2,
  MaxReconnect <- 1, Conns <- 5, MaxBreaks <- 2, MaxOpens <- 3
\* The worker's loops with the legacy pipeline, and with v2; the second signal may come at any
\* time.
Loops == INSTANCE Worker WITH
  V2 <- FALSE, Drain <- 2, Signals <- 2
Durable == INSTANCE Worker WITH
  V2 <- TRUE, Drain <- 2, Signals <- 2

ASSUME
  /\ Locks!FeedSyncAssumption
  /\ Polite!FeedSyncAssumption
  /\ Queue!BulkAssumption
  /\ Batch!BulkAssumption
  /\ Pages!EnrichmentAssumption
  /\ Fetchers!EnrichmentAssumption
  /\ Apart!EnrichmentAssumption
  /\ Lists!CacheAssumption
  /\ Details!CacheAssumption
  /\ Unheard!CacheAssumption
  /\ Cap!ImportQuotaAssumption
  /\ Slots!ImportQuotaAssumption
  /\ Streams!RealtimeAssumption
  /\ Loops!WorkerAssumption
  /\ Durable!WorkerAssumption

\* What a component has no variable for stays unused in its parts.
BesideFeedSync == <<
  list, marker, request, lock, worker, busy, reader, jobs, accepted, ran, article, sync, feed,
  syncs, redis, saved, change, warmer, restarts, told, age, day, count, lasting, window, call,
  done, wronged, calls, fails, faults, sub, joining, handlers, pending, attempts, conn, again,
  str, gone, registry, fix, opens, breaks, timers, running, stopping, down, closed, process>>
BesideBulkSync == <<
  row, feedLock, urlLock, prefetched, delayed, job, asks, since, tooSoon, asked, article, sync,
  feed, syncs, redis, saved, change, warmer, restarts, told, age, day, count, lasting, window,
  call, done, wronged, calls, fails, faults, sub, joining, handlers, pending, attempts, conn,
  again, str, gone, registry, fix, opens, breaks, timers, running, stopping, down, closed,
  process>>
BesideEnrichment == <<
  row, feedLock, urlLock, prefetched, delayed, job, stalls, since, tooSoon, asked, list, marker,
  request, busy, reader, jobs, accepted, ran, redis, saved, change, warmer, restarts, told, age,
  day, count, lasting, window, call, done, wronged, calls, fails, faults, sub, joining, handlers,
  pending, attempts, conn, again, str, gone, registry, fix, opens, breaks, timers, running,
  stopping, down, closed, process>>
BesideArticleCache == <<
  feedLock, urlLock, prefetched, delayed, job, asks, stalls, since, tooSoon, asked, list, marker,
  request, lock, worker, busy, jobs, accepted, ran, article, sync, feed, syncs, day, count,
  lasting, window, call, done, wronged, calls, fails, faults, sub, joining, handlers, pending,
  attempts, conn, again, str, gone, registry, fix, opens, breaks, timers, running, stopping,
  down, closed, process>>
BesideImportQuota == <<
  row, feedLock, urlLock, prefetched, delayed, job, asks, crashes, stalls, since, tooSoon, asked,
  list, marker, request, lock, worker, busy, reader, jobs, accepted, ran, article, sync, feed,
  syncs, redis, saved, change, warmer, restarts, told, age, sub, joining, handlers, pending,
  attempts, conn, again, str, gone, registry, fix, opens, breaks, timers, running, stopping,
  down, closed, process>>
BesideRealtime == <<
  row, feedLock, urlLock, prefetched, delayed, job, asks, crashes, stalls, since, tooSoon, asked,
  list, marker, request, lock, worker, busy, reader, jobs, accepted, ran, article, sync, feed,
  syncs, redis, saved, change, warmer, restarts, told, age, day, lasting, window, call, done,
  wronged, calls, fails, faults, timers, running, stopping, down, closed, process>>
BesideWorker == <<
  row, feedLock, urlLock, prefetched, delayed, job, asks, crashes, stalls, since, tooSoon, asked,
  list, marker, request, lock, worker, busy, reader, jobs, accepted, ran, article, sync, feed,
  syncs, redis, saved, change, warmer, restarts, told, age, day, count, lasting, window, call,
  done, wronged, calls, fails, faults, sub, joining, handlers, pending, attempts, conn, again,
  str, gone, registry, fix, opens, breaks>>

NoFeedSyncBeside ==
  /\ list = None /\ marker = None /\ request = None /\ lock = None /\ worker = None
  /\ busy = None /\ reader = None /\ jobs = None /\ accepted = None /\ ran = None
  /\ article = None /\ sync = None /\ feed = None /\ syncs = None /\ redis = None /\ saved = None
  /\ change = None /\ warmer = None /\ restarts = None /\ told = None /\ age = None /\ day = None
  /\ count = None /\ lasting = None /\ window = None /\ call = None /\ done = None
  /\ wronged = None /\ calls = None /\ fails = None /\ faults = None /\ sub = None
  /\ joining = None /\ handlers = None /\ pending = None /\ attempts = None /\ conn = None
  /\ again = None /\ str = None /\ gone = None /\ registry = None /\ fix = None /\ opens = None
  /\ breaks = None /\ timers = None /\ running = None /\ stopping = None /\ down = None
  /\ closed = None /\ process = None
NoBulkSyncBeside ==
  /\ row = None /\ feedLock = None /\ urlLock = None /\ prefetched = None /\ delayed = None
  /\ job = None /\ asks = None /\ since = None /\ tooSoon = None /\ asked = None
  /\ article = None /\ sync = None /\ feed = None /\ syncs = None /\ redis = None /\ saved = None
  /\ change = None /\ warmer = None /\ restarts = None /\ told = None /\ age = None /\ day = None
  /\ count = None /\ lasting = None /\ window = None /\ call = None /\ done = None
  /\ wronged = None /\ calls = None /\ fails = None /\ faults = None /\ sub = None
  /\ joining = None /\ handlers = None /\ pending = None /\ attempts = None /\ conn = None
  /\ again = None /\ str = None /\ gone = None /\ registry = None /\ fix = None /\ opens = None
  /\ breaks = None /\ timers = None /\ running = None /\ stopping = None /\ down = None
  /\ closed = None /\ process = None
NoEnrichmentBeside ==
  /\ row = None /\ feedLock = None /\ urlLock = None /\ prefetched = None /\ delayed = None
  /\ job = None /\ stalls = None /\ since = None /\ tooSoon = None /\ asked = None /\ list = None
  /\ marker = None /\ request = None /\ busy = None /\ reader = None /\ jobs = None
  /\ accepted = None /\ ran = None /\ redis = None /\ saved = None /\ change = None
  /\ warmer = None /\ restarts = None /\ told = None /\ age = None /\ day = None /\ count = None
  /\ lasting = None /\ window = None /\ call = None /\ done = None /\ wronged = None
  /\ calls = None /\ fails = None /\ faults = None /\ sub = None /\ joining = None
  /\ handlers = None /\ pending = None /\ attempts = None /\ conn = None /\ again = None
  /\ str = None /\ gone = None /\ registry = None /\ fix = None /\ opens = None /\ breaks = None
  /\ timers = None /\ running = None /\ stopping = None /\ down = None /\ closed = None
  /\ process = None
NoArticleCacheBeside ==
  /\ feedLock = None /\ urlLock = None /\ prefetched = None /\ delayed = None /\ job = None
  /\ asks = None /\ stalls = None /\ since = None /\ tooSoon = None /\ asked = None
  /\ list = None /\ marker = None /\ request = None /\ lock = None /\ worker = None
  /\ busy = None /\ jobs = None /\ accepted = None /\ ran = None /\ article = None /\ sync = None
  /\ feed = None /\ syncs = None /\ day = None /\ count = None /\ lasting = None /\ window = None
  /\ call = None /\ done = None /\ wronged = None /\ calls = None /\ fails = None
  /\ faults = None /\ sub = None /\ joining = None /\ handlers = None /\ pending = None
  /\ attempts = None /\ conn = None /\ again = None /\ str = None /\ gone = None
  /\ registry = None /\ fix = None /\ opens = None /\ breaks = None /\ timers = None
  /\ running = None /\ stopping = None /\ down = None /\ closed = None /\ process = None
NoImportQuotaBeside ==
  /\ row = None /\ feedLock = None /\ urlLock = None /\ prefetched = None /\ delayed = None
  /\ job = None /\ asks = None /\ crashes = None /\ stalls = None /\ since = None
  /\ tooSoon = None /\ asked = None /\ list = None /\ marker = None /\ request = None
  /\ lock = None /\ worker = None /\ busy = None /\ reader = None /\ jobs = None
  /\ accepted = None /\ ran = None /\ article = None /\ sync = None /\ feed = None
  /\ syncs = None /\ redis = None /\ saved = None /\ change = None /\ warmer = None
  /\ restarts = None /\ told = None /\ age = None /\ sub = None /\ joining = None
  /\ handlers = None /\ pending = None /\ attempts = None /\ conn = None /\ again = None
  /\ str = None /\ gone = None /\ registry = None /\ fix = None /\ opens = None /\ breaks = None
  /\ timers = None /\ running = None /\ stopping = None /\ down = None /\ closed = None
  /\ process = None
NoRealtimeBeside ==
  /\ row = None /\ feedLock = None /\ urlLock = None /\ prefetched = None /\ delayed = None
  /\ job = None /\ asks = None /\ crashes = None /\ stalls = None /\ since = None
  /\ tooSoon = None /\ asked = None /\ list = None /\ marker = None /\ request = None
  /\ lock = None /\ worker = None /\ busy = None /\ reader = None /\ jobs = None
  /\ accepted = None /\ ran = None /\ article = None /\ sync = None /\ feed = None
  /\ syncs = None /\ redis = None /\ saved = None /\ change = None /\ warmer = None
  /\ restarts = None /\ told = None /\ age = None /\ day = None /\ lasting = None
  /\ window = None /\ call = None /\ done = None /\ wronged = None /\ calls = None
  /\ fails = None /\ faults = None /\ timers = None /\ running = None /\ stopping = None
  /\ down = None /\ closed = None /\ process = None
NoWorkerBeside ==
  /\ row = None /\ feedLock = None /\ urlLock = None /\ prefetched = None /\ delayed = None
  /\ job = None /\ asks = None /\ crashes = None /\ stalls = None /\ since = None
  /\ tooSoon = None /\ asked = None /\ list = None /\ marker = None /\ request = None
  /\ lock = None /\ worker = None /\ busy = None /\ reader = None /\ jobs = None
  /\ accepted = None /\ ran = None /\ article = None /\ sync = None /\ feed = None
  /\ syncs = None /\ redis = None /\ saved = None /\ change = None /\ warmer = None
  /\ restarts = None /\ told = None /\ age = None /\ day = None /\ count = None /\ lasting = None
  /\ window = None /\ call = None /\ done = None /\ wronged = None /\ calls = None
  /\ fails = None /\ faults = None /\ sub = None /\ joining = None /\ handlers = None
  /\ pending = None /\ attempts = None /\ conn = None /\ again = None /\ str = None
  /\ gone = None /\ registry = None /\ fix = None /\ opens = None /\ breaks = None

Init ==
  \/ part = "locks" /\ Locks!Init /\ NoFeedSyncBeside
  \/ part = "polite" /\ Polite!Init /\ NoFeedSyncBeside
  \/ part = "queue" /\ Queue!Init /\ NoBulkSyncBeside
  \/ part = "batch" /\ Batch!Init /\ NoBulkSyncBeside
  \/ part = "pages" /\ Pages!Init /\ NoEnrichmentBeside
  \/ part = "fetchers" /\ Fetchers!Init /\ NoEnrichmentBeside
  \/ part = "apart" /\ Apart!Init /\ NoEnrichmentBeside
  \/ part = "lists" /\ Lists!Init /\ NoArticleCacheBeside
  \/ part = "details" /\ Details!Init /\ NoArticleCacheBeside
  \/ part = "unheard" /\ Unheard!Init /\ NoArticleCacheBeside
  \/ part = "cap" /\ Cap!Init /\ NoImportQuotaBeside
  \/ part = "slots" /\ Slots!Init /\ NoImportQuotaBeside
  \/ part = "streams" /\ Streams!Init /\ NoRealtimeBeside
  \/ part = "loops" /\ Loops!Init /\ NoWorkerBeside
  \/ part = "durable" /\ Durable!Init /\ NoWorkerBeside

Next ==
  /\ UNCHANGED part
  /\ \/ part = "locks" /\ Locks!Next /\ UNCHANGED BesideFeedSync
     \/ part = "polite" /\ Polite!Next /\ UNCHANGED BesideFeedSync
     \/ part = "queue" /\ Queue!Next /\ UNCHANGED BesideBulkSync
     \/ part = "batch" /\ Batch!Next /\ UNCHANGED BesideBulkSync
     \/ part = "pages" /\ Pages!Next /\ UNCHANGED BesideEnrichment
     \/ part = "fetchers" /\ Fetchers!Next /\ UNCHANGED BesideEnrichment
     \/ part = "apart" /\ Apart!Next /\ UNCHANGED BesideEnrichment
     \/ part = "lists" /\ Lists!Next /\ UNCHANGED BesideArticleCache
     \/ part = "details" /\ Details!Next /\ UNCHANGED BesideArticleCache
     \/ part = "unheard" /\ Unheard!Next /\ UNCHANGED BesideArticleCache
     \/ part = "cap" /\ Cap!Next /\ UNCHANGED BesideImportQuota
     \/ part = "slots" /\ Slots!Next /\ UNCHANGED BesideImportQuota
     \/ part = "streams" /\ Streams!Next /\ UNCHANGED BesideRealtime
     \/ part = "loops" /\ Loops!Next /\ UNCHANGED BesideWorker
     \/ part = "durable" /\ Durable!Next /\ UNCHANGED BesideWorker

vars == <<
  part, row, feedLock, urlLock, prefetched, delayed, job, asks, crashes, stalls, since, tooSoon,
  asked, list, marker, request, lock, worker, busy, reader, jobs, accepted, ran, article, sync,
  feed, syncs, redis, saved, change, warmer, restarts, told, age, day, count, lasting, window,
  call, done, wronged, calls, fails, faults, sub, joining, handlers, pending, attempts, conn,
  again, str, gone, registry, fix, opens, breaks, timers, running, stopping, down, closed,
  process>>
Spec == Init /\ [][Next]_vars

Symmetry == Permutations({f1, f2}) \cup Permutations({w1, w2})

-----------------------------------------------------------------------------
\* The keys in Redis, the rows and what each process holds in memory keep their types.
TypesHold ==
  /\ part = "locks" => Locks!TypeOK
  /\ part = "polite" => Polite!TypeOK
  /\ part = "queue" => Queue!TypeOK
  /\ part = "batch" => Batch!TypeOK
  /\ part = "pages" => Pages!TypeOK
  /\ part = "fetchers" => Fetchers!TypeOK
  /\ part = "apart" => Apart!TypeOK
  /\ part = "lists" => Lists!TypeOK
  /\ part = "details" => Details!TypeOK
  /\ part = "unheard" => Unheard!TypeOK
  /\ part = "cap" => Cap!TypeOK
  /\ part = "slots" => Slots!TypeOK
  /\ part = "streams" => Streams!TypeOK
  /\ part = "loops" => Loops!TypeOK
  /\ part = "durable" => Durable!TypeOK

\* No lock lets two in, and no counter one too many: at most one sync of a feed, one request to a
\* publisher in its cooldown, one fetch of an article's page, no enrichment beside syncs, and no
\* more imports and streams than allowed; and none loses a place, whichever process dies and
\* whatever comes late. What is running is not closed under but after a shutdown's full wait.
LimitsHold ==
  /\ part = "locks" => Locks!OneSyncPerFeed
  /\ part = "polite" => Polite!OneSyncPerFeed /\ Polite!OneRequestPerCooldown
  /\ part = "fetchers" => Fetchers!OneFetcher
  /\ part = "apart" => Apart!OneFetcher
  /\ part = "cap" => Cap!CapHolds
  /\ part = "slots" => Slots!NoSlotLost
  /\ part = "streams" => Streams!CountsAgree /\ Streams!NothingLeaks
  /\ part = "pages" => Pages!AttemptsBounded
  /\ part = "loops" => Loops!NoneBeside /\ Loops!ClosedQuiet
  /\ part = "durable" => Durable!NoneBeside /\ Durable!ClosedQuiet

\* A refresh of all feeds that was accepted is run or still in the list, its user is not told
\* that nothing is going on, and at the end each feed has been counted once.
RefreshKept ==
  /\ part = "queue" => Queue!NotDropped /\ Queue!StatusKnows
  /\ part = "batch" => Batch!NotDropped /\ Batch!CountsAddUp

\* What enrichment has fetched from an article's page is overwritten by no other worker that found
\* the same article, nor by a sync of the process that fetched it; a sync of another process that
\* had read the article before does overwrite it.
FullKept == [][/\ part = "pages" => Pages!FullKept
               /\ part = "fetchers" => Fetchers!FullKept
               /\ part = "apart" => Apart!FullKept]_vars

\* A list from the cache has all that had been delivered before the reader asked; and after a
\* crash, an old snapshot or a late fill, nothing stale outlives its time to live.
ListFresh ==
  /\ part = "lists" => Lists!ListFresh
  /\ part = "details" => Details!StaleEnds
  /\ part = "unheard" => Unheard!StaleEnds
=============================================================================

----------------------------- MODULE MCProgress -----------------------------
(***************************************************************************)
(* Instances of the components in which something must eventually happen,  *)
(* under the fairness that each of them states. Each behaviour is one of a *)
(* part. No symmetry is used.                                              *)
(***************************************************************************)
EXTENDS Integers, Sequences

CONSTANTS
  None, Unknown, Baseline, Api, f1, f2, s1, s2, s3, s4, u1, u2, w1, w2, a1, a2, o1, o2, p1, b1,
  g1, j1, j2, h1, t1, t2, c1, c2

VARIABLES
  part, \* which of the parts the behaviour is one of
  row, feedLock, urlLock, prefetched, delayed, job, asks, crashes, stalls, since, tooSoon, asked,
  list, marker, request, lock, worker, busy, reader, jobs, accepted, ran, article, sync, feed,
  syncs, want, source, snap, end, seen, item, cand, due, op, calls, faults, delivery, news, work,
  stalled, parsed, now, sub, joining, handlers, count, pending, attempts, conn, again, str, gone,
  registry, fix, opens, breaks, server, rev, told, rows, counts, base, outbox, flush, mut,
  events, hand, fetch, others, strands, crossed, listed, gen, data, req, silent, selected,
  retained, stayed, mine, changes, toggles, timers, running, stopping, down, closed, process

\* FeedSync: one subscription, two processes, a crash, a late heartbeat and writes that fail.
Resumes == INSTANCE FeedSync WITH
  Feed <- {f1}, Url <- {u1}, UrlOf <- [f \in {f1} |-> u1], Process <- {w1, w2},
  Kinds <- {"scheduled", "delayed"}, Cooldown <- 2, Stale <- 1, Poll <- 2, MaxRetry <- 1,
  Faults <- {"persist", "settle"}, MaxAsks <- 0, MaxCrashes <- 1, MaxStalls <- 1
\* BulkSync: two users and one worker, which may die.
Served == INSTANCE BulkSync WITH
  User <- {u1, u2}, Worker <- {w1}, Fresh <- 1, Life <- 2, Feeds <- 1, Loops <- {"enrich"},
  MaxJobs <- 2, MaxCrashes <- 1, MaxStalls <- 0
\* Enrichment: one article that is also synced, and a worker that may die.
Settling == INSTANCE Enrichment WITH
  Article <- {a1}, Worker <- {w1}, Syncers <- {Api}, MaxAttempts <- 2, LockLife <- 2,
  MaxAsks <- 1, MaxSyncs <- 1, MaxCrashes <- 1
\* Replacement: a website whose feed is found, with failures.
Validated == INSTANCE Replacement WITH
  Feed <- {f1}, Source <- {s2, s3}, Op <- {o1}, Site <- {s2}, Offers <- {s3}, Held <- {},
  Own <- [f \in {} |-> s1], Recurring <- {s2, s3}, MaxCalls <- 1, MaxFaults <- 2
\* Two feeds, calls at a time.
Raced == INSTANCE Replacement WITH
  Feed <- {f1, f2}, Source <- {s1, s2}, Op <- {o1, o2}, Site <- {}, Offers <- {}, Held <- {f1},
  Own <- [f \in {f1} |-> s1], Recurring <- {s2}, MaxCalls <- 2, MaxFaults <- 0
\* SnapshotDelivery: two snapshots, with stalls, crashes and errors.
Delivering == INSTANCE SnapshotDelivery WITH
  Process <- {p1}, Source <- {b1}, Guid <- {g1}, Snapshots <- 2, SourceOf <- <<b1, b1>>,
  ItemsOf <- <<{g1}, {g1}>>, MaxAttempts <- 2, MaxFaults <- 2
\* Realtime: two users and connections that break twice.
Heard == INSTANCE Realtime WITH
  User <- {u1, u2}, Stream <- {t1, t2}, Owner <- [s \in {t1, t2} |-> IF s = t1 THEN u1 ELSE u2],
  MaxStreams <- 2, MaxReconnect <- 3, Conns <- 5, MaxBreaks <- 2, MaxOpens <- 2
\* ReadView: a toggle, a change elsewhere, a failure, and a server that is away.
Healed == INSTANCE ReadView WITH
  Article <- {a1}, View <- {"all"}, Refreshes <- TRUE, MaxToggles <- 1, MaxOthers <- 1,
  MaxFaults <- 1, MaxStrands <- 1, Unknown <- Unknown, Baseline <- Baseline
\* ArticlePages: a list that is scrolled through while it changes.
Scrolled == INSTANCE ArticlePages WITH
  Articles <- 3, Limit <- 1, UnreadOnly <- FALSE, Visible <- FALSE, MaxChanges <- 1,
  MaxToggles <- 0, MaxGen <- 1
\* A list that is looked at.
Looked == INSTANCE ArticlePages WITH
  Articles <- 3, Limit <- 1, UnreadOnly <- FALSE, Visible <- TRUE, MaxChanges <- 1,
  MaxToggles <- 0, MaxGen <- 0
\* Worker: a shutdown of the legacy pipeline, and one of v2.
Stopping == INSTANCE Worker WITH
  V2 <- FALSE, Drain <- 1, Signals <- 1
StoppingV2 == INSTANCE Worker WITH
  V2 <- TRUE, Drain <- 1, Signals <- 1

ASSUME
  /\ Resumes!FeedSyncAssumption
  /\ Served!BulkAssumption
  /\ Settling!EnrichmentAssumption
  /\ Validated!ReplacementAssumption
  /\ Raced!ReplacementAssumption
  /\ Delivering!ParametersAssumption
  /\ Heard!RealtimeAssumption
  /\ Healed!ReadViewAssumption
  /\ Scrolled!ArticlePagesAssumption
  /\ Looked!ArticlePagesAssumption
  /\ Stopping!WorkerAssumption
  /\ StoppingV2!WorkerAssumption

\* What a component has no variable for stays unused in its parts.
BesideFeedSync == <<
  list, marker, request, lock, worker, busy, reader, jobs, accepted, ran, article, sync, feed,
  syncs, want, source, snap, end, seen, item, cand, due, op, calls, faults, delivery, news, work,
  stalled, parsed, now, sub, joining, handlers, count, pending, attempts, conn, again, str, gone,
  registry, fix, opens, breaks, server, rev, told, rows, counts, base, outbox, flush, mut,
  events, hand, fetch, others, strands, crossed, listed, gen, data, req, silent, selected,
  retained, stayed, mine, changes, toggles, timers, running, stopping, down, closed, process>>
BesideBulkSync == <<
  row, feedLock, urlLock, prefetched, delayed, job, asks, since, tooSoon, asked, article, sync,
  feed, syncs, want, source, snap, end, seen, item, cand, due, op, calls, faults, delivery, news,
  work, stalled, parsed, now, sub, joining, handlers, count, pending, attempts, conn, again, str,
  gone, registry, fix, opens, breaks, server, rev, told, rows, counts, base, outbox, flush, mut,
  events, hand, fetch, others, strands, crossed, listed, gen, data, req, silent, selected,
  retained, stayed, mine, changes, toggles, timers, running, stopping, down, closed, process>>
BesideEnrichment == <<
  row, feedLock, urlLock, prefetched, delayed, job, stalls, since, tooSoon, asked, list, marker,
  request, busy, reader, jobs, accepted, ran, want, source, snap, end, seen, item, cand, due, op,
  calls, faults, delivery, news, work, stalled, parsed, now, sub, joining, handlers, count,
  pending, attempts, conn, again, str, gone, registry, fix, opens, breaks, server, rev, told,
  rows, counts, base, outbox, flush, mut, events, hand, fetch, others, strands, crossed, listed,
  gen, data, req, silent, selected, retained, stayed, mine, changes, toggles, timers, running,
  stopping, down, closed, process>>
BesideReplacement == <<
  row, feedLock, urlLock, prefetched, delayed, asks, crashes, stalls, since, tooSoon, asked,
  list, marker, request, lock, worker, busy, reader, jobs, accepted, ran, article, sync, syncs,
  delivery, news, work, stalled, parsed, now, sub, joining, handlers, count, pending, attempts,
  conn, again, str, gone, registry, fix, opens, breaks, server, rev, told, rows, counts, base,
  outbox, flush, mut, events, hand, fetch, others, strands, crossed, listed, gen, data, req,
  silent, selected, retained, stayed, mine, changes, toggles, timers, running, stopping, down,
  closed, process>>
BesideSnapshotDelivery == <<
  row, feedLock, urlLock, prefetched, delayed, job, asks, crashes, stalls, since, tooSoon, asked,
  list, marker, request, lock, worker, busy, reader, jobs, accepted, ran, sync, syncs, want,
  source, snap, end, seen, item, cand, due, op, calls, sub, joining, handlers, count, pending,
  attempts, conn, again, str, gone, registry, fix, opens, breaks, server, rev, told, rows,
  counts, base, outbox, flush, mut, events, hand, fetch, others, strands, crossed, listed, gen,
  data, req, silent, selected, retained, stayed, mine, changes, toggles, timers, running,
  stopping, down, closed, process>>
BesideRealtime == <<
  row, feedLock, urlLock, prefetched, delayed, job, asks, crashes, stalls, since, tooSoon, asked,
  list, marker, request, lock, worker, busy, reader, jobs, accepted, ran, article, sync, feed,
  syncs, want, source, snap, end, seen, item, cand, due, op, calls, faults, delivery, news, work,
  stalled, parsed, now, server, rev, told, rows, counts, base, outbox, flush, mut, events, hand,
  fetch, others, strands, crossed, listed, gen, data, req, silent, selected, retained, stayed,
  mine, changes, toggles, timers, running, stopping, down, closed, process>>
BesideReadView == <<
  row, feedLock, urlLock, prefetched, delayed, job, asks, crashes, stalls, since, tooSoon, asked,
  list, marker, request, lock, worker, busy, reader, jobs, accepted, ran, article, sync, feed,
  syncs, want, source, snap, end, seen, item, cand, due, op, calls, delivery, news, work,
  stalled, parsed, now, sub, joining, handlers, count, pending, attempts, conn, again, str, gone,
  registry, fix, opens, breaks, listed, gen, data, req, silent, selected, retained, stayed, mine,
  changes, toggles, timers, running, stopping, down, closed, process>>
BesideArticlePages == <<
  row, feedLock, urlLock, prefetched, delayed, job, asks, crashes, stalls, since, tooSoon, list,
  marker, request, lock, worker, busy, reader, jobs, accepted, ran, article, sync, feed, syncs,
  want, source, snap, end, seen, item, cand, due, op, calls, faults, delivery, news, work,
  stalled, parsed, now, sub, joining, handlers, count, pending, attempts, conn, again, str, gone,
  registry, fix, opens, breaks, server, rev, told, rows, counts, base, outbox, flush, mut, hand,
  fetch, others, strands, crossed, timers, running, stopping, down, closed, process>>
BesideWorker == <<
  row, feedLock, urlLock, prefetched, delayed, job, asks, crashes, stalls, since, tooSoon, asked,
  list, marker, request, lock, worker, busy, reader, jobs, accepted, ran, article, sync, feed,
  syncs, want, source, snap, end, seen, item, cand, due, op, calls, faults, delivery, news, work,
  stalled, parsed, now, sub, joining, handlers, count, pending, attempts, conn, again, str, gone,
  registry, fix, opens, breaks, server, rev, told, rows, counts, base, outbox, flush, mut,
  events, hand, fetch, others, strands, crossed, listed, gen, data, req, silent, selected,
  retained, stayed, mine, changes, toggles>>

NoFeedSyncBeside ==
  /\ list = None /\ marker = None /\ request = None /\ lock = None /\ worker = None
  /\ busy = None /\ reader = None /\ jobs = None /\ accepted = None /\ ran = None
  /\ article = None /\ sync = None /\ feed = None /\ syncs = None /\ want = None
  /\ source = None /\ snap = None /\ end = None /\ seen = None /\ item = None /\ cand = None
  /\ due = None /\ op = None /\ calls = None /\ faults = None /\ delivery = None /\ news = None
  /\ work = None /\ stalled = None /\ parsed = None /\ now = None /\ sub = None
  /\ joining = None /\ handlers = None /\ count = None /\ pending = None /\ attempts = None
  /\ conn = None /\ again = None /\ str = None /\ gone = None /\ registry = None /\ fix = None
  /\ opens = None /\ breaks = None /\ server = None /\ rev = None /\ told = None /\ rows = None
  /\ counts = None /\ base = None /\ outbox = None /\ flush = None /\ mut = None
  /\ events = None /\ hand = None /\ fetch = None /\ others = None /\ strands = None
  /\ crossed = None /\ listed = None /\ gen = None /\ data = None /\ req = None /\ silent = None
  /\ selected = None /\ retained = None /\ stayed = None /\ mine = None /\ changes = None
  /\ toggles = None /\ timers = None /\ running = None /\ stopping = None /\ down = None
  /\ closed = None /\ process = None
NoBulkSyncBeside ==
  /\ row = None /\ feedLock = None /\ urlLock = None /\ prefetched = None /\ delayed = None
  /\ job = None /\ asks = None /\ since = None /\ tooSoon = None /\ asked = None
  /\ article = None /\ sync = None /\ feed = None /\ syncs = None /\ want = None
  /\ source = None /\ snap = None /\ end = None /\ seen = None /\ item = None /\ cand = None
  /\ due = None /\ op = None /\ calls = None /\ faults = None /\ delivery = None /\ news = None
  /\ work = None /\ stalled = None /\ parsed = None /\ now = None /\ sub = None
  /\ joining = None /\ handlers = None /\ count = None /\ pending = None /\ attempts = None
  /\ conn = None /\ again = None /\ str = None /\ gone = None /\ registry = None /\ fix = None
  /\ opens = None /\ breaks = None /\ server = None /\ rev = None /\ told = None /\ rows = None
  /\ counts = None /\ base = None /\ outbox = None /\ flush = None /\ mut = None
  /\ events = None /\ hand = None /\ fetch = None /\ others = None /\ strands = None
  /\ crossed = None /\ listed = None /\ gen = None /\ data = None /\ req = None /\ silent = None
  /\ selected = None /\ retained = None /\ stayed = None /\ mine = None /\ changes = None
  /\ toggles = None /\ timers = None /\ running = None /\ stopping = None /\ down = None
  /\ closed = None /\ process = None
NoEnrichmentBeside ==
  /\ row = None /\ feedLock = None /\ urlLock = None /\ prefetched = None /\ delayed = None
  /\ job = None /\ stalls = None /\ since = None /\ tooSoon = None /\ asked = None
  /\ list = None /\ marker = None /\ request = None /\ busy = None /\ reader = None
  /\ jobs = None /\ accepted = None /\ ran = None /\ want = None /\ source = None /\ snap = None
  /\ end = None /\ seen = None /\ item = None /\ cand = None /\ due = None /\ op = None
  /\ calls = None /\ faults = None /\ delivery = None /\ news = None /\ work = None
  /\ stalled = None /\ parsed = None /\ now = None /\ sub = None /\ joining = None
  /\ handlers = None /\ count = None /\ pending = None /\ attempts = None /\ conn = None
  /\ again = None /\ str = None /\ gone = None /\ registry = None /\ fix = None /\ opens = None
  /\ breaks = None /\ server = None /\ rev = None /\ told = None /\ rows = None /\ counts = None
  /\ base = None /\ outbox = None /\ flush = None /\ mut = None /\ events = None /\ hand = None
  /\ fetch = None /\ others = None /\ strands = None /\ crossed = None /\ listed = None
  /\ gen = None /\ data = None /\ req = None /\ silent = None /\ selected = None
  /\ retained = None /\ stayed = None /\ mine = None /\ changes = None /\ toggles = None
  /\ timers = None /\ running = None /\ stopping = None /\ down = None /\ closed = None
  /\ process = None
NoReplacementBeside ==
  /\ row = None /\ feedLock = None /\ urlLock = None /\ prefetched = None /\ delayed = None
  /\ asks = None /\ crashes = None /\ stalls = None /\ since = None /\ tooSoon = None
  /\ asked = None /\ list = None /\ marker = None /\ request = None /\ lock = None
  /\ worker = None /\ busy = None /\ reader = None /\ jobs = None /\ accepted = None
  /\ ran = None /\ article = None /\ sync = None /\ syncs = None /\ delivery = None
  /\ news = None /\ work = None /\ stalled = None /\ parsed = None /\ now = None /\ sub = None
  /\ joining = None /\ handlers = None /\ count = None /\ pending = None /\ attempts = None
  /\ conn = None /\ again = None /\ str = None /\ gone = None /\ registry = None /\ fix = None
  /\ opens = None /\ breaks = None /\ server = None /\ rev = None /\ told = None /\ rows = None
  /\ counts = None /\ base = None /\ outbox = None /\ flush = None /\ mut = None
  /\ events = None /\ hand = None /\ fetch = None /\ others = None /\ strands = None
  /\ crossed = None /\ listed = None /\ gen = None /\ data = None /\ req = None /\ silent = None
  /\ selected = None /\ retained = None /\ stayed = None /\ mine = None /\ changes = None
  /\ toggles = None /\ timers = None /\ running = None /\ stopping = None /\ down = None
  /\ closed = None /\ process = None
NoSnapshotDeliveryBeside ==
  /\ row = None /\ feedLock = None /\ urlLock = None /\ prefetched = None /\ delayed = None
  /\ job = None /\ asks = None /\ crashes = None /\ stalls = None /\ since = None
  /\ tooSoon = None /\ asked = None /\ list = None /\ marker = None /\ request = None
  /\ lock = None /\ worker = None /\ busy = None /\ reader = None /\ jobs = None
  /\ accepted = None /\ ran = None /\ sync = None /\ syncs = None /\ want = None
  /\ source = None /\ snap = None /\ end = None /\ seen = None /\ item = None /\ cand = None
  /\ due = None /\ op = None /\ calls = None /\ sub = None /\ joining = None /\ handlers = None
  /\ count = None /\ pending = None /\ attempts = None /\ conn = None /\ again = None
  /\ str = None /\ gone = None /\ registry = None /\ fix = None /\ opens = None /\ breaks = None
  /\ server = None /\ rev = None /\ told = None /\ rows = None /\ counts = None /\ base = None
  /\ outbox = None /\ flush = None /\ mut = None /\ events = None /\ hand = None /\ fetch = None
  /\ others = None /\ strands = None /\ crossed = None /\ listed = None /\ gen = None
  /\ data = None /\ req = None /\ silent = None /\ selected = None /\ retained = None
  /\ stayed = None /\ mine = None /\ changes = None /\ toggles = None /\ timers = None
  /\ running = None /\ stopping = None /\ down = None /\ closed = None /\ process = None
NoRealtimeBeside ==
  /\ row = None /\ feedLock = None /\ urlLock = None /\ prefetched = None /\ delayed = None
  /\ job = None /\ asks = None /\ crashes = None /\ stalls = None /\ since = None
  /\ tooSoon = None /\ asked = None /\ list = None /\ marker = None /\ request = None
  /\ lock = None /\ worker = None /\ busy = None /\ reader = None /\ jobs = None
  /\ accepted = None /\ ran = None /\ article = None /\ sync = None /\ feed = None
  /\ syncs = None /\ want = None /\ source = None /\ snap = None /\ end = None /\ seen = None
  /\ item = None /\ cand = None /\ due = None /\ op = None /\ calls = None /\ faults = None
  /\ delivery = None /\ news = None /\ work = None /\ stalled = None /\ parsed = None
  /\ now = None /\ server = None /\ rev = None /\ told = None /\ rows = None /\ counts = None
  /\ base = None /\ outbox = None /\ flush = None /\ mut = None /\ events = None /\ hand = None
  /\ fetch = None /\ others = None /\ strands = None /\ crossed = None /\ listed = None
  /\ gen = None /\ data = None /\ req = None /\ silent = None /\ selected = None
  /\ retained = None /\ stayed = None /\ mine = None /\ changes = None /\ toggles = None
  /\ timers = None /\ running = None /\ stopping = None /\ down = None /\ closed = None
  /\ process = None
NoReadViewBeside ==
  /\ row = None /\ feedLock = None /\ urlLock = None /\ prefetched = None /\ delayed = None
  /\ job = None /\ asks = None /\ crashes = None /\ stalls = None /\ since = None
  /\ tooSoon = None /\ asked = None /\ list = None /\ marker = None /\ request = None
  /\ lock = None /\ worker = None /\ busy = None /\ reader = None /\ jobs = None
  /\ accepted = None /\ ran = None /\ article = None /\ sync = None /\ feed = None
  /\ syncs = None /\ want = None /\ source = None /\ snap = None /\ end = None /\ seen = None
  /\ item = None /\ cand = None /\ due = None /\ op = None /\ calls = None /\ delivery = None
  /\ news = None /\ work = None /\ stalled = None /\ parsed = None /\ now = None /\ sub = None
  /\ joining = None /\ handlers = None /\ count = None /\ pending = None /\ attempts = None
  /\ conn = None /\ again = None /\ str = None /\ gone = None /\ registry = None /\ fix = None
  /\ opens = None /\ breaks = None /\ listed = None /\ gen = None /\ data = None /\ req = None
  /\ silent = None /\ selected = None /\ retained = None /\ stayed = None /\ mine = None
  /\ changes = None /\ toggles = None /\ timers = None /\ running = None /\ stopping = None
  /\ down = None /\ closed = None /\ process = None
NoArticlePagesBeside ==
  /\ row = None /\ feedLock = None /\ urlLock = None /\ prefetched = None /\ delayed = None
  /\ job = None /\ asks = None /\ crashes = None /\ stalls = None /\ since = None
  /\ tooSoon = None /\ list = None /\ marker = None /\ request = None /\ lock = None
  /\ worker = None /\ busy = None /\ reader = None /\ jobs = None /\ accepted = None
  /\ ran = None /\ article = None /\ sync = None /\ feed = None /\ syncs = None /\ want = None
  /\ source = None /\ snap = None /\ end = None /\ seen = None /\ item = None /\ cand = None
  /\ due = None /\ op = None /\ calls = None /\ faults = None /\ delivery = None /\ news = None
  /\ work = None /\ stalled = None /\ parsed = None /\ now = None /\ sub = None
  /\ joining = None /\ handlers = None /\ count = None /\ pending = None /\ attempts = None
  /\ conn = None /\ again = None /\ str = None /\ gone = None /\ registry = None /\ fix = None
  /\ opens = None /\ breaks = None /\ server = None /\ rev = None /\ told = None /\ rows = None
  /\ counts = None /\ base = None /\ outbox = None /\ flush = None /\ mut = None /\ hand = None
  /\ fetch = None /\ others = None /\ strands = None /\ crossed = None /\ timers = None
  /\ running = None /\ stopping = None /\ down = None /\ closed = None /\ process = None
NoWorkerBeside ==
  /\ row = None /\ feedLock = None /\ urlLock = None /\ prefetched = None /\ delayed = None
  /\ job = None /\ asks = None /\ crashes = None /\ stalls = None /\ since = None
  /\ tooSoon = None /\ asked = None /\ list = None /\ marker = None /\ request = None
  /\ lock = None /\ worker = None /\ busy = None /\ reader = None /\ jobs = None
  /\ accepted = None /\ ran = None /\ article = None /\ sync = None /\ feed = None
  /\ syncs = None /\ want = None /\ source = None /\ snap = None /\ end = None /\ seen = None
  /\ item = None /\ cand = None /\ due = None /\ op = None /\ calls = None /\ faults = None
  /\ delivery = None /\ news = None /\ work = None /\ stalled = None /\ parsed = None
  /\ now = None /\ sub = None /\ joining = None /\ handlers = None /\ count = None
  /\ pending = None /\ attempts = None /\ conn = None /\ again = None /\ str = None
  /\ gone = None /\ registry = None /\ fix = None /\ opens = None /\ breaks = None
  /\ server = None /\ rev = None /\ told = None /\ rows = None /\ counts = None /\ base = None
  /\ outbox = None /\ flush = None /\ mut = None /\ events = None /\ hand = None /\ fetch = None
  /\ others = None /\ strands = None /\ crossed = None /\ listed = None /\ gen = None
  /\ data = None /\ req = None /\ silent = None /\ selected = None /\ retained = None
  /\ stayed = None /\ mine = None /\ changes = None /\ toggles = None

Init ==
  \/ part = "resumes" /\ Resumes!Init /\ NoFeedSyncBeside
  \/ part = "served" /\ Served!Init /\ NoBulkSyncBeside
  \/ part = "settles" /\ Settling!Init /\ NoEnrichmentBeside
  \/ part = "validated" /\ Validated!Init /\ NoReplacementBeside
  \/ part = "raced" /\ Raced!Init /\ NoReplacementBeside
  \/ part = "delivers" /\ Delivering!Init /\ NoSnapshotDeliveryBeside
  \/ part = "heard" /\ Heard!Init /\ NoRealtimeBeside
  \/ part = "heals" /\ Healed!Init /\ NoReadViewBeside
  \/ part = "scrolls" /\ Scrolled!Init /\ NoArticlePagesBeside
  \/ part = "comes" /\ Looked!Init /\ NoArticlePagesBeside
  \/ part = "stops" /\ Stopping!Init /\ NoWorkerBeside
  \/ part = "stopsV2" /\ StoppingV2!Init /\ NoWorkerBeside

Next ==
  /\ UNCHANGED part
  /\ \/ part = "resumes" /\ Resumes!Next /\ UNCHANGED BesideFeedSync
     \/ part = "served" /\ Served!Next /\ UNCHANGED BesideBulkSync
     \/ part = "settles" /\ Settling!Next /\ UNCHANGED BesideEnrichment
     \/ part = "validated" /\ Validated!Next /\ UNCHANGED BesideReplacement
     \/ part = "raced" /\ Raced!Next /\ UNCHANGED BesideReplacement
     \/ part = "delivers" /\ Delivering!Next /\ UNCHANGED BesideSnapshotDelivery
     \/ part = "heard" /\ Heard!Next /\ UNCHANGED BesideRealtime
     \/ part = "heals" /\ Healed!Next /\ UNCHANGED BesideReadView
     \/ part = "scrolls" /\ Scrolled!Next /\ UNCHANGED BesideArticlePages
     \/ part = "comes" /\ Looked!Next /\ UNCHANGED BesideArticlePages
     \/ part = "stops" /\ Stopping!Next /\ UNCHANGED BesideWorker
     \/ part = "stopsV2" /\ StoppingV2!Next /\ UNCHANGED BesideWorker

vars == <<
  part, row, feedLock, urlLock, prefetched, delayed, job, asks, crashes, stalls, since, tooSoon,
  asked, list, marker, request, lock, worker, busy, reader, jobs, accepted, ran, article, sync,
  feed, syncs, want, source, snap, end, seen, item, cand, due, op, calls, faults, delivery, news,
  work, stalled, parsed, now, sub, joining, handlers, count, pending, attempts, conn, again, str,
  gone, registry, fix, opens, breaks, server, rev, told, rows, counts, base, outbox, flush, mut,
  events, hand, fetch, others, strands, crossed, listed, gen, data, req, silent, selected,
  retained, stayed, mine, changes, toggles, timers, running, stopping, down, closed, process>>
Spec == Init /\ [][Next]_vars

-----------------------------------------------------------------------------
(***************************************************************************)
(* Fairness. An action that a part needs for good is one of that part; in  *)
(* the behaviours of the others it is never enabled.                       *)
(***************************************************************************)
resumed == Resumes!vars
stopped == Stopping!vars
served == Served!vars
fetched == Settling!vars
validated == Validated!vars
raced == Raced!vars
delivered == Delivering!vars
heard == Heard!vars
healed == Healed!system
paged == Looked!vars

\* Time passes, although a step under way may hold it for a moment; a job goes on until its
\* process dies, and ends, since every fetch has a timeout; the scheduler and the delayed worker of
\* some process look again and again (jobs/workers.ts).
SyncsGoOn ==
  /\ SF_resumed(part = "resumes" /\ Resumes!Tick(FALSE))
  /\ WF_resumed(part = "resumes" /\ Resumes!ResetStale)
  /\ \A s \in Resumes!Slot : WF_resumed(part = "resumes" /\ Resumes!JobStep(s))
  /\ WF_resumed(part = "resumes" /\ \E p \in {w1, w2} : Resumes!FindDue(p, f1))
  /\ WF_resumed(part = "resumes" /\ \E p \in {w1, w2} : Resumes!PopDelayed(p, f1))

\* A batch has a deadline; the loops of the worker look again every few seconds, so that none of
\* them always comes at the wrong moment.
BatchesGoOn ==
  /\ WF_served(part = "served" /\ Served!Tick(FALSE))
  /\ SF_served(part = "served" /\ Served!Work(w1))
  /\ WF_served(part = "served" /\ Served!LoopEnds(w1, "enrich"))

\* The worker's interval, a sync that has begun and the clock go on.
PagesAreFetched ==
  /\ WF_fetched(part = "settles" /\ Settling!Work(w1))
  /\ WF_fetched(part = "settles" /\ Settling!SyncWrites)
  /\ SF_fetched(part = "settles" /\ Settling!Tick)

\* Calls return; the worker takes up every job, schedules come around, and deliveries are made.
ReplacementsGoOn ==
  /\ WF_validated(/\ part = "validated"
                  /\ Validated!Create(o1) \/ Validated!Replace(o1) \/ Validated!Select(o1))
  /\ \A s \in {s2, s3} :
       /\ WF_validated(part = "validated" /\ Validated!Works(s))
       /\ WF_validated(part = "validated" /\ Validated!Schedule(s))
       /\ WF_validated(part = "validated" /\ Validated!Deliver(f1, s))
  /\ \A o \in {o1, o2} :
       WF_raced(part = "raced" /\ (Raced!Create(o) \/ Raced!Replace(o) \/ Raced!Select(o)))
  /\ \A s \in {s1, s2} :
       /\ WF_raced(part = "raced" /\ Raced!Works(s))
       /\ WF_raced(part = "raced" /\ Raced!Schedule(s))
       /\ \A f \in {f1, f2} : WF_raced(part = "raced" /\ Raced!Deliver(f, s))

\* The delivery loop runs every 250 ms, and time passes.
DeliveriesGoOn ==
  /\ WF_delivered(part = "delivers" /\ Delivering!Deliver(p1))
  /\ WF_delivered(part = "delivers" /\ Delivering!Pass)

\* Streams and connections get to the end of what they have begun, a new connection is tried until
\* one is up, and each waiting repair is made.
EventsGoOn ==
  /\ \A s \in {t1, t2} :
       WF_heard(/\ part = "heard"
                /\ Heard!Subscribe(s) \/ Heard!Subscribed(s) \/ Heard!Leave(s) \/ Heard!Left(s))
  /\ \A c \in Heard!Conn :
       WF_heard(/\ part = "heard"
                /\ Heard!Up(c) \/ Heard!TakeUp(c) \/ Heard!Answer(c) \/ Heard!Heal(c))
  /\ \A d \in Heard!Conn \cup {Heard!NoConn} : WF_heard(part = "heard" /\ Heard!Fix(d))

\* Requests are answered, events arrive, the silent refresh comes around, and the user scrolls on.
PagesGoOn ==
  /\ WF_paged(\/ part = "scrolls" /\ (Scrolled!Serve \/ Scrolled!Land \/ Scrolled!Refused)
              \/ part = "comes" /\ (Looked!Serve \/ Looked!Land \/ Looked!Refused))
  /\ WF_paged(\/ part = "scrolls" /\ (Scrolled!SilentServe \/ Scrolled!SilentLand)
              \/ part = "comes" /\ (Looked!SilentServe \/ Looked!SilentLand))
  /\ WF_paged((part = "scrolls" /\ Scrolled!Hear) \/ (part = "comes" /\ Looked!Hear))
  /\ WF_paged(part = "comes" /\ Looked!Silent)
  /\ WF_paged(part = "scrolls" /\ Scrolled!LoadMore)

\* Requests end, what is on its way comes, and a visible list is asked for again and again.
ListsGoOn ==
  /\ WF_healed(part = "heals" /\ Healed!Send)
  /\ WF_healed(part = "heals" /\ (Healed!Serve \/ Healed!Refuse \/ Healed!FlushBreaks))
  /\ WF_healed(part = "heals" /\ (Healed!Store \/ Healed!FlushEnds))
  /\ WF_healed(part = "heals" /\ (Healed!Receive \/ Healed!ApplyEvent))
  /\ WF_healed(part = "heals" /\ (Healed!Queue(1) \/ Healed!QueueFails(1) \/ Healed!Check(1)))
  /\ WF_healed(part = "heals" /\ (Healed!Fetch("all") \/ Healed!FetchServed \/ Healed!FetchShown))

\* Promises and timers are served, and the bodies of the v2 loops end.
ShutdownsGoOn ==
  /\ WF_stopped(\/ part = "stops" /\ \E i \in DOMAIN down : Stopping!Stops(i)
                \/ part = "stopsV2" /\ \E i \in DOMAIN down : StoppingV2!Stops(i))
  /\ WF_stopped(part = "stopsV2" /\ \E l \in StoppingV2!Durable : StoppingV2!Ends(l))

FairSpec ==
  /\ Spec
  /\ SyncsGoOn /\ BatchesGoOn /\ PagesAreFetched /\ ReplacementsGoOn /\ DeliveriesGoOn
  /\ EventsGoOn /\ PagesGoOn /\ ListsGoOn /\ ShutdownsGoOn

-----------------------------------------------------------------------------
(***************************************************************************)
(* Properties. What is alike in several parts is one condition: a          *)
(* behaviour keeps its part. Users, streams and processes of a part are    *)
(* alike: what one may expect, the others may.                             *)
(***************************************************************************)
Wanted ==
  \/ part = "resumes" /\ row[f1].due = 0
  \/ part = "served" /\ accepted[u1] # 0
  \/ part = "settles" /\ Settling!Pending(a1)
  \/ part \in {"stops", "stopsV2"} /\ down # <<>>
Done ==
  \/ part = "resumes" /\ \E s \in Resumes!Slot : job[s].feed = f1 /\ job[s].step = "begun"
  \/ part = "served" /\ accepted[u1] \in ran
  \/ part = "settles" /\ ~Settling!Pending(a1)
  \/ part \in {"stops", "stopsV2"} /\ process = "exited"
Syncing == part = "resumes" /\ row[f1].status = "syncing"

\* What the legacy pipeline is to do is done some time later, although processes die and locks
\* outlive them: a feed that is due is synced, a refresh of all feeds that was accepted is run, an
\* article that waits for its page ends to wait, and a worker that is told to stop stops, although a
\* sync may hang; and a row that says 'syncing' says something else some time later
\* (resetStaleSyncing).
SyncHappens == (Wanted ~> Done) /\ (Syncing ~> ~Syncing)

Waits(n) ==
  \/ part = "validated" /\ n = 1 /\ Validated!Waits(f1)
  \/ part = "raced" /\ Raced!Waits(IF n = 1 THEN f1 ELSE f2)
  \/ part = "delivers" /\ delivery[n].status \in Delivering!Open

\* Nothing in the v2 pipeline waits for good: a feed that waits for a validation is given its
\* source or shown why not, and a delivery ends, crashes and errors included: it is not claimed
\* for ever, nor left behind with a lease.
IngestionEnds == \A n \in 1..2 : Waits(n) ~> ~Waits(n)

\* A client is not cut off for good: an open stream hears its user's events again, one that leaves
\* gives its place back, who scrolls on gets to the end of the list, and once nothing changes, the
\* first page is what the server has and the rows show its read and saved states, whatever a race of
\* answers, events and requests has left behind.
ClientsServed ==
  /\ []<>(part = "heard" => str[t1].at # "open" \/ Heard!Hears(t1))
  /\ (part = "heard" /\ t1 \in gone) ~> (part = "heard" => ~Heard!Handled(t1))
  /\ <>[](part = "scrolls" => data # <<>> /\ data[Len(data)].next = Scrolled!NoArticle)
  /\ <>[](part = "comes" => data # <<>> /\ data[1] = Looked!PageAfter(Looked!NoArticle))
  /\ <>[](part = "heals" => \A i \in Healed!Item :
            rows["all"][i[1]] # None /\ ~Healed!Pending(i) =>
              rows["all"][i[1]][i[2]] = server[i[1]][i[2]])
=============================================================================

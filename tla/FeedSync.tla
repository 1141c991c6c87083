------------------------------ MODULE FeedSync ------------------------------
(***************************************************************************)
(* The legacy synchronisation of one feed (services/feed-sync.service.ts): *)
(* scheduled, manual and delayed syncs of several processes, the locks     *)
(* they hold in Redis and the row of the feed they write.                  *)
(*                                                                         *)
(* A lock is a Redis key with a random token and a time to live: a         *)
(* heartbeat renews it three times in that time, as long as its process    *)
(* lives; a release by its owner deletes it (the lock of a feed) or leaves *)
(* it for a last time to live (the lock of a URL, which thereby is the     *)
(* cooldown of the publisher).                                             *)
(*                                                                         *)
(* One tick is the interval of the heartbeat, five minutes; a fetch takes  *)
(* seconds and is one step.                                                *)
(***************************************************************************)
EXTENDS Naturals

CONSTANTS
  Feed, Url,
  UrlOf,      \* the URL of a feed: subscriptions of two users may share one
  Process,
  Kinds,      \* the kinds of job the processes run, a subset of JobKind
  None,
  Cooldown,   \* ticks a lock lives without a renewal
  Stale,      \* ticks after which a row that says 'syncing' is not believed
  Poll,       \* ticks between scheduled syncs
  MaxRetry,   \* longest time to the retry of a failed sync, in ticks
  Faults,     \* which writes to the database may fail: "create", "persist", "settle"
  MaxAsks,    \* bound on manual syncs and on previews
  MaxCrashes, MaxStalls \* bounds on crashes, and on heartbeats that come a tick late

JobKind == {"scheduled", "manual", "delayed", "preview"}

FeedSyncAssumption ==
  /\ UrlOf \in [Feed -> Url]
  /\ None \notin Process \cup Feed \cup Url
  /\ (Process \cup {None}) \cap (Process \X Kinds) = {}
  /\ Kinds \subseteq JobKind
  /\ Faults \subseteq {"create", "persist", "settle"}
  /\ Cooldown \in Nat \ {0} /\ Stale \in Nat /\ Poll \in Nat \ {0} /\ MaxRetry \in Nat \ {0}
  /\ MaxAsks \in Nat /\ MaxCrashes \in Nat /\ MaxStalls \in Nat

Slot == Process \X Kinds
Job == [feed : Feed \cup {None}, url : Url \cup {None},
        step : {"idle", "found", "guarded", "ready", "begun", "fetched", "failed"}]
Idle == [feed |-> None, url |-> None, step |-> "idle"]

\* A job that threw between its locks and its try leaves a heartbeat running
\* in its process: the process then is the owner.
\* A lock that nobody renews has no owner.
Owner == Slot \cup Process \cup {None}
Lock == [owner : Owner, ttl : 0..Cooldown]
Free == [owner |-> None, ttl |-> 0]

\* Mutant of CoolingDown: a tick longer.
CoolingDownLonger == [owner |-> None, ttl |-> Cooldown + 1]

\* The lock of a URL after its release.
CoolingDown == [owner |-> None, ttl |-> Cooldown]
MaxDue == IF Poll > MaxRetry THEN Poll ELSE MaxRetry

VARIABLES
  row,        \* feeds: syncStatus, ticks to nextSyncAt, ticks since updatedAt, and
              \* ticks for which lastSyncedAt is recent
  feedLock, urlLock,
  prefetched, \* ticks for which the text of a preview is kept
  delayed,    \* the sorted set of delayed syncs: 0 no entry, else ticks until due plus 1
  job,
  asks, crashes, stalls, \* for the bounds
  since,      \* history: ticks since the last request to a publisher
  tooSoon,    \* history: URLs requested within a cooldown
  asked       \* history: feeds a user's sync was put off for, and not synced since

vars == <<row, feedLock, urlLock, prefetched, delayed, job, asks, crashes, stalls,
          since, tooSoon, asked>>
locks == <<feedLock, urlLock>>
bounds == <<asks, crashes, stalls>>

TypeOK ==
  /\ row \in [Feed -> [status : {"idle", "syncing", "error"}, due : 0..MaxDue,
                       age : 0..Stale + 1, recent : 0..Cooldown]]
  /\ feedLock \in [Feed -> Lock] /\ urlLock \in [Url -> Lock]
  /\ \A f \in Feed : feedLock[f].ttl = 0 <=> feedLock[f] = Free
  /\ prefetched \in [Url -> 0..Cooldown] /\ delayed \in [Feed -> 0..Cooldown + 1]
  /\ job \in [Slot -> Job]
  /\ \A s \in Slot : job[s].step = "idle" <=> job[s] = Idle
  /\ asks \in 0..MaxAsks /\ crashes \in 0..MaxCrashes /\ stalls \in 0..MaxStalls
  /\ since \in [Url -> 0..Cooldown] /\ tooSoon \subseteq Url /\ asked \subseteq Feed

Init ==
  /\ row = [f \in Feed |-> [status |-> "idle", due |-> 0, age |-> 0, recent |-> 0]]
  /\ feedLock = [f \in Feed |-> Free] /\ urlLock = [u \in Url |-> Free]
  /\ prefetched = [u \in Url |-> 0] /\ delayed = [f \in Feed |-> 0]
  /\ job = [s \in Slot |-> Idle]
  /\ asks = 0 /\ crashes = 0 /\ stalls = 0
  /\ since = [u \in Url |-> Cooldown] /\ tooSoon = {} /\ asked = {}

Less(n) == IF n = 0 THEN 0 ELSE n - 1
Working(s) == job[s].feed # None /\ job[s].step \in {"ready", "begun", "fetched", "failed"}
Ends(s) == job' = [job EXCEPT ![s] = Idle]
Goes(s, step) == job' = [job EXCEPT ![s].step = step]

(***************************************************************************)
(* How a job comes to a feed.                                              *)
(***************************************************************************)
\* syncDueFeeds: the feeds that are due are read, and synced one after the
\* other, the last ones long after they were read.
FindDue(p, f) ==
  LET s == <<p, "scheduled">> IN
  /\ job[s] = Idle
  /\ row[f].status \in {"idle", "error"} /\ row[f].due = 0
  /\ job' = [job EXCEPT ![s] = [Idle EXCEPT !.feed = f, !.url = UrlOf[f], !.step = "found"]]
  /\ UNCHANGED <<row, locks, prefetched, delayed, bounds, since, tooSoon, asked>>

\* A user asks for a refresh; a feed synced within the last fifteen minutes
\* is skipped.
Manual(p, f) ==
  LET s == <<p, "manual">> IN
  /\ job[s] = Idle /\ asks < MaxAsks /\ asks' = asks + 1
  /\ row[f].recent = 0
  /\ job' = [job EXCEPT ![s] = [Idle EXCEPT !.feed = f, !.url = UrlOf[f], !.step = "found"]]
  /\ UNCHANGED <<row, locks, prefetched, delayed, crashes, stalls, since, tooSoon, asked>>

\* popDueDelayedFeedSync: the entry stays, due again in a minute, until the
\* sync is done.
PopDelayed(p, f) ==
  LET s == <<p, "delayed">> IN
  /\ job[s] = Idle /\ delayed[f] = 1
  /\ delayed' = [delayed EXCEPT ![f] = 2]
  /\ job' = [job EXCEPT ![s] = [Idle EXCEPT !.feed = f, !.url = UrlOf[f], !.step = "found"]]
  /\ UNCHANGED <<row, locks, prefetched, bounds, since, tooSoon, asked>>

\* A user is about to subscribe: the text of an earlier preview is used, and
\* otherwise the URL is locked and fetched.
Preview(p, u) ==
  LET s == <<p, "preview">> IN
  /\ job[s] = Idle /\ asks < MaxAsks /\ asks' = asks + 1
  /\ prefetched[u] = 0 /\ urlLock[u].ttl = 0
  /\ urlLock' = [urlLock EXCEPT ![u] = [owner |-> s, ttl |-> Cooldown]]
  /\ job' = [job EXCEPT ![s] = [Idle EXCEPT !.url = u, !.step = "begun"]]
  /\ UNCHANGED <<row, feedLock, prefetched, delayed, crashes, stalls, since, tooSoon, asked>>

(***************************************************************************)
(* acquireFeedSyncGuards: the lock of the feed, then, unless the text of a *)
(* preview is at hand, the lock of the URL.                                *)
(***************************************************************************)
Defers(s) == s[2] \in {"manual", "delayed"}

\* deferFeedSyncUntilCooldown: due a second after the lock of the URL ends.
PutOff(s) ==
  LET f == job[s].feed  left == urlLock[job[s].url].ttl IN
  /\ Ends(s)
  /\ delayed' = IF Defers(s)
                THEN [delayed EXCEPT ![f] = 1 + (IF left > 0 THEN left ELSE Cooldown)]
                ELSE delayed
  /\ asked' = IF s[2] = "manual" THEN asked \cup {f} ELSE asked

LockFeed(s) ==
  LET f == job[s].feed IN
  /\ job[s].step = "found"
  /\ \/ /\ feedLock[f].ttl = 0
        /\ feedLock' = [feedLock EXCEPT ![f] = [owner |-> s, ttl |-> Cooldown]]
        /\ Goes(s, "guarded")
        /\ UNCHANGED <<delayed, asked>>
     \/ /\ feedLock[f].ttl # 0
        /\ PutOff(s)
        /\ UNCHANGED feedLock
  /\ UNCHANGED <<row, urlLock, prefetched, bounds, since, tooSoon>>

Owns(lock, s) == lock.owner = s

Unlocked(f, s) ==
  feedLock' = IF Owns(feedLock[f], s) THEN [feedLock EXCEPT ![f] = Free] ELSE feedLock

Available(u) == urlLock[u].ttl = 0

LockUrl(s) ==
  LET f == job[s].feed  u == job[s].url IN
  /\ job[s].step = "guarded"
  /\ \/ /\ prefetched[u] > 0
        /\ Goes(s, "ready")
        /\ UNCHANGED <<locks, delayed, asked>>
     \/ /\ prefetched[u] = 0 /\ Available(u)
        /\ urlLock' = [urlLock EXCEPT ![u] = [owner |-> s, ttl |-> Cooldown]]
        /\ Goes(s, "ready")
        /\ UNCHANGED <<feedLock, delayed, asked>>
     \/ /\ prefetched[u] = 0 /\ ~Available(u)
        /\ Unlocked(f, s) /\ PutOff(s)
        /\ UNCHANGED urlLock
  /\ UNCHANGED <<row, prefetched, bounds, since, tooSoon>>

(***************************************************************************)
(* The sync itself.                                                        *)
(***************************************************************************)
\* syncRunRepo.create and the update to 'syncing' come after the locks and
\* before the try: when one of them throws, nothing is released, and the
\* heartbeats go on.
Leak(s) ==
  LET f == job[s].feed  u == job[s].url IN
  /\ job[s].step = "ready" /\ "create" \in Faults
  /\ feedLock' = IF Owns(feedLock[f], s) THEN [feedLock EXCEPT ![f].owner = s[1]] ELSE feedLock
  /\ urlLock' = IF Owns(urlLock[u], s) THEN [urlLock EXCEPT ![u].owner = s[1]] ELSE urlLock
  /\ delayed' = IF s[2] = "delayed" THEN [delayed EXCEPT ![f] = 0] ELSE delayed
  /\ Ends(s)
  /\ UNCHANGED <<row, prefetched, bounds, since, tooSoon, asked>>

Begin(s) ==
  /\ job[s].step = "ready"
  /\ row' = [row EXCEPT ![job[s].feed].status = "syncing", ![job[s].feed].age = 0]
  /\ Goes(s, "begun")
  /\ UNCHANGED <<locks, prefetched, delayed, bounds, since, tooSoon, asked>>

\* A request to the publisher.
Requests(u) ==
  /\ since' = [since EXCEPT ![u] = 0]
  /\ tooSoon' = IF since[u] < Cooldown THEN tooSoon \cup {u} ELSE tooSoon

\* fetchAndParse: the text of a preview is used up, otherwise the publisher
\* is asked; the request may fail, time out or be aborted by a deadline.
Fetch(s) ==
  LET u == job[s].url IN
  /\ job[s].step = "begun" /\ job[s].feed # None
  /\ \/ /\ prefetched[u] > 0
        /\ prefetched' = [prefetched EXCEPT ![u] = 0]
        /\ UNCHANGED <<since, tooSoon>>
     \/ /\ prefetched[u] = 0
        /\ Requests(u)
        /\ UNCHANGED prefetched
  /\ asked' = asked \ {job[s].feed}
  /\ Goes(s, "fetched") \/ Goes(s, "failed")
  /\ UNCHANGED <<row, locks, delayed, bounds>>

\* fetchFeedMetadata: a text that parses is kept for the first sync.
FetchPreview(s) ==
  LET u == job[s].url IN
  /\ job[s].step = "begun" /\ job[s].feed = None
  /\ Requests(u)
  /\ prefetched' \in {prefetched, [prefetched EXCEPT ![u] = Cooldown]}
  /\ urlLock' = IF Owns(urlLock[u], s) THEN [urlLock EXCEPT ![u] = CoolingDown] ELSE urlLock
  /\ Ends(s)
  /\ UNCHANGED <<row, feedLock, delayed, bounds, asked>>

\* persistSyncResults throws: the sync goes on in its catch.
PersistThrows(s) ==
  /\ job[s].step = "fetched" /\ "persist" \in Faults
  /\ Goes(s, "failed")
  /\ UNCHANGED <<row, locks, prefetched, delayed, bounds, since, tooSoon, asked>>

Settled(s) ==
  LET f == job[s].feed IN
  \/ /\ job[s].step = "fetched"
     /\ row' = [row EXCEPT ![f] = [status |-> "idle", due |-> Poll, age |-> 0,
                                   recent |-> Cooldown]]
  \/ /\ job[s].step = "failed"
     /\ \E due \in 1..MaxRetry :
          row' = [row EXCEPT ![f] = [@ EXCEPT !.status = "error", !.due = due, !.age = 0]]
  \/ /\ job[s].step = "failed" /\ "settle" \in Faults
     /\ UNCHANGED row

\* The lock of the URL lives on for the cooldown, the lock of the feed ends.
Released(s) ==
  /\ urlLock' = IF Owns(urlLock[job[s].url], s)
                THEN [urlLock EXCEPT ![job[s].url] = CoolingDown] ELSE urlLock
  /\ Unlocked(job[s].feed, s)

\* The row is written and the locks are released.  A delayed sync that was
\* not skipped is done with, whether it succeeded or not.
Finish(s) ==
  /\ Settled(s) /\ Released(s)
  /\ delayed' = IF s[2] = "delayed" THEN [delayed EXCEPT ![job[s].feed] = 0] ELSE delayed
  /\ Ends(s)
  /\ UNCHANGED <<prefetched, bounds, since, tooSoon, asked>>

(***************************************************************************)
(* resetStaleSyncing: a row that says 'syncing' for too long is due again. *)
(***************************************************************************)
\* Mutant of IsStale: rows are believed for ever.
IsStaleNever(f) == FALSE

IsStale(f) == row[f].status = "syncing" /\ row[f].age > Stale

ResetStale ==
  /\ \E f \in Feed : IsStale(f)
  /\ row' = [f \in Feed |-> IF IsStale(f) THEN [row[f] EXCEPT !.status = "error", !.due = 0,
                                                !.age = 0]
                            ELSE row[f]]
  /\ UNCHANGED <<locks, prefetched, delayed, job, bounds, since, tooSoon, asked>>

(***************************************************************************)
(* Time, and the death of a process.                                       *)
(***************************************************************************)
\* Mutant of Beats: a lock is not renewed.
BeatsNever(lock) == FALSE

Beats(lock) == lock.owner # None

Passes(lock, stalled) ==
  IF Beats(lock) /\ ~stalled THEN [lock EXCEPT !.ttl = Cooldown]
  ELSE IF lock.ttl <= 1 THEN Free ELSE [lock EXCEPT !.ttl = @ - 1]

\* What a sync does from its locks to the end of its fetch takes seconds.
Brief == {"guarded", "ready", "begun"}

Tick(stalled) ==
  /\ \A s \in Slot : job[s].step \notin Brief
  /\ stalled => stalls < MaxStalls
  /\ stalls' = IF stalled THEN stalls + 1 ELSE stalls
  /\ feedLock' = [f \in Feed |-> Passes(feedLock[f], stalled)]
  /\ urlLock' = [u \in Url |-> Passes(urlLock[u], stalled)]
  /\ row' = [f \in Feed |-> [row[f] EXCEPT !.due = Less(@), !.recent = Less(@),
                              !.age = IF @ > Stale THEN @ ELSE @ + 1]]
  /\ prefetched' = [u \in Url |-> Less(prefetched[u])]
  /\ delayed' = [f \in Feed |-> IF delayed[f] > 1 THEN delayed[f] - 1 ELSE delayed[f]]
  /\ since' = [u \in Url |-> IF since[u] < Cooldown THEN since[u] + 1 ELSE since[u]]
  /\ UNCHANGED <<job, asks, crashes, tooSoon, asked>>

Orphaned(lock, p) ==
  IF lock.owner = p \/ (lock.owner \in Slot /\ lock.owner[1] = p)
  THEN [lock EXCEPT !.owner = None] ELSE lock

\* The jobs of the process and its heartbeats are gone; its locks live on.
Crash(p) ==
  /\ crashes < MaxCrashes /\ crashes' = crashes + 1
  /\ job' = [s \in Slot |-> IF s[1] = p THEN Idle ELSE job[s]]
  /\ feedLock' = [f \in Feed |-> Orphaned(feedLock[f], p)]
  /\ urlLock' = [u \in Url |-> Orphaned(urlLock[u], p)]
  /\ UNCHANGED <<row, prefetched, delayed, asks, stalls, since, tooSoon, asked>>

JobStep(s) ==
  \/ LockFeed(s) \/ LockUrl(s) \/ Leak(s) \/ Begin(s) \/ Fetch(s) \/ FetchPreview(s)
  \/ PersistThrows(s) \/ Finish(s)

Next ==
  \/ \E p \in Process, f \in Feed :
       \/ "scheduled" \in Kinds /\ FindDue(p, f)
       \/ "manual" \in Kinds /\ Manual(p, f)
       \/ "delayed" \in Kinds /\ PopDelayed(p, f)
  \/ "preview" \in Kinds /\ \E p \in Process, u \in Url : Preview(p, u)
  \/ \E s \in Slot : JobStep(s)
  \/ ResetStale
  \/ \E stalled \in BOOLEAN : Tick(stalled)
  \/ \E p \in Process : Crash(p)

Spec == Init /\ [][Next]_vars

(***************************************************************************)
(* Properties.                                                             *)
(***************************************************************************)
\* Two jobs never sync one feed at a time, whichever process they run in and
\* however they came to it: the heartbeat keeps the lock of the feed while
\* its job lives (acquireFeedSyncGuards).
OneSyncPerFeed ==
  \A s, t \in Slot : Working(s) /\ Working(t) /\ job[s].feed = job[t].feed => s = t

\* A publisher is asked at most once in fifteen minutes, whoever asks and
\* whichever process dies (FEED_FETCH_COOLDOWN_SECONDS).
OneRequestPerCooldown == tooSoon = {}

\* What a user's refresh was put off for is not taken off the sorted set
\* before the feed has been fetched (processDueDelayedFeedSync).
PutOffIsServed == \A f \in Feed : f \in asked => delayed[f] # 0

\* A feed that is due is synced some time later: a publisher in its cooldown
\* delays it, and so does the lock of a dead process, for its time to live.
DueIsSynced == \A f \in Feed : (row[f].due = 0) ~> (\E s \in Slot :
                                 job[s].feed = f /\ job[s].step = "begun")
=============================================================================

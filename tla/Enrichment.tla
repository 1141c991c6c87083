----------------------------- MODULE Enrichment -----------------------------
(***************************************************************************)
(* The enrichment of articles from their canonical pages: the queue that   *)
(* is a column of the articles (article-enrichment.persistence.ts), the    *)
(* workers that serve it one article at a time under a lock in Redis       *)
(* (processPendingArticleEnrichments, enrichSingleArticle), the readers    *)
(* who ask for an article, and the legacy synchronisation, which rewrites  *)
(* and queues the same articles (feed-sync.service.ts).                    *)
(*                                                                         *)
(* Content is a rank: how much of the article there is.  A tick is the     *)
(* thirty seconds of the first retry.                                      *)
(***************************************************************************)
EXTENDS Integers, FiniteSets

CONSTANTS
  Article, Worker,
  Api,          \* the API process, which syncs a feed that a user refreshes
  None,
  Syncers,      \* who syncs the feed: workers and perhaps Api
  MaxAttempts,  \* ARTICLE_ENRICHMENT_MAX_ATTEMPTS
  LockLife,     \* ticks for which the lock of an article lives
  MaxAsks, MaxSyncs, MaxCrashes \* bounds

EnrichmentAssumption ==
  /\ Api \notin Worker /\ None \notin Worker \cup Article \cup {Api}
  /\ Syncers \subseteq Worker \cup {Api}
  /\ MaxAttempts \in Nat \ {0} /\ LockLife \in Nat \ {0}
  /\ MaxAsks \in Nat /\ MaxSyncs \in Nat /\ MaxCrashes \in Nat

VARIABLES
  article,  \* the rows: status, when the next attempt is due, attempts, content, version; and
            \* history: who has fetched the content from the page
  lock,     \* article |-> who took the lock, and the ticks it still lives
  worker,   \* the article a worker is at, and what it read of its row
  sync,     \* a sync of the feed between reading the rows and writing them
  feed,     \* article |-> the content that its feed offers
  asks, syncs, crashes \* for the bounds

vars == <<article, lock, worker, sync, feed, asks, syncs, crashes>>
bounds == <<asks, syncs, crashes>>

\* nextEnrichmentAt in the order of the query: NULL sorts before all times,
\* the epoch of a reader's request before those that have passed.
Null == -1
Epoch == 0
Now == 1
Delay(attempts) == Now + 2 ^ (attempts - 1)

Short == 0  Longer == 1  Full == 2

AttemptBound == Cardinality(Worker) * (MaxAttempts + MaxAsks + MaxSyncs + MaxCrashes)
Row == [status : {"absent", "feed_ready", "enrichment_pending", "full_ready", "failed"},
        next : Null..Delay(MaxAttempts), attempts : 0..AttemptBound,
        content : Short..Full, version : Nat, from : Worker \cup {None}]
Idle == [step |-> "idle", art |-> None, attempts |-> 0, content |-> Short]
NoSync == [by |-> None, seen |-> [a \in Article |-> [status |-> "absent", content |-> Short]]]

TypeOK ==
  /\ article \in [Article -> Row]
  /\ lock \in [Article -> [owner : Worker \cup {None}, life : 0..LockLife]]
  /\ worker \in [Worker -> [step : {"idle", "found", "marked", "locked", "fetched", "unavailable",
                                    "written", "failed"},
                            art : Article \cup {None}, attempts : 0..AttemptBound,
                            content : Short..Full]]
  /\ \A w \in Worker : (worker[w].step = "idle") = (worker[w].art = None)
  /\ sync.by \in Syncers \cup {None} /\ feed \in [Article -> Short..Longer]
  /\ asks \in 0..MaxAsks /\ syncs \in 0..MaxSyncs /\ crashes \in 0..MaxCrashes

Init ==
  /\ article = [a \in Article |-> [status |-> "absent", next |-> Null, attempts |-> 0,
                                   content |-> Short, version |-> 1, from |-> None]]
  /\ lock = [a \in Article |-> [owner |-> None, life |-> 0]]
  /\ worker = [w \in Worker |-> Idle] /\ sync = NoSync
  /\ feed = [a \in Article |-> Short]
  /\ asks = 0 /\ syncs = 0 /\ crashes = 0

Pending(a) == article[a].status = "enrichment_pending"

\* Mutant of Due: rows without a time are not due.
DueTimed(a) == Pending(a) /\ article[a].next \in Epoch..Now

Due(a) == Pending(a) /\ article[a].next <= Now
Working(w) == worker[w].step # "idle"
Step(w, step) == worker' = [worker EXCEPT ![w].step = step]

(***************************************************************************)
(* The legacy sync of the feed: it reads the rows of the feed's articles,  *)
(* and later writes the richer content of the feed and queues what is not  *)
(* fully there.  A worker does not sync while it enriches; the API does.   *)
(***************************************************************************)
\* Mutant of MaySync: the scheduler ignores the enrichment coordinator.
MaySyncAlways(p) == TRUE

MaySync(p) == p \in Worker => ~Working(p)

SyncReads(p) ==
  /\ sync.by = None /\ MaySync(p) /\ syncs < MaxSyncs
  /\ syncs' = syncs + 1
  /\ sync' = [by |-> p, seen |-> [a \in Article |-> [status  |-> article[a].status,
                                                      content |-> article[a].content]]]
  /\ \E longer \in SUBSET Article : feed' = [a \in Article |->
       IF a \in longer THEN Longer ELSE feed[a]]
  /\ UNCHANGED <<article, lock, worker, asks, crashes>>

\* Mutant of ShouldRefresh: content that has no more in it is taken for newer.
ShouldRefreshAlike(old, new) == new >= old

\* shouldRefreshArticle: there is more in the new content than in the old.
ShouldRefresh(old, new) == new > old

\* queueArticleEnrichments.
Queued(row, at) == [row EXCEPT !.status = "enrichment_pending", !.next = at]

\* persistSyncResults: new rows, and updates that leave the version alone.
Persisted(row, seen, new) ==
  IF seen.status = "absent" \/ ShouldRefresh(seen.content, new)
  THEN [row EXCEPT !.content = new] ELSE row

\* shouldProcessArticle.
ShouldProcess(seen) == seen.status # "full_ready"

\* What the sync does to a row, given what it had read of it.
Synced(row, seen, new) ==
  IF ShouldProcess(seen) THEN Queued(Persisted(row, seen, new), Now) ELSE row

SyncWrites ==
  /\ sync.by # None
  /\ article' = [a \in Article |-> Synced(article[a], sync.seen[a], feed[a])]
  /\ sync' = NoSync
  /\ UNCHANGED <<lock, worker, feed, bounds>>

(***************************************************************************)
(* enrichArticle: a reader opens or prefetches an article.                 *)
(***************************************************************************)
Ask(a) ==
  /\ asks < MaxAsks /\ article[a].status \notin {"absent", "full_ready"}
  /\ asks' = asks + 1
  /\ article' = [article EXCEPT ![a] = Queued(@, Epoch)]
  /\ UNCHANGED <<lock, worker, sync, feed, syncs, crashes>>

(***************************************************************************)
(* processPendingArticleEnrichments, one article at a time, not while this *)
(* process syncs.                                                          *)
(***************************************************************************)

\* The first row of findPendingArticleEnrichments.
First(a) == \A b \in Article : Due(b) => article[a].next <= article[b].next

Find(w, a) ==
  /\ ~Working(w) /\ sync.by # w /\ Due(a) /\ First(a)
  /\ worker' = [worker EXCEPT ![w] = [step |-> "found", art |-> a,
                  attempts |-> article[a].attempts, content |-> article[a].content]]
  /\ UNCHANGED <<article, lock, sync, feed, bounds>>

MarkAttempt(w) ==
  LET a == worker[w].art IN
  /\ worker[w].step = "found"
  /\ article' = [article EXCEPT ![a].attempts = @ + 1, ![a].next = Null]
  /\ Step(w, "marked")
  /\ UNCHANGED <<lock, sync, feed, bounds>>

Free(a) == lock[a].life = 0

\* Without the lock the attempt has failed: "already in progress".
TakeLock(w) ==
  LET a == worker[w].art IN
  /\ worker[w].step = "marked"
  /\ \/ /\ Free(a) /\ Step(w, "locked")
        /\ lock' = [lock EXCEPT ![a] = [owner |-> w, life |-> LockLife]]
     \/ /\ ~Free(a) /\ Step(w, "failed") /\ UNCHANGED lock
  /\ UNCHANGED <<article, sync, feed, bounds>>

\* resolveEnrichedArticleHtml: the page is there, or it is not.
Fetch(w, step) ==
  /\ worker[w].step = "locked" /\ Step(w, step)
  /\ UNCHANGED <<article, lock, sync, feed, bounds>>

\* The page, richer or not than the content that was found in the row.
Write(w, page) ==
  LET a == worker[w].art IN
  /\ worker[w].step = "fetched"
  /\ article' = [article EXCEPT
       ![a].content = IF ShouldRefresh(worker[w].content, page) THEN page ELSE @,
       ![a].from = IF ShouldRefresh(worker[w].content, page) THEN w ELSE @,
       ![a].status = "full_ready", ![a].version = @ + 1, ![a].next = Null]
  /\ Step(w, "written")
  /\ UNCHANGED <<lock, sync, feed, bounds>>

\* Mutant of Unlocked: an attempt that found the lock taken deletes it too.
UnlockedAlways(w) == {"written", "unavailable", "failed"}

\* finally: the steps after which the lock is deleted.
Unlocked(w) == {"written", "unavailable"}

Unlock(w) ==
  LET a == worker[w].art IN
  /\ worker[w].step \in Unlocked(w)
  /\ lock' = [lock EXCEPT ![a] = [owner |-> None, life |-> 0]]
  /\ worker' = [worker EXCEPT ![w] = IF @.step = "written" THEN Idle
                                     ELSE [@ EXCEPT !.step = "failed"]]
  /\ UNCHANGED <<article, sync, feed, bounds>>

Exhausted(attempts) == attempts >= MaxAttempts

GivenUp(row) == [row EXCEPT !.status = "failed", !.version = @ + 1, !.next = Null]

\* markArticleEnrichmentRetry, whatever the row has become.
MarkRetry(w) ==
  LET a == worker[w].art  attempts == worker[w].attempts + 1 IN
  /\ worker[w].step = "failed"
  /\ article' = [article EXCEPT ![a] =
       IF Exhausted(attempts)
       THEN GivenUp(@)
       ELSE Queued(@, Delay(attempts))]
  /\ worker' = [worker EXCEPT ![w] = Idle]
  /\ UNCHANGED <<lock, sync, feed, bounds>>

(***************************************************************************)
(* The process dies: what it was at is lost, its locks stay.               *)
(***************************************************************************)
Crash(w) ==
  /\ crashes < MaxCrashes /\ (Working(w) \/ sync.by = w)
  /\ crashes' = crashes + 1
  /\ worker' = [worker EXCEPT ![w] = Idle]
  /\ lock' = [a \in Article |-> IF lock[a].owner = w THEN [lock[a] EXCEPT !.owner = None]
                                ELSE lock[a]]
  /\ sync' = IF sync.by = w THEN NoSync ELSE sync
  /\ UNCHANGED <<article, feed, asks, syncs>>

\* A fetch ends within ten seconds: the lock of a worker that lives does not
\* run out under it.
Tick ==
  /\ \E a \in Article : lock[a].life > 0 \/ article[a].next > Now
  /\ \A a \in Article : lock[a].owner # None => lock[a].life > 1
  /\ lock' = [a \in Article |-> [lock[a] EXCEPT !.life = IF @ = 0 THEN 0 ELSE @ - 1]]
  /\ article' = [a \in Article |-> [article[a] EXCEPT !.next = IF @ > Now THEN @ - 1 ELSE @]]
  /\ UNCHANGED <<worker, sync, feed, bounds>>

Work(w) ==
  \/ \E a \in Article : Find(w, a)
  \/ MarkAttempt(w) \/ TakeLock(w)
  \/ \E step \in {"fetched", "unavailable"} : Fetch(w, step)
  \/ \E page \in {Short, Full} : Write(w, page)
  \/ Unlock(w) \/ MarkRetry(w)

Next ==
  \/ \E p \in Syncers : SyncReads(p)
  \/ SyncWrites \/ Tick
  \/ \E a \in Article : Ask(a)
  \/ \E w \in Worker : Work(w) \/ Crash(w)

Spec == Init /\ [][Next]_vars

-----------------------------------------------------------------------------
\* One worker at a time fetches an article and rewrites it, though readers
\* and syncs queue it again meanwhile (enrichSingleArticle).
OneFetcher ==
  \A v, w \in Worker : v # w /\ worker[v].art = worker[w].art =>
    ~({worker[v].step, worker[w].step} \subseteq {"locked", "fetched", "unavailable", "written"})

\* An article is tried as often as allowed, and once more for each time that
\* it is queued again or a worker dies over it: one that kills the worker
\* heads the queue each time the worker is back.
AttemptsBounded ==
  \A a \in Article : article[a].attempts <= MaxAttempts + asks + syncs + crashes

\* What was fetched from the page of an article is overwritten by no other attempt at it, which may
\* have found the same row and bring less (persistEnrichedArticle), and by no sync of the process
\* that fetched it, which does one or the other (processItem skips full_ready articles): only by a
\* sync of another process, which had read the row before the page was written.
FullKept ==
  \A a \in Article : article[a].content = Full /\ article'[a].content # Full =>
    SyncWrites /\ sync.by # article[a].from /\ sync.seen[a].content # Full

\* A reader's request goes to the front: while it waits, a worker takes
\* nothing else (queueArticleEnrichment).
AskedFirst ==
  \A w \in Worker, a, b \in Article :
   Due(a) /\ article[a].next = Epoch /\ Find(w, b) => article[b].next = Epoch

\* An article that is complete is not put back by a worker that only found
\* its lock taken (enrichSingleArticle returns false).
StaysReady ==
  \A w \in Worker : MarkRetry(w) => article[worker[w].art].status # "full_ready"

\* A reader who holds a version of an article has the content of it.
VersionTells ==
  \A a \in Article : article[a].status # "absent" /\ article'[a].content # article[a].content
   => article'[a].version > article[a].version
=============================================================================

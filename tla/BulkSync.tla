------------------------------ MODULE BulkSync ------------------------------
(***************************************************************************)
(* A user's refresh of all feeds in the legacy synchronisation: the list   *)
(* of users in Redis, with each user's marker, request and lock            *)
(* (services/feed-sync-status.ts), the workers that serve the head of the  *)
(* list (feed-sync-manual-worker.ts) as batches with a deadline            *)
(* (feed-sync-bulk.ts), and the loops of a process that make room for each *)
(* other (jobs/scheduler.ts).                                              *)
(*                                                                         *)
(* A tick is a little less than the ninety seconds for which a heartbeat   *)
(* counts as fresh.                                                        *)
(***************************************************************************)
EXTENDS Naturals, Sequences, SequencesExt

CONSTANTS
  User, Worker, None,
  Fresh,      \* ticks for which a heartbeat, or a marker, is fresh
  Life,       \* ticks that the lock, the marker and the request live
  Feeds,      \* feeds of a user
  Loops,      \* the other loops of a process: a subset of {"due", "enrich"}
  MaxJobs, MaxCrashes, MaxStalls \* bounds

BulkAssumption ==
  /\ None \notin User \cup Worker
  /\ Fresh \in Nat /\ Life \in Nat /\ Life > Fresh
  /\ Feeds \in Nat \ {0} /\ Loops \subseteq {"due", "enrich"}
  /\ MaxJobs \in Nat /\ MaxCrashes \in Nat /\ MaxStalls \in Nat

VARIABLES
  list,      \* the list of users whose refresh is asked for
  marker,    \* user |-> ticks the marker still lives
  request,   \* user |-> the job asked for, 0 when there is none, and its life
  lock,      \* user |-> the owner, ticks since its heartbeat, and its life
  worker,    \* what the queued-sync loop of each process is doing
  busy,      \* the loops at work in each process
  reader,    \* a request for the status of a user
  jobs, crashes, stalls, \* for the bounds
  accepted,  \* history: the last job accepted for each user
  ran        \* history: jobs that a worker has run to the end

vars == <<list, marker, request, lock, worker, busy, reader, jobs, crashes, stalls, accepted, ran>>
keys == <<list, marker, request, lock>>
bounds == <<jobs, crashes, stalls>>
history == <<accepted, ran>>

Lock == [owner : Worker \cup {None}, age : 0..Fresh + 1, life : 0..Life]
NoLock == [owner |-> None, age |-> 0, life |-> 0]
NoRequest == [job |-> 0, life |-> 0]
WorkerState == [step : {"idle", "head", "locked", "running", "ended"},
                user : User \cup {None}, job : 0..MaxJobs,
                left : 0..Feeds, counted : 0..2 * Feeds, late : 0..Feeds]
Resting == [step |-> "idle", user |-> None, job |-> 0,
            left |-> 0, counted |-> 0, late |-> 0]
ReaderState == [step : {"idle", "read", "unlocked", "answered"}, user : User \cup {None},
                marked : 0..Life, lock : Lock, there : BOOLEAN, active : BOOLEAN]
Waiting == [step |-> "idle", user |-> None, marked |-> 0, lock |-> NoLock,
            there |-> FALSE, active |-> FALSE]

TypeOK ==
  /\ list \in Seq(User) /\ IsInjective(list)
  /\ marker \in [User -> 0..Life] /\ request \in [User -> [job : 0..MaxJobs, life : 0..Life]]
  /\ lock \in [User -> Lock] /\ \A u \in User : (lock[u].owner = None) = (lock[u].life = 0)
  /\ worker \in [Worker -> WorkerState] /\ busy \in [Worker -> SUBSET Loops]
  /\ reader \in ReaderState
  /\ jobs \in 0..MaxJobs /\ crashes \in 0..MaxCrashes /\ stalls \in 0..MaxStalls
  /\ accepted \in [User -> 0..MaxJobs] /\ ran \subseteq 1..MaxJobs

Init ==
  /\ list = <<>> /\ marker = [u \in User |-> 0] /\ request = [u \in User |-> NoRequest]
  /\ lock = [u \in User |-> NoLock]
  /\ worker = [w \in Worker |-> Resting] /\ busy = [w \in Worker |-> {}]
  /\ reader = Waiting
  /\ jobs = 0 /\ crashes = 0 /\ stalls = 0
  /\ accepted = [u \in User |-> 0] /\ ran = {}

Listed(u) == u \in ToSet(list)
IsFresh(l) == l.age <= Fresh
Does(w, step) == worker' = [worker EXCEPT ![w].step = step]

(***************************************************************************)
(* queueManualSyncAllFeeds, one script: refused while the user has a       *)
(* marker, a lock or a place in the list.                                  *)
(***************************************************************************)

Asked(u) == marker[u] > 0 \/ lock[u].life > 0 \/ Listed(u)

Queue(u) ==
  /\ jobs < MaxJobs /\ ~Asked(u)
  /\ jobs' = jobs + 1
  /\ marker' = [marker EXCEPT ![u] = Life]
  /\ request' = [request EXCEPT ![u] = [job |-> jobs + 1, life |-> Life]]
  /\ list' = Append(list, u)
  /\ accepted' = [accepted EXCEPT ![u] = jobs + 1]
  /\ UNCHANGED <<lock, worker, busy, reader, crashes, stalls, ran>>

(***************************************************************************)
(* processNextQueuedFeedSync.                                              *)
(***************************************************************************)
\* startQueuedSyncWorker: not while an article is being enriched.  The head
\* of the list is read, and stays where it is.
LookAtHead(w) ==
  /\ worker[w].step = "idle" /\ "enrich" \notin busy[w] /\ list # <<>>
  /\ worker' = [worker EXCEPT ![w] = [Resting EXCEPT !.step = "head", !.user = Head(list)]]
  /\ UNCHANGED <<keys, busy, reader, bounds, history>>

\* acquireManualSyncAllFeedsLock: a free lock is taken, a stale one is taken
\* over if it still has the value that was read.
MayTake(u) == lock[u].life = 0 \/ ~IsFresh(lock[u])

Acquire(w) ==
  LET u == worker[w].user IN
  /\ worker[w].step = "head"
  /\ \/ /\ MayTake(u)
        /\ lock' = [lock EXCEPT ![u] = [owner |-> w, age |-> 0, life |-> Life]]
        /\ Does(w, "locked")
     \/ /\ ~MayTake(u)
        /\ worker' = [worker EXCEPT ![w] = Resting]
        /\ UNCHANGED lock
  /\ UNCHANGED <<list, marker, request, busy, reader, bounds, history>>

\* The request is read; without one, all feeds are synced.
Start(w) ==
  LET u == worker[w].user  asked == request[u].job IN
  /\ worker[w].step = "locked"
  /\ \E total \in 0..Feeds :
       worker' = [worker EXCEPT ![w].step = "running", ![w].left = total,
                    ![w].counted = Feeds - total,
                     ![w].job = IF asked = 0 THEN accepted[u] ELSE asked]
  /\ UNCHANGED <<keys, busy, reader, bounds, history>>

\* syncFeedsForBulk: a feed is synced, skipped or has failed.
FeedDone(w) ==
  /\ worker[w].step = "running" /\ worker[w].left > 0
  /\ worker' = [worker EXCEPT ![w].left = @ - 1, ![w].counted = @ + 1]
  /\ UNCHANGED <<keys, busy, reader, bounds, history>>

\* The deadline: what is unfinished counts as failed, and what is under way
\* goes on behind it.
Deadline(w) ==
  /\ worker[w].step = "running" /\ worker[w].left > 0
  /\ worker' = [worker EXCEPT ![w].left = 0, ![w].counted = @ + worker[w].left,
                             ![w].late = worker[w].left]
  /\ UNCHANGED <<keys, busy, reader, bounds, history>>

\* Mutant of Counts: a feed counts whenever it comes to an end.
CountsTwice(w) == worker[w].step = "running"

\* Whether a feed that ends after the deadline is counted (completedFeedIds).
Counts(w) == FALSE

FeedLate(w) ==
  /\ worker[w].late > 0
  /\ worker' = [worker EXCEPT ![w].late = @ - 1,
                             ![w].counted = IF Counts(w) THEN @ + 1 ELSE @]
  /\ UNCHANGED <<keys, busy, reader, bounds, history>>

\* The batch is complete, or has thrown.
End(w) ==
  /\ worker[w].step = "running" /\ worker[w].left = 0
  /\ Does(w, "ended")
  /\ ran' = IF worker[w].job = 0 THEN ran ELSE ran \cup {worker[w].job}
  /\ UNCHANGED <<keys, busy, reader, bounds, accepted>>

\* Mutant of Owns: whoever holds the lock.
OwnsAny(w, u) == lock[u].life > 0

Owns(w, u) == lock[u].owner = w

\* Mutant of Removed: the user stays at the head of the list.
RemovedNot(u) == list

\* LREM: no user is in the list twice.
Removed(u) == IF Listed(u) THEN RemoveAt(list, CHOOSE i \in DOMAIN list : list[i] = u) ELSE list

\* releaseManualSyncAllFeedsState, one script.
Release(w) ==
  LET u == worker[w].user IN
  /\ worker[w].step = "ended"
  /\ \/ /\ Owns(w, u)
        /\ list' = Removed(u)
        /\ marker' = [marker EXCEPT ![u] = 0]
        /\ request' = [request EXCEPT ![u] = NoRequest]
        /\ lock' = [lock EXCEPT ![u] = NoLock]
        /\ reader' = IF reader.user = u THEN [reader EXCEPT !.there = FALSE] ELSE reader
     \/ /\ ~Owns(w, u)
        /\ UNCHANGED <<keys, reader>>
  /\ worker' = [worker EXCEPT ![w] = Resting]
  /\ UNCHANGED <<busy, bounds, history>>

(***************************************************************************)
(* getManualSyncAllFeedsStatus, which clears what is stale.                *)
(***************************************************************************)
ReadKeys(u) ==
  /\ reader.step = "idle" /\ Listed(u)
  /\ reader' = [step |-> "read", user |-> u, marked |-> marker[u], lock |-> lock[u],
                there |-> TRUE, active |-> FALSE]
  /\ UNCHANGED <<keys, worker, busy, bounds, history>>

Answers(active) == reader' = [reader EXCEPT !.step = "answered", !.active = active]

\* getManualSyncLockStatus: a stale lock is deleted if it is unchanged.
ReadLock ==
  LET u == reader.user IN
  /\ reader.step = "read"
  /\ \/ /\ reader.lock.life > 0 /\ IsFresh(reader.lock)
        /\ Answers(TRUE)
        /\ UNCHANGED lock
     \/ /\ reader.lock.life = 0
        /\ reader' = [reader EXCEPT !.step = "unlocked"]
        /\ UNCHANGED lock
     \/ /\ reader.lock.life > 0 /\ ~IsFresh(reader.lock)
        /\ lock[u].owner = reader.lock.owner /\ ~IsFresh(lock[u])
        /\ lock' = [lock EXCEPT ![u] = NoLock]
        /\ reader' = [reader EXCEPT !.step = "unlocked"]
     \/ /\ reader.lock.life > 0 /\ ~IsFresh(reader.lock)
        /\ ~(lock[u].owner = reader.lock.owner /\ ~IsFresh(lock[u]))
        /\ IF lock[u].life > 0 /\ IsFresh(lock[u])
           THEN Answers(TRUE) ELSE reader' = [reader EXCEPT !.step = "unlocked"]
        /\ UNCHANGED lock
  /\ UNCHANGED <<list, marker, request, worker, busy, bounds, history>>

InQueue(u) == Listed(u)

\* getManualSyncQueuedStatus: active with a fresh marker or a place in the
\* list; otherwise a marker is deleted.
ReadQueue ==
  LET u == reader.user IN
  /\ reader.step = "unlocked"
  /\ \/ /\ (reader.marked > 0 /\ Life - reader.marked <= Fresh) \/ InQueue(u)
        /\ Answers(TRUE)
        /\ UNCHANGED marker
     \/ /\ ~(reader.marked > 0 /\ Life - reader.marked <= Fresh) /\ ~InQueue(u)
        /\ Answers(FALSE)
        /\ marker' = IF reader.marked > 0 THEN [marker EXCEPT ![u] = 0] ELSE marker
  /\ UNCHANGED <<list, request, lock, worker, busy, bounds, history>>

HearStatus ==
  /\ reader.step = "answered"
  /\ reader' = Waiting
  /\ UNCHANGED <<keys, worker, busy, bounds, history>>

(***************************************************************************)
(* The other loops of a process: scheduled syncs make room for a refresh   *)
(* and for the enrichment, the enrichment for both.                        *)
(***************************************************************************)
MayLoop(w, loop) ==
  IF loop = "due" THEN worker[w].step = "idle" /\ "enrich" \notin busy[w]
  ELSE worker[w].step = "idle" /\ "due" \notin busy[w]

LoopStarts(w, loop) ==
  /\ loop \notin busy[w] /\ MayLoop(w, loop)
  /\ busy' = [busy EXCEPT ![w] = @ \cup {loop}]
  /\ UNCHANGED <<keys, worker, reader, bounds, history>>

LoopEnds(w, loop) ==
  /\ loop \in busy[w]
  /\ busy' = [busy EXCEPT ![w] = @ \ {loop}]
  /\ UNCHANGED <<keys, worker, reader, bounds, history>>

(***************************************************************************)
(* Time, and the death of a process.                                       *)
(***************************************************************************)
Less(n) == IF n = 0 THEN 0 ELSE n - 1

Holds(u) ==
  /\ lock[u].owner # None /\ worker[lock[u].owner].user = u
  /\ worker[lock[u].owner].step \in {"locked", "running", "ended"}

Older(u, stalled) ==
  IF Holds(u) /\ ~stalled THEN [lock[u] EXCEPT !.age = 0, !.life = Life]
  ELSE IF lock[u].life <= 1 THEN NoLock
  ELSE [lock[u] EXCEPT !.age = IF @ > Fresh THEN @ ELSE @ + 1, !.life = @ - 1]

\* The heartbeats of a process that is stalled are late.
Tick(stalled) ==
  /\ stalled => stalls < MaxStalls
  /\ stalls' = IF stalled THEN stalls + 1 ELSE stalls
  /\ lock' = [u \in User |-> Older(u, stalled)]
  /\ marker' = [u \in User |-> Less(marker[u])]
  /\ request' = [u \in User |-> IF request[u].life <= 1 THEN NoRequest
                                ELSE [request[u] EXCEPT !.life = @ - 1]]
  /\ UNCHANGED <<list, worker, busy, reader, jobs, crashes, history>>

Crash(w) ==
  /\ crashes < MaxCrashes /\ crashes' = crashes + 1
  /\ worker' = [worker EXCEPT ![w] = Resting] /\ busy' = [busy EXCEPT ![w] = {}]
  /\ UNCHANGED <<keys, reader, jobs, stalls, history>>

Work(w) == LookAtHead(w) \/ Acquire(w) \/ Start(w) \/ FeedDone(w) \/ Deadline(w)
           \/ End(w) \/ Release(w)

Next ==
  \/ \E u \in User : Queue(u) \/ ReadKeys(u)
  \/ ReadLock \/ ReadQueue \/ HearStatus
  \/ \E w \in Worker : Work(w) \/ FeedLate(w) \/ Crash(w)
  \/ \E w \in Worker, loop \in Loops : LoopStarts(w, loop) \/ LoopEnds(w, loop)
  \/ \E stalled \in BOOLEAN : Tick(stalled)

Spec == Init /\ [][Next]_vars

(***************************************************************************)
(* Properties.                                                             *)
(***************************************************************************)

\* A refresh that was accepted stays in the list until some worker has run
\* it, although stalled workers come back, locks are cleared by whoever asks
\* for the status, and users ask again (releaseManualSyncAllFeedsState).
NotDropped ==
  \A u \in User : accepted[u] # 0 => Listed(u) \/ accepted[u] \in ran

\* A user whose refresh is in the list all along is not told that nothing is
\* going on (getManualSyncAllFeedsStatus).
StatusKnows == reader.step = "answered" /\ reader.there => reader.active

\* At the end of a batch every feed has been counted once, whatever came
\* after the deadline (syncFeedsForBulk).
CountsAddUp == \A w \in Worker : worker[w].step = "ended" => worker[w].counted = Feeds

=============================================================================

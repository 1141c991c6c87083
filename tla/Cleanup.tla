------------------------------ MODULE Cleanup -------------------------------
(***************************************************************************)
(* What the durable ingestion forgets, and when: the hourly loop of the    *)
(* worker that strips the bodies nobody parsed and deletes the history of  *)
(* one source - refresh requests, snapshots, deliveries and jobs that are  *)
(* over - while the source is fetched, parsed and delivered again.         *)
(*                                                                         *)
(* A row is known by its age in days since its last event: a body waits a  *)
(* day for its parse, a snapshot is kept a day from then, everything else  *)
(* the days of Retention.  A snapshot, its deliveries and the items that   *)
(* follow them go by the id of their job, which is used again only when    *)
(* nothing bears it any more.                                              *)
(*                                                                         *)
(* One worker process fetches.  Leases let another one run beside it, so   *)
(* the cleanup may come between any two steps.  Leases, cadence and what   *)
(* a crash between an item and its request does are the subjects of        *)
(* FetchJobs and RefreshRequests.                                          *)
(***************************************************************************)
EXTENDS Integers, FiniteSets

CONSTANTS
  Feed,        \* the feeds that may follow the source
  Job,         \* ids of fetch jobs
  None,        \* no job
  Retention,   \* DURABLE_HISTORY_RETENTION_DAYS
  Batch,       \* rows of a kind that one cleanup handles
  MaxAttempts, \* attempts of a job
  Prompt,      \* whether the cleanups of a day (one an hour) see to all of its rows
  MaxFaults    \* bound on crashes and errors

CleanupAssumption ==
  /\ None \notin Job
  /\ {Retention, Batch, MaxAttempts} \subseteq Nat \ {0} /\ MaxFaults \in Nat
  /\ Prompt \in BOOLEAN

VARIABLES
  job,      \* feed_fetch_jobs
  snap,     \* feed_fetch_snapshots, by job
  delivery, \* feed_snapshot_deliveries, by job of the snapshot and feed
  item,     \* feed_refresh_request_items and their requests, by job and feed
  feed,     \* feeds: absent, pending, or attached to the source
  task,     \* where the worker stands: the job it works on and the step
  faults    \* crashes and errors so far

vars == <<job, snap, delivery, item, feed, task, faults>>

Age == 0..Retention
Open == {"pending", "running"}
Finished == {"completed", "dead"}
Unparsed == {"pending", "failed"}
NoJob == [status |-> "absent", attempts |-> 0, age |-> 0]
Absent == [status |-> "absent", age |-> 0]
NoItem == [status |-> "absent", told |-> FALSE, age |-> 0]
Idle == [job |-> None, step |-> "idle"]

Active(j) == job[j].status \in {"queued", "running"}

\* Types; a source has one active job.
TypeOK ==
  /\ job \in [Job -> [status : {"absent", "queued", "running"} \cup Finished,
                      attempts : 0..MaxAttempts, age : Age]]
  /\ snap \in [Job -> [status : {"absent", "parsed", "expired"} \cup Unparsed, age : Age]]
  /\ delivery \in [Job -> [Feed -> [status : {"absent"} \cup Open \cup Finished, age : Age]]]
  /\ item \in [Job -> [Feed -> [status : {"absent", "failed"} \cup Open \cup Finished,
                                told : BOOLEAN, age : Age]]]
  /\ feed \in [Feed -> {"absent", "pending", "attached"}]
  /\ task \in [job : Job \cup {None},
               step : {"idle", "asking", "parsing", "parsed", "telling"}]
  /\ faults \in 0..MaxFaults
  /\ \A j, k \in Job : Active(j) /\ Active(k) => j = k

Init ==
  /\ job = [j \in Job |-> NoJob]
  /\ snap = [j \in Job |-> Absent]
  /\ delivery = [j \in Job |-> [f \in Feed |-> Absent]]
  /\ item = [j \in Job |-> [f \in Feed |-> NoItem]]
  /\ feed = [f \in Feed |-> "absent"]
  /\ task = Idle
  /\ faults = 0

(***************************************************************************)
(* The API and the scheduler.                                              *)
(***************************************************************************)
Free(j) ==
  /\ job[j] = NoJob /\ snap[j] = Absent
  /\ \A f \in Feed : delivery[j][f] = Absent /\ item[j][f] = NoItem

\* Mutant of Enqueue: only a queued job is taken for an active one.
EnqueueQueued(j) ==
  /\ IF \E k \in Job : job[k].status = "queued" THEN job[j].status = "queued" ELSE Free(j)
  /\ job' = [job EXCEPT ![j].status = "queued"]

\* enqueueDueSources, enqueueOrAttachDurableJob: the active job, or a new one.
Enqueue(j) ==
  /\ IF \E k \in Job : Active(k) THEN Active(j) ELSE Free(j)
  /\ job' = [job EXCEPT ![j].status = IF @ = "absent" THEN "queued" ELSE @]

Schedule(j) ==
  /\ \E f \in Feed : feed[f] # "absent"
  /\ ~Active(j) /\ Enqueue(j)
  /\ UNCHANGED <<snap, delivery, item, feed, task, faults>>

Asked == [NoItem EXCEPT !.status = "pending"]

\* queueDurableRefresh of a feed.
Refresh(j, f) ==
  /\ feed[f] # "absent" /\ Enqueue(j)
  /\ item[j][f] = NoItem
  /\ item' = [item EXCEPT ![j][f] = Asked]
  /\ UNCHANGED <<snap, delivery, feed, task, faults>>

\* createPendingFeed: a snapshot that is parsed, retained and still has its job
\* serves the new feed at once; otherwise the feed waits for a job.
Retained(j) == snap[j].status = "parsed" /\ snap[j].age = 0
Reusable(j) == Retained(j) /\ job[j].status # "absent"

Subscribe(j, f) ==
  /\ feed[f] = "absent"
  /\ IF \E k \in Job : Reusable(k)
     THEN /\ Reusable(j)
          /\ feed' = [feed EXCEPT ![f] = "attached"]
          /\ delivery' = [delivery EXCEPT ![j][f] = [status |-> "pending", age |-> 0]]
          /\ UNCHANGED job
     ELSE /\ Enqueue(j)
          /\ feed' = [feed EXCEPT ![f] = "pending"]
          /\ UNCHANGED delivery
  /\ item' = [item EXCEPT ![j][f] = Asked]
  /\ UNCHANGED <<snap, task, faults>>

(***************************************************************************)
(* The worker.                                                             *)
(***************************************************************************)
At(j, step) == task = [job |-> j, step |-> step]

\* The items of a job, of which those of the feeds in the set get a status.
Marked(j, feeds, status) ==
  [f \in Feed |-> IF f \in feeds /\ item[j][f] # NoItem
                  THEN [item[j][f] EXCEPT !.status = status] ELSE item[j][f]]

\* aggregateRefreshRequests: a request is over when its item is.
Summed(row) ==
  [f \in Feed |->
     IF row[f] = NoItem \/ row[f].told = (row[f].status \notin Open) THEN row[f]
     ELSE [row[f] EXCEPT !.told = ~@, !.age = 0]]

\* claimEligibleFetchJob, and what findFetchJobContext finds: a job with a
\* snapshot is parsed again, any other asks the publisher.
Claim(j) ==
  /\ task = Idle /\ Active(j) /\ job[j].attempts < MaxAttempts
  /\ job' = [job EXCEPT ![j].status = "running", ![j].attempts = @ + 1]
  /\ task' = [job |-> j, step |-> CASE snap[j].status = "absent" -> "asking"
                                    [] snap[j].status = "parsed" -> "parsed"
                                    [] OTHER -> "parsing"]
  /\ UNCHANGED <<snap, delivery, item, feed, faults>>

\* finishFetchJob with the items that go with it; the requests are told later.
Ends(j, status, row) ==
  /\ job' = [job EXCEPT ![j].status = status, ![j].age = 0]
  /\ item' = [item EXCEPT ![j] = row]
  /\ task' = [task EXCEPT !.step = "telling"]

\* The claim's sweep: a running job that its worker lost on the last attempt.
Exhausted(j) ==
  /\ task = Idle /\ job[j].status = "running" /\ job[j].attempts = MaxAttempts
  /\ job' = [job EXCEPT ![j].status = "dead", ![j].age = 0]
  /\ item' = [item EXCEPT ![j] = Marked(j, Feed, "dead")]
  /\ task' = [job |-> j, step |-> "telling"]
  /\ UNCHANGED <<snap, delivery, feed, faults>>

\* persistRawResponse.
Receive(j) ==
  /\ At(j, "asking")
  /\ snap' = [snap EXCEPT ![j] = [status |-> "pending", age |-> 0]]
  /\ task' = [task EXCEPT !.step = "parsing"]
  /\ UNCHANGED <<job, delivery, item, feed, faults>>

\* completeUnchanged.
NotModified(j) ==
  /\ At(j, "asking")
  /\ Ends(j, "completed", Marked(j, Feed, "completed"))
  /\ UNCHANGED <<snap, delivery, feed, faults>>

Retry(j) == IF job[j].attempts = MaxAttempts THEN "dead" ELSE "queued"

\* failClaim: the items fail, although the job is tried again.
PublisherFails(j) ==
  /\ At(j, "asking")
  /\ Ends(j, Retry(j), Marked(j, Feed, "failed"))
  /\ UNCHANGED <<snap, delivery, feed, faults>>

\* parsePersistedSnapshot and markSnapshotParseSucceeded of a body that was read.
\* What is no longer pending or failed stays as it is, and the worker goes on.
Parse(j) ==
  /\ At(j, "parsing")
  /\ task' = [task EXCEPT !.step = "parsed"]
  /\ IF snap[j].status \in Unparsed
     THEN /\ snap' = [snap EXCEPT ![j] = [status |-> "parsed", age |-> 0]]
          /\ feed' = [f \in Feed |-> IF feed[f] = "pending" THEN "attached" ELSE feed[f]]
          /\ delivery' = [delivery EXCEPT ![j] = [f \in Feed |->
               IF feed[f] # "absent" /\ @[f] = Absent
               THEN [status |-> "pending", age |-> 0] ELSE @[f]]]
     ELSE UNCHANGED <<snap, feed, delivery>>
  /\ UNCHANGED <<job, item, faults>>

\* An answer that is no feed, or a website: markSnapshotParseFailed, and the
\* job is over.
Reject(j) ==
  /\ At(j, "parsing")
  /\ snap' = [snap EXCEPT ![j].status = IF @ \in Unparsed THEN "failed" ELSE @]
  /\ Ends(j, IF Retry(j) = "dead" THEN "dead" ELSE "completed", Marked(j, Feed, "failed"))
  /\ UNCHANGED <<delivery, feed, faults>>

\* handleThrownFailure of a job with a snapshot: an error of the moment, or a
\* body that is gone.
Rethrow(j) ==
  /\ At(j, "parsing")
  /\ \/ snap[j].status \notin Unparsed /\ UNCHANGED faults
     \/ faults < MaxFaults /\ faults' = faults + 1
  /\ Ends(j, Retry(j), IF Retry(j) = "dead" THEN Marked(j, Feed, "dead") ELSE item[j])
  /\ UNCHANGED <<snap, delivery, feed>>

\* completeParsed: the items of feeds with a delivery go on with it.
Complete(j) ==
  /\ At(j, "parsed")
  /\ Ends(j, "completed",
          [f \in Feed |-> IF delivery[j][f] = Absent THEN Marked(j, {f}, "completed")[f]
                          ELSE Marked(j, {f}, "running")[f]])
  /\ UNCHANGED <<snap, delivery, feed, faults>>

Tell(j) ==
  /\ At(j, "telling")
  /\ item' = [item EXCEPT ![j] = Summed(@)]
  /\ task' = Idle
  /\ UNCHANGED <<job, snap, delivery, feed, faults>>

ClaimDelivery(j, f) ==
  /\ delivery[j][f].status = "pending"
  /\ delivery' = [delivery EXCEPT ![j][f].status = "running"]
  /\ UNCHANGED <<job, snap, item, feed, task, faults>>

\* finishDelivery, with its requests.
FinishDelivery(j, f) ==
  /\ delivery[j][f].status = "running"
  /\ \E status \in Finished :
       /\ delivery' = [delivery EXCEPT ![j][f] = [status |-> status, age |-> 0]]
       /\ item' = [item EXCEPT ![j] = Summed(Marked(j, {f}, status))]
  /\ UNCHANGED <<job, snap, feed, task, faults>>

\* The worker process dies.
Crash ==
  /\ faults < MaxFaults /\ faults' = faults + 1
  /\ task # Idle /\ task' = Idle
  /\ UNCHANGED <<job, snap, delivery, item, feed>>

(***************************************************************************)
(* cleanupOperationalHistory, and the days that pass.                      *)
(***************************************************************************)
\* ORDER BY the oldest first, LIMIT Batch.
Batches(rows, AgeOf(_)) ==
  {some \in SUBSET rows :
     /\ Cardinality(some) = IF Cardinality(rows) < Batch THEN Cardinality(rows) ELSE Batch
     /\ \A x \in some, y \in rows \ some : AgeOf(x) >= AgeOf(y)}

\* Raw bodies a day after the fetch.
Expiring == {j \in Job : snap[j].status \in Unparsed /\ snap[j].age >= 1}

\* Requests that were over before the cutoff and whose item is.
OldRequests ==
  {p \in Job \X Feed : LET i == item[p[1]][p[2]] IN
     i # NoItem /\ i.told /\ i.age >= Retention /\ i.status \notin Open}

\* Mutant of OldSnapshots: cleanupExpiredSnapshots, which asks for no delivery.
OldSnapshotsAny(snaps) ==
  {j \in Job : snaps[j].status \in {"parsed", "expired"} /\ snaps[j].age >= 1}

\* Snapshots kept for a day, none of whose deliveries is open or younger than
\* the cutoff.
OldSnapshots(snaps) ==
  {j \in Job :
     /\ snaps[j].status \in {"parsed", "expired"} /\ snaps[j].age >= 1
     /\ \A f \in Feed : LET d == delivery[j][f] IN
          d.status \notin Open /\ (d # Absent => d.age >= Retention)}

OldDeliveries(deliveries) ==
  {p \in Job \X Feed : LET d == deliveries[p[1]][p[2]] IN
     d.status \in Finished /\ d.age >= Retention}

\* Jobs that were over before the cutoff, that no open item follows and whose
\* snapshot has no open delivery.
OldJobs(items, snaps, deliveries) ==
  {j \in Job :
     /\ job[j].status \in Finished /\ job[j].age >= Retention
     /\ \A f \in Feed : items[j][f].status \notin Open
     /\ snaps[j] # Absent => \A f \in Feed : deliveries[j][f].status \notin Open}

\* The snapshots without the bodies of some, and the deliveries without those of some snapshots.
Expired(bodies) == [j \in Job |-> IF j \in bodies THEN [status |-> "expired", age |-> 0]
                                  ELSE snap[j]]
Left(gone) == [j \in Job |-> IF j \in gone THEN [f \in Feed |-> Absent] ELSE delivery[j]]

\* One transaction: bodies, requests with their items, snapshots with their
\* deliveries, deliveries, jobs; each step sees what the ones before it did.
\* The candidates of websites, which nothing here reads, go unmentioned.
Clean ==
  \E bodies \in Batches(Expiring, LAMBDA j : snap[j].age),
     requests \in Batches(OldRequests, LAMBDA p : item[p[1]][p[2]].age) :
  \E gone \in Batches(OldSnapshots(Expired(bodies)), LAMBDA j : Expired(bodies)[j].age) :
  \E some \in Batches(OldDeliveries(Left(gone)), LAMBDA p : Left(gone)[p[1]][p[2]].age) :
    /\ item' = [j \in Job |-> [f \in Feed |->
                  IF <<j, f>> \in requests THEN NoItem ELSE item[j][f]]]
    /\ snap' = [j \in Job |-> IF j \in gone THEN Absent ELSE Expired(bodies)[j]]
    /\ delivery' = [j \in Job |-> [f \in Feed |->
                      IF <<j, f>> \in some THEN Absent ELSE Left(gone)[j][f]]]
    /\ \E jobs \in Batches(OldJobs(item', snap', delivery'), LAMBDA j : job[j].age) :
         job' = [j \in Job |-> IF j \in jobs THEN NoJob ELSE job[j]]
    /\ UNCHANGED <<feed, task, faults>>

Backlog == Expiring # {} \/ OldRequests # {} \/ OldSnapshots(snap) # {}
           \/ OldDeliveries(delivery) # {} \/ OldJobs(item, snap, delivery) # {}

\* Nothing that the worker does takes it a day.
Older(row) == IF row.age < Retention THEN [row EXCEPT !.age = @ + 1] ELSE row
Day ==
  /\ task = Idle /\ (Prompt => ~Backlog)
  /\ job' = [j \in Job |-> IF job[j].status \in Finished THEN Older(job[j]) ELSE job[j]]
  /\ snap' = [j \in Job |-> IF snap[j] # Absent THEN Older(snap[j]) ELSE snap[j]]
  /\ delivery' = [j \in Job |-> [f \in Feed |->
       IF delivery[j][f].status \in Finished THEN Older(delivery[j][f]) ELSE delivery[j][f]]]
  /\ item' = [j \in Job |-> [f \in Feed |->
       IF item[j][f].told THEN Older(item[j][f]) ELSE item[j][f]]]
  /\ UNCHANGED <<feed, task, faults>>

Worker ==
  \E j \in Job :
    \/ Claim(j) \/ Exhausted(j) \/ Receive(j) \/ NotModified(j) \/ PublisherFails(j)
    \/ Parse(j) \/ Reject(j) \/ Rethrow(j) \/ Complete(j) \/ Tell(j)

Deliver(j, f) == ClaimDelivery(j, f) \/ FinishDelivery(j, f)

Next ==
  \/ \E j \in Job : Schedule(j)
  \/ \E j \in Job, f \in Feed : Refresh(j, f) \/ Subscribe(j, f) \/ Deliver(j, f)
  \/ Worker \/ Crash \/ Clean \/ Day

Spec == Init /\ [][Next]_vars

(***************************************************************************)
(* Properties.                                                             *)
(***************************************************************************)
\* Nothing that is still being worked on is forgotten: an open delivery stays
\* until it ends, and an open item stays with the job or the delivery that it
\* waits for.
ActiveKept ==
  \A j \in Job, f \in Feed :
   /\ delivery[j][f].status \in Open => delivery'[j][f].status # "absent"
   /\ item[j][f].status \in Open =>
        item'[j][f].status # "absent" /\ job'[j].status # "absent"

\* A snapshot that a new feed may be served from still has its job, which the
\* feed's request will follow.
RetainedHasJob == \A j \in Job : Retained(j) => job[j].status # "absent"

\* What the code does not keep (see README): a worker that goes on with the feed
\* it has parsed has stored it.
ParsedIsStored == task.step = "parsed" => snap[task.job].status = "parsed"
=============================================================================

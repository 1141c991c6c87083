--------------------------- MODULE RefreshRequests ---------------------------
(***************************************************************************)
(* What a user is told about a refresh: feed_refresh_requests, their items *)
(* and the deliveries that carry a parsed snapshot to each feed, for the   *)
(* feeds of one source (FEED_PIPELINE_MODE=v2).                            *)
(*                                                                         *)
(* A request has one item per feed; an item follows the fetch job it was   *)
(* attached to and then the delivery of that job's snapshot to its feed.   *)
(* The stored status of a request is a summary of its items that is        *)
(* computed in a transaction of its own, after the one that changed them.  *)
(*                                                                         *)
(* Two processes write these tables: the API, and one worker process with  *)
(* three loops (fetch, deliver, schedule).  SQLite calls are synchronous,  *)
(* so a loop keeps the worker's event loop from one write to the next      *)
(* until it waits for the network or for the parser (MidRun); the API and  *)
(* a crash come in between anywhere.                                       *)
(*                                                                         *)
(* Leases, cadence and backoff are the subject of FetchJobs and have no    *)
(* clock here: a queued job may start at once, and the lease of a running  *)
(* one has run out exactly when its process lost it.                       *)
(***************************************************************************)
EXTENDS Integers

CONSTANTS
  Feed,                \* the feeds of users that follow the source
  Manual,              \* ids for requests of scope manual
  Job,                 \* ids for rows of feed_fetch_jobs, in order of creation
  None,                \* SQL NULL
  MaxAttempts,         \* feed_fetch_jobs.max_attempts
  MaxDeliveryAttempts, \* feed_snapshot_deliveries.max_attempts
  MaxFaults            \* bound on crashes and database errors

ASSUME ParametersAssumption ==
  /\ Feed \cap Manual = {} /\ Job \subseteq Nat /\ None \notin Job \cup (Job \X Feed)
  /\ {MaxAttempts, MaxDeliveryAttempts} \subseteq Nat \ {0} /\ MaxFaults \in Nat

\* The request feed-create:<id> of a feed is named by the feed.
Request == Manual \cup Feed
Loop == {"fetch", "deliver", "schedule"}

VARIABLES
  job,       \* feed_fetch_jobs and the snapshot of each
  source,    \* feed_sources: state active, lastSuccessAt set, validators stored
  feed,      \* feeds: not created, pendingSourceId set, or sourceId set
  delivery,  \* feed_snapshot_deliveries, by job of the snapshot and feed
  item,      \* feed_refresh_request_items, by request and feed
  request,   \* feed_refresh_requests: the stored status
  task,      \* where the fetch loop stands
  carrying,  \* the delivery the deliver loop has claimed
  owed,      \* the requests each loop has yet to aggregate
  faults     \* crashes and errors so far, for the bound

vars == <<job, source, feed, delivery, item, request, task, carrying, owed, faults>>
tables == <<job, source, feed, delivery, item, request>>
worker == <<task, carrying, owed, faults>>

Open == {"pending", "running"}
Ended == {"completed", "failed", "dead"}
Snapshots == {"none", "raw", "parsed", "lapsed"}
NoTask == [job |-> None, step |-> "idle", fresh |-> FALSE]

Active(j) == job[j].status \in {"queued", "running"}

\* Types, and the partial unique index: a source has one active job.
TypeOK ==
  /\ \A j, k \in Job : Active(j) /\ Active(k) => j = k
  /\ job \in [Job -> [status : {"absent", "queued", "running", "completed", "dead"},
                      attempts : 0..MaxAttempts, snap : Snapshots]]
  /\ source \in [active : BOOLEAN, succeeded : BOOLEAN, validators : BOOLEAN]
  /\ feed \in [Feed -> {"absent", "pending", "attached"}]
  /\ delivery \in [Job -> [Feed -> [status : {"absent"} \cup Open \cup {"completed", "dead"},
                                    attempts : 0..MaxDeliveryAttempts]]]
  /\ item \in [Request -> [Feed -> [status : {"absent"} \cup Open \cup Ended,
                                    job : Job \cup {None}]]]
  /\ request \in [Request -> {"absent", "completed_with_errors", "completed"} \cup Open]
  /\ task \in [job : Job \cup {None}, fresh : BOOLEAN,
               step : {"idle", "fetching", "parsing", "parsed", "failing"}]
  /\ carrying \in (Job \X Feed) \cup {None}
  /\ owed \in [Loop -> SUBSET Request]
  /\ faults \in 0..MaxFaults

Init ==
  /\ job = [j \in Job |-> [status |-> "absent", attempts |-> 0, snap |-> "none"]]
  /\ source = [active |-> TRUE, succeeded |-> FALSE, validators |-> FALSE]
  /\ feed = [f \in Feed |-> "absent"]
  /\ delivery = [j \in Job |-> [f \in Feed |-> [status |-> "absent", attempts |-> 0]]]
  /\ item = [r \in Request |-> [f \in Feed |-> [status |-> "absent", job |-> None]]]
  /\ request = [r \in Request |-> "absent"]
  /\ task = NoTask /\ carrying = None
  /\ owed = [l \in Loop |-> {}]
  /\ faults = 0

\* A loop that has not come to a wait keeps the other loops off the event loop.
MidRun(l) ==
  \/ owed[l] # {}
  \/ l = "fetch" /\ task.step \in {"parsed", "failing"}
  \/ l = "deliver" /\ carrying # None
Turn(l) == \A k \in Loop \ {l} : ~MidRun(k)
Owe(l, requests) == owed' = [owed EXCEPT ![l] = requests]

Pairs == Request \X Feed
On(j) == {p \in Pairs : item[p[1]][p[2]].job = j}
OnDelivery(j, f) == {p \in On(j) : p[2] = f}
RequestsOf(pairs) == {p[1] : p \in pairs}
Marked(pairs, status) ==
  [r \in Request |-> [f \in Feed |->
     IF <<r, f>> \in pairs THEN [item[r][f] EXCEPT !.status = status] ELSE item[r][f]]]

(***************************************************************************)
(* The API.                                                                *)
(***************************************************************************)
\* aggregateRefreshRequest: the status that the items of a request amount to.
Summary(row) ==
  LET found == {row[f].status : f \in Feed} \ {"absent"} IN
  IF found \subseteq Ended
  THEN IF found \cap {"failed", "dead"} # {} THEN "completed_with_errors" ELSE "completed"
  ELSE IF "running" \in found THEN "running" ELSE "pending"

\* enqueueOrAttachDurableJob: the active job of the source, or a new row.
ActiveJobs == {j \in Job : Active(j)}
Unused == {j \in Job : job[j].status = "absent"}
FirstUnused(j) == j \in Unused /\ \A k \in Unused : j <= k
\* Mutant of EnqueueOrAttach: only a queued job is taken for an active one.
EnqueueOrAttachQueued(j) ==
  /\ IF \E k \in Job : job[k].status = "queued" THEN job[j].status = "queued" ELSE FirstUnused(j)
  /\ job' = [job EXCEPT ![j].status = "queued"]

EnqueueOrAttach(j) ==
  /\ IF ActiveJobs # {} THEN Active(j) ELSE FirstUnused(j)
  /\ job' = [job EXCEPT ![j].status = IF @ = "absent" THEN "queued" ELSE @]

Requested(r, feeds, status, j) ==
  /\ item' = [item EXCEPT ![r] = [f \in Feed |->
                 IF f \in feeds THEN [status |-> status, job |-> j] ELSE @[f]]]
  /\ request' = [request EXCEPT ![r] = Summary(item'[r])]

\* queueDurableRefresh of all feeds of a user.  A request that is still open is
\* returned instead of a new one.
NoneOpen == \A r \in Manual : request[r] \notin Open
Following == {f \in Feed : feed[f] # "absent"}

RequestRefresh(r) ==
  /\ request[r] = "absent" /\ NoneOpen /\ Following # {}
  /\ \E j \in Job : EnqueueOrAttach(j) /\ Requested(r, Following, "pending", j)
  /\ UNCHANGED <<source, feed, delivery, worker>>

\* The same inside a wait the publisher is owed, or without any feed: no job.
RequestDeferred(r) ==
  /\ request[r] = "absent" /\ NoneOpen
  /\ Requested(r, Following, "completed", None)
  /\ UNCHANGED <<job, source, feed, delivery, worker>>

\* createPendingFeed: the newest parsed snapshot still retained serves the feed
\* at once, if the source is in good standing; otherwise the feed waits for a job.
Retained == {j \in Job : job[j].snap = "parsed"}
Newest(j) == j \in Retained /\ \A k \in Retained : k <= j
Reusable == source.active /\ source.succeeded /\ Retained # {}

CreateFeedFromSnapshot(f) ==
  /\ feed[f] = "absent" /\ Reusable
  /\ feed' = [feed EXCEPT ![f] = "attached"]
  /\ \E j \in Job :
       /\ Newest(j)
       /\ delivery' = [delivery EXCEPT ![j][f].status = "pending"]
       /\ Requested(f, {f}, "pending", j)
  /\ UNCHANGED <<job, source, worker>>

CreateFeed(f) ==
  /\ feed[f] = "absent" /\ ~Reusable
  /\ \E j \in Job : EnqueueOrAttach(j) /\ Requested(f, {f}, "pending", j)
  /\ feed' = [feed EXCEPT ![f] = "pending"]
  /\ UNCHANGED <<source, delivery, worker>>

(***************************************************************************)
(* The fetch loop.                                                         *)
(***************************************************************************)
At(j, step) == Turn("fetch") /\ owed["fetch"] = {} /\ task.job = j /\ task.step = step
Lost(j) == job[j].status = "running" /\ task.job # j

ClaimFetchJob(j) ==
  /\ At(None, "idle")
  /\ job[j].status = "queued" \/ Lost(j)
  /\ job[j].attempts < MaxAttempts
  /\ job' = [job EXCEPT ![j].status = "running", ![j].attempts = @ + 1]
  /\ task' = [job |-> j, fresh |-> FALSE,
              step |-> CASE job[j].snap = "none" -> "fetching"
                         [] job[j].snap = "raw" -> "parsing"
                         [] OTHER -> "parsed"]
  /\ UNCHANGED <<source, feed, delivery, item, request, carrying, owed, faults>>

\* The claim's sweep: a lost job without an attempt left.
ExhaustFetchJob(j) ==
  /\ At(None, "idle") /\ Lost(j) /\ job[j].attempts >= MaxAttempts
  /\ job' = [job EXCEPT ![j].status = "dead"]
  /\ item' = Marked(On(j), "dead")
  /\ Owe("fetch", RequestsOf(On(j)))
  /\ UNCHANGED <<source, feed, delivery, request, task, carrying, faults>>

ClaimNothing ==
  /\ At(None, "idle")
  /\ \A j \in Job : job[j].status # "queued" /\ ~Lost(j)
  /\ UNCHANGED vars

ReceiveBody(j) ==
  /\ At(j, "fetching")
  /\ job' = [job EXCEPT ![j].snap = "raw"]
  /\ task' = [task EXCEPT !.step = "parsing", !.fresh = TRUE]
  /\ UNCHANGED <<source, feed, delivery, item, request, carrying, owed, faults>>

\* markSnapshotParseSucceeded: pending feeds move to the source, and every feed
\* of the source gets a delivery.
ParseOk(j) ==
  /\ At(j, "parsing") /\ job[j].snap = "raw"
  /\ job' = [job EXCEPT ![j].snap = "parsed"]
  /\ feed' = [f \in Feed |-> IF feed[f] = "pending" THEN "attached" ELSE feed[f]]
  /\ delivery' = [delivery EXCEPT ![j] = [f \in Feed |->
                    IF feed[f] # "absent" /\ @[f].status = "absent"
                    THEN [@[f] EXCEPT !.status = "pending"] ELSE @[f]]]
  /\ task' = [task EXCEPT !.step = "parsed"]
  /\ UNCHANGED <<source, item, request, carrying, owed, faults>>

\* Mutant of Finished: the items are all completed, deliveries or not.
FinishedAtOnce(j) == Marked(On(j), "completed")

\* finishFetchJob, in one transaction: what becomes of the items of a job that
\* ends well, by whether its snapshot has a delivery for their feed.
Finished(j) ==
  [r \in Request |-> [f \in Feed |->
     IF item[r][f].job # j THEN item[r][f]
     ELSE [item[r][f] EXCEPT !.status = IF delivery[j][f].status = "absent"
                                        THEN "completed" ELSE "running"]]]

Ends(j, status, items) ==
  /\ job' = [job EXCEPT ![j].status = status]
  /\ item' = items
  /\ task' = NoTask
  /\ Owe("fetch", RequestsOf(On(j)))
  /\ UNCHANGED <<feed, delivery, request, carrying>>

CompleteParsed(j) ==
  /\ At(j, "parsed")
  /\ Ends(j, "completed", Finished(j))
  /\ \E stored \in IF task.fresh THEN BOOLEAN ELSE {FALSE} :
       source' = [active |-> TRUE, succeeded |-> TRUE,
                  validators |-> source.validators \/ stored]
  /\ UNCHANGED faults

\* completeUnchanged: 304, to a request that carried the stored validators.
NotModified(j) ==
  /\ At(j, "fetching") /\ source.validators
  /\ Ends(j, "completed", Marked(On(j), "completed"))
  /\ source' = [source EXCEPT !.active = TRUE, !.succeeded = TRUE]
  /\ UNCHANGED faults

\* A job that did not end well: queued again or dead, and with it its items.
Retried(j) == IF job[j].attempts >= MaxAttempts THEN "dead" ELSE "queued"
RetriedItems(j) == IF Retried(j) = "dead" THEN Marked(On(j), "dead") ELSE item

\* handleThrownFailure of a job with a snapshot.
FailRetryable(j) ==
  /\ At(j, "parsing") \/ At(j, "parsed")
  /\ faults < MaxFaults /\ faults' = faults + 1
  /\ Ends(j, Retried(j), RetriedItems(j))
  /\ UNCHANGED source

\* failClaim and completeDiscovery end the job and fail its items in separate
\* transactions; the requests to aggregate are read in between.
Failing(j, status, items, active) ==
  /\ job' = [job EXCEPT ![j].status = status]
  /\ item' = items
  /\ source' = [source EXCEPT !.active = active]
  /\ task' = [task EXCEPT !.step = "failing"]
  /\ Owe("fetch", RequestsOf(On(j)))
  /\ UNCHANGED <<feed, delivery, request, carrying, faults>>

PublisherFailure(j) ==
  /\ At(j, "fetching")
  /\ \E active \in BOOLEAN : Failing(j, Retried(j), RetriedItems(j), active)

RejectBody(j) ==
  /\ At(j, "fetching") \/ (At(j, "parsing") /\ job[j].snap = "raw")
  /\ LET status == IF Retried(j) = "dead" THEN "dead" ELSE "completed" IN
     \E active \in BOOLEAN : Failing(j, status, Marked(On(j), status), active)

Discover(j) ==
  /\ At(j, "parsing") /\ job[j].snap = "raw"
  /\ Failing(j, "completed", Marked(On(j), "completed"), FALSE)

\* failRefreshItemsForJob: every item of the job, whatever its status.
FailItems ==
  /\ Turn("fetch") /\ task.step = "failing"
  /\ item' = Marked(On(task.job), "failed")
  /\ task' = NoTask
  /\ UNCHANGED <<job, source, feed, delivery, request, carrying, owed, faults>>

(***************************************************************************)
(* The deliver loop.                                                       *)
(***************************************************************************)
Ready(j, f) ==
  /\ Turn("deliver") /\ owed["deliver"] = {} /\ carrying = None
  /\ delivery[j][f].status \in Open

ClaimDelivery(j, f) ==
  /\ Ready(j, f) /\ delivery[j][f].attempts < MaxDeliveryAttempts
  /\ delivery' = [delivery EXCEPT ![j][f].status = "running", ![j][f].attempts = @ + 1]
  /\ carrying' = <<j, f>>
  /\ UNCHANGED <<job, source, feed, item, request, task, owed, faults>>

\* Mutant of Settle: only the items that are still pending are settled.
SettlePending(j, f, status) ==
  /\ delivery' = [delivery EXCEPT ![j][f].status = status]
  /\ LET pairs == {p \in OnDelivery(j, f) : item[p[1]][p[2]].status = "pending"} IN
     item' = Marked(pairs, status) /\ Owe("deliver", RequestsOf(pairs))
  /\ carrying' = None
  /\ UNCHANGED <<job, source, feed, request, task, faults>>

\* finishDelivery: also the items that follow this delivery, whatever their status.
Settle(j, f, status) ==
  /\ delivery' = [delivery EXCEPT ![j][f].status = status]
  /\ item' = Marked(OnDelivery(j, f), status)
  /\ Owe("deliver", RequestsOf(OnDelivery(j, f)))
  /\ carrying' = None
  /\ UNCHANGED <<job, source, feed, request, task, faults>>

ExhaustDelivery(j, f) ==
  /\ Ready(j, f)
  /\ delivery[j][f].status = "running" /\ delivery[j][f].attempts >= MaxDeliveryAttempts
  /\ Settle(j, f, "dead")

\* processDelivery: the articles are stored and the delivery is finished.
Deliver(j, f) ==
  /\ Turn("deliver") /\ carrying = <<j, f>>
  /\ Settle(j, f, "completed")

\* Mutant of DeliveryFails: the items of a delivery given up are forgotten.
DeliveryFailsSilently(j, f) ==
  /\ Turn("deliver") /\ carrying = <<j, f>>
  /\ delivery' = [delivery EXCEPT ![j][f].status =
                    IF delivery[j][f].attempts >= MaxDeliveryAttempts THEN "dead" ELSE "pending"]
  /\ carrying' = None
  /\ UNCHANGED <<job, source, feed, item, request, task, owed, faults>>

\* An article cannot be stored: tried again later, or given up.
DeliveryFails(j, f) ==
  /\ Turn("deliver") /\ carrying = <<j, f>>
  /\ IF delivery[j][f].attempts >= MaxDeliveryAttempts
     THEN Settle(j, f, "dead")
     ELSE /\ delivery' = [delivery EXCEPT ![j][f].status = "pending"]
          /\ carrying' = None
          /\ UNCHANGED <<job, source, feed, item, request, task, owed, faults>>

(***************************************************************************)
(* The schedule loop, aggregation, crashes and the passing of a day.       *)
(***************************************************************************)
\* Mutant of Stale: the requests that are running are left alone.
StalePending == {r \in Manual : request[r] = "pending"}

\* expireStaleManualRefreshRequests: requests older than five minutes.
Stale == {r \in Manual : request[r] \in Open}

ExpireManual(requests) ==
  /\ Turn("schedule") /\ owed["schedule"] = {}
  /\ requests # {} /\ requests \subseteq Stale
  /\ item' = [r \in Request |-> [f \in Feed |->
                IF r \in requests /\ item[r][f].status \in Open
                THEN [status |-> "completed", job |-> None] ELSE item[r][f]]]
  /\ Owe("schedule", requests)
  /\ UNCHANGED <<job, source, feed, delivery, request, task, carrying, faults>>

EnqueueDueSource ==
  /\ Turn("schedule") /\ owed["schedule"] = {}
  /\ Following # {} /\ ActiveJobs = {}
  /\ \E j \in Job : FirstUnused(j) /\ job' = [job EXCEPT ![j].status = "queued"]
  /\ UNCHANGED <<source, feed, delivery, item, request, worker>>

Aggregate(l, r) ==
  /\ Turn(l) /\ r \in owed[l]
  /\ l = "fetch" => task.step # "failing"
  /\ request' = [request EXCEPT ![r] = Summary(item[r])]
  /\ owed' = [owed EXCEPT ![l] = @ \ {r}]
  /\ UNCHANGED <<job, source, feed, delivery, item, task, carrying, faults>>

\* The worker dies and is started again.
Crash ==
  /\ faults < MaxFaults /\ faults' = faults + 1
  /\ task' = NoTask /\ carrying' = None
  /\ owed' = [l \in Loop |-> {}]
  /\ UNCHANGED tables

\* retainUntil passes, a day after the snapshot was parsed: long after its job
\* and its deliveries have ended.
Lapse(j) ==
  /\ job[j].snap = "parsed" /\ ~Active(j) /\ task.job # j
  /\ \A f \in Feed : delivery[j][f].status \notin Open
  /\ job' = [job EXCEPT ![j].snap = "lapsed"]
  /\ UNCHANGED <<source, feed, delivery, item, request, worker>>

FetchLoop ==
  \/ \E j \in Job :
       \/ ClaimFetchJob(j) \/ ExhaustFetchJob(j) \/ ReceiveBody(j) \/ ParseOk(j)
       \/ CompleteParsed(j) \/ NotModified(j) \/ FailRetryable(j)
       \/ PublisherFailure(j) \/ RejectBody(j) \/ Discover(j)
  \/ FailItems
  \/ \E r \in Request : Aggregate("fetch", r)

DeliverLoop ==
  \/ \E j \in Job, f \in Feed :
       ClaimDelivery(j, f) \/ ExhaustDelivery(j, f) \/ Deliver(j, f) \/ DeliveryFails(j, f)
  \/ \E r \in Request : Aggregate("deliver", r)

Expire ==
  \/ \E requests \in SUBSET Manual : ExpireManual(requests)
  \/ \E r \in Request : Aggregate("schedule", r)

API ==
  \/ \E r \in Manual : RequestRefresh(r) \/ RequestDeferred(r)
  \/ \E f \in Feed : CreateFeed(f) \/ CreateFeedFromSnapshot(f)

Next ==
  \/ API \/ FetchLoop \/ DeliverLoop \/ Expire
  \/ EnqueueDueSource \/ ClaimNothing \/ Crash
  \/ \E j \in Job : Lapse(j)

Spec == Init /\ [][Next]_vars

\* Every loop of the worker runs again and again (250 ms, 30 s), every publisher
\* request is cut off by a timeout, retry delays pass, requests grow old.
Fairness == WF_vars(FetchLoop) /\ WF_vars(DeliverLoop) /\ WF_vars(Expire)
FairSpec == Spec /\ Fairness

(***************************************************************************)
(* Properties.                                                             *)
(***************************************************************************)
\* As long as nothing crashes or throws, an item that the user still waits for is
\* being worked on: its job is active, is just being failed, or has handed it to
\* a delivery that has not ended.
ServedItem(r, f) ==
  LET j == item[r][f].job IN
  /\ j # None
  /\ \/ Active(j)
     \/ delivery[j][f].status \in Open
     \/ task.job = j /\ task.step = "failing"

ItemsServed ==
  faults = 0 => \A r \in Request, f \in Feed :
                  item[r][f].status \in Open => ServedItem(r, f)

\* An item is not reported as completed before the articles of its job's snapshot
\* have been stored for its feed, crashes included.
CompletedMeansDelivered ==
  \A r \in Request, f \in Feed :
    LET i == item[r][f] IN
    i.status = "completed" /\ i.job # None =>
      delivery[i.job][f].status \in {"absent", "completed"}

\* As long as nothing crashes or throws, a request none of whose items is on an
\* active job, and that nobody is about to aggregate, has the status its items
\* amount to: no change of an item goes unreported.
Reported(r) ==
  \/ request[r] = "absent"
  \/ \E l \in Loop : r \in owed[l]
  \/ \E f \in Feed : item[r][f].job # None /\ Active(item[r][f].job)
  \/ request[r] = Summary(item[r])

RequestsReported == faults = 0 => \A r \in Request : Reported(r)

\* While nothing fails, no item waits for a job that is over, and each request tells what has become
\* of its items.
AnswersHold == ItemsServed /\ RequestsReported

\* A manual refresh is over sooner or later, crashes included: a user who waits
\* for it is released, and the next refresh is not taken for a repetition.
ManualSettles == \A r \in Manual : <>[](request[r] \notin Open)

\* As long as nothing crashes or throws, so is the creation of a feed, which no
\* deadline ends.
CreationSettles == \A f \in Feed : <>[](request[f] \notin Open \/ faults > 0)

\* What the code does not keep (see README): after a crash, too, an item that is
\* waited for is being worked on.
NoItemStranded ==
  \A r \in Request, f \in Feed : item[r][f].status \in Open => ServedItem(r, f)

\* What the code does not keep: once the job of a feed's creation has completed
\* by a 304 (no snapshot), the feed follows the source.
Settled == task = NoTask /\ \A l \in Loop : owed[l] = {}
CreatedOn(f, snap) == item[f][f].status = "completed" /\ item[f][f].job # None
                      /\ job[item[f][f].job].snap = snap
UnchangedServesCreation ==
  Settled /\ faults = 0 => \A f \in Feed : CreatedOn(f, "none") => feed[f] = "attached"

\* What the code does not keep: the same when its job completed with a snapshot.
ParsedServesCreation ==
  Settled /\ faults = 0 => \A f \in Feed : CreatedOn(f, "parsed") => feed[f] = "attached"
=============================================================================

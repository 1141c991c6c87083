------------------------------ MODULE FetchJobs ------------------------------
(***************************************************************************)
(* The durable fetch queue of the feed worker (FEED_PIPELINE_MODE=v2).     *)
(*                                                                         *)
(* A row of feed_fetch_jobs asks for one fetch of one source.  The         *)
(* scheduler loop and the API insert rows; worker processes claim them     *)
(* under a lease, send the publisher request, store the body as a          *)
(* snapshot, parse it and finish the job.  Every repository call is one    *)
(* SQLite transaction and therefore one action; what a worker does between *)
(* two calls is kept in task.  The rules:                                  *)
(*   - a source has at most one queued or running job (partial unique      *)
(*     index), and every source belongs to one origin (scheme, host,       *)
(*     port);                                                              *)
(*   - a claim that will send a request obeys the source's cadence and     *)
(*     backoff, the origin's block and start gap, and the rule that no     *)
(*     other leased job without a snapshot runs on the origin;             *)
(*   - a job that already has a snapshot is recovered from it and bypasses *)
(*     those gates;                                                        *)
(*   - a heartbeat renews the lease of every claim in progress; an expired *)
(*     lease can be claimed again until the attempts are used up.          *)
(*                                                                         *)
(* Time is counted in ticks.  SQL NULL in a timestamp column is 0: the     *)
(* clock starts late enough (Epoch) for 0 to satisfy every comparison the  *)
(* code skips for NULL.                                                    *)
(***************************************************************************)
EXTENDS Integers, FiniteSets

CONSTANTS
  Worker,              \* worker processes
  Source, Origin,      \* rows of feed_sources and feed_origins
  OriginOf,            \* the origin of each source
  Job, SourceOf,       \* ids for rows of feed_fetch_jobs, and their source
  NoOwner,             \* SQL NULL in lease_owner
  Gone,                \* the random worker id of a process that has ended
  MaxAttempts,         \* feed_fetch_jobs.max_attempts
  NetworkConcurrency,  \* claims per drain of one worker
  Lease, StartGap,     \* lease length; gap between two claims on an origin
  Interval,            \* MIN_SOURCE_INTERVAL_SECONDS: cadence and retry delay
  FailureDelays,       \* delays classifyFetchFailure can return (FetchPolicy)
  OriginWaits,         \* such delays, and what Retry-After can ask for
  Pause,               \* the week for which discovery pauses a source
  Epoch, Horizon,      \* first and last value of the clock
  Fickle,              \* bound: the sources that gain and lose their feeds
  MaxFaults            \* bound on each kind of fault

FaultKind == {"crash", "stall", "error", "stop"}

ASSUME ParametersAssumption ==
  /\ OriginOf \in [Source -> Origin]
  /\ SourceOf \in [Job -> Source] /\ Fickle \subseteq Source
  /\ NoOwner \notin Worker /\ Gone \notin Worker /\ NoOwner # Gone
  /\ {MaxAttempts, NetworkConcurrency, StartGap, Interval, Pause} \subseteq Nat \ {0}
  /\ {Lease, Epoch, Horizon} \subseteq Nat /\ MaxFaults \in [FaultKind -> Nat]
  /\ Lease > 1 /\ Epoch >= Interval /\ Epoch >= StartGap
  /\ FailureDelays \cup OriginWaits \subseteq Nat
  /\ \A d \in FailureDelays \cup {Pause} : d >= Interval

VARIABLES
  now,         \* the wall clock
  job,         \* feed_fetch_jobs
  source,      \* feed_sources, and whether a feed row references the source
  origin,      \* feed_origins
  phase,       \* what the drain loop of each worker is doing
  batch,       \* the claims of each worker's current drainOnce
  task,        \* where processClaim stands, per worker and job
  stalled,     \* workers whose event loop makes no progress
  faults,      \* faults so far, for the bounds
  asked,       \* history: the latest moment an origin asked us to wait for
  requested    \* history: when the last request for a source was started

vars == <<now, job, source, origin, phase, batch, task, stalled, faults, asked, requested>>
tables == <<job, source, origin>>
worker == <<phase, batch, task, stalled, faults>>
history == <<asked, requested>>

Row == [status : {"absent", "queued", "running", "completed", "dead"},
        kind : {"scheduled", "manual"}, attempts : 0..MaxAttempts,
        availableAt : Nat, owner : Worker \cup {NoOwner, Gone},
        leaseUntil : Nat, snap : {"none", "raw", "parsed"}]

SourceRow == [subscribed : BOOLEAN, nextFetchAt : Nat, lastFetchAt : Nat, backoffUntil : Nat]
OriginRow == [lastRequestAt : Nat, blockedUntil : Nat]

Steps == {"none", "claimed", "fetching", "parsing", "orphaned", "parsed"}
Task == [step : Steps, at : Nat]
Idle == [step |-> "none", at |-> 0]
Phases == {"claiming", "processing", "stopping", "down"}

\* Types, and what a row must satisfy to be served at all: a queued row without
\* an attempt left is never claimed nor swept and, being active, would keep its
\* source from ever being queued again; a running row has a lease.
Sound(row) ==
  /\ row.status = "queued" => row.attempts < MaxAttempts
  /\ row.status = "running" <=> row.owner # NoOwner
  /\ row.status = "running" => row.attempts > 0 /\ row.leaseUntil > 0

JobsOK == job \in [Job -> Row] /\ \A j \in Job : Sound(job[j])

TypeOK ==
  /\ now \in Nat
  /\ JobsOK
  /\ source \in [Source -> SourceRow] /\ origin \in [Origin -> OriginRow]
  /\ phase \in [Worker -> Phases]
  /\ batch \in [Worker -> SUBSET Job]
  /\ task \in [Worker -> [Job -> Task]]
  /\ stalled \subseteq Worker
  /\ faults \in [FaultKind -> Nat]
  /\ asked \in [Origin -> Nat] /\ requested \in [Source -> Nat]

Init ==
  /\ now = Epoch
  /\ job = [j \in Job |-> [status |-> "absent", kind |-> "scheduled", attempts |-> 0,
                           availableAt |-> 0, owner |-> NoOwner, leaseUntil |-> 0,
                           snap |-> "none"]]
  /\ source = [s \in Source |-> [subscribed |-> TRUE, nextFetchAt |-> Epoch,
                                 lastFetchAt |-> 0, backoffUntil |-> 0]]
  /\ origin = [o \in Origin |-> [lastRequestAt |-> 0, blockedUntil |-> 0]]
  /\ phase = [w \in Worker |-> "claiming"]
  /\ batch = [w \in Worker |-> {}]
  /\ task = [w \in Worker |-> [j \in Job |-> Idle]]
  /\ stalled = {}
  /\ faults = [k \in FaultKind |-> 0]
  /\ asked = [o \in Origin |-> 0] /\ requested = [s \in Source |-> 0]

JobOrigin(j) == OriginOf[SourceOf[j]]
Active(j) == job[j].status \in {"queued", "running"}
\* Mutant of Expired: the lease is not looked at.
ExpiredAtOnce(j) == job[j].status = "running"

Expired(j) == job[j].status = "running" /\ job[j].leaseUntil <= now
Owns(w, j) == job[j].status = "running" /\ job[j].owner = w
Unleased(row, status) == [row EXCEPT !.status = status, !.owner = NoOwner, !.leaseUntil = 0]

(***************************************************************************)
(* Inserting jobs: the scheduler loop and the API.  (Mutants, here and     *)
(* below, are wrong variants of the next definition: no specification uses *)
(* them; a property must be able to tell them from the code.)              *)
(***************************************************************************)
NewJob(kind) == [status |-> "queued", kind |-> kind, attempts |-> 0, availableAt |-> now,
                 owner |-> NoOwner, leaseUntil |-> 0, snap |-> "none"]

ActiveJobs(s) == {j \in Job : SourceOf[j] = s /\ Active(j)}
\* The id of a finished row that no worker holds any more stands for a new one.
FreeIds(s) == {j \in Job : SourceOf[j] = s /\ ~Active(j) /\ \A w \in Worker : task[w][j] = Idle}
FreshId(s) == CHOOSE j \in FreeIds(s) : TRUE

Due(s) ==
  /\ source[s].nextFetchAt <= now
  /\ source[s].subscribed
  /\ ActiveJobs(s) = {}
  /\ FreeIds(s) # {}

\* DurableFeedScheduler.tick of a live worker: one batch of all due sources.
EnqueueDueSources ==
  /\ \E w \in Worker \ stalled : phase[w] \in {"claiming", "processing"}
  /\ \E s \in Source : Due(s)
  /\ job' = [j \in Job |-> IF Due(SourceOf[j]) /\ j = FreshId(SourceOf[j])
                           THEN NewJob("scheduled") ELSE job[j]]
  /\ UNCHANGED <<now, source, origin, worker, history>>

\* A job of its own, or a ride on the active one, which becomes manual and
\* available at once.
EnqueueOrAttach(s) ==
  \/ /\ ActiveJobs(s) = {} /\ FreeIds(s) # {}
     /\ job' = [job EXCEPT ![FreshId(s)] = NewJob("manual")]
  \/ \E j \in ActiveJobs(s) :
       job' = [job EXCEPT ![j].kind = "manual",
                          ![j].availableAt = IF @ > now THEN now ELSE @]

Deferred(s) ==
  \/ source[s].lastFetchAt + Interval > now
  \/ source[s].backoffUntil > now
  \/ origin[OriginOf[s]].blockedUntil > now

\* A manual refresh of a feed of the source: deferred ones get no job.
Refresh(s) ==
  /\ source[s].subscribed /\ ~Deferred(s)
  /\ EnqueueOrAttach(s)
  /\ UNCHANGED <<now, source, origin, worker, history>>

\* A feed is added to the source.  It rides on a job whatever the source's
\* backoff is, or is served from a retained snapshot and needs none.
Subscribe(s) ==
  /\ EnqueueOrAttach(s) \/ job' = job
  /\ source' = [source EXCEPT ![s].subscribed = TRUE]
  /\ UNCHANGED <<now, origin, worker, history>>

\* The last feed of the source is deleted.
Unsubscribe(s) ==
  /\ source[s].subscribed
  /\ source' = [source EXCEPT ![s].subscribed = FALSE]
  /\ UNCHANGED <<now, job, origin, worker, history>>

(***************************************************************************)
(* Claiming: claimEligibleFetchJob.                                        *)
(***************************************************************************)
Exhausted(j) == Expired(j) /\ job[j].attempts >= MaxAttempts
Retired(j) ==
  /\ ~source[SourceOf[j]].subscribed
  /\ job[j].status = "queued" \/ Expired(j)

Swept(j) == IF Exhausted(j) THEN Unleased(job[j], "dead")
            ELSE IF Retired(j) THEN Unleased(job[j], "completed")
            ELSE job[j]

JobDue(j) ==
  /\ \/ job[j].status = "queued" /\ job[j].availableAt <= now
     \/ Expired(j)
  /\ job[j].attempts < MaxAttempts

\* Mutant of SourceDue: the backoff is left to nextFetchAt, which manual jobs skip.
SourceDueNoBackoff(j) ==
  LET src == source[SourceOf[j]] IN
  IF job[j].kind = "manual" THEN src.lastFetchAt + Interval <= now
                            ELSE src.nextFetchAt <= now

SourceDue(j) ==
  LET src == source[SourceOf[j]] IN
  /\ IF job[j].kind = "manual" THEN src.lastFetchAt + Interval <= now
                               ELSE src.nextFetchAt <= now
  /\ src.backoffUntil <= now

OriginDue(o) ==
  /\ origin[o].lastRequestAt + StartGap <= now
  /\ origin[o].blockedUntil <= now

\* Mutant of OriginBusy: the lease comparison is the other way round.
OriginBusySwapped(o) ==
  \E k \in Job : /\ JobOrigin(k) = o
                 /\ job[k].status = "running" /\ job[k].leaseUntil < now
                 /\ job[k].snap = "none"

OriginBusy(o) ==
  \E k \in Job : /\ JobOrigin(k) = o
                 /\ job[k].status = "running" /\ job[k].leaseUntil > now
                 /\ job[k].snap = "none"

Eligible(j) ==
  /\ JobDue(j)
  /\ source[SourceOf[j]].subscribed
  /\ \/ job[j].snap # "none"
     \/ SourceDue(j) /\ OriginDue(JobOrigin(j)) /\ ~OriginBusy(JobOrigin(j))

\* ORDER BY priority DESC, available_at; manual rows are the ones of priority 100.
Precedes(j, k) ==
  \/ job[j].kind = "manual" /\ job[k].kind = "scheduled"
  \/ job[j].kind = job[k].kind /\ job[j].availableAt < job[k].availableAt

Candidate(j) == Eligible(j) /\ \A k \in Job : Eligible(k) => ~Precedes(k, j)

Claimed(w, row) == [row EXCEPT !.status = "running", !.owner = w,
                               !.leaseUntil = now + Lease, !.attempts = @ + 1]

ClaimFetchJob(w, c) ==
  /\ phase[w] = "claiming" /\ w \notin stalled
  /\ task[w][c] = Idle
  /\ Candidate(c)
  /\ job' = [j \in Job |-> IF j = c THEN Claimed(w, job[j]) ELSE Swept(j)]
  /\ origin' = IF job[c].snap = "none"
               THEN [origin EXCEPT ![JobOrigin(c)].lastRequestAt = now] ELSE origin
  /\ task' = [task EXCEPT ![w][c] = [step |-> "claimed", at |-> 0]]
  /\ batch' = [batch EXCEPT ![w] = @ \cup {c}]
  /\ phase' = [phase EXCEPT ![w] = IF Cardinality(batch[w]) + 1 < NetworkConcurrency
                                   THEN "claiming" ELSE "processing"]
  /\ UNCHANGED <<now, source, stalled, faults, history>>

\* The claim that finds nothing still sweeps, and closes the batch.
ClaimNothing(w) ==
  /\ phase[w] = "claiming" /\ w \notin stalled
  /\ \A j \in Job : ~Eligible(j)
  /\ job' = [j \in Job |-> Swept(j)]
  /\ phase' = [phase EXCEPT ![w] = IF batch[w] = {} THEN "claiming" ELSE "processing"]
  /\ UNCHANGED <<now, source, origin, batch, task, stalled, faults, history>>

\* A claim that throws (SQLITE_BUSY) abandons the claims already held: their
\* rows stay leased, with nobody working on them, until the lease runs out.
Fault(k) == faults[k] < MaxFaults[k] /\ faults' = [faults EXCEPT ![k] = @ + 1]

ClaimError(w) ==
  /\ phase[w] = "claiming" /\ w \notin stalled /\ batch[w] # {}
  /\ Fault("error")
  /\ task' = [task EXCEPT ![w] = [j \in Job |-> IF j \in batch[w] THEN Idle ELSE @[j]]]
  /\ batch' = [batch EXCEPT ![w] = {}]
  /\ UNCHANGED <<now, tables, phase, stalled, history>>

(***************************************************************************)
(* Processing a claim: processClaim and what it calls.  The caller's clock *)
(* is read once, at the start, and is what every later write uses (at).    *)
(***************************************************************************)
At(w, j, step) == w \notin stalled /\ phase[w] # "down" /\ task[w][j].step = step
To(w, j, step) == task' = [task EXCEPT ![w][j].step = step]

\* The context read: a job with a snapshot is recovered, another sends its
\* publisher request.
Begin(w, j) ==
  /\ At(w, j, "claimed") /\ phase[w] # "claiming"
  /\ IF job[j].snap = "none"
     THEN /\ task' = [task EXCEPT ![w][j] = [step |-> "fetching", at |-> now]]
          /\ requested' = [requested EXCEPT ![SourceOf[j]] = now]
     ELSE /\ task' = [task EXCEPT ![w][j] = [step |-> "parsing", at |-> now]]
          /\ UNCHANGED requested
  /\ UNCHANGED <<now, tables, phase, batch, stalled, faults, asked>>

\* createSnapshot asks for no lease.  The second body of a job is dropped, and
\* its worker goes on to parse a snapshot that does not exist.
ReceiveBody(w, j) ==
  /\ At(w, j, "fetching")
  /\ IF job[j].snap = "none" THEN job' = [job EXCEPT ![j].snap = "raw"] /\ To(w, j, "parsing")
                             ELSE UNCHANGED job /\ To(w, j, "orphaned")
  /\ UNCHANGED <<now, source, origin, phase, batch, stalled, faults, history>>

\* The payload is normalised and its deliveries inserted.
ParseOk(w, j) ==
  /\ At(w, j, "parsing")
  /\ job' = [job EXCEPT ![j].snap = "parsed"]
  /\ To(w, j, "parsed")
  /\ UNCHANGED <<now, source, origin, phase, batch, stalled, faults, history>>

(***************************************************************************)
(* Ending a claim.  finishFetchJob writes nothing for a worker that lost   *)
(* the lease.  Promise.all waits for the whole batch; an error in one      *)
(* claim rejects it at once, and the other claims of the batch run on      *)
(* beside the next one.                                                    *)
(***************************************************************************)
Others(w, j) == {k \in Job \ {j} : task[w][k] # Idle}

EndTask(w, j) ==
  /\ task' = [task EXCEPT ![w][j] = Idle]
  /\ batch' = [batch EXCEPT ![w] = @ \ {j}]
  /\ phase' = [phase EXCEPT ![w] =
                 IF @ = "stopping" THEN IF Others(w, j) = {} THEN "down" ELSE "stopping"
                 ELSE IF batch[w] = {j} THEN "claiming" ELSE @]

\* Mutant of Write: the lease owner is not checked.
WriteUnfenced(w, j, row, src, org) ==
  /\ job' = [job EXCEPT ![j] = row]
  /\ source' = [source EXCEPT ![SourceOf[j]] = src]
  /\ origin' = [origin EXCEPT ![JobOrigin(j)] = org]

Write(w, j, row, src, org) ==
  IF Owns(w, j)
  THEN /\ job' = [job EXCEPT ![j] = row]
       /\ source' = [source EXCEPT ![SourceOf[j]] = src]
       /\ origin' = [origin EXCEPT ![JobOrigin(j)] = org]
  ELSE UNCHANGED tables

Done(j) == Unleased(job[j], "completed")
\* Mutant of Retry: the last attempt is queued again.
RetryOffByOne(j, time) == IF job[j].attempts > MaxAttempts THEN Unleased(job[j], "dead")
                          ELSE [Unleased(job[j], "queued") EXCEPT !.availableAt = time]

Retry(j, time) == IF job[j].attempts >= MaxAttempts THEN Unleased(job[j], "dead")
                  ELSE [Unleased(job[j], "queued") EXCEPT !.availableAt = time]

\* Mutant of Fetched: the time of the request is not recorded.
FetchedUnstamped(w, j, next, backoff) ==
  [source[SourceOf[j]] EXCEPT !.nextFetchAt = next, !.backoffUntil = backoff]

Fetched(w, j, next, backoff) ==
  [source[SourceOf[j]] EXCEPT !.lastFetchAt = task[w][j].at,
                              !.nextFetchAt = next, !.backoffUntil = backoff]
Blocked(j, until) == [origin[JobOrigin(j)] EXCEPT !.blockedUntil = until]

\* completeUnchanged: the publisher answered 304.
NotModified(w, j) ==
  /\ At(w, j, "fetching")
  /\ Write(w, j, Done(j), Fetched(w, j, task[w][j].at + Interval, 0), origin[JobOrigin(j)])
  /\ EndTask(w, j)
  /\ UNCHANGED <<now, stalled, faults, history>>

\* completeParsed: also lifts whatever block the origin has.
CompleteParsed(w, j) ==
  /\ At(w, j, "parsed")
  /\ Write(w, j, Done(j), Fetched(w, j, task[w][j].at + Interval, 0), Blocked(j, 0))
  /\ EndTask(w, j)
  /\ UNCHANGED <<now, stalled, faults, history>>

\* failClaim for an answer or a transport error that may pass: the source waits
\* for delay; the origin waits for block if it asked to, or is at fault itself.
PublisherFailure(w, j, delay, block) ==
  LET at == task[w][j].at IN
  /\ At(w, j, "fetching")
  /\ Write(w, j, Retry(j, at + delay), Fetched(w, j, at + delay, at + delay),
           Blocked(j, IF block = 0 THEN 0 ELSE at + block))
  /\ asked' = IF Owns(w, j) /\ block > 0 /\ at + block > asked[JobOrigin(j)]
              THEN [asked EXCEPT ![JobOrigin(j)] = at + block] ELSE asked
  /\ EndTask(w, j)
  /\ UNCHANGED <<now, stalled, faults, requested>>

\* failClaim for a body that is too large, or is no feed: not tried again.
RejectBody(w, j, delay) ==
  LET until == task[w][j].at + delay IN
  /\ \/ At(w, j, "fetching")
     \/ (At(w, j, "parsing") /\ job[j].snap = "raw" /\ phase[w] # "stopping")
  /\ Write(w, j, IF job[j].attempts >= MaxAttempts THEN Unleased(job[j], "dead") ELSE Done(j),
           Fetched(w, j, until, until), Blocked(j, 0))
  /\ EndTask(w, j)
  /\ UNCHANGED <<now, stalled, faults, history>>

\* completeDiscovery: the body is a web page, which pauses the source.
Discover(w, j) ==
  LET until == task[w][j].at + Pause IN
  /\ At(w, j, "parsing") /\ job[j].snap = "raw"
  /\ Write(w, j, Done(j), Fetched(w, j, until, until), origin[JobOrigin(j)])
  /\ EndTask(w, j)
  /\ UNCHANGED <<now, stalled, faults, history>>

\* handleThrownFailure of a job with a snapshot: recovered later from it.
FailRetryable(w, j) ==
  /\ phase[w] # "stopping"
  /\ \/ At(w, j, "orphaned") /\ UNCHANGED faults
     \/ (At(w, j, "parsing") \/ At(w, j, "parsed")) /\ Fault("error")
  /\ Write(w, j, Retry(j, task[w][j].at + Interval), source[SourceOf[j]], origin[JobOrigin(j)])
  /\ EndTask(w, j)
  /\ UNCHANGED <<now, stalled, history>>

\* The write that ends the claim throws: the row stays leased, drainOnce rejects.
TaskError(w, j) ==
  /\ \E step \in Steps \ {"none", "claimed"} : At(w, j, step)
  /\ Fault("error")
  /\ task' = [task EXCEPT ![w][j] = Idle]
  /\ batch' = [batch EXCEPT ![w] = IF j \in @ THEN {} ELSE @]
  /\ phase' = [phase EXCEPT ![w] =
                 IF @ = "stopping" THEN IF Others(w, j) = {} THEN "down" ELSE "stopping"
                 ELSE IF j \in batch[w] THEN "claiming" ELSE @]
  /\ UNCHANGED <<now, tables, stalled, history>>

(***************************************************************************)
(* Heartbeats, shutdown, crashes and the clock.                            *)
(***************************************************************************)
\* renewFetchJob looks at the owner only: it also revives an expired lease.
Renew(w, j) ==
  /\ \E step \in Steps \ {"none"} : At(w, j, step)
  /\ ~(phase[w] = "claiming" /\ j \in batch[w]) /\ phase[w] # "stopping"
  /\ Owns(w, j)
  /\ job' = [job EXCEPT ![j].leaseUntil = now + Lease]
  /\ UNCHANGED <<now, source, origin, worker, history>>

\* Mutant of Stop: the process exits without waiting for its claims.
StopAtOnce(w) ==
  /\ phase[w] \in {"processing", "claiming"} /\ w \notin stalled
  /\ Fault("stop")
  /\ phase' = [phase EXCEPT ![w] = "down"]
  /\ batch' = [batch EXCEPT ![w] = {}]
  /\ task' = [task EXCEPT ![w] = [j \in Job |-> Idle]]
  /\ UNCHANGED <<now, tables, stalled, history>>

\* SIGTERM aborts the runtime.  The signal is an event: it does not land inside
\* the claims and context reads of a drain, which never leave the microtask queue.
Stop(w) ==
  /\ phase[w] = "processing" \/ (phase[w] = "claiming" /\ batch[w] = {})
  /\ w \notin stalled /\ \A j \in Job : task[w][j].step # "claimed"
  /\ Fault("stop")
  /\ phase' = [phase EXCEPT ![w] = IF \A j \in Job : task[w][j] = Idle
                                   THEN "down" ELSE "stopping"]
  /\ UNCHANGED <<now, tables, batch, task, stalled, history>>

\* releaseFetchJob: whatever is thrown after the abort gives the job back, and
\* the attempt with it.
GivenBack(j) ==
  [Unleased(job[j], "queued") EXCEPT
     !.availableAt = IF job[j].snap = "none" THEN now + Interval ELSE now,
     !.attempts = IF job[j].attempts = 0 THEN 0 ELSE job[j].attempts - 1]

Release(w, j) ==
  /\ phase[w] = "stopping"
  /\ \E step \in Steps \ {"none", "claimed"} : At(w, j, step)
  /\ Write(w, j, GivenBack(j), source[SourceOf[j]], origin[JobOrigin(j)])
  /\ EndTask(w, j)
  /\ UNCHANGED <<now, stalled, faults, history>>

\* The process dies, or stops making progress for a while.
Crash(w) ==
  /\ phase[w] # "down" /\ Fault("crash")
  /\ phase' = [phase EXCEPT ![w] = "down"]
  /\ batch' = [batch EXCEPT ![w] = {}]
  /\ task' = [task EXCEPT ![w] = [j \in Job |-> Idle]]
  /\ stalled' = stalled \ {w}
  /\ UNCHANGED <<now, tables, history>>

Stall(w) ==
  /\ phase[w] # "down" /\ w \notin stalled /\ Fault("stall")
  /\ stalled' = stalled \cup {w}
  /\ UNCHANGED <<now, tables, phase, batch, task, history>>

Resume(w) ==
  /\ w \in stalled
  /\ stalled' = stalled \ {w}
  /\ UNCHANGED <<now, tables, phase, batch, task, faults, history>>

\* A new process takes a new random worker id.
Start(w) ==
  /\ phase[w] = "down"
  /\ phase' = [phase EXCEPT ![w] = "claiming"]
  /\ job' = [j \in Job |-> IF job[j].owner = w THEN [job[j] EXCEPT !.owner = Gone] ELSE job[j]]
  /\ UNCHANGED <<now, source, origin, batch, task, stalled, faults, history>>

\* The heartbeat of a process that is not stalled is in time.
Tick ==
  /\ now < Horizon
  /\ \A w \in Worker \ stalled, j \in Job :
       task[w][j] # Idle /\ Owns(w, j) => job[j].leaseUntil > now + 1
  /\ now' = now + 1
  /\ UNCHANGED <<tables, worker, history>>

EndsClaim(w, j) ==
  \/ NotModified(w, j) \/ CompleteParsed(w, j) \/ Discover(w, j) \/ FailRetryable(w, j)
  \/ TaskError(w, j) \/ Release(w, j)
  \/ \E d \in FailureDelays : RejectBody(w, j, d)
  \/ \E d \in FailureDelays, b \in OriginWaits \cup {0} : PublisherFailure(w, j, d, b)

Next ==
  \/ EnqueueDueSources
  \/ \E s \in Source : Refresh(s)
  \/ \E s \in Fickle : Subscribe(s) \/ Unsubscribe(s)
  \/ \E w \in Worker, j \in Job :
       \/ ClaimFetchJob(w, j) \/ Begin(w, j) \/ ReceiveBody(w, j) \/ ParseOk(w, j)
       \/ EndsClaim(w, j) \/ Renew(w, j)
  \/ \E w \in Worker :
       \/ ClaimNothing(w) \/ ClaimError(w) \/ Stop(w) \/ Crash(w)
       \/ Stall(w) \/ Resume(w) \/ Start(w)
  \/ Tick

Spec == Init /\ [][Next]_vars

(***************************************************************************)
(* Properties.                                                             *)
(***************************************************************************)
Starts(w, j) == task[w][j].step = "claimed" /\ task'[w][j].step = "fetching"
NoFault(kinds) == \A k \in kinds : faults[k] = 0

\* While no process stalls, a claim in progress holds a lease that has not run
\* out: no step of another worker, of the sweep or of the API takes it away.
\* Every write of finishFetchJob rests on it.
LeaseHeld ==
  NoFault({"stall"}) =>
    \A w \in Worker, j \in Job :
      task[w][j] # Idle => Owns(w, j) /\ job[j].leaseUntil > now

\* While no process stalls, an origin is asked one thing at a time, by all the
\* workers together, crashes and restarts included.
OriginSingleFlight ==
  NoFault({"stall"}) =>
    \A v, w \in Worker, j, k \in Job :
      /\ task[v][j].step = "fetching" /\ task[w][k].step = "fetching"
      /\ JobOrigin(j) = JobOrigin(k)
      => v = w /\ j = k

\* A request never starts before the source's backoff and the origin's block on
\* record have passed, although both were read when the job was claimed.
RequestsRespectBlocks ==
  [][\A w \in Worker, j \in Job :
       Starts(w, j) /\ NoFault({"stall"}) =>
         /\ source[SourceOf[j]].backoffUntil <= now
         /\ origin[JobOrigin(j)].blockedUntil <= now]_vars

\* While nothing throws, a worker has at most networkConcurrency requests in
\* flight: drainOnce waits for a whole batch.
Flying(w) == {j \in Job : task[w][j].step = "fetching"}
NetworkBound ==
  NoFault({"error"}) => \A w \in Worker : Cardinality(Flying(w)) <= NetworkConcurrency

\* Nothing but a fault or a shutdown makes the pipeline ask for a source again
\* within the safety interval, whoever asks for a refresh and however often.
Hurried(w, j) == requested[SourceOf[j]] > 0 /\ requested[SourceOf[j]] + Interval > now
CadenceKept ==
  [][\A w \in Worker, j \in Job :
       Starts(w, j) /\ NoFault(FaultKind) => ~Hurried(w, j)]_vars

\* A process that stopped on a signal, with nothing thrown on the way, leaves no
\* job leased to it: all it held was finished or given back.
StopReleasesAll ==
  \A w \in Worker :
    phase[w] = "down" /\ NoFault({"crash", "error"}) =>
      \A j \in Job : job[j].owner # w

\* A batch keeps its bounds: while nothing throws, at most networkConcurrency requests of a worker
\* are in flight, and a shutdown leaves no lease behind (drainOnce, stop).
BatchesHold == NetworkBound /\ StopReleasesAll

\* No late call of a worker that lost a lease takes the lease of the next owner:
\* an unexpired lease ends only when its own holder ends the claim, or is gone.
LeaseNotStolen ==
  [][\A w \in Worker, j \in Job :
       job[j].owner = w /\ job[j].leaseUntil > now /\ job'[j].owner # w =>
         \/ task[w][j] # Idle /\ task'[w][j] = Idle
         \/ phase[w] = "down"]_vars

\* What the code does not keep (see README): a request starts while a wait the
\* origin asked for has not passed.
OriginKeepsItsBlock ==
  [][\A w \in Worker, j \in Job :
       Starts(w, j) /\ NoFault({"stall"}) => asked[JobOrigin(j)] <= now]_vars

\* What the code does not keep: the safety interval, across a graceful shutdown.
SafetyInterval ==
  [][\A w \in Worker, j \in Job : Starts(w, j) => ~Hurried(w, j)]_vars
=============================================================================

--------------------------- MODULE FetchJobs_proofs ---------------------------
(***************************************************************************)
(* Theorems about FetchJobs, for every value of its constants.             *)
(*                                                                         *)
(*   TypeCorrect           Spec => []TypeOK                                *)
(*   LeasesAreHeld         Spec => []LeaseHeld                             *)
(*   OneRequestPerOrigin   Spec => []OriginSingleFlight                    *)
(*   NoLeaseIsStolen       Spec => LeaseNotStolen                          *)
(*   RequestsWaitForBlocks Spec => RequestsRespectBlocks                   *)
(*   CadenceHolds          Spec => CadenceKept                             *)
(*   BatchesKept           Spec => []BatchesHold                           *)
(*                                                                         *)
(* and, after them, about FeedHealth, which says where its waits come from *)
(* (Health!Spec, for any sources, kinds of failure and answers):           *)
(*                                                                         *)
(*   HealthTypes       []TypeOK                                            *)
(*   BackoffIsBounded  [](WaitsBounded /\ LongFailureRests /\              *)
(*                       ClosedIsHealthy)                                  *)
(*   BackoffGrows      [][OnlySuccessForgives /\ WaitsGrow]_vars           *)
(*                                                                         *)
(* The types are inductive as they stand.  Single flight is not: two       *)
(* requests are kept apart by the rows of the table, so the invariant ties *)
(* each request in flight to an unexpired lease on a row without snapshot, *)
(* and allows one such lease per origin.                                   *)
(***************************************************************************)
EXTENDS FetchJobs, FiniteSetTheorems, TLAPS

\* The constants, one by one, with the types the steps below need.
LEMMA Parameters ==
  /\ MaxAttempts \in Nat /\ MaxAttempts > 0
  /\ Lease \in Nat /\ Lease > 1
  /\ Interval \in Nat /\ Pause \in Nat /\ Epoch \in Nat
  /\ FailureDelays \subseteq Nat /\ OriginWaits \subseteq Nat
  /\ NoOwner \notin Worker /\ Gone # NoOwner
  /\ OriginOf \in [Source -> Origin] /\ SourceOf \in [Job -> Source]
  /\ Fickle \subseteq Source
BY ParametersAssumption

\* What a row becomes is a sound row again.
LEMMA NewJobSound ==
  ASSUME TypeOK, NEW kind \in {"scheduled", "manual"}
  PROVE  NewJob(kind) \in Row /\ Sound(NewJob(kind))
<1>1. now \in Nat
  BY DEF TypeOK
<1> QED BY <1>1, Parameters DEF NewJob, Row, Sound

LEMMA ClosedSound ==
  ASSUME TypeOK, NEW j \in Job, NEW status \in {"completed", "dead"}
  PROVE  Unleased(job[j], status) \in Row /\ Sound(Unleased(job[j], status))
<1>1. job[j] \in Row
  BY DEF TypeOK, JobsOK
<1>2. Unleased(job[j], status) \in Row
  BY <1>1, Parameters DEF Unleased, Row
<1>3. /\ Unleased(job[j], status).status = status
      /\ Unleased(job[j], status).owner = NoOwner
  BY <1>1 DEF Unleased, Row
<1> QED BY <1>2, <1>3 DEF Sound

LEMMA RetrySound ==
  ASSUME TypeOK, NEW j \in Job, NEW time \in Nat
  PROVE  Retry(j, time) \in Row /\ Sound(Retry(j, time))
<1>1. CASE job[j].attempts >= MaxAttempts
  BY <1>1, ClosedSound DEF Retry
<1>2. CASE ~(job[j].attempts >= MaxAttempts)
  <2>1. job[j] \in Row /\ job[j].attempts \in Nat
    BY Parameters DEF TypeOK, JobsOK, Row
  <2> DEFINE row == [Unleased(job[j], "queued") EXCEPT !.availableAt = time]
  <2>2. Retry(j, time) = row
    BY <1>2 DEF Retry
  <2>3. row \in Row
    BY <2>1, Parameters DEF Unleased, Row
  <2>4. row.status = "queued" /\ row.owner = NoOwner /\ row.attempts = job[j].attempts
    BY <2>1 DEF Unleased, Row
  <2> QED BY <1>2, <2>1, <2>2, <2>3, <2>4, Parameters DEF Sound
<1> QED BY <1>1, <1>2

LEMMA ClaimedSound ==
  ASSUME TypeOK, NEW w \in Worker, NEW j \in Job, job[j].attempts < MaxAttempts
  PROVE  Claimed(w, job[j]) \in Row /\ Sound(Claimed(w, job[j]))
<1>1. job[j] \in Row /\ now \in Nat
  BY DEF TypeOK, JobsOK
<1>a. job[j].attempts \in Nat /\ job[j].attempts + 1 \in 0..MaxAttempts /\ now + Lease \in Nat
  BY <1>1, Parameters DEF Row
<1>2. Claimed(w, job[j]) \in Row
  BY <1>1, <1>a, Parameters DEF Claimed, Row
<1>3. /\ Claimed(w, job[j]).status = "running" /\ Claimed(w, job[j]).owner = w
      /\ Claimed(w, job[j]).attempts > 0 /\ Claimed(w, job[j]).leaseUntil > 0
  BY <1>1, <1>a, Parameters DEF Claimed, Row
<1> QED BY <1>2, <1>3, Parameters DEF Sound

LEMMA SweptSound ==
  ASSUME TypeOK, NEW j \in Job
  PROVE  Swept(j) \in Row /\ Sound(Swept(j))
BY ClosedSound DEF TypeOK, JobsOK, Swept

\* One row changes, or every row does, and every row stays sound.
LEMMA UpdateSound ==
  ASSUME TypeOK, NEW j \in Job, NEW row \in Row, Sound(row), job' = [job EXCEPT ![j] = row]
  PROVE  JobsOK'
BY DEF TypeOK, JobsOK, Sound

LEMMA FetchedTyped ==
  ASSUME TypeOK, NEW w \in Worker, NEW j \in Job, NEW next \in Nat, NEW backoff \in Nat
  PROVE  Fetched(w, j, next, backoff) \in SourceRow
<1>1. source[SourceOf[j]] \in SourceRow /\ task[w][j].at \in Nat
  BY Parameters DEF TypeOK, Task
<1> QED BY <1>1 DEF Fetched, SourceRow

LEMMA BlockedTyped ==
  ASSUME TypeOK, NEW j \in Job, NEW until \in Nat
  PROVE  Blocked(j, until) \in OriginRow
<1>1. origin[JobOrigin(j)] \in OriginRow
  BY Parameters DEF TypeOK, JobOrigin
<1> QED BY <1>1 DEF Blocked, OriginRow

\* finishFetchJob and releaseFetchJob write rows of the right type.
LEMMA WriteTyped ==
  ASSUME TypeOK, NEW w \in Worker, NEW j \in Job,
         NEW row \in Row, Sound(row), NEW src \in SourceRow, NEW org \in OriginRow,
         Write(w, j, row, src, org)
  PROVE  JobsOK' /\ source' \in [Source -> SourceRow] /\ origin' \in [Origin -> OriginRow]
<1>1. CASE Owns(w, j)
  <2>1. JobsOK'
    BY <1>1, UpdateSound DEF Write
  <2> QED BY <1>1, <2>1 DEF Write, TypeOK
<1>2. CASE ~Owns(w, j)
  BY <1>2 DEF Write, TypeOK, JobsOK, tables, Sound
<1> QED BY <1>1, <1>2

LEMMA EndTaskTyped ==
  ASSUME TypeOK, NEW w \in Worker, NEW j \in Job, EndTask(w, j)
  PROVE  /\ task' \in [Worker -> [Job -> Task]] /\ batch' \in [Worker -> SUBSET Job]
         /\ phase' \in [Worker -> Phases]
<1>1. Idle \in Task
  BY DEF Idle, Task, Steps
<1>2. task' \in [Worker -> [Job -> Task]]
  BY <1>1 DEF EndTask, TypeOK
<1>3. batch' \in [Worker -> SUBSET Job]
  BY DEF EndTask, TypeOK
<1>4. phase' \in [Worker -> Phases]
  BY DEF EndTask, TypeOK, Phases
<1> QED BY <1>2, <1>3, <1>4

\* A fault only ever adds to the counters.
LEMMA FaultTyped ==
  ASSUME TypeOK, NEW k \in FaultKind, Fault(k)
  PROVE  faults' \in [FaultKind -> Nat]
BY DEF Fault, TypeOK

\* What keeps its value keeps its type.
LEMMA TablesTyped ==
  ASSUME TypeOK, UNCHANGED tables
  PROVE  JobsOK' /\ source' \in [Source -> SourceRow] /\ origin' \in [Origin -> OriginRow]
BY DEF TypeOK, JobsOK, Sound, tables

LEMMA WorkerTyped ==
  ASSUME TypeOK, UNCHANGED worker
  PROVE  /\ phase' \in [Worker -> Phases] /\ batch' \in [Worker -> SUBSET Job]
         /\ task' \in [Worker -> [Job -> Task]] /\ stalled' \subseteq Worker
         /\ faults' \in [FaultKind -> Nat]
BY DEF TypeOK, worker

LEMMA HistoryTyped ==
  ASSUME TypeOK, UNCHANGED history
  PROVE  asked' \in [Origin -> Nat] /\ requested' \in [Source -> Nat]
BY DEF TypeOK, history

LEMMA JobsKept == ASSUME TypeOK, UNCHANGED job PROVE JobsOK'
BY DEF TypeOK, JobsOK, Sound

LEMMA InitTyped == Init => TypeOK
<1> SUFFICES ASSUME Init PROVE TypeOK
  OBVIOUS
<1>1. JobsOK
  BY Parameters DEF Init, JobsOK, Row, Sound
<1>2. source \in [Source -> SourceRow] /\ origin \in [Origin -> OriginRow]
  BY Parameters DEF Init, SourceRow, OriginRow
<1>3. task \in [Worker -> [Job -> Task]]
  BY DEF Init, Idle, Task, Steps
<1> QED BY <1>1, <1>2, <1>3, Parameters DEF Init, TypeOK, Phases

\* Inserting jobs and attaching to them.
LEMMA AttachTyped ==
  ASSUME TypeOK, NEW s \in Source, EnqueueOrAttach(s)
  PROVE  JobsOK'
<1>1. CASE /\ ActiveJobs(s) = {} /\ FreeIds(s) # {}
           /\ job' = [job EXCEPT ![FreshId(s)] = NewJob("manual")]
  <2>1. FreshId(s) \in Job
    BY <1>1 DEF FreshId, FreeIds
  <2>2. NewJob("manual") \in Row /\ Sound(NewJob("manual"))
    BY NewJobSound
  <2> QED BY <1>1, <2>1, <2>2, UpdateSound
<1>2. CASE \E j \in ActiveJobs(s) :
             job' = [job EXCEPT ![j].kind = "manual",
                                ![j].availableAt = IF @ > now THEN now ELSE @]
  <2>1. PICK j \in Job : job' = [job EXCEPT ![j].kind = "manual",
                                   ![j].availableAt = IF @ > now THEN now ELSE @]
    BY <1>2 DEF ActiveJobs
  <2> DEFINE row == [job[j] EXCEPT !.kind = "manual",
                       !.availableAt = IF job[j].availableAt > now THEN now ELSE job[j].availableAt]
  <2>2. job[j] \in Row /\ Sound(job[j]) /\ now \in Nat
    BY DEF TypeOK, JobsOK
  <2>3. row \in Row /\ Sound(row)
    BY <2>2 DEF Row, Sound
  <2>4. job' = [job EXCEPT ![j] = row]
    BY <2>1 DEF TypeOK, JobsOK
  <2> QED BY <2>3, <2>4, UpdateSound
<1> QED BY <1>1, <1>2 DEF EnqueueOrAttach

\* Claiming: the sweep and the new lease leave sound rows.
LEMMA SweepTyped ==
  ASSUME TypeOK, job' = [j \in Job |-> Swept(j)]
  PROVE  JobsOK'
BY SweptSound DEF JobsOK, Sound

LEMMA ClaimTyped ==
  ASSUME TypeOK, NEW w \in Worker, NEW c \in Job, ClaimFetchJob(w, c)
  PROVE  TypeOK'
<1>1. Claimed(w, job[c]) \in Row /\ Sound(Claimed(w, job[c]))
  BY ClaimedSound DEF ClaimFetchJob, Candidate, Eligible, JobDue
<1>2. job' = [j \in Job |-> IF j = c THEN Claimed(w, job[j]) ELSE Swept(j)]
  BY DEF ClaimFetchJob
<1>3. JobsOK'
  BY <1>1, <1>2, SweptSound DEF JobsOK, Sound
<1>4. origin' \in [Origin -> OriginRow]
  <2>1. origin[JobOrigin(c)] \in OriginRow /\ now \in Nat
    BY Parameters DEF TypeOK, JobOrigin
  <2> QED BY <2>1 DEF ClaimFetchJob, TypeOK, OriginRow
<1>5. task' \in [Worker -> [Job -> Task]]
  <2>1. [step |-> "claimed", at |-> 0] \in Task
    BY DEF Task, Steps
  <2> QED BY <2>1 DEF ClaimFetchJob, TypeOK
<1>6. batch' \in [Worker -> SUBSET Job] /\ phase' \in [Worker -> Phases]
  BY DEF ClaimFetchJob, TypeOK, Phases
<1> QED BY <1>3, <1>4, <1>5, <1>6, HistoryTyped DEF ClaimFetchJob, TypeOK

\* The calls that write a finished claim, by what they write.
LEMMA EndsTyped ==
  ASSUME TypeOK, NEW w \in Worker, NEW j \in Job, EndsClaim(w, j)
  PROVE  TypeOK'
<1> DEFINE at == task[w][j].at
<1>at. at \in Nat /\ job[j] \in Row /\ now \in Nat
  BY DEF TypeOK, JobsOK, Task
<1>lift. Blocked(j, 0) \in OriginRow
  BY BlockedTyped
<1>src. source[SourceOf[j]] \in SourceRow /\ origin[JobOrigin(j)] \in OriginRow
  BY Parameters DEF TypeOK, JobOrigin
<1>done. Done(j) \in Row /\ Sound(Done(j))
  BY ClosedSound DEF Done
<1>dead. Unleased(job[j], "dead") \in Row /\ Sound(Unleased(job[j], "dead"))
  BY ClosedSound
<1>1. CASE NotModified(w, j)
  <2>1. Fetched(w, j, at + Interval, 0) \in SourceRow
    BY <1>at, Parameters, FetchedTyped
  <2>2. JobsOK' /\ source' \in [Source -> SourceRow] /\ origin' \in [Origin -> OriginRow]
    BY <1>1, <1>src, <1>done, <2>1, WriteTyped DEF NotModified
  <2> QED BY <1>1, <2>2, EndTaskTyped, HistoryTyped DEF NotModified, TypeOK
<1>2. CASE CompleteParsed(w, j)
  <2>1. Fetched(w, j, at + Interval, 0) \in SourceRow
    BY <1>at, Parameters, FetchedTyped
  <2>2. JobsOK' /\ source' \in [Source -> SourceRow] /\ origin' \in [Origin -> OriginRow]
    BY <1>2, <1>done, <1>lift, <2>1, WriteTyped DEF CompleteParsed
  <2> QED BY <1>2, <2>2, EndTaskTyped, HistoryTyped DEF CompleteParsed, TypeOK
<1>3. CASE Discover(w, j)
  <2>0. at + Pause \in Nat
    BY <1>at, Parameters
  <2>1. Fetched(w, j, at + Pause, at + Pause) \in SourceRow
    BY <2>0, FetchedTyped
  <2>2. JobsOK' /\ source' \in [Source -> SourceRow] /\ origin' \in [Origin -> OriginRow]
    BY <1>3, <1>src, <1>done, <2>1, WriteTyped DEF Discover
  <2> QED BY <1>3, <2>2, EndTaskTyped, HistoryTyped DEF Discover, TypeOK
<1>4. CASE FailRetryable(w, j)
  <2>1. Retry(j, at + Interval) \in Row /\ Sound(Retry(j, at + Interval))
    BY <1>at, Parameters, RetrySound
  <2>2. JobsOK' /\ source' \in [Source -> SourceRow] /\ origin' \in [Origin -> OriginRow]
    BY <1>4, <1>src, <2>1, WriteTyped DEF FailRetryable
  <2>3. faults' \in [FaultKind -> Nat]
    <3>1. faults' = faults \/ Fault("error")
      BY <1>4 DEF FailRetryable
    <3>2. "error" \in FaultKind
      BY DEF FaultKind
    <3> QED BY <3>1, <3>2, FaultTyped DEF TypeOK
  <2> QED BY <1>4, <2>2, <2>3, EndTaskTyped, HistoryTyped DEF FailRetryable, TypeOK
<1>5. CASE TaskError(w, j)
  <2>1. task' \in [Worker -> [Job -> Task]]
    <3>1. Idle \in Task
      BY DEF Idle, Task, Steps
    <3> QED BY <1>5, <3>1 DEF TaskError, TypeOK
  <2>2. batch' \in [Worker -> SUBSET Job] /\ phase' \in [Worker -> Phases]
    BY <1>5 DEF TaskError, TypeOK, Phases
  <2>3. faults' \in [FaultKind -> Nat]
    BY <1>5, FaultTyped DEF TaskError, FaultKind
  <2> QED BY <1>5, <2>1, <2>2, <2>3, TablesTyped, HistoryTyped DEF TaskError, TypeOK
<1>6. CASE Release(w, j)
  <2>1. GivenBack(j) \in Row /\ Sound(GivenBack(j))
    <3>1. job[j].attempts \in 0..MaxAttempts
      BY <1>at DEF Row
    <3> DEFINE time == IF job[j].snap = "none" THEN now + Interval ELSE now
               left == IF job[j].attempts = 0 THEN 0 ELSE job[j].attempts - 1
    <3>a. time \in Nat /\ left \in 0..MaxAttempts
      BY <1>at, <3>1, Parameters
    <3>b. Unleased(job[j], "queued") \in Row
      BY <1>at, Parameters DEF Unleased, Row
    <3>2. GivenBack(j) \in Row
      BY <3>a, <3>b DEF GivenBack, Row
    <3>3. /\ GivenBack(j).status = "queued" /\ GivenBack(j).owner = NoOwner
          /\ GivenBack(j).attempts < MaxAttempts
      BY <1>at, <3>1, Parameters DEF GivenBack, Unleased, Row
    <3> QED BY <3>2, <3>3 DEF Sound
  <2>2. JobsOK' /\ source' \in [Source -> SourceRow] /\ origin' \in [Origin -> OriginRow]
    BY <1>6, <1>src, <2>1, WriteTyped DEF Release
  <2> QED BY <1>6, <2>2, EndTaskTyped, HistoryTyped DEF Release, TypeOK
<1>7. ASSUME NEW d \in FailureDelays, RejectBody(w, j, d)
      PROVE  TypeOK'
  <2>0. d \in Nat /\ at + d \in Nat
    BY <1>at, Parameters
  <2>1. Fetched(w, j, at + d, at + d) \in SourceRow
    BY <2>0, FetchedTyped
  <2>2. JobsOK' /\ source' \in [Source -> SourceRow] /\ origin' \in [Origin -> OriginRow]
    BY <1>7, <1>done, <1>dead, <1>lift, <2>1, WriteTyped DEF RejectBody
  <2> QED BY <1>7, <2>2, EndTaskTyped, HistoryTyped DEF RejectBody, TypeOK
<1>8. ASSUME NEW d \in FailureDelays, NEW b \in OriginWaits \cup {0},
             PublisherFailure(w, j, d, b)
      PROVE  TypeOK'
  <2> DEFINE until == IF b = 0 THEN 0 ELSE at + b
  <2>0. d \in Nat /\ b \in Nat
    BY Parameters
  <2>1. d \in Nat /\ b \in Nat /\ until \in Nat /\ at + b \in Nat
    BY <1>at, <2>0
  <2>2. /\ Fetched(w, j, at + d, at + d) \in SourceRow /\ Blocked(j, until) \in OriginRow
        /\ Retry(j, at + d) \in Row /\ Sound(Retry(j, at + d))
    BY <1>at, <2>1, FetchedTyped, BlockedTyped, RetrySound
  <2>3. Write(w, j, Retry(j, at + d), Fetched(w, j, at + d, at + d), Blocked(j, until))
    BY <1>8 DEF PublisherFailure
  <2>4. JobsOK' /\ source' \in [Source -> SourceRow] /\ origin' \in [Origin -> OriginRow]
    BY <2>2, <2>3, WriteTyped
  <2>5. asked' \in [Origin -> Nat]
    BY <1>8, <2>1 DEF PublisherFailure, TypeOK
  <2> QED BY <1>8, <2>4, <2>5, EndTaskTyped DEF PublisherFailure, TypeOK
<1> QED BY <1>1, <1>2, <1>3, <1>4, <1>5, <1>6, <1>7, <1>8 DEF EndsClaim

LEMMA ToTyped ==
  ASSUME TypeOK, NEW w \in Worker, NEW j \in Job, NEW step \in Steps, To(w, j, step)
  PROVE  task' \in [Worker -> [Job -> Task]]
<1>1. task[w][j] \in Task
  BY DEF TypeOK
<1>2. [task[w][j] EXCEPT !.step = step] \in Task
  BY <1>1 DEF Task
<1> QED BY <1>2 DEF To, TypeOK

\* No step leaves the types.
LEMMA NextTyped == TypeOK /\ [Next]_vars => TypeOK'
<1> SUFFICES ASSUME TypeOK, [Next]_vars PROVE TypeOK'
  OBVIOUS
<1>1. CASE EnqueueDueSources
  <2>1. \A s \in Source : Due(s) => FreshId(s) \in Job
    BY DEF Due, FreshId, FreeIds
  <2>2. NewJob("scheduled") \in Row /\ Sound(NewJob("scheduled"))
    BY NewJobSound
  <2>3. JobsOK'
    BY <1>1, <2>2 DEF EnqueueDueSources, TypeOK, JobsOK, Sound
  <2> QED BY <1>1, <2>3, WorkerTyped, HistoryTyped DEF EnqueueDueSources, TypeOK
<1>2. ASSUME NEW s \in Source, Refresh(s) PROVE TypeOK'
  BY <1>2, AttachTyped, WorkerTyped, HistoryTyped DEF Refresh, TypeOK
<1>3. ASSUME NEW s \in Fickle, Subscribe(s) PROVE TypeOK'
  <2>1. s \in Source
    BY Parameters
  <2>2. JobsOK'
    BY <1>3, <2>1, AttachTyped, JobsKept DEF Subscribe
  <2>3. source' \in [Source -> SourceRow]
    BY <1>3, <2>1 DEF Subscribe, TypeOK, SourceRow
  <2> QED BY <1>3, <2>2, <2>3, WorkerTyped, HistoryTyped DEF Subscribe, TypeOK
<1>4. ASSUME NEW s \in Fickle, Unsubscribe(s) PROVE TypeOK'
  <2>0. s \in Source
    BY Parameters
  <2>1. source' \in [Source -> SourceRow]
    BY <1>4, <2>0 DEF Unsubscribe, TypeOK, SourceRow
  <2> QED BY <1>4, <2>1, JobsKept, WorkerTyped, HistoryTyped DEF Unsubscribe, TypeOK
<1>5. ASSUME NEW w \in Worker, NEW j \in Job, ClaimFetchJob(w, j) PROVE TypeOK'
  BY <1>5, ClaimTyped
<1>6. ASSUME NEW w \in Worker, NEW j \in Job, Begin(w, j) PROVE TypeOK'
  <2>1. now \in Nat /\ SourceOf[j] \in Source
    BY Parameters DEF TypeOK
  <2>2. /\ [step |-> "fetching", at |-> now] \in Task
        /\ [step |-> "parsing", at |-> now] \in Task
    BY <2>1 DEF Task, Steps
  <2>3. task' \in [Worker -> [Job -> Task]]
    <3>1. PICK t \in Task : task' = [task EXCEPT ![w][j] = t]
      BY <1>6, <2>2 DEF Begin
    <3> QED BY <3>1 DEF TypeOK
  <2>4. requested' \in [Source -> Nat]
    BY <1>6, <2>1 DEF Begin, TypeOK
  <2> QED BY <1>6, <2>3, <2>4, TablesTyped DEF Begin, TypeOK
<1>7. ASSUME NEW w \in Worker, NEW j \in Job, ReceiveBody(w, j) PROVE TypeOK'
  <2>1. task[w][j] \in Task /\ job[j] \in Row /\ Sound(job[j])
    BY DEF TypeOK, JobsOK
  <2>2. task' \in [Worker -> [Job -> Task]]
    <3>1. To(w, j, "parsing") \/ To(w, j, "orphaned")
      BY <1>7 DEF ReceiveBody
    <3> QED BY <3>1, ToTyped DEF Steps
  <2>3. [job[j] EXCEPT !.snap = "raw"] \in Row /\ Sound([job[j] EXCEPT !.snap = "raw"])
    BY <2>1 DEF Row, Sound
  <2>4. JobsOK'
    BY <1>7, <2>3, UpdateSound, JobsKept DEF ReceiveBody, TypeOK, JobsOK
  <2> QED BY <1>7, <2>2, <2>4, HistoryTyped DEF ReceiveBody, TypeOK
<1>8. ASSUME NEW w \in Worker, NEW j \in Job, ParseOk(w, j) PROVE TypeOK'
  <2>1. task[w][j] \in Task /\ job[j] \in Row /\ Sound(job[j])
    BY DEF TypeOK, JobsOK
  <2>2. task' \in [Worker -> [Job -> Task]]
    BY <1>8, ToTyped DEF ParseOk, Steps
  <2>3. [job[j] EXCEPT !.snap = "parsed"] \in Row /\ Sound([job[j] EXCEPT !.snap = "parsed"])
    BY <2>1 DEF Row, Sound
  <2>4. JobsOK'
    BY <1>8, <2>3, UpdateSound DEF ParseOk, TypeOK, JobsOK
  <2> QED BY <1>8, <2>2, <2>4, HistoryTyped DEF ParseOk, TypeOK
<1>9. ASSUME NEW w \in Worker, NEW j \in Job, EndsClaim(w, j) PROVE TypeOK'
  BY <1>9, EndsTyped
<1>10. ASSUME NEW w \in Worker, NEW j \in Job, Renew(w, j) PROVE TypeOK'
  <2> DEFINE row == [job[j] EXCEPT !.leaseUntil = now + Lease]
  <2>1. job[j] \in Row /\ Sound(job[j]) /\ now + Lease \in Nat /\ now + Lease > 0
    BY Parameters DEF TypeOK, JobsOK
  <2>2. row \in Row /\ Sound(row)
    BY <2>1 DEF Row, Sound
  <2>3. JobsOK'
    BY <1>10, <2>2, UpdateSound DEF Renew, TypeOK, JobsOK
  <2> QED BY <1>10, <2>3, WorkerTyped, HistoryTyped DEF Renew, TypeOK
<1>11. ASSUME NEW w \in Worker, ClaimNothing(w) PROVE TypeOK'
  BY <1>11, SweepTyped, HistoryTyped DEF ClaimNothing, TypeOK, Phases
<1>12. ASSUME NEW w \in Worker, ClaimError(w) PROVE TypeOK'
  <2>1. Idle \in Task /\ "error" \in FaultKind
    BY DEF Idle, Task, Steps, FaultKind
  <2>2. task' \in [Worker -> [Job -> Task]] /\ batch' \in [Worker -> SUBSET Job]
    BY <1>12, <2>1 DEF ClaimError, TypeOK
  <2> QED BY <1>12, <2>1, <2>2, FaultTyped, TablesTyped, HistoryTyped DEF ClaimError, TypeOK
<1>13. ASSUME NEW w \in Worker, Stop(w) \/ Crash(w) \/ Stall(w) \/ Resume(w) PROVE TypeOK'
  <2>1. Idle \in Task /\ {"stop", "crash", "stall"} \subseteq FaultKind
    BY DEF Idle, Task, Steps, FaultKind
  <2>2. /\ task' \in [Worker -> [Job -> Task]] /\ batch' \in [Worker -> SUBSET Job]
        /\ phase' \in [Worker -> Phases] /\ stalled' \subseteq Worker
    <3>1. CASE Stop(w)
      BY <3>1 DEF Stop, TypeOK, Phases
    <3>2. CASE Crash(w)
      BY <2>1, <3>2 DEF Crash, TypeOK, Phases
    <3>3. CASE Stall(w) \/ Resume(w)
      BY <3>3 DEF Stall, Resume, TypeOK
    <3> QED BY <1>13, <3>1, <3>2, <3>3
  <2>3. faults' \in [FaultKind -> Nat]
    BY <1>13, <2>1, FaultTyped DEF Stop, Crash, Stall, Resume, TypeOK
  <2>4. now' = now /\ UNCHANGED tables /\ UNCHANGED history
    BY <1>13 DEF Stop, Crash, Stall, Resume
  <2> QED BY <2>2, <2>3, <2>4, TablesTyped, HistoryTyped DEF TypeOK
<1>14. ASSUME NEW w \in Worker, Start(w) PROVE TypeOK'
  <2>1. ASSUME NEW j \in Job
        PROVE  job'[j] \in Row /\ Sound(job'[j])
    <3>0. job[j] \in Row /\ Sound(job[j])
      BY DEF TypeOK, JobsOK
    <3>1. job[j] \in Row /\ Sound(job[j]) /\ [job[j] EXCEPT !.owner = Gone] \in Row
      BY <3>0 DEF Row
    <3>2. job[j].owner = w => Sound([job[j] EXCEPT !.owner = Gone])
      BY <3>1, Parameters DEF Sound, Row
    <3> QED BY <1>14, <3>1, <3>2 DEF Start
  <2>2. JobsOK'
    BY <1>14, <2>1 DEF Start, JobsOK, Sound
  <2> QED BY <1>14, <2>2, HistoryTyped DEF Start, TypeOK, Phases
<1>15. CASE Tick
  BY <1>15, TablesTyped, WorkerTyped, HistoryTyped DEF Tick, TypeOK
<1>16. CASE UNCHANGED vars
  BY <1>16, JobsKept DEF vars, TypeOK
<1> QED BY <1>1, <1>2, <1>3, <1>4, <1>5, <1>6, <1>7, <1>8, <1>9, <1>10, <1>11, <1>12,
           <1>13, <1>14, <1>15, <1>16 DEF Next

\* Rows, tasks and counters keep their types, and every active row stays one that
\* can be claimed again.
THEOREM TypeCorrect == Spec => []TypeOK
<1> QED BY InitTyped, NextTyped, PTL DEF Spec

(***************************************************************************)
(* Single flight.  OriginSingleFlight is not inductive by itself.  What    *)
(* carries it is that a claim in progress holds a live lease (LeaseHeld),  *)
(* that a job whose request is in flight has no snapshot yet, and that an  *)
(* origin has one live lease of a job without a snapshot at most.  These   *)
(* hold while no process has stalled: LeaseHeld needs every heartbeat.     *)
(***************************************************************************)
Calm == NoFault({"stall"})
Bare(j) == job[j].status = "running" /\ job[j].leaseUntil > now /\ job[j].snap = "none"

NoneStalled == Calm => stalled = {}
DownIdle == \A w \in Worker : phase[w] = "down" => \A j \in Job : task[w][j] = Idle
FetchingBare == Calm => \A w \in Worker, j \in Job :
                          task[w][j].step = "fetching" => job[j].snap = "none"
OneLeasePerOrigin == Calm => \A j, k \in Job :
                          Bare(j) /\ Bare(k) /\ JobOrigin(j) = JobOrigin(k) => j = k

IInv == TypeOK /\ NoneStalled /\ DownIdle /\ LeaseHeld /\ FetchingBare /\ OneLeasePerOrigin

\* The steps, by what they do to leases and tasks.
SameLease(j) == /\ job'[j].status = job[j].status /\ job'[j].owner = job[j].owner
                /\ job'[j].leaseUntil = job[j].leaseUntil
SameRow(j) == SameLease(j) /\ job'[j].snap = job[j].snap
Kept == UNCHANGED <<phase, task, stalled, faults>>

LEMMA FaultsCount ==
  ASSUME TypeOK, [Next]_vars
  PROVE  faults' = faults \/ \E k \in FaultKind : Fault(k)
<1>1. {"error", "stop", "crash", "stall"} \subseteq FaultKind
  BY DEF FaultKind
<1>2. ASSUME NEW w \in Worker, NEW j \in Job, EndsClaim(w, j)
      PROVE  faults' = faults \/ Fault("error")
  BY <1>2 DEF EndsClaim, NotModified, CompleteParsed, Discover, FailRetryable, TaskError,
              Release, RejectBody, PublisherFailure
<1>3. CASE \E w \in Worker, j \in Job : EndsClaim(w, j)
  BY <1>1, <1>2, <1>3
<1>4. CASE ~\E w \in Worker, j \in Job : EndsClaim(w, j)
  BY <1>1, <1>4 DEF Next, vars, worker, EnqueueDueSources, Refresh, Subscribe, Unsubscribe,
     ClaimFetchJob, Begin, ReceiveBody, ParseOk, Renew, ClaimNothing, ClaimError, Stop,
     Crash, Stall, Resume, Start, Tick
<1> QED BY <1>3, <1>4

\* The counters only grow: what has not happened yet had not happened before.
LEMMA NoFaultBefore ==
  ASSUME TypeOK, [Next]_vars, NEW kinds \in SUBSET FaultKind, NoFault(kinds)'
  PROVE  NoFault(kinds)
<1>1. CASE faults' = faults
  BY <1>1 DEF NoFault
<1>2. ASSUME NEW k \in FaultKind, Fault(k), NEW i \in kinds
      PROVE  faults[i] = 0
  <2>1. i \in FaultKind /\ faults \in [FaultKind -> Nat] /\ faults'[i] = 0
    BY DEF TypeOK, NoFault
  <2>2. faults[i] \in Nat /\ faults'[i] = IF i = k THEN faults[i] + 1 ELSE faults[i]
    BY <1>2, <2>1 DEF Fault
  <2> QED BY <2>1, <2>2
<1> QED BY <1>1, <1>2, FaultsCount DEF NoFault

LEMMA NoFaultNow ==
  ASSUME TypeOK, NEW kinds \in SUBSET FaultKind, NoFault(kinds)', NEW k \in kinds
  PROVE  ~Fault(k)
<1>1. k \in FaultKind /\ faults \in [FaultKind -> Nat] /\ faults'[k] = 0
  BY DEF TypeOK, NoFault
<1> QED BY <1>1 DEF Fault

LEMMA CalmBefore ==
  ASSUME TypeOK, [Next]_vars, Calm'
  PROVE  Calm
BY NoFaultBefore DEF Calm, FaultKind

\* Inserting touches only rows nobody works on; attaching touches no lease.
LEMMA AttachEffect ==
  ASSUME TypeOK, NEW s \in Source, EnqueueOrAttach(s) \/ job' = job
  PROVE  \A j \in Job : \/ SameRow(j)
                        \/ /\ job'[j].status = "queued" /\ job[j].status # "running"
                           /\ \A w \in Worker : task[w][j] = Idle
<1>1. CASE /\ ActiveJobs(s) = {} /\ FreeIds(s) # {}
           /\ job' = [job EXCEPT ![FreshId(s)] = NewJob("manual")]
  <2>1. FreshId(s) \in FreeIds(s)
    BY <1>1 DEF FreshId
  <2> QED BY <1>1, <2>1 DEF FreeIds, Active, NewJob, SameRow, SameLease, TypeOK, JobsOK
<1>2. CASE \E j \in ActiveJobs(s) :
             job' = [job EXCEPT ![j].kind = "manual",
                                ![j].availableAt = IF @ > now THEN now ELSE @]
  <2>1. PICK j \in Job : job' = [job EXCEPT ![j].kind = "manual",
                                   ![j].availableAt = IF @ > now THEN now ELSE @]
    BY <1>2 DEF ActiveJobs
  <2> QED BY <2>1 DEF SameRow, SameLease, TypeOK, JobsOK, Row
<1>3. CASE job' = job
  BY <1>3 DEF SameRow, SameLease
<1> QED BY <1>1, <1>2, <1>3 DEF EnqueueOrAttach

LEMMA InsertEffect ==
  ASSUME TypeOK,
         \/ EnqueueDueSources
         \/ \E s \in Source : Refresh(s)
         \/ \E s \in Fickle : Subscribe(s) \/ Unsubscribe(s)
  PROVE  /\ Kept /\ now' = now
         /\ \A j \in Job : \/ SameRow(j)
                           \/ /\ job'[j].status = "queued" /\ job[j].status # "running"
                              /\ \A w \in Worker : task[w][j] = Idle
<1>1. CASE EnqueueDueSources
  <2>1. ASSUME NEW j \in Job, job'[j] # job[j]
        PROVE  job'[j].status = "queued" /\ j \in FreeIds(SourceOf[j])
    BY <1>1, <2>1 DEF EnqueueDueSources, Due, FreshId, NewJob
  <2> QED BY <1>1, <2>1 DEF EnqueueDueSources, FreeIds, Active, Kept, worker, SameRow, SameLease
<1>2. ASSUME NEW s \in Source, Refresh(s)
      PROVE  EnqueueOrAttach(s) /\ Kept /\ now' = now
  BY <1>2 DEF Refresh, Kept, worker
<1>3. ASSUME NEW s \in Fickle, Subscribe(s) \/ Unsubscribe(s)
      PROVE  s \in Source /\ (EnqueueOrAttach(s) \/ job' = job) /\ Kept /\ now' = now
  BY <1>3, Parameters DEF Subscribe, Unsubscribe, Kept, worker
<1> QED BY <1>1, <1>2, <1>3, AttachEffect

\* A claim takes a row that nobody holds; the sweep takes none that is held.
LEMMA SweptRow ==
  ASSUME TypeOK, NEW j \in Job
  PROVE  Swept(j) = job[j] \/ (Swept(j).status # "running"
                               /\ ~(job[j].status = "running" /\ job[j].leaseUntil > now))
<1>1. job[j] \in Row /\ now \in Nat
  BY DEF TypeOK, JobsOK
<1>2. Unleased(job[j], "dead").status = "dead" /\ Unleased(job[j], "completed").status = "completed"
  BY <1>1 DEF Unleased, Row
<1>3. Expired(j) => ~(job[j].status = "running" /\ job[j].leaseUntil > now)
  BY <1>1 DEF Expired, Row
<1> QED BY <1>2, <1>3 DEF Swept, Exhausted, Retired

LEMMA ClaimEffect ==
  ASSUME TypeOK, NEW w \in Worker, NEW c \in Job, ClaimFetchJob(w, c)
  PROVE  /\ ~(job[c].status = "running" /\ job[c].leaseUntil > now)
         /\ job'[c].status = "running" /\ job'[c].owner = w /\ job'[c].leaseUntil > now
         /\ job'[c].snap = job[c].snap
         /\ job[c].snap = "none" => ~OriginBusy(JobOrigin(c))
         /\ \A j \in Job \ {c} : job'[j] = Swept(j)
         /\ now' = now
<1>1. job[c] \in Row /\ now \in Nat
  BY DEF TypeOK, JobsOK
<1>2. JobDue(c) /\ (job[c].snap # "none" \/ ~OriginBusy(JobOrigin(c)))
  BY DEF ClaimFetchJob, Candidate, Eligible
<1>3. ~(job[c].status = "running" /\ job[c].leaseUntil > now)
  BY <1>1, <1>2 DEF JobDue, Expired, Row
<1>4. job'[c] = Claimed(w, job[c]) /\ now' = now
  BY DEF ClaimFetchJob
<1>5. \A j \in Job \ {c} : job'[j] = Swept(j)
  BY DEF ClaimFetchJob
<1> QED BY <1>1, <1>2, <1>3, <1>4, <1>5, Parameters DEF Claimed, Row

\* Ending a claim drops one task, and changes its row only for the lease holder.
LEMMA WriteEffect ==
  ASSUME TypeOK, NEW w \in Worker, NEW j \in Job, NEW row, NEW src, NEW org,
         row.status # "running", Write(w, j, row, src, org)
  PROVE  /\ \A k \in Job \ {j} : job'[k] = job[k]
         /\ job'[j] = job[j] \/ (Owns(w, j) /\ job'[j].status # "running")
BY DEF Write, tables, TypeOK, JobsOK

LEMMA ClosedRow ==
  ASSUME TypeOK, NEW j \in Job, NEW status
  PROVE  /\ Unleased(job[j], status).status = status
         /\ Unleased(job[j], status).owner = NoOwner
         /\ \A time : [Unleased(job[j], status) EXCEPT !.availableAt = time].status = status
         /\ GivenBack(j).status = "queued"
<1>1. job[j] \in Row
  BY DEF TypeOK, JobsOK
<1> QED BY <1>1 DEF Unleased, GivenBack, Row

LEMMA EndsEffect ==
  ASSUME TypeOK, NEW w \in Worker, NEW j \in Job, EndsClaim(w, j)
  PROVE  /\ task[w][j] # Idle /\ phase[w] # "down"
         /\ task' = [task EXCEPT ![w][j] = Idle]
         /\ \A k \in Job \ {j} : job'[k] = job[k]
         /\ job'[j] = job[j] \/ (Owns(w, j) /\ job'[j].status # "running")
         /\ \A v \in Worker \ {w} : phase'[v] = phase[v]
         /\ phase'[w] = "down" => Others(w, j) = {}
         /\ now' = now /\ stalled' = stalled
<1>1. \E step \in Steps \ {"none"} : At(w, j, step)
  BY DEF EndsClaim, NotModified, CompleteParsed, Discover, FailRetryable, TaskError, Release,
         RejectBody, PublisherFailure, Steps
<1>2. task[w][j] # Idle /\ phase[w] # "down"
  BY <1>1 DEF At, Idle
<1>3. now' = now /\ stalled' = stalled
  BY DEF EndsClaim, NotModified, CompleteParsed, Discover, FailRetryable, TaskError, Release,
         RejectBody, PublisherFailure
<1>4. /\ task' = [task EXCEPT ![w][j] = Idle]
      /\ \A v \in Worker \ {w} : phase'[v] = phase[v]
      /\ phase'[w] = "down" => Others(w, j) = {}
  <2>1. CASE EndTask(w, j)
    BY <1>2, <2>1 DEF EndTask, TypeOK
  <2>2. CASE TaskError(w, j)
    BY <1>2, <2>2 DEF TaskError, TypeOK
  <2> QED BY <2>1, <2>2 DEF EndsClaim, NotModified, CompleteParsed, Discover, FailRetryable,
                            Release, RejectBody, PublisherFailure
<1>5. /\ \A k \in Job \ {j} : job'[k] = job[k]
      /\ job'[j] = job[j] \/ (Owns(w, j) /\ job'[j].status # "running")
  <2>1. CASE TaskError(w, j)
    BY <2>1 DEF TaskError, tables
  <2>2. /\ Done(j).status # "running" /\ GivenBack(j).status # "running"
        /\ Unleased(job[j], "dead").status # "running"
        /\ \A time : Retry(j, time).status # "running"
    BY ClosedRow DEF Done, Retry
  <2>3. CASE \E row, src, org : row.status # "running" /\ Write(w, j, row, src, org)
    BY <2>3, WriteEffect
  <2>4. CASE NotModified(w, j) \/ CompleteParsed(w, j) \/ Discover(w, j)
    BY <2>2, <2>3, <2>4 DEF NotModified, CompleteParsed, Discover
  <2>5. CASE FailRetryable(w, j) \/ Release(w, j)
    BY <2>2, <2>3, <2>5 DEF FailRetryable, Release
  <2>6. CASE \E d \in FailureDelays : RejectBody(w, j, d)
    BY <2>2, <2>3, <2>6 DEF RejectBody
  <2>7. CASE \E d \in FailureDelays, b \in OriginWaits \cup {0} : PublisherFailure(w, j, d, b)
    BY <2>2, <2>3, <2>7 DEF PublisherFailure
  <2> QED BY <2>1, <2>4, <2>5, <2>6, <2>7 DEF EndsClaim
<1> QED BY <1>2, <1>3, <1>4, <1>5

LEMMA InitIInv == Init => IInv
<1> SUFFICES ASSUME Init PROVE IInv
  OBVIOUS
<1>1. TypeOK
  BY InitTyped
<1>2. \A w \in Worker, j \in Job : task[w][j] = Idle /\ job[j].status = "absent"
  BY DEF Init
<1>3. \A w \in Worker, j \in Job : task[w][j].step = "none"
  BY <1>2 DEF Idle
<1>4. \A j \in Job : ~Bare(j)
  BY DEF Init, Bare
<1> QED BY <1>1, <1>2, <1>3, <1>4 DEF Init, IInv, NoneStalled, DownIdle, LeaseHeld,
                                      FetchingBare, OneLeasePerOrigin

\* A process that is down works on nothing.
LEMMA DownIdleKept ==
  ASSUME TypeOK, DownIdle, [Next]_vars
  PROVE  DownIdle'
<1>1. CASE \/ EnqueueDueSources
           \/ \E s \in Source : Refresh(s)
           \/ \E s \in Fickle : Subscribe(s) \/ Unsubscribe(s)
  BY <1>1, InsertEffect DEF DownIdle, Kept
<1>2. ASSUME NEW w \in Worker, NEW j \in Job, ClaimFetchJob(w, j) PROVE DownIdle'
  BY <1>2 DEF ClaimFetchJob, DownIdle, TypeOK
<1>3. ASSUME NEW w \in Worker, NEW j \in Job,
             Begin(w, j) \/ ReceiveBody(w, j) \/ ParseOk(w, j)
      PROVE  DownIdle'
  <2>1. phase[w] # "down" /\ phase' = phase /\ \A v \in Worker \ {w} : task'[v] = task[v]
    BY <1>3 DEF Begin, ReceiveBody, ParseOk, At, To, TypeOK
  <2> QED BY <2>1 DEF DownIdle
<1>4. ASSUME NEW w \in Worker, NEW j \in Job, EndsClaim(w, j) PROVE DownIdle'
  <2>1. ASSUME NEW k \in Job, phase'[w] = "down" PROVE task'[w][k] = Idle
    BY <1>4, <2>1, EndsEffect DEF Others, TypeOK
  <2>2. \A v \in Worker \ {w} : task'[v] = task[v] /\ phase'[v] = phase[v]
    BY <1>4, EndsEffect DEF TypeOK
  <2> QED BY <2>1, <2>2 DEF DownIdle
<1>5. ASSUME NEW w \in Worker, NEW j \in Job, Renew(w, j) PROVE DownIdle'
  BY <1>5 DEF Renew, worker, DownIdle
<1>6. ASSUME NEW w \in Worker, ClaimNothing(w) \/ ClaimError(w) \/ Start(w) PROVE DownIdle'
  <2>1. /\ phase'[w] # "down" /\ \A v \in Worker \ {w} : task'[v] = task[v]
        /\ \A v \in Worker \ {w} : phase'[v] = phase[v]
    BY <1>6 DEF ClaimNothing, ClaimError, Start, TypeOK
  <2> QED BY <2>1 DEF DownIdle
<1>7. ASSUME NEW w \in Worker, Stop(w) PROVE DownIdle'
  BY <1>7 DEF Stop, DownIdle, TypeOK
<1>8. ASSUME NEW w \in Worker, Crash(w) PROVE DownIdle'
  BY <1>8 DEF Crash, DownIdle, TypeOK
<1>9. ASSUME NEW w \in Worker, Stall(w) \/ Resume(w) PROVE DownIdle'
  BY <1>9 DEF Stall, Resume, DownIdle
<1>10. CASE Tick \/ UNCHANGED vars
  BY <1>10 DEF Tick, worker, vars, DownIdle
<1> QED BY <1>1, <1>2, <1>3, <1>4, <1>5, <1>6, <1>7, <1>8, <1>9, <1>10 DEF Next

\* The four parts that hold while nothing has stalled, for every step.
Held == \A w \in Worker, j \in Job : task[w][j] # Idle => Owns(w, j) /\ job[j].leaseUntil > now
BareFetch == \A w \in Worker, j \in Job : task[w][j].step = "fetching" => job[j].snap = "none"
OneLease == \A j, k \in Job : Bare(j) /\ Bare(k) /\ JobOrigin(j) = JobOrigin(k) => j = k
Quiet == stalled = {} /\ Held /\ BareFetch /\ OneLease

LEMMA QuietKept ==
  ASSUME TypeOK, DownIdle, Calm', Quiet, [Next]_vars
  PROVE  Quiet'
<1>idle. Idle.step = "none"
  BY DEF Idle
<1>1. CASE \/ EnqueueDueSources
           \/ \E s \in Source : Refresh(s)
           \/ \E s \in Fickle : Subscribe(s) \/ Unsubscribe(s)
  <2>1. /\ task' = task /\ stalled' = stalled /\ now' = now
        /\ \A j \in Job : \/ SameRow(j)
                          \/ /\ job'[j].status = "queued" /\ job[j].status # "running"
                             /\ \A w \in Worker : task[w][j] = Idle
    BY <1>1, InsertEffect DEF Kept
  <2>2. Held'
    BY <2>1 DEF Quiet, Held, Owns, SameRow, SameLease
  <2>3. BareFetch'
    BY <2>1, <1>idle DEF Quiet, BareFetch, SameRow
  <2>4. \A j \in Job : Bare(j)' => Bare(j)
    BY <2>1 DEF Bare, SameRow, SameLease
  <2> QED BY <2>1, <2>2, <2>3, <2>4 DEF Quiet, OneLease, JobOrigin
<1>2. ASSUME NEW w \in Worker, NEW c \in Job, ClaimFetchJob(w, c)
      PROVE  Quiet'
  <2>1. /\ \A v \in Worker, j \in Job : v # w \/ j # c => task'[v][j] = task[v][j]
        /\ task'[w][c].step = "claimed" /\ stalled' = stalled /\ now' = now
    BY <1>2 DEF ClaimFetchJob, TypeOK
  <2>2. /\ ~(job[c].status = "running" /\ job[c].leaseUntil > now)
        /\ job'[c].status = "running" /\ job'[c].owner = w /\ job'[c].leaseUntil > now
        /\ job'[c].snap = job[c].snap
        /\ job[c].snap = "none" => ~OriginBusy(JobOrigin(c))
        /\ \A j \in Job \ {c} : job'[j] = Swept(j)
    BY <1>2, ClaimEffect
  <2>3. \A j \in Job \ {c} : \/ job'[j] = job[j]
                             \/ /\ job'[j].status # "running"
                                /\ ~(job[j].status = "running" /\ job[j].leaseUntil > now)
    BY <2>2, SweptRow
  <2>4. \A v \in Worker : task[v][c] = Idle
    BY <2>2 DEF Quiet, Held, Owns
  <2>5. Held'
    BY <2>1, <2>2, <2>3, <2>4 DEF Quiet, Held, Owns
  <2>6. BareFetch'
    BY <2>1, <2>2, <2>3, <2>4, <1>idle DEF Quiet, BareFetch, Held, Owns
  <2>7. OneLease'
    <3>1. \A j \in Job \ {c} : Bare(j)' => Bare(j)
      BY <2>1, <2>3 DEF Bare
    <3>2. Bare(c)' => \A j \in Job : Bare(j) => JobOrigin(j) # JobOrigin(c)
      BY <2>2 DEF Bare, OriginBusy
    <3> QED BY <3>1, <3>2 DEF Quiet, OneLease, JobOrigin
  <2> QED BY <2>1, <2>5, <2>6, <2>7 DEF Quiet
<1>3. ASSUME NEW w \in Worker, NEW j \in Job, Begin(w, j)
      PROVE  Quiet'
  <2>1. /\ task[w][j] # Idle /\ stalled' = stalled /\ now' = now /\ job' = job
        /\ \A v \in Worker, k \in Job : v # w \/ k # j => task'[v][k] = task[v][k]
        /\ task'[w][j].step = "fetching" => job[j].snap = "none"
    BY <1>3, <1>idle DEF Begin, At, TypeOK, tables
  <2> QED BY <2>1 DEF Quiet, Held, Owns, BareFetch, OneLease, Bare, JobOrigin
<1>4. ASSUME NEW w \in Worker, NEW j \in Job, ReceiveBody(w, j) \/ ParseOk(w, j)
      PROVE  Quiet'
  <2>1. /\ task[w][j] # Idle /\ stalled' = stalled /\ now' = now
        /\ \A v \in Worker, k \in Job : v # w \/ k # j => task'[v][k] = task[v][k]
        /\ task'[w][j].step # "fetching"
    BY <1>4, <1>idle DEF ReceiveBody, ParseOk, At, To, TypeOK, Task, Steps
  <2>2. /\ \A k \in Job : SameLease(k) /\ (k # j => job'[k].snap = job[k].snap)
        /\ job'[j].snap = "none" => job[j].snap = "none"
    BY <1>4 DEF ReceiveBody, ParseOk, SameLease, TypeOK, JobsOK, Row
  <2>3. Held'
    BY <2>1, <2>2 DEF Quiet, Held, Owns, SameLease
  <2>4. BareFetch'
    BY <2>1, <2>2, <1>idle DEF Quiet, BareFetch, Held, Owns
  <2>5. \A k \in Job : Bare(k)' => Bare(k)
    BY <2>1, <2>2 DEF Bare, SameLease
  <2> QED BY <2>1, <2>3, <2>4, <2>5 DEF Quiet, OneLease, JobOrigin
<1>5. ASSUME NEW w \in Worker, NEW j \in Job, EndsClaim(w, j)
      PROVE  Quiet'
  <2>1. /\ \A v \in Worker, k \in Job : v # w \/ k # j => task'[v][k] = task[v][k]
        /\ task'[w][j] = Idle /\ task[w][j] # Idle /\ stalled' = stalled /\ now' = now
        /\ \A k \in Job \ {j} : job'[k] = job[k]
        /\ job'[j] = job[j] \/ job'[j].status # "running"
    BY <1>5, EndsEffect DEF TypeOK
  <2>2. \A v \in Worker \ {w} : task[v][j] = Idle
    BY <2>1 DEF Quiet, Held, Owns
  <2>3. Held' /\ BareFetch'
    BY <2>1, <2>2, <1>idle DEF Quiet, Held, Owns, BareFetch
  <2>4. \A k \in Job : Bare(k)' => Bare(k)
    BY <2>1 DEF Bare
  <2> QED BY <2>1, <2>3, <2>4 DEF Quiet, OneLease, JobOrigin
<1>6. ASSUME NEW w \in Worker, NEW j \in Job, Renew(w, j)
      PROVE  Quiet'
  <2>1. /\ task[w][j] # Idle /\ task' = task /\ stalled' = stalled /\ now' = now
        /\ \A k \in Job \ {j} : job'[k] = job[k]
        /\ job'[j].status = job[j].status /\ job'[j].owner = job[j].owner
        /\ job'[j].snap = job[j].snap /\ job'[j].leaseUntil > now
    BY <1>6, <1>idle, Parameters DEF Renew, At, worker, TypeOK, JobsOK, Row
  <2>2. Held' /\ BareFetch'
    BY <2>1 DEF Quiet, Held, Owns, BareFetch
  <2>3. \A k \in Job : Bare(k)' => Bare(k)
    BY <2>1 DEF Bare, Quiet, Held
  <2> QED BY <2>1, <2>2, <2>3 DEF Quiet, OneLease, JobOrigin
<1>7. ASSUME NEW w \in Worker, ClaimNothing(w)
      PROVE  Quiet'
  <2>1. /\ task' = task /\ stalled' = stalled /\ now' = now
        /\ \A j \in Job : \/ job'[j] = job[j]
                          \/ /\ job'[j].status # "running"
                             /\ ~(job[j].status = "running" /\ job[j].leaseUntil > now)
    BY <1>7, SweptRow DEF ClaimNothing
  <2>2. Held' /\ BareFetch'
    BY <2>1, <1>idle DEF Quiet, Held, Owns, BareFetch
  <2>3. \A k \in Job : Bare(k)' => Bare(k)
    BY <2>1 DEF Bare
  <2> QED BY <2>1, <2>2, <2>3 DEF Quiet, OneLease, JobOrigin
<1>8. ASSUME NEW w \in Worker, ClaimError(w) \/ Stop(w) \/ Crash(w) \/ Resume(w)
      PROVE  Quiet'
  <2>1. /\ \A v \in Worker, j \in Job : task'[v][j] = task[v][j] \/ task'[v][j] = Idle
        /\ job' = job /\ now' = now /\ stalled' \subseteq stalled
    BY <1>8 DEF ClaimError, Stop, Crash, Resume, tables, TypeOK
  <2>2. Held' /\ BareFetch'
    BY <2>1, <1>idle DEF Quiet, Held, Owns, BareFetch
  <2> QED BY <2>1, <2>2 DEF Quiet, OneLease, Bare, JobOrigin
<1>9. ASSUME NEW w \in Worker, Stall(w)
      PROVE  FALSE
  <2>1. faults["stall"] \in Nat /\ faults'["stall"] = faults["stall"] + 1
    BY <1>9 DEF Stall, Fault, TypeOK, FaultKind
  <2> QED BY <2>1 DEF Calm, NoFault
<1>10. ASSUME NEW w \in Worker, Start(w)
       PROVE  Quiet'
  <2>1. /\ task' = task /\ stalled' = stalled /\ now' = now /\ \A j \in Job : task[w][j] = Idle
    BY <1>10 DEF Start, DownIdle
  <2>2. \A j \in Job : /\ job'[j].status = job[j].status /\ job'[j].snap = job[j].snap
                       /\ job'[j].leaseUntil = job[j].leaseUntil
                       /\ job[j].owner # w => job'[j].owner = job[j].owner
    BY <1>10 DEF Start, TypeOK, JobsOK, Row
  <2>3. Held' /\ BareFetch'
    BY <2>1, <2>2 DEF Quiet, Held, Owns, BareFetch
  <2> QED BY <2>1, <2>2, <2>3 DEF Quiet, OneLease, Bare, JobOrigin
<1>11. CASE Tick
  <2>1. /\ task' = task /\ stalled' = stalled /\ job' = job /\ now' = now + 1 /\ now \in Nat
    BY <1>11 DEF Tick, worker, tables, TypeOK
  <2>2. \A j \in Job : job[j].leaseUntil \in Nat
    BY DEF TypeOK, JobsOK, Row
  <2>3. Held' /\ BareFetch'
    BY <1>11, <2>1, <2>2 DEF Tick, Quiet, Held, Owns, BareFetch
  <2>4. \A k \in Job : Bare(k)' => Bare(k)
    BY <2>1, <2>2 DEF Bare
  <2> QED BY <2>1, <2>3, <2>4 DEF Quiet, OneLease, JobOrigin
<1>12. CASE UNCHANGED vars
  BY <1>12 DEF vars, Quiet, Held, Owns, BareFetch, OneLease, Bare, JobOrigin
<1> QED BY <1>1, <1>2, <1>3, <1>4, <1>5, <1>6, <1>7, <1>8, <1>9, <1>10, <1>11, <1>12 DEF Next

LEMMA IInvKept == IInv /\ [Next]_vars => IInv'
<1> SUFFICES ASSUME IInv, [Next]_vars PROVE IInv'
  OBVIOUS
<1>1. TypeOK' /\ DownIdle'
  BY NextTyped, DownIdleKept DEF IInv
<1>2. ASSUME Calm' PROVE Quiet'
  <2>1. Calm
    BY <1>2, CalmBefore DEF IInv
  <2>2. Quiet
    BY <2>1 DEF IInv, Quiet, NoneStalled, LeaseHeld, FetchingBare, OneLeasePerOrigin, Held,
                BareFetch, OneLease, Calm
  <2> QED BY <1>2, <2>2, QuietKept DEF IInv
<1> QED BY <1>1, <1>2 DEF IInv, Quiet, NoneStalled, LeaseHeld, FetchingBare,
                          OneLeasePerOrigin, Held, BareFetch, OneLease, Calm

\* While no process stalls, a claim in progress never loses its lease: the sweep,
\* the claims of other workers, crashes and restarts leave it alone.
THEOREM LeasesAreHeld == Spec => []LeaseHeld
<1>1. IInv => LeaseHeld
  BY DEF IInv
<1> QED BY <1>1, InitIInv, IInvKept, PTL DEF Spec

\* While no process stalls, each origin has one request in flight at most, over
\* all workers.
THEOREM OneRequestPerOrigin == Spec => []OriginSingleFlight
<1>1. IInv => OriginSingleFlight
  <2> SUFFICES ASSUME IInv, Calm, NEW v \in Worker, NEW w \in Worker,
                      NEW j \in Job, NEW k \in Job,
                      task[v][j].step = "fetching", task[w][k].step = "fetching",
                      JobOrigin(j) = JobOrigin(k)
               PROVE  v = w /\ j = k
    BY DEF OriginSingleFlight, Calm
  <2>1. task[v][j] # Idle /\ task[w][k] # Idle
    BY DEF Idle
  <2>2. Bare(j) /\ Bare(k) /\ job[j].owner = v /\ job[k].owner = w
    BY <2>1 DEF IInv, Calm, LeaseHeld, FetchingBare, Bare, Owns
  <2> QED BY <2>2 DEF IInv, OneLeasePerOrigin
<1> QED BY <1>1, InitIInv, IInvKept, PTL DEF Spec

\* Stalls or not, an unexpired lease ends only by its holder, or after its end.
THEOREM NoLeaseIsStolen == Spec => LeaseNotStolen
<1>1. ASSUME TypeOK, [Next]_vars, NEW w \in Worker, NEW j \in Job,
             job[j].owner = w, job[j].leaseUntil > now, job'[j].owner # w
      PROVE  (task[w][j] # Idle /\ task'[w][j] = Idle) \/ phase[w] = "down"
  <2>1. job[j].status = "running"
    BY <1>1, Parameters DEF TypeOK, JobsOK, Sound
  <2>2. CASE \/ EnqueueDueSources
             \/ \E s \in Source : Refresh(s)
             \/ \E s \in Fickle : Subscribe(s) \/ Unsubscribe(s)
    BY <1>1, <2>1, <2>2, InsertEffect DEF SameRow, SameLease
  <2>3. ASSUME NEW v \in Worker, NEW c \in Job, ClaimFetchJob(v, c)
        PROVE  FALSE
    BY <1>1, <2>1, <2>3, ClaimEffect, SweptRow
  <2>4. ASSUME NEW v \in Worker, NEW k \in Job, Begin(v, k) \/ ReceiveBody(v, k) \/ ParseOk(v, k)
        PROVE  FALSE
    BY <1>1, <2>4 DEF Begin, ReceiveBody, ParseOk, tables, TypeOK, JobsOK, Row
  <2>5. ASSUME NEW v \in Worker, NEW k \in Job, EndsClaim(v, k)
        PROVE  task[w][j] # Idle /\ task'[w][j] = Idle
    BY <1>1, <2>5, EndsEffect DEF Owns, TypeOK
  <2>6. ASSUME NEW v \in Worker, NEW k \in Job, Renew(v, k)
        PROVE  FALSE
    BY <1>1, <2>6 DEF Renew, TypeOK, JobsOK, Row
  <2>7. ASSUME NEW v \in Worker, ClaimNothing(v)
        PROVE  FALSE
    BY <1>1, <2>1, <2>7, SweptRow DEF ClaimNothing
  <2>8. ASSUME NEW v \in Worker, ClaimError(v) \/ Stop(v) \/ Crash(v) \/ Stall(v) \/ Resume(v)
        PROVE  FALSE
    BY <1>1, <2>8 DEF ClaimError, Stop, Crash, Stall, Resume, tables
  <2>9. ASSUME NEW v \in Worker, Start(v)
        PROVE  phase[w] = "down"
    BY <1>1, <2>9 DEF Start
  <2>10. CASE Tick \/ UNCHANGED vars
    BY <1>1, <2>10 DEF Tick, tables, vars
  <2> QED BY <1>1, <2>2, <2>3, <2>4, <2>5, <2>6, <2>7, <2>8, <2>9, <2>10 DEF Next
<1>2. TypeOK /\ [Next]_vars =>
        [\A w \in Worker, j \in Job :
           job[j].owner = w /\ job[j].leaseUntil > now /\ job'[j].owner # w =>
             \/ task[w][j] # Idle /\ task'[w][j] = Idle
             \/ phase[w] = "down"]_vars
  BY <1>1
<1> QED BY <1>2, InitTyped, NextTyped, PTL DEF Spec, LeaseNotStolen

(***************************************************************************)
(* Blocks.  The backoff and the block are read when a job is claimed, and  *)
(* the request starts later.  What keeps them passed in between is that no *)
(* other claim can write them: a source has one active job at most         *)
(* (OneActive), and the only write that sets an origin's block comes from  *)
(* a request in flight, which the origin's lease excludes.                 *)
(***************************************************************************)
OneActive == \A j, k \in Job : Active(j) /\ Active(k) /\ SourceOf[j] = SourceOf[k] => j = k

LEMMA AttachOne ==
  ASSUME TypeOK, OneActive, NEW s \in Source, EnqueueOrAttach(s)
  PROVE  OneActive'
<1>1. CASE /\ ActiveJobs(s) = {} /\ FreeIds(s) # {}
           /\ job' = [job EXCEPT ![FreshId(s)] = NewJob("manual")]
  <2>1. FreshId(s) \in FreeIds(s)
    BY <1>1 DEF FreshId
  <2>2. \A j \in Job : SourceOf[j] = s => ~Active(j)
    BY <1>1 DEF ActiveJobs
  <2>3. FreshId(s) \in Job /\ SourceOf[FreshId(s)] = s
    BY <2>1 DEF FreeIds
  <2>4. \A j \in Job \ {FreshId(s)} : job'[j] = job[j]
    BY <1>1, <2>3 DEF TypeOK, JobsOK
  <2> QED BY <2>2, <2>3, <2>4 DEF OneActive, Active
<1>2. CASE \E j \in ActiveJobs(s) :
             job' = [job EXCEPT ![j].kind = "manual",
                                ![j].availableAt = IF @ > now THEN now ELSE @]
  <2>1. \A k \in Job : job'[k].status = job[k].status
    BY <1>2 DEF ActiveJobs, TypeOK, JobsOK, Row
  <2> QED BY <2>1 DEF OneActive, Active
<1> QED BY <1>1, <1>2 DEF EnqueueOrAttach

\* Only an insertion makes a row active.
LEMMA OneActiveKept ==
  ASSUME TypeOK, OneActive, [Next]_vars
  PROVE  OneActive'
<1>kept. (\A j \in Job : Active(j)' => Active(j)) => OneActive'
  BY DEF OneActive
<1>1. CASE EnqueueDueSources
  <2>1. \A j \in Job : \/ job'[j] = job[j]
                       \/ Due(SourceOf[j]) /\ j = FreshId(SourceOf[j])
    BY <1>1 DEF EnqueueDueSources
  <2>2. \A j \in Job : Due(SourceOf[j]) => ~Active(j)
    BY DEF Due, ActiveJobs
  <2> QED BY <2>1, <2>2 DEF OneActive, Active
<1>2. ASSUME NEW s \in Source, Refresh(s) PROVE OneActive'
  BY <1>2, AttachOne DEF Refresh
<1>3. ASSUME NEW s \in Fickle, Subscribe(s) \/ Unsubscribe(s) PROVE OneActive'
  <2>1. s \in Source /\ (EnqueueOrAttach(s) \/ job' = job)
    BY <1>3, Parameters DEF Subscribe, Unsubscribe
  <2>2. CASE job' = job
    BY <2>2 DEF OneActive, Active
  <2> QED BY <2>1, <2>2, AttachOne
<1>swept. \A j \in Job : Swept(j).status \in {"queued", "running"} => Active(j)
  <2>1. \A j \in Job : /\ Unleased(job[j], "dead").status = "dead"
                       /\ Unleased(job[j], "completed").status = "completed"
    BY DEF TypeOK, JobsOK, Unleased, Row
  <2> QED BY <2>1 DEF Swept, Active
<1>4. ASSUME NEW w \in Worker, NEW c \in Job, ClaimFetchJob(w, c) PROVE OneActive'
  <2>1. Active(c)
    BY <1>4 DEF ClaimFetchJob, Candidate, Eligible, JobDue, Expired, Active
  <2>2. \A j \in Job \ {c} : job'[j] = Swept(j)
    BY <1>4, ClaimEffect
  <2> QED BY <1>kept, <1>swept, <2>1, <2>2 DEF Active
<1>5. ASSUME NEW w \in Worker, NEW j \in Job, Begin(w, j) \/ ReceiveBody(w, j) \/ ParseOk(w, j)
      PROVE  OneActive'
  <2>1. CASE Begin(w, j)
    BY <2>1, <1>kept DEF Begin, tables, Active
  <2>2. CASE ReceiveBody(w, j)
    BY <2>2, <1>kept DEF ReceiveBody, TypeOK, JobsOK, Row, Active
  <2>3. CASE ParseOk(w, j)
    BY <2>3, <1>kept DEF ParseOk, TypeOK, JobsOK, Row, Active
  <2> QED BY <1>5, <2>1, <2>2, <2>3
<1>6. ASSUME NEW w \in Worker, NEW j \in Job, EndsClaim(w, j) PROVE OneActive'
  <2>1. \A k \in Job : job'[k] = job[k] \/ Active(k)
    BY <1>6, EndsEffect DEF Active, Owns
  <2> QED BY <1>kept, <2>1 DEF Active
<1>7. ASSUME NEW w \in Worker, NEW j \in Job, Renew(w, j) PROVE OneActive'
  <2>1. \A k \in Job : job'[k].status = job[k].status
    BY <1>7 DEF Renew, TypeOK, JobsOK, Row
  <2> QED BY <1>kept, <2>1 DEF Active
<1>8. ASSUME NEW w \in Worker, ClaimNothing(w) PROVE OneActive'
  BY <1>8, <1>kept, <1>swept DEF ClaimNothing, Active
<1>9. ASSUME NEW w \in Worker,
             ClaimError(w) \/ Stop(w) \/ Crash(w) \/ Stall(w) \/ Resume(w)
      PROVE  OneActive'
  BY <1>9 DEF ClaimError, Stop, Crash, Stall, Resume, tables, OneActive, Active
<1>10. ASSUME NEW w \in Worker, Start(w) PROVE OneActive'
  <2>1. \A k \in Job : job'[k].status = job[k].status
    BY <1>10 DEF Start, TypeOK, JobsOK, Row
  <2> QED BY <1>kept, <2>1 DEF Active
<1>11. CASE Tick \/ UNCHANGED vars
  BY <1>11 DEF Tick, tables, vars, OneActive, Active
<1> QED BY <1>1, <1>2, <1>3, <1>4, <1>5, <1>6, <1>7, <1>8, <1>9, <1>10, <1>11 DEF Next

\* What the end of a claim writes: nothing, or the times of this fetch, which
\* put the next one at least the safety interval after it.
StampedBy(w, j) ==
  LET src == source'[SourceOf[j]] IN
  /\ src.lastFetchAt = task[w][j].at /\ src.nextFetchAt >= task[w][j].at + Interval

LEMMA StampEffect ==
  ASSUME TypeOK, NEW w \in Worker, NEW j \in Job, NEW row, NEW org, NEW backoff,
         NEW next \in Nat, next >= task[w][j].at + Interval,
         Write(w, j, row, Fetched(w, j, next, backoff), org)
  PROVE  Owns(w, j) => StampedBy(w, j)
<1>1. SourceOf[j] \in Source /\ source[SourceOf[j]] \in SourceRow
  BY Parameters DEF TypeOK
<1>2. /\ Fetched(w, j, next, backoff).lastFetchAt = task[w][j].at
      /\ Fetched(w, j, next, backoff).nextFetchAt = next
  BY <1>1 DEF Fetched, SourceRow
<1>3. Owns(w, j) => source'[SourceOf[j]] = Fetched(w, j, next, backoff)
  BY <1>1 DEF Write, TypeOK
<1> QED BY <1>2, <1>3 DEF StampedBy

\* The end of a claim touches one source and one origin, and blocks the origin
\* only for an answer to a request in flight.
LEMMA EndsWrites ==
  ASSUME TypeOK, NEW w \in Worker, NEW j \in Job, EndsClaim(w, j)
  PROVE  /\ \A s \in Source \ {SourceOf[j]} : source'[s] = source[s]
         /\ \A o \in Origin \ {JobOrigin(j)} : origin'[o] = origin[o]
         /\ ~Owns(w, j) => UNCHANGED <<source, origin>>
         /\ \/ task[w][j].step = "fetching"
            \/ origin'[JobOrigin(j)].blockedUntil \in {0, origin[JobOrigin(j)].blockedUntil}
<1>0. /\ SourceOf[j] \in Source /\ JobOrigin(j) \in Origin
      /\ origin[JobOrigin(j)] \in OriginRow
  BY Parameters DEF TypeOK, JobOrigin
<1>1. ASSUME NEW row, NEW src, NEW org, Write(w, j, row, src, org)
      PROVE  /\ \A s \in Source \ {SourceOf[j]} : source'[s] = source[s]
             /\ \A o \in Origin \ {JobOrigin(j)} : origin'[o] = origin[o]
             /\ ~Owns(w, j) => UNCHANGED <<source, origin>>
             /\ origin'[JobOrigin(j)] \in {org, origin[JobOrigin(j)]}
  BY <1>0, <1>1 DEF Write, tables, TypeOK
<1>2. Blocked(j, 0).blockedUntil = 0
  BY <1>0 DEF Blocked, OriginRow
<1>3. CASE NotModified(w, j) \/ Discover(w, j) \/ FailRetryable(w, j) \/ Release(w, j)
  BY <1>1, <1>3 DEF NotModified, Discover, FailRetryable, Release
<1>4. CASE CompleteParsed(w, j)
  <2>1. PICK src : Write(w, j, Done(j), src, Blocked(j, 0))
    BY <1>4 DEF CompleteParsed
  <2> QED BY <1>1, <1>2, <2>1
<1>5. CASE TaskError(w, j)
  BY <1>5 DEF TaskError, tables
<1>6. ASSUME NEW d \in FailureDelays, RejectBody(w, j, d)
      PROVE  /\ \A s \in Source \ {SourceOf[j]} : source'[s] = source[s]
             /\ \A o \in Origin \ {JobOrigin(j)} : origin'[o] = origin[o]
             /\ ~Owns(w, j) => UNCHANGED <<source, origin>>
             /\ origin'[JobOrigin(j)].blockedUntil \in {0, origin[JobOrigin(j)].blockedUntil}
  <2>1. PICK row, src : Write(w, j, row, src, Blocked(j, 0))
    BY <1>6 DEF RejectBody
  <2> QED BY <1>1, <1>2, <2>1
<1>7. ASSUME NEW d \in FailureDelays, NEW b \in OriginWaits \cup {0},
             PublisherFailure(w, j, d, b)
      PROVE  /\ task[w][j].step = "fetching"
             /\ \E row, src, org : Write(w, j, row, src, org)
  BY <1>7 DEF PublisherFailure, At
<1> QED BY <1>1, <1>3, <1>4, <1>5, <1>6, <1>7 DEF EndsClaim

\* A claim whose request has yet to start: neither source nor origin is blocked.
Unblocked(j) ==
  source[SourceOf[j]].backoffUntil <= now /\ origin[JobOrigin(j)].blockedUntil <= now
Waiting(w, j) == task[w][j].step = "claimed" /\ job[j].snap = "none"
ClaimsFree == Calm => \A w \in Worker, j \in Job : Waiting(w, j) => Unblocked(j)

\* Steps that neither write a block nor change what waits.
LEMMA WaitingKept ==
  ASSUME TypeOK, now' \in Nat, now' >= now,
         \A w \in Worker, j \in Job : Waiting(w, j) => Unblocked(j),
         \A s \in Source : source'[s].backoffUntil = source[s].backoffUntil,
         \A o \in Origin : origin'[o].blockedUntil = origin[o].blockedUntil,
         NEW w \in Worker, NEW j \in Job, Waiting(w, j)
  PROVE  Unblocked(j)'
<1>1. /\ SourceOf[j] \in Source /\ JobOrigin(j) \in Origin /\ now \in Nat
      /\ source[SourceOf[j]] \in SourceRow /\ origin[JobOrigin(j)] \in OriginRow
  BY Parameters DEF TypeOK, JobOrigin
<1>2. source[SourceOf[j]].backoffUntil \in Nat /\ origin[JobOrigin(j)].blockedUntil \in Nat
  BY <1>1 DEF SourceRow, OriginRow
<1>3. JobOrigin(j)' = JobOrigin(j)
  BY DEF JobOrigin
<1> QED BY <1>1, <1>2, <1>3 DEF Unblocked

LEMMA QuietNow ==
  ASSUME IInv, Calm
  PROVE  Quiet
BY DEF IInv, Quiet, NoneStalled, LeaseHeld, FetchingBare, OneLeasePerOrigin, Held,
       BareFetch, OneLease, Calm

LEMMA ClaimsFreeKept ==
  ASSUME IInv, OneActive, ClaimsFree, [Next]_vars
  PROVE  ClaimsFree'
<1> SUFFICES ASSUME Calm', NEW v \in Worker, NEW k \in Job, Waiting(v, k)'
             PROVE  Unblocked(k)'
  BY DEF ClaimsFree
<1>0. TypeOK /\ Calm /\ Quiet /\ \A w \in Worker, j \in Job : Waiting(w, j) => Unblocked(j)
  BY CalmBefore, QuietNow DEF IInv, ClaimsFree
<1>idle. Idle.step = "none"
  BY DEF Idle
<1>now. now \in Nat
  BY <1>0 DEF TypeOK
<1>same. ASSUME \A s \in Source : source'[s].backoffUntil = source[s].backoffUntil,
                \A o \in Origin : origin'[o].blockedUntil = origin[o].blockedUntil,
                now' = now, Waiting(v, k)
         PROVE  Unblocked(k)'
  BY <1>0, <1>now, <1>same, WaitingKept
<1>1. CASE \/ EnqueueDueSources
           \/ \E s \in Source : Refresh(s)
           \/ \E s \in Fickle : Subscribe(s) \/ Unsubscribe(s)
  <2>1. /\ task' = task /\ now' = now
        /\ SameRow(k) \/ task[v][k] = Idle
    BY <1>0, <1>1, InsertEffect DEF Kept
  <2>2. Waiting(v, k)
    BY <2>1, <1>idle DEF Waiting, SameRow
  <2>3. /\ \A s \in Source : source'[s].backoffUntil = source[s].backoffUntil
        /\ origin' = origin
    <3>1. CASE EnqueueDueSources \/ \E s \in Source : Refresh(s)
      BY <3>1 DEF EnqueueDueSources, Refresh
    <3>2. CASE \E s \in Fickle : Subscribe(s) \/ Unsubscribe(s)
      <4>1. PICK s \in Source, b \in BOOLEAN :
              source' = [source EXCEPT ![s].subscribed = b] /\ origin' = origin
        BY <3>2, Parameters DEF Subscribe, Unsubscribe
      <4>2. \A r \in SourceRow : [r EXCEPT !.subscribed = b].backoffUntil = r.backoffUntil
        BY DEF SourceRow
      <4> QED BY <1>0, <4>1, <4>2 DEF TypeOK
    <3> QED BY <1>1, <3>1, <3>2
  <2> QED BY <1>same, <2>1, <2>2, <2>3
<1>2. ASSUME NEW w \in Worker, NEW c \in Job, ClaimFetchJob(w, c)
      PROVE  Unblocked(k)'
  <2>1. /\ \A x \in Worker, j \in Job : x # w \/ j # c => task'[x][j] = task[x][j]
        /\ now' = now /\ source' = source
    BY <1>0, <1>2 DEF ClaimFetchJob, TypeOK
  <2>2. \A o \in Origin : origin'[o].blockedUntil = origin[o].blockedUntil
    BY <1>0, <1>2, Parameters DEF ClaimFetchJob, TypeOK, OriginRow, JobOrigin
  <2>3. /\ ~(job[c].status = "running" /\ job[c].leaseUntil > now)
        /\ job'[c].snap = job[c].snap
        /\ \A j \in Job \ {c} : job'[j] = Swept(j)
    BY <1>0, <1>2, ClaimEffect
  <2>4. CASE k = c /\ v = w
    <3>1. SourceDue(c) /\ OriginDue(JobOrigin(c))
      BY <1>2, <2>3, <2>4 DEF Waiting, ClaimFetchJob, Candidate, Eligible
    <3>2. Unblocked(c)
      BY <3>1 DEF SourceDue, OriginDue, Unblocked
    <3>3. SourceOf[c] \in Source /\ JobOrigin(c) \in Origin
      BY Parameters DEF JobOrigin
    <3> QED BY <2>1, <2>2, <2>4, <3>2, <3>3 DEF Unblocked, JobOrigin
  <2>5. CASE ~(k = c /\ v = w)
    <3>1. task[v][k].step = "claimed" /\ task[v][k] # Idle
      BY <2>1, <2>5, <1>idle DEF Waiting
    <3>2. job[k].status = "running" /\ job[k].leaseUntil > now
      BY <1>0, <3>1 DEF Quiet, Held, Owns
    <3>3. job'[k] = job[k]
      BY <1>0, <2>3, <3>2, SweptRow
    <3> QED BY <1>same, <2>1, <2>2, <3>1, <3>3 DEF Waiting
  <2> QED BY <2>4, <2>5
<1>3. ASSUME NEW w \in Worker, NEW j \in Job, Begin(w, j) \/ ReceiveBody(w, j) \/ ParseOk(w, j)
      PROVE  Unblocked(k)'
  <2>1. /\ now' = now /\ source' = source /\ origin' = origin
        /\ \A x \in Worker, i \in Job : x # w \/ i # j => task'[x][i] = task[x][i]
        /\ task'[w][j].step # "claimed" /\ task[w][j] # Idle
    <3>1. CASE Begin(w, j)
      BY <1>0, <1>idle, <3>1 DEF Begin, At, tables, TypeOK
    <3>2. CASE ReceiveBody(w, j) \/ ParseOk(w, j)
      BY <1>0, <1>idle, <3>2 DEF ReceiveBody, ParseOk, At, To, TypeOK, Task, Steps
    <3> QED BY <1>3, <3>1, <3>2
  <2>2. v # w \/ k # j
    BY <2>1 DEF Waiting
  <2>3. task[v][k].step = "claimed" /\ task[v][k] # Idle
    BY <2>1, <2>2, <1>idle DEF Waiting
  <2>4. k # j
    BY <1>0, <2>1, <2>2, <2>3 DEF Quiet, Held, Owns
  <2>5. job'[k] = job[k]
    <3>1. CASE Begin(w, j)
      BY <3>1 DEF Begin, tables
    <3>2. CASE ReceiveBody(w, j) \/ ParseOk(w, j)
      BY <1>0, <2>4, <3>2 DEF ReceiveBody, ParseOk, TypeOK, JobsOK
    <3> QED BY <1>3, <3>1, <3>2
  <2> QED BY <1>same, <2>1, <2>3, <2>5 DEF Waiting
<1>4. ASSUME NEW w \in Worker, NEW j \in Job, EndsClaim(w, j)
      PROVE  Unblocked(k)'
  <2>1. /\ task[w][j] # Idle /\ task' = [task EXCEPT ![w][j] = Idle]
        /\ \A i \in Job \ {j} : job'[i] = job[i]
        /\ now' = now
    BY <1>0, <1>4, EndsEffect
  <2>2. task[v][k].step = "claimed" /\ task[v][k] # Idle /\ (v # w \/ k # j)
    BY <1>0, <2>1, <1>idle DEF Waiting, TypeOK
  <2>3. k # j /\ Owns(w, j) /\ Owns(v, k)
    BY <1>0, <2>1, <2>2 DEF Quiet, Held, Owns
  <2>4. Waiting(v, k)
    BY <2>1, <2>2, <2>3 DEF Waiting
  <2>5. SourceOf[k] # SourceOf[j]
    BY <2>3 DEF OneActive, Active, Owns
  <2>6. source'[SourceOf[k]] = source[SourceOf[k]]
    BY <1>0, <1>4, <2>5, EndsWrites, Parameters
  <2>7. SourceOf[k] \in Source /\ JobOrigin(k) \in Origin
        /\ source[SourceOf[k]].backoffUntil <= now /\ origin[JobOrigin(k)].blockedUntil <= now
    BY <1>0, <2>4, Parameters DEF Unblocked, JobOrigin
  <2>8. origin'[JobOrigin(k)].blockedUntil <= now
    <3>1. CASE JobOrigin(k) # JobOrigin(j)
      BY <1>0, <1>4, <2>7, <3>1, EndsWrites
    <3>2. CASE JobOrigin(k) = JobOrigin(j)
      <4>1. task[w][j].step # "fetching"
        <5>1. SUFFICES ASSUME task[w][j].step = "fetching" PROVE FALSE
          OBVIOUS
        <5>2. Bare(j) /\ Bare(k)
          BY <1>0, <2>1, <2>2, <2>4, <5>1 DEF Quiet, Held, BareFetch, Bare, Owns, Waiting
        <5> QED BY <1>0, <2>3, <3>2, <5>2 DEF Quiet, OneLease
      <4>2. origin'[JobOrigin(j)].blockedUntil \in {0, origin[JobOrigin(j)].blockedUntil}
        BY <1>0, <1>4, <4>1, EndsWrites
      <4> QED BY <1>now, <2>7, <3>2, <4>2
    <3> QED BY <3>1, <3>2
  <2> QED BY <2>1, <2>6, <2>7, <2>8 DEF Unblocked, JobOrigin
<1>5. ASSUME NEW w \in Worker, NEW j \in Job, Renew(w, j)
      PROVE  Unblocked(k)'
  <2>1. job'[k].snap = job[k].snap
    BY <1>0, <1>5 DEF Renew, TypeOK, JobsOK, Row
  <2> QED BY <1>5, <1>same, <2>1 DEF Renew, worker, Waiting
<1>6. ASSUME NEW w \in Worker, ClaimNothing(w)
      PROVE  Unblocked(k)'
  <2>1. task' = task /\ now' = now /\ source' = source /\ origin' = origin
        /\ job'[k] = Swept(k)
    BY <1>6 DEF ClaimNothing
  <2>2. job[k].status = "running" /\ job[k].leaseUntil > now
    BY <1>0, <2>1, <1>idle DEF Waiting, Quiet, Held, Owns
  <2>3. job'[k] = job[k]
    BY <1>0, <2>1, <2>2, SweptRow
  <2> QED BY <1>same, <2>1, <2>3 DEF Waiting
<1>7. ASSUME NEW w \in Worker,
             ClaimError(w) \/ Stop(w) \/ Crash(w) \/ Stall(w) \/ Resume(w)
      PROVE  Unblocked(k)'
  <2>1. /\ \A x \in Worker, j \in Job : task'[x][j] = task[x][j] \/ task'[x][j] = Idle
        /\ now' = now /\ job' = job /\ source' = source /\ origin' = origin
    BY <1>0, <1>7 DEF ClaimError, Stop, Crash, Stall, Resume, tables, TypeOK
  <2> QED BY <1>same, <1>idle, <2>1 DEF Waiting
<1>8. ASSUME NEW w \in Worker, Start(w)
      PROVE  Unblocked(k)'
  <2>1. job'[k].snap = job[k].snap
    BY <1>0, <1>8 DEF Start, TypeOK, JobsOK, Row
  <2> QED BY <1>8, <1>same, <2>1 DEF Start, Waiting
<1>9. CASE Tick
  <2>1. Waiting(v, k) /\ now' = now + 1
    BY <1>9 DEF Tick, tables, worker, Waiting
  <2> QED BY <1>0, <1>9, <1>now, <2>1, WaitingKept DEF Tick, tables
<1>10. CASE UNCHANGED vars
  BY <1>10, <1>same DEF vars, Waiting
<1> QED BY <1>1, <1>2, <1>3, <1>4, <1>5, <1>6, <1>7, <1>8, <1>9, <1>10 DEF Next

\* A request starts in one place: the step that follows the context read.
LEMMA StartsAtBegin ==
  ASSUME TypeOK, [Next]_vars, NEW w \in Worker, NEW j \in Job, Starts(w, j)
  PROVE  Begin(w, j) /\ Waiting(w, j)
<1>idle. Idle.step = "none"
  BY DEF Idle
<1>0. task[w][j].step = "claimed" /\ task'[w][j].step = "fetching"
  BY DEF Starts
<1>1. CASE \/ EnqueueDueSources
           \/ \E s \in Source : Refresh(s)
           \/ \E s \in Fickle : Subscribe(s) \/ Unsubscribe(s)
  BY <1>0, <1>1, InsertEffect DEF Kept
<1>2. ASSUME NEW v \in Worker, NEW c \in Job, ClaimFetchJob(v, c)
      PROVE  FALSE
  BY <1>0, <1>2 DEF ClaimFetchJob, TypeOK
<1>3. ASSUME NEW v \in Worker, NEW k \in Job, Begin(v, k)
      PROVE  v = w /\ k = j /\ job[j].snap = "none"
  BY <1>0, <1>3 DEF Begin, TypeOK
<1>4. ASSUME NEW v \in Worker, NEW k \in Job, ReceiveBody(v, k) \/ ParseOk(v, k)
      PROVE  FALSE
  <2>1. PICK step \in {"parsing", "orphaned", "parsed"} : To(v, k, step)
    BY <1>4 DEF ReceiveBody, ParseOk
  <2>2. task[v][k] \in Task /\ task'[v][k] = [task[v][k] EXCEPT !.step = step]
    BY <2>1 DEF To, TypeOK
  <2>3. task'[v][k].step # "fetching"
    BY <2>2 DEF Task
  <2>4. v # w \/ k # j => task'[w][j] = task[w][j]
    BY <2>1 DEF To, TypeOK
  <2> QED BY <1>0, <2>3, <2>4
<1>5. ASSUME NEW v \in Worker, NEW k \in Job, EndsClaim(v, k)
      PROVE  FALSE
  BY <1>0, <1>5, <1>idle, EndsEffect DEF TypeOK
<1>6. CASE \/ \E v \in Worker, k \in Job : Renew(v, k)
           \/ \E v \in Worker : ClaimNothing(v) \/ Stall(v) \/ Resume(v) \/ Stop(v) \/ Start(v)
           \/ Tick \/ UNCHANGED vars
  BY <1>0, <1>6 DEF Renew, worker, ClaimNothing, Stall, Resume, Stop, Start, Tick, vars
<1>7. ASSUME NEW v \in Worker, ClaimError(v) \/ Crash(v)
      PROVE  FALSE
  BY <1>0, <1>7, <1>idle DEF ClaimError, Crash, TypeOK
<1> QED BY <1>0, <1>1, <1>2, <1>3, <1>4, <1>5, <1>6, <1>7 DEF Next, Waiting

RInv == IInv /\ OneActive /\ ClaimsFree

LEMMA InitRInv == Init => RInv
<1> SUFFICES ASSUME Init PROVE RInv
  OBVIOUS
<1>1. OneActive
  BY DEF Init, OneActive, Active
<1>2. ClaimsFree
  BY DEF Init, ClaimsFree, Waiting, Idle
<1> QED BY <1>1, <1>2, InitIInv DEF RInv

LEMMA RInvKept == RInv /\ [Next]_vars => RInv'
BY IInvKept, OneActiveKept, ClaimsFreeKept DEF RInv, IInv

\* While no process stalls, no request starts before the source's backoff and the
\* origin's block on record have passed, although the claim has read them earlier.
THEOREM RequestsWaitForBlocks == Spec => RequestsRespectBlocks
<1>1. ASSUME RInv, [Next]_vars, NEW w \in Worker, NEW j \in Job,
             Starts(w, j), NoFault({"stall"})
      PROVE  source[SourceOf[j]].backoffUntil <= now /\ origin[JobOrigin(j)].blockedUntil <= now
  BY <1>1, StartsAtBegin DEF RInv, IInv, ClaimsFree, Calm, Unblocked
<1>2. RInv /\ [Next]_vars =>
        [\A w \in Worker, j \in Job :
           Starts(w, j) /\ NoFault({"stall"}) =>
             /\ source[SourceOf[j]].backoffUntil <= now
             /\ origin[JobOrigin(j)].blockedUntil <= now]_vars
  BY <1>1
<1> QED BY <1>2, InitRInv, RInvKept, PTL DEF Spec, RequestsRespectBlocks

(***************************************************************************)
(* Cadence.  A request counts from its start; what the claim checks are    *)
(* the times the last fetch has left in the source's row.  In between, the *)
(* task that sent the request still works on the source: as long as        *)
(* nothing fails it ends by writing those times, under the lease it holds. *)
(***************************************************************************)
Clean == NoFault(FaultKind)
Working(w, j) == task[w][j].step \in {"fetching", "parsing", "parsed"}
Stamped(s) == /\ requested[s] <= source[s].lastFetchAt
              /\ requested[s] + Interval <= source[s].nextFetchAt

NoneStops == \A w \in Worker : phase[w] # "stopping"
NoneOrphaned == \A w \in Worker, j \in Job : task[w][j].step # "orphaned"
RequestsPast == \A s \in Source : requested[s] <= now
WorkDated == \A w \in Worker, j \in Job :
               Working(w, j) => requested[SourceOf[j]] <= task[w][j].at
RequestsStamped == \A s \in Source :
  requested[s] = 0 \/ Stamped(s) \/ \E w \in Worker, j \in Job : SourceOf[j] = s /\ Working(w, j)
WaitsOver == \A w \in Worker, j \in Job : Waiting(w, j) => ~Hurried(w, j)

Cadence == /\ NoneStops /\ NoneOrphaned /\ RequestsPast
           /\ WorkDated /\ RequestsStamped /\ WaitsOver

LEMMA CleanIsCalm ==
  /\ Clean => Calm
  /\ Clean' => Calm'
BY DEF Clean, Calm, NoFault, FaultKind

\* While nothing has gone wrong, none of the steps that count a fault is taken.
LEMMA CleanStep ==
  ASSUME TypeOK, Clean', NEW k \in FaultKind
  PROVE  ~Fault(k)
BY NoFaultNow DEF Clean

\* Two tasks never work on the same source.
LEMMA OneTask ==
  ASSUME TypeOK, Quiet, OneActive, NEW v \in Worker, NEW w \in Worker, NEW j \in Job, NEW k \in Job,
         task[v][j] # Idle, task[w][k] # Idle, SourceOf[j] = SourceOf[k]
  PROVE  v = w /\ j = k
<1>1. Owns(v, j) /\ Owns(w, k)
  BY DEF Quiet, Held
<1>2. j = k
  BY <1>1 DEF OneActive, Active, Owns
<1> QED BY <1>1, <1>2 DEF Owns

\* Steps that leave requests, sources and the tasks under way as they were.
LEMMA CadenceSame ==
  ASSUME TypeOK, Cadence, now' \in Nat, now' >= now, requested' = requested,
         \A s \in Source : /\ source'[s].lastFetchAt = source[s].lastFetchAt
                           /\ source'[s].nextFetchAt = source[s].nextFetchAt,
         \A w \in Worker : phase'[w] # "stopping",
         \A w \in Worker, j \in Job :
           /\ Working(w, j)' <=> Working(w, j)
           /\ Working(w, j) => task'[w][j].at = task[w][j].at
           /\ task'[w][j].step # "orphaned"
           /\ Waiting(w, j)' => Waiting(w, j) \/ ~Hurried(w, j)
  PROVE  Cadence'
<1>1. RequestsPast' /\ NoneStops' /\ NoneOrphaned'
  BY DEF Cadence, RequestsPast, NoneStops, NoneOrphaned, TypeOK
<1>2. WorkDated'
  BY DEF Cadence, WorkDated
<1>3. RequestsStamped'
  BY DEF Cadence, RequestsStamped, Stamped
<1>4. WaitsOver'
  <2>1. \A j \in Job : requested[SourceOf[j]] \in Nat /\ now \in Nat
    BY Parameters DEF TypeOK
  <2> QED BY <2>1, Parameters DEF Cadence, WaitsOver, Hurried
<1> QED BY <1>1, <1>2, <1>3, <1>4 DEF Cadence

\* While nothing has gone wrong, a claim ends by recording its fetch.
LEMMA EndsStamp ==
  ASSUME TypeOK, Quiet, NoneStops, NoneOrphaned, Clean',
         NEW w \in Worker, NEW j \in Job, EndsClaim(w, j)
  PROVE  /\ Working(w, j) /\ StampedBy(w, j)
         /\ requested' = requested /\ \A v \in Worker : phase'[v] # "stopping"
<1> DEFINE at == task[w][j].at
<1>0. /\ at \in Nat /\ Interval \in Nat /\ Pause \in Nat /\ Pause >= Interval
      /\ \A d \in FailureDelays : d \in Nat /\ d >= Interval
      /\ "error" \in FaultKind
  BY ParametersAssumption DEF TypeOK, Task, FaultKind
<1>1. ~Fault("error") /\ phase[w] # "stopping" /\ task[w][j].step # "orphaned"
  BY <1>0, CleanStep DEF NoneStops, NoneOrphaned
<1>2. Owns(w, j)
  BY EndsEffect DEF Quiet, Held
<1>3. ~TaskError(w, j) /\ ~FailRetryable(w, j) /\ ~Release(w, j)
  BY <1>1 DEF TaskError, FailRetryable, Release, At
<1>4. EndTask(w, j) /\ requested' = requested
  BY <1>3 DEF EndsClaim, NotModified, CompleteParsed, Discover, RejectBody, PublisherFailure,
              history
<1>5. \A v \in Worker : phase'[v] # "stopping"
  BY <1>4 DEF EndTask, TypeOK, NoneStops
<1>6. Working(w, j)
  BY <1>3 DEF EndsClaim, NotModified, CompleteParsed, Discover, RejectBody, PublisherFailure,
              At, Working
<1>7. StampedBy(w, j)
  <2>1. ASSUME NEW row, NEW org, NEW backoff, NEW next \in Nat, next >= at + Interval,
               Write(w, j, row, Fetched(w, j, next, backoff), org)
        PROVE  StampedBy(w, j)
    BY <1>2, <2>1, StampEffect
  <2>2. CASE NotModified(w, j) \/ CompleteParsed(w, j)
    <3>1. PICK row, org : Write(w, j, row, Fetched(w, j, at + Interval, 0), org)
      BY <2>2 DEF NotModified, CompleteParsed
    <3>2. at + Interval \in Nat /\ at + Interval >= at + Interval
      BY <1>0
    <3> QED BY <2>1, <3>1, <3>2
  <2>3. ASSUME NEW d \in Nat, d >= Interval, NEW row, NEW org,
               Write(w, j, row, Fetched(w, j, at + d, at + d), org)
        PROVE  StampedBy(w, j)
    <3>1. at + d \in Nat /\ at + d >= at + Interval
      BY <1>0, <2>3
    <3> QED BY <2>1, <2>3, <3>1
  <2>4. CASE Discover(w, j)
    BY <1>0, <2>3, <2>4 DEF Discover
  <2>5. ASSUME NEW d \in FailureDelays, RejectBody(w, j, d)
        PROVE  StampedBy(w, j)
    BY <1>0, <2>3, <2>5 DEF RejectBody
  <2>6. ASSUME NEW d \in FailureDelays, NEW b \in OriginWaits \cup {0},
               PublisherFailure(w, j, d, b)
        PROVE  StampedBy(w, j)
    BY <1>0, <2>3, <2>6 DEF PublisherFailure
  <2> QED BY <1>3, <2>2, <2>4, <2>5, <2>6 DEF EndsClaim
<1> QED BY <1>4, <1>5, <1>6, <1>7

LEMMA CadenceKeeps ==
  ASSUME TypeOK, Quiet, OneActive, Cadence, Clean', [Next]_vars
  PROVE  Cadence'
<1>idle. Idle.step = "none" /\ now \in Nat /\ TypeOK
  BY DEF Idle, TypeOK
<1>stops. NoneStops /\ NoneOrphaned
  BY DEF Cadence
<1>held. ASSUME NEW v \in Worker, NEW k \in Job, task[v][k] # Idle
         PROVE  job[k].status = "running" /\ job[k].owner = v /\ job[k].leaseUntil > now
  BY <1>held DEF Quiet, Held, Owns
<1>1. CASE \/ EnqueueDueSources
           \/ \E s \in Source : Refresh(s)
           \/ \E s \in Fickle : Subscribe(s) \/ Unsubscribe(s)
  <2>1. /\ Kept /\ now' = now
        /\ \A j \in Job : SameRow(j) \/ \A w \in Worker : task[w][j] = Idle
    BY <1>1, InsertEffect
  <2>2. \A s \in Source : /\ source'[s].lastFetchAt = source[s].lastFetchAt
                          /\ source'[s].nextFetchAt = source[s].nextFetchAt
    <3>1. CASE EnqueueDueSources \/ \E s \in Source : Refresh(s)
      BY <3>1 DEF EnqueueDueSources, Refresh
    <3>2. CASE \E s \in Fickle : Subscribe(s) \/ Unsubscribe(s)
      <4>1. PICK s \in Source, b \in BOOLEAN : source' = [source EXCEPT ![s].subscribed = b]
        BY <3>2, Parameters DEF Subscribe, Unsubscribe
      <4>2. \A r \in SourceRow : /\ [r EXCEPT !.subscribed = b].lastFetchAt = r.lastFetchAt
                                 /\ [r EXCEPT !.subscribed = b].nextFetchAt = r.nextFetchAt
        BY DEF SourceRow
      <4> QED BY <4>1, <4>2 DEF TypeOK
    <3> QED BY <1>1, <3>1, <3>2
  <2>3. requested' = requested
    BY <1>1 DEF EnqueueDueSources, Refresh, Subscribe, Unsubscribe, history
  <2>4. \A w \in Worker, j \in Job : /\ Working(w, j)' <=> Working(w, j)
                                     /\ Waiting(w, j)' => Waiting(w, j)
    BY <1>idle, <2>1 DEF Kept, SameRow, Working, Waiting
  <2> QED BY <1>idle, <1>stops, <2>1, <2>2, <2>3, <2>4, CadenceSame
          DEF Kept, NoneStops, NoneOrphaned
<1>2. ASSUME NEW w \in Worker, NEW c \in Job, ClaimFetchJob(w, c)
      PROVE  Cadence'
  <2>1. /\ \A x \in Worker, j \in Job : x # w \/ j # c => task'[x][j] = task[x][j]
        /\ task[w][c] = Idle /\ task'[w][c].step = "claimed"
        /\ now' = now /\ source' = source /\ requested' = requested
        /\ \A x \in Worker : phase'[x] # "stopping"
    BY <1>2, <1>stops DEF ClaimFetchJob, TypeOK, history, NoneStops
  <2>2. /\ ~(job[c].status = "running" /\ job[c].leaseUntil > now)
        /\ job'[c].snap = job[c].snap
        /\ \A j \in Job \ {c} : job'[j] = Swept(j)
    BY <1>2, ClaimEffect
  <2>3. \A x \in Worker, j \in Job : Working(x, j)' <=> Working(x, j)
    BY <1>idle, <2>1 DEF Working
  <2>4. ASSUME NEW x \in Worker, NEW j \in Job, Waiting(x, j)', ~Waiting(x, j)
        PROVE  x = w /\ j = c
    <3> SUFFICES ASSUME x # w \/ j # c PROVE FALSE
      OBVIOUS
    <3>1. task[x][j].step = "claimed" /\ task[x][j] # Idle
      BY <1>idle, <2>1, <2>4 DEF Waiting
    <3>2. job'[j] = job[j]
      BY <1>held, <2>2, <3>1, SweptRow
    <3> QED BY <2>4, <3>1, <3>2 DEF Waiting
  <2>5. Waiting(w, c)' => ~Hurried(w, c)
    <3> DEFINE s == SourceOf[c]
    <3> SUFFICES ASSUME job[c].snap = "none" PROVE ~Hurried(w, c)
      BY <2>2 DEF Waiting
    <3>0. /\ s \in Source /\ source[s] \in SourceRow /\ requested[s] \in Nat
          /\ Interval \in Nat
      BY Parameters DEF TypeOK
    <3>1. source[s].lastFetchAt + Interval <= now \/ source[s].nextFetchAt <= now
      BY <1>2 DEF ClaimFetchJob, Candidate, Eligible, SourceDue
    <3>2. CASE requested[s] = 0
      BY <3>2 DEF Hurried
    <3>3. CASE Stamped(s)
      <4>1. source[s].lastFetchAt \in Nat /\ source[s].nextFetchAt \in Nat
        BY <3>0 DEF SourceRow
      <4> QED BY <1>idle, <3>0, <3>1, <3>3, <4>1 DEF Stamped, Hurried
    <3>4. ASSUME NEW x \in Worker, NEW j \in Job, SourceOf[j] = s, Working(x, j)
          PROVE  FALSE
      <4>1. job[j].status = "running" /\ job[j].leaseUntil > now
        BY <1>held, <1>idle, <3>4 DEF Working
      <4>2. Active(c)
        BY <1>2 DEF ClaimFetchJob, Candidate, Eligible, JobDue, Expired, Active
      <4> QED BY <2>2, <3>4, <4>1, <4>2 DEF OneActive, Active
    <3> QED BY <3>0, <3>2, <3>3, <3>4 DEF Cadence, RequestsStamped
  <2> QED BY <1>idle, <1>stops, <2>1, <2>3, <2>4, <2>5, CadenceSame DEF NoneOrphaned, Working
<1>3. ASSUME NEW w \in Worker, NEW j \in Job, Begin(w, j)
      PROVE  Cadence'
  <2>1. /\ \A x \in Worker, k \in Job : x # w \/ k # j => task'[x][k] = task[x][k]
        /\ task'[w][j].at = now /\ task'[w][j].step \in {"fetching", "parsing"}
        /\ task[w][j] # Idle /\ task[w][j].step = "claimed"
        /\ now' = now /\ job' = job /\ source' = source /\ phase' = phase
        /\ requested' = requested \/ requested' = [requested EXCEPT ![SourceOf[j]] = now]
    BY <1>3, <1>idle DEF Begin, At, tables, TypeOK
  <2>s. SourceOf[j] \in Source /\ \A s \in Source : requested[s] \in Nat
    BY Parameters DEF TypeOK
  <2>2. ASSUME NEW x \in Worker, NEW k \in Job, task[x][k] # Idle, x # w \/ k # j
        PROVE  SourceOf[k] # SourceOf[j]
    BY <2>1, <2>2, OneTask
  <2>3. RequestsPast'
    BY <1>idle, <2>1, <2>s DEF Cadence, RequestsPast, TypeOK
  <2>4. WorkDated'
    <3> SUFFICES ASSUME NEW x \in Worker, NEW k \in Job, Working(x, k)'
                 PROVE  requested'[SourceOf[k]] <= task'[x][k].at
      BY DEF WorkDated
    <3>1. CASE x = w /\ k = j
      BY <2>1, <2>3, <2>s, <3>1 DEF RequestsPast
    <3>2. CASE x # w \/ k # j
      <4>1. Working(x, k) /\ task[x][k] # Idle /\ SourceOf[k] \in Source
        BY <1>idle, <2>1, <3>2, Parameters DEF Working
      <4> QED BY <2>1, <2>2, <2>s, <3>2, <4>1 DEF Cadence, WorkDated, TypeOK
    <3> QED BY <3>1, <3>2
  <2>5. RequestsStamped'
    <3> SUFFICES ASSUME NEW s \in Source, requested'[s] # 0, ~Stamped(s)'
                 PROVE  \E x \in Worker, k \in Job : SourceOf[k] = s /\ Working(x, k)'
      BY DEF RequestsStamped
    <3>0. Working(w, j)'
      BY <2>1 DEF Working
    <3>1. CASE s = SourceOf[j]
      BY <3>0, <3>1
    <3>2. CASE s # SourceOf[j]
      <4>1. requested'[s] = requested[s]
        BY <2>1, <3>2 DEF TypeOK
      <4>2. ~Stamped(s)
        BY <2>1, <4>1 DEF Stamped
      <4>3. PICK x \in Worker, k \in Job : SourceOf[k] = s /\ Working(x, k)
        BY <4>1, <4>2 DEF Cadence, RequestsStamped
      <4>4. Working(x, k)'
        BY <2>1, <3>2, <4>3 DEF Working
      <4> QED BY <4>3, <4>4
    <3> QED BY <3>1, <3>2
  <2>6. WaitsOver'
    <3> SUFFICES ASSUME NEW x \in Worker, NEW k \in Job, Waiting(x, k)'
                 PROVE  ~Hurried(x, k)'
      BY DEF WaitsOver
    <3>1. x # w \/ k # j
      BY <2>1 DEF Waiting
    <3>2. Waiting(x, k) /\ task[x][k] # Idle /\ SourceOf[k] \in Source
      BY <1>idle, <2>1, <3>1, Parameters DEF Waiting
    <3>3. requested'[SourceOf[k]] = requested[SourceOf[k]]
      BY <2>1, <2>2, <3>1, <3>2 DEF TypeOK
    <3> QED BY <2>1, <3>2, <3>3 DEF Cadence, WaitsOver, Hurried
  <2>7. NoneStops' /\ NoneOrphaned'
    BY <1>stops, <2>1 DEF NoneStops, NoneOrphaned
  <2> QED BY <2>3, <2>4, <2>5, <2>6, <2>7 DEF Cadence
<1>4. ASSUME NEW w \in Worker, NEW j \in Job, ReceiveBody(w, j) \/ ParseOk(w, j)
      PROVE  Cadence'
  <2>1. /\ now' = now /\ source' = source /\ phase' = phase /\ requested' = requested
        /\ \A x \in Worker, k \in Job : x # w \/ k # j => task'[x][k] = task[x][k]
        /\ \A k \in Job \ {j} : job'[k] = job[k]
        /\ task[w][j] # Idle
    BY <1>4, <1>idle DEF ReceiveBody, ParseOk, At, To, history, TypeOK, JobsOK
  <2>2. Working(w, j) /\ Working(w, j)' /\ task'[w][j].at = task[w][j].at
    <3>1. CASE ReceiveBody(w, j)
      <4>1. job[j].snap = "none" /\ task[w][j].step = "fetching" /\ task[w][j] \in Task
        BY <3>1 DEF ReceiveBody, At, Quiet, BareFetch, TypeOK
      <4>2. task'[w][j] = [task[w][j] EXCEPT !.step = "parsing"]
        BY <3>1, <4>1 DEF ReceiveBody, To, TypeOK
      <4>3. task'[w][j].step = "parsing" /\ task'[w][j].at = task[w][j].at
        BY <4>1, <4>2 DEF Task
      <4> QED BY <4>1, <4>3 DEF Working
    <3>2. CASE ParseOk(w, j)
      BY <3>2 DEF ParseOk, At, To, TypeOK, Working, Task
    <3> QED BY <1>4, <3>1, <3>2
  <2>3. ASSUME NEW x \in Worker, NEW k \in Job
        PROVE  /\ Working(x, k)' <=> Working(x, k)
               /\ Working(x, k) => task'[x][k].at = task[x][k].at
               /\ task'[x][k].step # "orphaned"
               /\ Waiting(x, k)' => Waiting(x, k)
    <3>1. CASE x = w /\ k = j
      BY <2>2, <3>1 DEF Waiting, Working
    <3>2. CASE x # w \/ k # j
      <4>1. k = j => task[x][k] = Idle
        BY <1>held, <2>1, <3>2
      <4> QED BY <1>idle, <1>stops, <2>1, <3>2, <4>1 DEF Waiting, Working, NoneOrphaned
    <3> QED BY <3>1, <3>2
  <2> QED BY <1>idle, <1>stops, <2>1, <2>3, CadenceSame DEF NoneStops
<1>5. ASSUME NEW w \in Worker, NEW j \in Job, EndsClaim(w, j)
      PROVE  Cadence'
  <2> DEFINE s == SourceOf[j]
  <2>1. /\ task[w][j] # Idle /\ task' = [task EXCEPT ![w][j] = Idle]
        /\ \A k \in Job \ {j} : job'[k] = job[k]
        /\ now' = now
        /\ \A r \in Source \ {s} : source'[r] = source[r]
    BY <1>5, EndsEffect, EndsWrites
  <2>2. /\ Working(w, j) /\ StampedBy(w, j) /\ requested' = requested
        /\ NoneStops'
    BY <1>5, <1>stops, EndsStamp DEF NoneStops
  <2>3. /\ \A x \in Worker, k \in Job : x # w \/ k # j => task'[x][k] = task[x][k]
        /\ task'[w][j] = Idle
    BY <2>1 DEF TypeOK
  <2>4. RequestsPast' /\ NoneOrphaned'
    BY <1>idle, <1>stops, <2>1, <2>2, <2>3 DEF Cadence, RequestsPast, NoneOrphaned
  <2>5. WorkDated'
    BY <1>idle, <2>2, <2>3 DEF Cadence, WorkDated, Working
  <2>6. RequestsStamped'
    <3> SUFFICES ASSUME NEW r \in Source, requested[r] # 0, ~Stamped(r)'
                 PROVE  \E x \in Worker, k \in Job : SourceOf[k] = r /\ Working(x, k)'
      BY <2>2 DEF RequestsStamped
    <3>1. CASE r = s
      <4>1. /\ requested[s] \in Nat /\ task[w][j].at \in Nat /\ Interval \in Nat
            /\ source'[s] \in SourceRow /\ requested[s] <= task[w][j].at
        BY <2>2, <3>1, NextTyped, Parameters DEF TypeOK, Task, Cadence, WorkDated
      <4>2. source'[s].nextFetchAt \in Nat
        BY <4>1 DEF SourceRow
      <4>3. Stamped(s)'
        BY <2>2, <4>1, <4>2 DEF StampedBy, Stamped
      <4> QED BY <3>1, <4>3
    <3>2. CASE r # s
      <4>1. ~Stamped(r)
        BY <2>1, <2>2, <3>2 DEF Stamped
      <4>2. PICK x \in Worker, k \in Job : SourceOf[k] = r /\ Working(x, k)
        BY <4>1 DEF Cadence, RequestsStamped
      <4> QED BY <2>3, <3>2, <4>2 DEF Working
    <3> QED BY <3>1, <3>2
  <2>7. WaitsOver'
    <3> SUFFICES ASSUME NEW x \in Worker, NEW k \in Job, Waiting(x, k)'
                 PROVE  ~Hurried(x, k)'
      BY DEF WaitsOver
    <3>1. task[x][k].step = "claimed" /\ task[x][k] # Idle /\ (x # w \/ k # j)
      BY <1>idle, <2>3 DEF Waiting
    <3>2. k # j
      BY <1>held, <2>1, <3>1
    <3>3. Waiting(x, k)
      BY <2>1, <3>1, <3>2 DEF Waiting
    <3> QED BY <2>1, <2>2, <3>3 DEF Cadence, WaitsOver, Hurried
  <2> QED BY <2>2, <2>4, <2>5, <2>6, <2>7 DEF Cadence
<1>6. ASSUME NEW w \in Worker, NEW j \in Job, Renew(w, j)
      PROVE  Cadence'
  <2>1. \A k \in Job : job'[k].snap = job[k].snap
    BY <1>6 DEF Renew, TypeOK, JobsOK, Row
  <2> QED BY <1>6, <1>idle, <1>stops, <2>1, CadenceSame
          DEF Renew, worker, history, Working, Waiting, NoneStops, NoneOrphaned
<1>7. ASSUME NEW w \in Worker, ClaimNothing(w)
      PROVE  Cadence'
  <2>1. /\ task' = task /\ now' = now /\ source' = source /\ requested' = requested
        /\ \A x \in Worker : phase'[x] # "stopping"
        /\ \A k \in Job : job'[k] = Swept(k)
    BY <1>7, <1>stops DEF ClaimNothing, history, NoneStops, TypeOK
  <2>2. \A x \in Worker, k \in Job : Waiting(x, k)' => Waiting(x, k)
    BY <1>idle, <1>held, <2>1, SweptRow DEF Waiting
  <2> QED BY <1>idle, <1>stops, <2>1, <2>2, CadenceSame DEF Working, NoneOrphaned
<1>8. ASSUME NEW w \in Worker, ClaimError(w) \/ Stop(w) \/ Crash(w) \/ Stall(w)
      PROVE  FALSE
  BY <1>8, CleanStep DEF FaultKind, ClaimError, Stop, Crash, Stall
<1>9. ASSUME NEW w \in Worker, Resume(w) \/ Start(w)
      PROVE  Cadence'
  <2>1. \A k \in Job : job'[k].snap = job[k].snap
    BY <1>9 DEF Resume, Start, tables, TypeOK, JobsOK, Row
  <2>2. \A x \in Worker : phase'[x] # "stopping"
    BY <1>9, <1>stops DEF Resume, Start, NoneStops, TypeOK
  <2>3. task' = task /\ now' = now /\ source' = source /\ requested' = requested
    BY <1>9 DEF Resume, Start, tables, history
  <2> QED BY <1>idle, <1>stops, <2>1, <2>2, <2>3, CadenceSame DEF Working, Waiting, NoneOrphaned
<1>10. CASE Tick
  BY <1>10, <1>idle, <1>stops, CadenceSame
     DEF Tick, tables, worker, history, Working, Waiting, NoneStops, NoneOrphaned
<1>11. CASE UNCHANGED vars
  BY <1>11, <1>idle, <1>stops, CadenceSame
     DEF vars, Working, Waiting, NoneStops, NoneOrphaned
<1> QED BY <1>1, <1>2, <1>3, <1>4, <1>5, <1>6, <1>7, <1>8, <1>9, <1>10, <1>11 DEF Next

CInv == RInv /\ (Clean => Cadence)

LEMMA InitCInv == Init => CInv
<1> SUFFICES ASSUME Init PROVE CInv
  OBVIOUS
<1>1. \A w \in Worker, j \in Job : task[w][j].step = "none"
  BY DEF Init, Idle
<1>2. Cadence
  BY <1>1, Parameters DEF Init, Cadence, NoneStops, NoneOrphaned, RequestsPast, WorkDated,
     RequestsStamped, WaitsOver, Working, Waiting
<1> QED BY <1>2, InitRInv DEF CInv

LEMMA CInvKept == CInv /\ [Next]_vars => CInv'
<1> SUFFICES ASSUME CInv, [Next]_vars, Clean' PROVE Cadence'
  BY RInvKept DEF CInv
<1>1. TypeOK /\ Clean
  BY NoFaultBefore DEF CInv, RInv, IInv, Clean
<1>2. Quiet
  BY <1>1, CleanIsCalm, QuietNow DEF CInv, RInv
<1> QED BY <1>1, <1>2, CadenceKeeps DEF CInv, RInv

\* While nothing fails and nobody stops, a source is never asked again within the
\* safety interval, whatever is inserted and whoever asks for a refresh.
THEOREM CadenceHolds == Spec => CadenceKept
<1>1. ASSUME CInv, [Next]_vars, NEW w \in Worker, NEW j \in Job,
             Starts(w, j), NoFault(FaultKind)
      PROVE  ~Hurried(w, j)
  BY <1>1, StartsAtBegin DEF CInv, RInv, IInv, Clean, Cadence, WaitsOver
<1>2. CInv /\ [Next]_vars =>
        [\A w \in Worker, j \in Job :
           Starts(w, j) /\ NoFault(FaultKind) => ~Hurried(w, j)]_vars
  BY <1>1
<1> QED BY <1>2, InitCInv, CInvKept, PTL DEF Spec, CadenceKept

(***************************************************************************)
(* Batches.  The tasks of a worker are the claims of its batch as long as  *)
(* nothing throws (an error leaves the other claims running), the batch is *)
(* bounded, and a lease is held for a task until a crash or an error.      *)
(***************************************************************************)
TasksInBatch == NoFault({"error"}) =>
  \A w \in Worker, j \in Job : task[w][j] # Idle => j \in batch[w]
BatchBusy == \A w \in Worker : \A j \in batch[w] : task[w][j] # Idle
BatchBounded == \A w \in Worker :
  /\ IsFiniteSet(batch[w]) /\ Cardinality(batch[w]) <= NetworkConcurrency
  /\ phase[w] = "claiming" => Cardinality(batch[w]) < NetworkConcurrency
LeasesWorked == NoFault({"crash", "error"}) =>
  \A w \in Worker, j \in Job : job[j].owner = w => task[w][j] # Idle

LEMMA FaultsOf ==
  /\ {"error"} \in SUBSET FaultKind /\ {"crash", "error"} \in SUBSET FaultKind
  /\ "error" \in FaultKind /\ "crash" \in FaultKind
BY DEF FaultKind

\* The batches, in the steps that touch them.
LEMMA ClaimBatch ==
  ASSUME TypeOK, NEW w \in Worker, NEW c \in Job, ClaimFetchJob(w, c)
  PROVE  /\ \A v \in Worker \ {w} : batch'[v] = batch[v] /\ phase'[v] = phase[v]
         /\ batch'[w] = batch[w] \cup {c}
         /\ phase[w] = "claiming" /\ c \notin batch[w] => task[w][c] = Idle
         /\ phase'[w] = IF Cardinality(batch[w]) + 1 < NetworkConcurrency
                        THEN "claiming" ELSE "processing"
         /\ \A v \in Worker, j \in Job : v # w \/ j # c => task'[v][j] = task[v][j]
         /\ task'[w][c] # Idle
BY DEF ClaimFetchJob, TypeOK, Idle

LEMMA EndsBatch ==
  ASSUME TypeOK, NEW w \in Worker, NEW j \in Job, EndsClaim(w, j)
  PROVE  /\ \A v \in Worker \ {w} : batch'[v] = batch[v] /\ phase'[v] = phase[v]
         /\ batch'[w] \subseteq batch[w] \ {j}
         /\ TaskError(w, j) \/ batch'[w] = batch[w] \ {j}
         /\ phase'[w] = "claiming" => phase[w] = "claiming" \/ batch'[w] = {}
<1>1. CASE TaskError(w, j)
  BY <1>1 DEF TaskError, TypeOK
<1>2. CASE EndTask(w, j)
  BY <1>2 DEF EndTask, TypeOK
<1> QED BY <1>1, <1>2 DEF EndsClaim, NotModified, CompleteParsed, Discover, FailRetryable,
                          Release, RejectBody, PublisherFailure

LEMMA BatchBusyKept ==
  ASSUME TypeOK, BatchBusy, [Next]_vars
  PROVE  BatchBusy'
<1>1. CASE \/ EnqueueDueSources
           \/ \E s \in Source : Refresh(s)
           \/ \E s \in Fickle : Subscribe(s) \/ Unsubscribe(s)
  <2>1. task' = task /\ batch' = batch
    BY <1>1, InsertEffect
       DEF Kept, EnqueueDueSources, Refresh, Subscribe, Unsubscribe, worker
  <2> QED BY <2>1 DEF BatchBusy
<1>2. ASSUME NEW w \in Worker, NEW c \in Job, ClaimFetchJob(w, c) PROVE BatchBusy'
  BY <1>2, ClaimBatch DEF BatchBusy, TypeOK
<1>3. ASSUME NEW w \in Worker, NEW j \in Job, Begin(w, j) \/ ReceiveBody(w, j) \/ ParseOk(w, j)
      PROVE  BatchBusy'
  <2>1. /\ \A v \in Worker, k \in Job : v # w \/ k # j => task'[v][k] = task[v][k]
        /\ task'[w][j].step # "none" /\ batch' = batch
    <3>1. CASE Begin(w, j)
      BY <3>1 DEF Begin, TypeOK
    <3>2. CASE ReceiveBody(w, j) \/ ParseOk(w, j)
      <4>1. PICK step \in {"parsing", "orphaned", "parsed"} : To(w, j, step) /\ batch' = batch
        BY <3>2 DEF ReceiveBody, ParseOk
      <4>2. task[w][j] \in Task /\ task'[w][j] = [task[w][j] EXCEPT !.step = step]
        BY <4>1 DEF To, TypeOK
      <4>3. task'[w][j].step = step
        BY <4>2 DEF Task
      <4> QED BY <4>1, <4>3 DEF To, TypeOK
    <3> QED BY <1>3, <3>1, <3>2
  <2> QED BY <2>1 DEF BatchBusy, Idle, TypeOK
<1>4. ASSUME NEW w \in Worker, NEW j \in Job, EndsClaim(w, j) PROVE BatchBusy'
  <2>1. /\ \A v \in Worker \ {w} : batch'[v] = batch[v]
        /\ batch'[w] \subseteq batch[w] \ {j}
    BY <1>4, EndsBatch
  <2>2. \A v \in Worker, k \in Job : v # w \/ k # j => task'[v][k] = task[v][k]
    BY <1>4, EndsEffect DEF TypeOK
  <2>3. \A v \in Worker : batch[v] \subseteq Job
    BY DEF TypeOK
  <2> QED BY <2>1, <2>2, <2>3 DEF BatchBusy
<1>5. ASSUME NEW w \in Worker, ClaimError(w) \/ Crash(w) PROVE BatchBusy'
  <2>1. /\ batch'[w] = {}
        /\ \A v \in Worker \ {w} : batch'[v] = batch[v] /\ task'[v] = task[v]
    BY <1>5 DEF ClaimError, Crash, TypeOK
  <2> QED BY <2>1 DEF BatchBusy
<1>6. CASE \/ \E w \in Worker, j \in Job : Renew(w, j)
           \/ \E w \in Worker : ClaimNothing(w) \/ Stop(w) \/ Stall(w) \/ Resume(w) \/ Start(w)
           \/ Tick \/ UNCHANGED vars
  BY <1>6 DEF Renew, worker, ClaimNothing, Stop, Stall, Resume, Start, Tick, vars, BatchBusy
<1> QED BY <1>1, <1>2, <1>3, <1>4, <1>5, <1>6 DEF Next

LEMMA BatchBoundedKept ==
  ASSUME TypeOK, BatchBusy, DownIdle, BatchBounded, [Next]_vars
  PROVE  BatchBounded'
<1>nc. NetworkConcurrency \in Nat \ {0}
  BY ParametersAssumption
<1>card. ASSUME NEW w \in Worker
         PROVE  IsFiniteSet(batch[w]) /\ Cardinality(batch[w]) \in Nat
  BY FS_CardinalityType DEF BatchBounded
<1>less. ASSUME NEW w \in Worker, NEW S, S \subseteq batch[w]
         PROVE  IsFiniteSet(S) /\ Cardinality(S) \in Nat /\ Cardinality(S) <= Cardinality(batch[w])
  BY <1>card, <1>less, FS_Subset, FS_CardinalityType
<1>1. ASSUME \A w \in Worker : /\ batch'[w] \subseteq batch[w]
                               /\ phase'[w] = "claiming" => phase[w] = "claiming" \/ batch'[w] = {}
      PROVE  BatchBounded'
  <2> SUFFICES ASSUME NEW w \in Worker
               PROVE  /\ IsFiniteSet(batch'[w]) /\ Cardinality(batch'[w]) <= NetworkConcurrency
                      /\ phase'[w] = "claiming" => Cardinality(batch'[w]) < NetworkConcurrency
    BY DEF BatchBounded
  <2>1. /\ IsFiniteSet(batch'[w]) /\ Cardinality(batch'[w]) \in Nat
        /\ Cardinality(batch'[w]) <= Cardinality(batch[w]) /\ Cardinality(batch[w]) \in Nat
    BY <1>1, <1>card, <1>less
  <2>2. batch'[w] = {} => Cardinality(batch'[w]) = 0
    BY FS_EmptySet
  <2> QED BY <1>1, <1>nc, <2>1, <2>2 DEF BatchBounded
<1>2. CASE \/ EnqueueDueSources
           \/ \E s \in Source : Refresh(s)
           \/ \E s \in Fickle : Subscribe(s) \/ Unsubscribe(s)
  <2>1. phase' = phase /\ batch' = batch
    BY <1>2 DEF EnqueueDueSources, Refresh, Subscribe, Unsubscribe, worker
  <2> QED BY <1>1, <2>1
<1>3. ASSUME NEW w \in Worker, NEW c \in Job, ClaimFetchJob(w, c) PROVE BatchBounded'
  <2>1. /\ \A v \in Worker \ {w} : batch'[v] = batch[v] /\ phase'[v] = phase[v]
        /\ batch'[w] = batch[w] \cup {c}
        /\ phase'[w] = IF Cardinality(batch[w]) + 1 < NetworkConcurrency
                       THEN "claiming" ELSE "processing"
    BY <1>3, ClaimBatch
  <2>a. phase[w] = "claiming"
    BY <1>3 DEF ClaimFetchJob
  <2>2. /\ IsFiniteSet(batch[w] \cup {c}) /\ Cardinality(batch[w] \cup {c}) \in Nat
        /\ Cardinality(batch[w] \cup {c}) <= Cardinality(batch[w]) + 1
    <3>1. IsFiniteSet(batch[w]) /\ Cardinality(batch[w]) \in Nat
      BY <1>card
    <3>2. /\ IsFiniteSet(batch[w] \cup {c})
          /\ Cardinality(batch[w] \cup {c}) = IF c \in batch[w] THEN Cardinality(batch[w])
                                              ELSE Cardinality(batch[w]) + 1
      BY <3>1, FS_AddElement
    <3> QED BY <3>1, <3>2
  <2>3. Cardinality(batch[w]) < NetworkConcurrency
    BY <2>a DEF BatchBounded
  <2>4. /\ IsFiniteSet(batch'[w]) /\ Cardinality(batch'[w]) <= NetworkConcurrency
        /\ phase'[w] = "claiming" => Cardinality(batch'[w]) < NetworkConcurrency
    BY <1>card, <1>nc, <2>1, <2>2, <2>3
  <2> QED BY <2>1, <2>4 DEF BatchBounded
<1>4. CASE \E w \in Worker, j \in Job :
             Begin(w, j) \/ ReceiveBody(w, j) \/ ParseOk(w, j) \/ Renew(w, j)
  BY <1>1, <1>4 DEF Begin, ReceiveBody, ParseOk, Renew, worker
<1>5. ASSUME NEW w \in Worker, NEW j \in Job, EndsClaim(w, j) PROVE BatchBounded'
  <2>1. \A v \in Worker : /\ batch'[v] \subseteq batch[v]
                          /\ phase'[v] = "claiming" => phase[v] = "claiming" \/ batch'[v] = {}
    BY <1>5, EndsBatch
  <2> QED BY <1>1, <2>1
<1>6. ASSUME NEW w \in Worker, ClaimNothing(w) \/ ClaimError(w) \/ Stop(w) \/ Crash(w)
      PROVE  BatchBounded'
  <2>1. \A v \in Worker : /\ batch'[v] \subseteq batch[v]
                          /\ phase'[v] = "claiming" => phase[v] = "claiming" \/ batch'[v] = {}
    BY <1>6 DEF ClaimNothing, ClaimError, Stop, Crash, TypeOK
  <2> QED BY <1>1, <2>1
<1>7. ASSUME NEW w \in Worker, Start(w) PROVE BatchBounded'
  <2>1. batch[w] = {}
    BY <1>7 DEF Start, DownIdle, BatchBusy, TypeOK
  <2>2. \A v \in Worker : /\ batch'[v] \subseteq batch[v]
                          /\ phase'[v] = "claiming" => phase[v] = "claiming" \/ batch'[v] = {}
    BY <1>7, <2>1 DEF Start, TypeOK
  <2> QED BY <1>1, <2>2
<1>8. CASE (\E w \in Worker : Stall(w) \/ Resume(w)) \/ Tick \/ UNCHANGED vars
  BY <1>1, <1>8 DEF Stall, Resume, Tick, worker, vars
<1> QED BY <1>2, <1>3, <1>4, <1>5, <1>6, <1>7, <1>8 DEF Next

LEMMA TasksInBatchKept ==
  ASSUME TypeOK, TasksInBatch, [Next]_vars
  PROVE  TasksInBatch'
<1> SUFFICES ASSUME NoFault({"error"})', NEW v \in Worker, NEW k \in Job, task'[v][k] # Idle
             PROVE  k \in batch'[v]
  BY DEF TasksInBatch
<1>0. /\ \A w \in Worker, j \in Job : task[w][j] # Idle => j \in batch[w]
      /\ ~Fault("error")
  BY FaultsOf, NoFaultBefore, NoFaultNow DEF TasksInBatch
<1>1. CASE \/ EnqueueDueSources
           \/ \E s \in Source : Refresh(s)
           \/ \E s \in Fickle : Subscribe(s) \/ Unsubscribe(s)
  BY <1>0, <1>1 DEF EnqueueDueSources, Refresh, Subscribe, Unsubscribe, worker
<1>2. ASSUME NEW w \in Worker, NEW c \in Job, ClaimFetchJob(w, c) PROVE k \in batch'[v]
  BY <1>0, <1>2, ClaimBatch
<1>3. ASSUME NEW w \in Worker, NEW j \in Job, Begin(w, j) \/ ReceiveBody(w, j) \/ ParseOk(w, j)
      PROVE  k \in batch'[v]
  <2>1. /\ \A x \in Worker, i \in Job : x # w \/ i # j => task'[x][i] = task[x][i]
        /\ task[w][j] # Idle /\ batch' = batch
    BY <1>3 DEF Begin, ReceiveBody, ParseOk, At, To, Idle, TypeOK
  <2> QED BY <1>0, <2>1
<1>4. ASSUME NEW w \in Worker, NEW j \in Job, EndsClaim(w, j) PROVE k \in batch'[v]
  <2>1. /\ \A x \in Worker \ {w} : batch'[x] = batch[x]
        /\ batch'[w] = batch[w] \ {j}
    BY <1>0, <1>4, EndsBatch DEF TaskError
  <2>2. /\ \A x \in Worker, i \in Job : x # w \/ i # j => task'[x][i] = task[x][i]
        /\ task'[w][j] = Idle
    BY <1>4, EndsEffect DEF TypeOK
  <2> QED BY <1>0, <2>1, <2>2
<1>5. ASSUME NEW w \in Worker, ClaimError(w) PROVE FALSE
  BY <1>0, <1>5 DEF ClaimError
<1>6. ASSUME NEW w \in Worker, Crash(w) PROVE k \in batch'[v]
  BY <1>0, <1>6 DEF Crash, TypeOK
<1>7. CASE \/ \E w \in Worker, j \in Job : Renew(w, j)
           \/ \E w \in Worker : ClaimNothing(w) \/ Stop(w) \/ Stall(w) \/ Resume(w) \/ Start(w)
           \/ Tick \/ UNCHANGED vars
  BY <1>0, <1>7 DEF Renew, worker, ClaimNothing, Stop, Stall, Resume, Start, Tick, vars
<1> QED BY <1>1, <1>2, <1>3, <1>4, <1>5, <1>6, <1>7 DEF Next

\* A lease that was given to a worker is worked on until it is given up.
LEMMA LeasesWorkedKept ==
  ASSUME TypeOK, LeasesWorked, [Next]_vars
  PROVE  LeasesWorked'
<1> SUFFICES ASSUME NoFault({"crash", "error"})', NEW v \in Worker, NEW k \in Job,
                    job'[k].owner = v
             PROVE  task'[v][k] # Idle
  BY DEF LeasesWorked
<1>0. /\ \A w \in Worker, j \in Job : job[j].owner = w => task[w][j] # Idle
      /\ ~Fault("error") /\ ~Fault("crash")
  BY FaultsOf, NoFaultBefore, NoFaultNow DEF LeasesWorked
<1>own. NoOwner \notin Worker /\ Gone \notin Worker /\ JobsOK'
  BY ParametersAssumption, NextTyped DEF TypeOK
<1>run. job'[k].status = "running"
  BY <1>own DEF JobsOK, Sound
<1>swept. \A j \in Job : Swept(j).status = "running" => Swept(j) = job[j]
  BY SweptRow
<1>1. CASE \/ EnqueueDueSources
           \/ \E s \in Source : Refresh(s)
           \/ \E s \in Fickle : Subscribe(s) \/ Unsubscribe(s)
  <2>1. task' = task /\ (SameRow(k) \/ job'[k].status = "queued")
    BY <1>1, InsertEffect DEF Kept
  <2> QED BY <1>0, <1>run, <2>1 DEF SameRow, SameLease
<1>2. ASSUME NEW w \in Worker, NEW c \in Job, ClaimFetchJob(w, c) PROVE task'[v][k] # Idle
  <2>1. /\ \A x \in Worker, j \in Job : x # w \/ j # c => task'[x][j] = task[x][j]
        /\ task'[w][c] # Idle /\ job'[c].owner = w
        /\ \A j \in Job \ {c} : job'[j] = Swept(j)
    BY <1>2, ClaimBatch, ClaimEffect
  <2> QED BY <1>0, <1>run, <1>swept, <2>1
<1>3. ASSUME NEW w \in Worker, NEW j \in Job, Begin(w, j) \/ ReceiveBody(w, j) \/ ParseOk(w, j)
      PROVE  task'[v][k] # Idle
  <2>1. /\ \A x \in Worker, i \in Job : x # w \/ i # j => task'[x][i] = task[x][i]
        /\ task'[w][j].step # "none"
    <3>1. CASE Begin(w, j)
      BY <3>1 DEF Begin, TypeOK
    <3>2. CASE ReceiveBody(w, j) \/ ParseOk(w, j)
      <4>1. PICK step \in {"parsing", "orphaned", "parsed"} : To(w, j, step)
        BY <3>2 DEF ReceiveBody, ParseOk
      <4>2. task[w][j] \in Task /\ task'[w][j] = [task[w][j] EXCEPT !.step = step]
        BY <4>1 DEF To, TypeOK
      <4>3. task'[w][j].step = step
        BY <4>2 DEF Task
      <4> QED BY <4>1, <4>3 DEF To, TypeOK
    <3> QED BY <1>3, <3>1, <3>2
  <2>2. job'[k].owner = job[k].owner
    <3>1. CASE Begin(w, j)
      BY <3>1 DEF Begin, tables
    <3>2. CASE ReceiveBody(w, j)
      <4>1. \A r \in Row : [r EXCEPT !.snap = "raw"].owner = r.owner
        BY DEF Row
      <4>2. job' = job \/ job' = [job EXCEPT ![j] = [job[j] EXCEPT !.snap = "raw"]]
        BY <3>2 DEF ReceiveBody
      <4>3. job[j] \in Row /\ job \in [Job -> Row]
        BY DEF TypeOK, JobsOK
      <4> QED BY <4>1, <4>2, <4>3
    <3>3. CASE ParseOk(w, j)
      BY <3>3 DEF ParseOk, TypeOK, JobsOK, Row
    <3> QED BY <1>3, <3>1, <3>2, <3>3
  <2> QED BY <1>0, <2>1, <2>2 DEF Idle
<1>4. ASSUME NEW w \in Worker, NEW j \in Job, EndsClaim(w, j) PROVE task'[v][k] # Idle
  <2>1. /\ \A x \in Worker, i \in Job : x # w \/ i # j => task'[x][i] = task[x][i]
        /\ job'[k] = job[k]
    BY <1>4, <1>run, EndsEffect DEF TypeOK
  <2>2. ~(v = w /\ k = j)
    <3> SUFFICES ASSUME v = w, k = j, Owns(w, j) PROVE FALSE
      BY <1>run, <2>1 DEF Owns
    <3>1. PICK row, src, org : Write(w, j, row, src, org) /\ row.status # "running"
      <4>1. /\ Done(j).status # "running" /\ GivenBack(j).status # "running"
            /\ Unleased(job[j], "dead").status # "running"
            /\ \A time : Retry(j, time).status # "running"
        BY ClosedRow DEF Done, Retry
      <4>2. ~TaskError(w, j)
        BY <1>0 DEF TaskError
      <4>3. CASE NotModified(w, j) \/ CompleteParsed(w, j) \/ Discover(w, j)
        BY <4>1, <4>3 DEF NotModified, CompleteParsed, Discover
      <4>4. CASE FailRetryable(w, j) \/ Release(w, j)
        BY <4>1, <4>4 DEF FailRetryable, Release
      <4>5. CASE \E d \in FailureDelays : RejectBody(w, j, d)
        BY <4>1, <4>5 DEF RejectBody
      <4>6. CASE \E d \in FailureDelays, b \in OriginWaits \cup {0} : PublisherFailure(w, j, d, b)
        BY <4>1, <4>6 DEF PublisherFailure
      <4> QED BY <1>4, <4>2, <4>3, <4>4, <4>5, <4>6 DEF EndsClaim
    <3>2. job'[j] = row
      BY <3>1 DEF Write, TypeOK, JobsOK
    <3> QED BY <1>run, <3>1, <3>2
  <2> QED BY <1>0, <2>1, <2>2
<1>5. ASSUME NEW w \in Worker, ClaimError(w) \/ Crash(w) PROVE FALSE
  BY <1>0, <1>5 DEF ClaimError, Crash
<1>6. ASSUME NEW w \in Worker, NEW j \in Job, Renew(w, j) PROVE task'[v][k] # Idle
  <2>1. job'[k].owner = job[k].owner
    BY <1>6 DEF Renew, TypeOK, JobsOK, Row
  <2> QED BY <1>0, <1>6, <2>1 DEF Renew, worker
<1>7. ASSUME NEW w \in Worker, ClaimNothing(w) PROVE task'[v][k] # Idle
  BY <1>0, <1>7, <1>run, <1>swept DEF ClaimNothing
<1>8. ASSUME NEW w \in Worker, Stop(w) \/ Stall(w) \/ Resume(w) PROVE task'[v][k] # Idle
  BY <1>0, <1>8 DEF Stop, Stall, Resume, tables
<1>9. ASSUME NEW w \in Worker, Start(w) PROVE task'[v][k] # Idle
  <2>1. job[k] \in Row
    BY DEF TypeOK, JobsOK
  <2>2. [job[k] EXCEPT !.owner = Gone].owner = Gone
    BY <2>1 DEF Row
  <2>3. job'[k] = job[k]
    BY <1>9, <1>own, <2>2 DEF Start
  <2> QED BY <1>0, <1>9, <2>3 DEF Start
<1>10. CASE Tick \/ UNCHANGED vars
  BY <1>0, <1>10 DEF Tick, worker, tables, vars
<1> QED BY <1>1, <1>2, <1>3, <1>4, <1>5, <1>6, <1>7, <1>8, <1>9, <1>10 DEF Next

BInv == TypeOK /\ DownIdle /\ TasksInBatch /\ BatchBusy /\ BatchBounded /\ LeasesWorked

LEMMA InitBInv == Init => BInv
<1> SUFFICES ASSUME Init PROVE BInv
  OBVIOUS
<1>1. TasksInBatch /\ BatchBusy /\ DownIdle
  BY DEF Init, TasksInBatch, BatchBusy, DownIdle
<1>2. LeasesWorked
  BY Parameters DEF Init, LeasesWorked
<1>3. BatchBounded
  <2>1. NetworkConcurrency \in Nat \ {0}
    BY ParametersAssumption
  <2> QED BY <2>1, FS_EmptySet DEF Init, BatchBounded
<1> QED BY <1>1, <1>2, <1>3, InitTyped DEF BInv

LEMMA BInvKept == BInv /\ [Next]_vars => BInv'
BY NextTyped, DownIdleKept, TasksInBatchKept, BatchBusyKept, BatchBoundedKept, LeasesWorkedKept
   DEF BInv

\* The batches of a worker: while nothing throws, no more requests in flight than
\* networkConcurrency; a process that stopped on a signal left no lease behind.
THEOREM BatchesKept == Spec => []BatchesHold
<1>1. ASSUME BInv PROVE NetworkBound
  <2> SUFFICES ASSUME NoFault({"error"}), NEW w \in Worker
               PROVE  Cardinality(Flying(w)) <= NetworkConcurrency
    BY DEF NetworkBound
  <2>1. Flying(w) \subseteq batch[w]
    BY <1>1 DEF Flying, BInv, TasksInBatch, Idle
  <2>2. IsFiniteSet(batch[w]) /\ Cardinality(batch[w]) <= NetworkConcurrency
    BY <1>1 DEF BInv, BatchBounded
  <2>3. IsFiniteSet(Flying(w)) /\ Cardinality(Flying(w)) <= Cardinality(batch[w])
    BY <2>1, <2>2, FS_Subset
  <2>4. Cardinality(Flying(w)) \in Nat /\ Cardinality(batch[w]) \in Nat
    BY <2>2, <2>3, FS_CardinalityType
  <2> QED BY <2>2, <2>3, <2>4, ParametersAssumption
<1>2. ASSUME BInv PROVE StopReleasesAll
  BY <1>2 DEF StopReleasesAll, BInv, LeasesWorked, DownIdle
<1>3. BInv => BatchesHold
  BY <1>1, <1>2 DEF BatchesHold
<1> QED BY <1>3, InitBInv, BInvKept, PTL DEF Spec

---------------------------------------------------------------------------

(***************************************************************************)
(* FeedHealth: what fetches do to the rows of a source and its origin.     *)
(***************************************************************************)
CONSTANTS Feeds, Failures, Answers, MaxInARow
VARIABLES rows, host, claims

Health == INSTANCE FeedHealth WITH
  Source <- Feeds, Kinds <- Failures, Headers <- Answers, MaxFailures <- MaxInARow,
  source <- rows, origin <- host, claim <- claims

\* The ladders, in seconds.
LEMMA Ladders ==
  ASSUME NEW kind \in Health!Kind
  PROVE  \/ Health!Ladder(kind) = <<Health!Week>>
         \/ kind # "gone" /\ Health!Ladder(kind) = <<Health!Day, 3 * Health!Day, Health!Week>>
         \/ kind # "gone" /\ Health!Ladder(kind) = <<6 * Health!Hour, Health!Day, Health!Week>>
         \/ /\ kind # "gone"
            /\ Health!Ladder(kind) = <<Health!Hour, 2 * Health!Hour, 4 * Health!Hour, Health!Day>>
         \/ kind # "gone" /\ Health!Ladder(kind) = <<6 * Health!Hour, Health!Day>>
         \/ /\ kind # "gone"
            /\ Health!Ladder(kind) = <<900, 1800, Health!Hour, 2 * Health!Hour, 6 * Health!Hour>>
<1>1. CASE kind = "gone"
  BY <1>1 DEF Health!Ladder, Health!Rejected
<1>2. CASE kind = "denied"
  BY <1>2 DEF Health!Ladder, Health!Rejected
<1>3. CASE kind \in Health!Rejected
  BY <1>3 DEF Health!Ladder, Health!Rejected
<1>4. CASE kind = "limited"
  BY <1>4 DEF Health!Ladder, Health!Rejected
<1>5. CASE kind \in {"dns", "tls"}
  BY <1>5 DEF Health!Ladder, Health!Rejected
<1>6. CASE kind \in {"network", "status", "unavailable"}
  BY <1>6 DEF Health!Ladder, Health!Rejected
<1>7. kind \in {"gone", "denied", "limited"} \cup Health!Rejected \cup {"dns", "tls"}
             \cup {"network", "status", "unavailable"}
  BY DEF Health!Kind, Health!Status, Health!Transport
<1>8. QED
  BY <1>1, <1>2, <1>3, <1>4, <1>5, <1>6, <1>7

\* A rung of any ladder is between a quarter of an hour and a week.
LEMMA RungBounds ==
  ASSUME NEW kind \in Health!Kind, NEW n \in Nat, n >= 1
  PROVE  /\ Health!Rung(Health!Ladder(kind), n) \in Nat
         /\ Health!Rung(Health!Ladder(kind), n) >= Health!MinInterval
         /\ Health!Rung(Health!Ladder(kind), n) <= Health!Week
         /\ kind = "gone" => Health!Rung(Health!Ladder(kind), n) = Health!Week
<1>1. CASE Health!Ladder(kind) = <<Health!Week>>
  BY <1>1 DEF Health!Rung, Health!AtMost, Health!MinInterval, Health!Week, Health!Day,
     Health!Hour
<1>2. CASE kind # "gone" /\ Health!Ladder(kind) = <<Health!Day, 3 * Health!Day, Health!Week>>
  BY <1>2 DEF Health!Rung, Health!AtMost, Health!MinInterval, Health!Week, Health!Day,
     Health!Hour
<1>3. CASE kind # "gone" /\ Health!Ladder(kind) = <<6 * Health!Hour, Health!Day, Health!Week>>
  BY <1>3 DEF Health!Rung, Health!AtMost, Health!MinInterval, Health!Week, Health!Day,
     Health!Hour
<1>4. CASE /\ kind # "gone"
          /\ Health!Ladder(kind) = <<Health!Hour, 2 * Health!Hour, 4 * Health!Hour, Health!Day>>
  BY <1>4 DEF Health!Rung, Health!AtMost, Health!MinInterval, Health!Week, Health!Day,
     Health!Hour
<1>5. CASE kind # "gone" /\ Health!Ladder(kind) = <<6 * Health!Hour, Health!Day>>
  BY <1>5 DEF Health!Rung, Health!AtMost, Health!MinInterval, Health!Week, Health!Day,
     Health!Hour
<1>6. CASE /\ kind # "gone"
          /\ Health!Ladder(kind) = <<900, 1800, Health!Hour, 2 * Health!Hour, 6 * Health!Hour>>
  BY <1>6 DEF Health!Rung, Health!AtMost, Health!MinInterval, Health!Week, Health!Day,
     Health!Hour
<1>7. QED
  BY <1>1, <1>2, <1>3, <1>4, <1>5, <1>6, Ladders

\* A rung further up is never lower.
LEMMA RungsRise ==
  ASSUME NEW kind \in Health!Kind, NEW n \in Nat, n >= 1
  PROVE  Health!Rung(Health!Ladder(kind), n) <= Health!Rung(Health!Ladder(kind), n + 1)
<1>1. CASE Health!Ladder(kind) = <<Health!Week>>
  BY <1>1 DEF Health!Rung, Health!AtMost, Health!Week, Health!Day, Health!Hour
<1>2. CASE kind # "gone" /\ Health!Ladder(kind) = <<Health!Day, 3 * Health!Day, Health!Week>>
  BY <1>2 DEF Health!Rung, Health!AtMost, Health!Week, Health!Day, Health!Hour
<1>3. CASE kind # "gone" /\ Health!Ladder(kind) = <<6 * Health!Hour, Health!Day, Health!Week>>
  BY <1>3 DEF Health!Rung, Health!AtMost, Health!Week, Health!Day, Health!Hour
<1>4. CASE /\ kind # "gone"
          /\ Health!Ladder(kind) = <<Health!Hour, 2 * Health!Hour, 4 * Health!Hour, Health!Day>>
  BY <1>4 DEF Health!Rung, Health!AtMost, Health!Week, Health!Day, Health!Hour
<1>5. CASE kind # "gone" /\ Health!Ladder(kind) = <<6 * Health!Hour, Health!Day>>
  BY <1>5 DEF Health!Rung, Health!AtMost, Health!Week, Health!Day, Health!Hour
<1>6. CASE /\ kind # "gone"
          /\ Health!Ladder(kind) = <<900, 1800, Health!Hour, 2 * Health!Hour, 6 * Health!Hour>>
  BY <1>6 DEF Health!Rung, Health!AtMost, Health!Week, Health!Day, Health!Hour
<1>7. QED
  BY <1>1, <1>2, <1>3, <1>4, <1>5, <1>6, Ladders

\* The wait after a failure is between a quarter of an hour and a leap year; it is a week at least
\* when the circuit opens or the feed is gone.
LEMMA DelayBounds ==
  ASSUME NEW kind \in Health!Kind, NEW n \in Nat, n >= 1, NEW header \in Int,
         NEW delay, delay = Health!FailureDelay(kind, n, header, 0, 0)
  PROVE  /\ delay \in Nat
         /\ delay >= Health!MinInterval /\ delay <= Health!MaxRetryAfter
         /\ Health!CircuitOpens(kind, n) \/ kind = "gone" => delay >= Health!Week
<1>1. PICK rung \in Nat : rung = Health!Rung(Health!Ladder(kind), n)
  BY RungBounds
<1>2. /\ rung >= Health!MinInterval /\ rung <= Health!Week
      /\ kind = "gone" => rung = Health!Week
  BY <1>1, RungBounds
<1>3. \/ Health!Asked(kind, n, header) = rung
      \/ /\ kind # "gone" /\ Health!Asked(kind, n, header) = header
         /\ header \in 0..Health!MaxRetryAfter
  BY <1>1 DEF Health!Asked, Health!RetryAfter
<1>4. /\ Health!Asked(kind, n, header) \in Nat
      /\ Health!Asked(kind, n, header) <= Health!MaxRetryAfter
      /\ kind = "gone" => Health!Asked(kind, n, header) >= Health!Week
  <2>1. Health!Week \in Nat /\ Health!MaxRetryAfter \in Nat
        /\ Health!Week <= Health!MaxRetryAfter
    BY SMT DEF Health!MaxRetryAfter, Health!Week, Health!Day, Health!Hour
  <2>2. CASE Health!Asked(kind, n, header) = rung
    BY <1>2, <2>1, <2>2
  <2>3. CASE /\ kind # "gone" /\ Health!Asked(kind, n, header) = header
             /\ header \in 0..Health!MaxRetryAfter
    BY <2>1, <2>3
  <2>4. QED
    BY <1>3, <2>2, <2>3
<1> DEFINE secs == Health!Asked(kind, n, header)
<1> HIDE DEF secs
<1>5. delay = Health!AtLeast(0, Health!AtLeast(Health!MinInterval,
                IF Health!CircuitOpens(kind, n) THEN Health!AtLeast(Health!Week, secs)
                ELSE secs) + 0)
  BY DEF secs, Health!FailureDelay, Health!Base
<1>6. QED
  BY <1>4, <1>5 DEF secs, Health!AtLeast, Health!MinInterval, Health!MaxRetryAfter, Health!Week,
     Health!Day, Health!Hour

\* The same failure once more never shortens the wait, if the publisher has no say in it.
LEMMA DelaysRise ==
  ASSUME NEW kind \in Health!Kind \ {"limited", "unavailable"}, NEW n \in Nat, n >= 1,
         NEW before \in Int, NEW after \in Int
  PROVE  Health!FailureDelay(kind, n, before, 0, 0)
           <= Health!FailureDelay(kind, n + 1, after, 0, 0)
<1>1. PICK r1 \in Nat, r2 \in Nat : /\ r1 = Health!Rung(Health!Ladder(kind), n)
                                   /\ r2 = Health!Rung(Health!Ladder(kind), n + 1)
  BY RungBounds
<1>2. r1 <= r2
  BY <1>1, RungsRise
<1>3. Health!Asked(kind, n, before) = r1 /\ Health!Asked(kind, n + 1, after) = r2
  BY <1>1 DEF Health!Asked
<1>4. Health!CircuitOpens(kind, n) => Health!CircuitOpens(kind, n + 1)
  BY DEF Health!CircuitOpens
<1>5. QED
  BY <1>2, <1>3, <1>4 DEF Health!FailureDelay, Health!Base, Health!AtLeast, Health!MinInterval,
     Health!Week, Health!Day, Health!Hour

---------------------------------------------------------------------------

\* What holds of a source's row. The last conjunct says where its wait comes from.
SourceFits(r) ==
  /\ r \in Health!SourceRow
  /\ r.failures > 0 => r.wait >= Health!MinInterval /\ r.wait <= Health!MaxRetryAfter
  /\ r.state = "paused" \/ r.failures >= 8 => r.wait >= Health!Week
  /\ r.circuit = "closed" => r.failures < 8
  /\ r.error \in Health!Kind \ {"limited", "unavailable"} =>
       /\ r.failures >= 1
       /\ \E h \in Answers : r.wait = Health!FailureDelay(r.error, r.failures, h, 0, 0)

\* What holds of an origin's row, and of one that a claim has read.
OriginFits(o) ==
  /\ o \in Health!OriginRow
  /\ o.circuit = "closed" => o.failures < 8
  /\ o.block <= Health!MaxRetryAfter

\* A claim that is open holds the row of its source as it is: only one claim of a source is open.
\* What it holds of the origin may be old.
ClaimFits(s) ==
  /\ claims[s] \in [step : {"none", "fetching", "parsing"}, src : Health!SourceRow,
                    org : Health!OriginRow]
  /\ claims[s].step # "none" => claims[s].src = rows[s]
  /\ OriginFits(claims[s].org)

\* The inductive invariant.
HealthInv ==
  /\ DOMAIN rows = Feeds /\ rows = [s \in Feeds |-> rows[s]]
  /\ \A s \in Feeds : SourceFits(rows[s])
  /\ OriginFits(host)
  /\ claims = [s \in Feeds |-> claims[s]]
  /\ \A s \in Feeds : ClaimFits(s)

\* The order of the times.
LEMMA Times ==
  /\ Health!MinInterval \in Nat /\ Health!Week \in Nat /\ Health!MaxRetryAfter \in Nat
  /\ Health!MinInterval <= Health!Week /\ Health!Week <= Health!MaxRetryAfter
BY SMT DEF Health!MinInterval, Health!MaxRetryAfter, Health!Week, Health!Day, Health!Hour

\* The rows that a source, an origin and a claim begin with.
LEMMA NewFits ==
  /\ SourceFits(Health!NewSource) /\ OriginFits(Health!NewOrigin)
  /\ Health!NoClaim \in [step : {"none", "fetching", "parsing"}, src : Health!SourceRow,
                         org : Health!OriginRow]
  /\ Health!NoClaim.step = "none" /\ Health!NoClaim.org = Health!NewOrigin
<1>1. Health!NewSource \in Health!SourceRow /\ Health!NewOrigin \in Health!OriginRow
  BY DEF Health!NewSource, Health!NewOrigin, Health!SourceRow, Health!OriginRow, Health!Circuit
<1>2. "none" \notin Health!Kind
  BY DEF Health!Kind, Health!Rejected, Health!Status, Health!Transport
<1>3. SourceFits(Health!NewSource)
  BY <1>1, <1>2 DEF SourceFits, Health!NewSource
<1>4. OriginFits(Health!NewOrigin)
  BY <1>1, Times DEF OriginFits, Health!NewOrigin
<1>5. QED
  BY <1>1, <1>3, <1>4 DEF Health!NoClaim

\* The row of a source whose fetch has succeeded.
LEMMA HealthyFits == SourceFits(Health!Healthy) /\ Health!Healthy.failures = 0
<1>1. Health!NextFetchDelay("active", 0, 0) = Health!MinInterval
  BY Times DEF Health!NextFetchDelay, Health!AtLeast
<1>2. Health!Healthy = [failures |-> 0, circuit |-> "closed", state |-> "active",
                        wait |-> Health!MinInterval, error |-> "none"]
  BY <1>1 DEF Health!Healthy, Health!NewSource
<1>3. "none" \notin Health!Kind
  BY DEF Health!Kind, Health!Rejected, Health!Status, Health!Transport
<1>4. Health!Healthy \in Health!SourceRow
  BY <1>2, Times DEF Health!SourceRow, Health!Circuit
<1>5. QED
  BY <1>2, <1>3, <1>4 DEF SourceFits

\* The row of a source whose page is no feed but names some.
LEMMA DiscoveredFits ==
  ASSUME NEW r, SourceFits(r), NEW q,
         q = [r EXCEPT !.state = "paused", !.wait = Health!Week, !.error = "discovery_required"]
  PROVE  SourceFits(q) /\ q.failures = r.failures /\ q.circuit = r.circuit
                       /\ q.error = "discovery_required"
<1>1. /\ q.failures = r.failures /\ q.circuit = r.circuit /\ q.state = "paused"
      /\ q.wait = Health!Week /\ q.error = "discovery_required"
  BY DEF SourceFits, Health!SourceRow
<1>2. q \in Health!SourceRow
  BY Times DEF SourceFits, Health!SourceRow
<1>3. "discovery_required" \notin Health!Kind
  BY DEF Health!Kind, Health!Rejected, Health!Status, Health!Transport
<1>4. r.failures \in Nat
  BY DEF SourceFits, Health!SourceRow
<1>5. QED
  BY <1>1, <1>2, <1>3, <1>4, Times DEF SourceFits

\* The row of a source whose fetch has failed.
LEMMA FailedFits ==
  ASSUME NEW s \in Feeds, SourceFits(claims[s].src), NEW kind \in Health!Kind,
         Answers \subseteq Int, NEW header \in Answers
  PROVE  /\ SourceFits(Health!FailedSource(s, kind, header))
         /\ Health!FailedSource(s, kind, header).failures = claims[s].src.failures + 1
         /\ Health!FailedSource(s, kind, header).error = kind
         /\ Health!FailedSource(s, kind, header).wait
              = Health!FailureDelay(kind, claims[s].src.failures + 1, header, 0, 0)
         /\ claims[s].src.circuit = "open" =>
              Health!FailedSource(s, kind, header).circuit = "open"
<1>1. PICK n \in Nat : n = claims[s].src.failures + 1 /\ n >= 1
  BY DEF SourceFits, Health!SourceRow
<1>2. PICK delay \in Nat : /\ delay = Health!FailureDelay(kind, n, header, 0, 0)
                           /\ delay >= Health!MinInterval /\ delay <= Health!MaxRetryAfter
                           /\ Health!CircuitOpens(kind, n) \/ kind = "gone" =>
                                delay >= Health!Week
  BY <1>1, DelayBounds
<1>3. PICK circuit \in Health!Circuit :
        circuit = IF Health!CircuitOpens(kind, n) THEN "open" ELSE claims[s].src.circuit
  BY DEF SourceFits, Health!SourceRow, Health!Circuit
<1>4. PICK state \in {"active", "paused"} :
        state = IF Health!StateAfter(kind, n) = "paused" THEN "paused" ELSE "active"
  OBVIOUS
<1>5. PICK q : q = Health!FailedSource(s, kind, header)
  OBVIOUS
<1>6. q = [failures |-> n, circuit |-> circuit, state |-> state, wait |-> delay, error |-> kind]
  BY <1>1, <1>2, <1>3, <1>4, <1>5 DEF Health!FailedSource
<1>7. q \in Health!SourceRow
  BY <1>6 DEF Health!SourceRow
<1>8. state = "paused" \/ n >= 8 => Health!CircuitOpens(kind, n) \/ kind = "gone"
  BY <1>4 DEF Health!StateAfter, Health!Paused, Health!CircuitOpens
<1>9. circuit = "closed" => n < 8
  BY <1>3 DEF Health!CircuitOpens
<1>10. SourceFits(q)
  BY <1>1, <1>2, <1>6, <1>7, <1>8, <1>9 DEF SourceFits
<1>11. QED
  BY <1>1, <1>2, <1>3, <1>5, <1>6, <1>10 DEF Health!Circuit

\* The row of an origin at which a fetch has failed.
LEMMA FailedOriginFits ==
  ASSUME NEW s \in Feeds, OriginFits(claims[s].org), NEW kind \in Health!Kind,
         Answers \subseteq Int, NEW header \in Answers
  PROVE  OriginFits(Health!FailedOrigin(s, kind, header))
<1>1. PICK o : o = claims[s].org
  OBVIOUS
<1>2. o \in Health!OriginRow /\ (o.circuit = "closed" => o.failures < 8)
  BY <1>1 DEF OriginFits
<1>3. CASE Health!OriginWide(kind)
  <2>1. PICK n \in Nat : n = o.failures + 1 /\ n >= 1
    BY <1>2 DEF Health!OriginRow
  <2>2. PICK delay \in Nat : /\ delay = Health!FailureDelay(kind, n, header, 0, 0)
                             /\ delay <= Health!MaxRetryAfter
    BY <2>1, DelayBounds
  <2>3. PICK circuit \in Health!Circuit :
          circuit = IF Health!CircuitOpens(kind, n) THEN "open" ELSE o.circuit
    BY <1>2 DEF Health!OriginRow, Health!Circuit
  <2>4. Health!FailedOrigin(s, kind, header)
          = [failures |-> n, circuit |-> circuit, block |-> delay]
    BY <1>1, <1>3, <2>1, <2>2, <2>3 DEF Health!FailedOrigin
  <2>5. circuit = "closed" => n < 8
    BY <2>3 DEF Health!CircuitOpens
  <2>6. QED
    BY <2>2, <2>4, <2>5 DEF OriginFits, Health!OriginRow
<1>4. CASE ~Health!OriginWide(kind)
  <2>1. PICK block \in Nat :
          /\ block = IF kind \in Health!Status /\ Health!RetryAfter(header) THEN header ELSE 0
          /\ block <= Health!MaxRetryAfter
    BY Times DEF Health!RetryAfter
  <2>2. Health!FailedOrigin(s, kind, header) = [o EXCEPT !.block = block]
    BY <1>1, <1>4, <2>1 DEF Health!FailedOrigin
  <2>3. QED
    BY <1>2, <2>1, <2>2 DEF OriginFits, Health!OriginRow
<1>5. QED
  BY <1>3, <1>4

---------------------------------------------------------------------------

LEMMA HealthInit == Health!Init => HealthInv
BY NewFits DEF Health!Init, HealthInv, ClaimFits

\* A claim that ends, whatever it writes.
LEMMA EndsFit ==
  ASSUME HealthInv, NEW s \in Feeds, NEW step \in {"fetching", "parsing"}, NEW src, NEW org,
         SourceFits(src), OriginFits(org), Health!Ends(s, step, src, org)
  PROVE  /\ HealthInv'
         /\ claims[s].step = step /\ claims[s].src = rows[s]
         /\ rows' = [rows EXCEPT ![s] = src] /\ host' = org
<1>1. /\ rows' = [rows EXCEPT ![s] = src] /\ host' = org
      /\ claims' = [claims EXCEPT ![s] = Health!NoClaim] /\ claims[s].step = step
  BY DEF Health!Ends
<1>2. /\ rows = [r \in Feeds |-> rows[r]] /\ claims = [r \in Feeds |-> claims[r]]
      /\ \A r \in Feeds : SourceFits(rows[r]) /\ ClaimFits(r)
  BY DEF HealthInv
<1>3. claims[s].src = rows[s]
  BY <1>1, <1>2 DEF ClaimFits
<1>4. /\ rows' = [r \in Feeds |-> rows'[r]] /\ DOMAIN rows' = Feeds
      /\ claims' = [r \in Feeds |-> claims'[r]]
  BY <1>1, <1>2
<1>5. \A r \in Feeds : SourceFits(rows'[r])
  BY <1>1, <1>2
<1>6. ASSUME NEW r \in Feeds PROVE ClaimFits(r)'
  <2>1. CASE r = s
    <3>1. claims'[r] = Health!NoClaim
      BY <1>1, <1>2, <2>1
    <3>2. QED
      BY <3>1, NewFits DEF ClaimFits
  <2>2. CASE r # s
    <3>1. claims'[r] = claims[r] /\ rows'[r] = rows[r]
      BY <1>1, <1>2, <2>2
    <3>2. ClaimFits(r)
      BY <1>2
    <3>3. QED
      BY <3>1, <3>2 DEF ClaimFits
  <2>3. QED
    BY <2>1, <2>2
<1>7. QED
  BY <1>1, <1>3, <1>4, <1>5, <1>6 DEF HealthInv

\* A claim that begins, goes on or is given up.
LEMMA ClaimMoves ==
  ASSUME HealthInv, NEW s \in Feeds, NEW c, UNCHANGED <<rows, host>>,
         claims' = [claims EXCEPT ![s] = c],
         c \in [step : {"none", "fetching", "parsing"}, src : Health!SourceRow,
                org : Health!OriginRow],
         c.step # "none" => c.src = rows[s], OriginFits(c.org)
  PROVE  HealthInv'
<1>1. /\ claims = [r \in Feeds |-> claims[r]] /\ \A r \in Feeds : ClaimFits(r)
      /\ DOMAIN rows = Feeds /\ rows = [r \in Feeds |-> rows[r]] /\ OriginFits(host)
      /\ \A r \in Feeds : SourceFits(rows[r])
  BY DEF HealthInv
<1>2. /\ claims' = [r \in Feeds |-> claims'[r]]
      /\ \A r \in Feeds : claims'[r] = IF r = s THEN c ELSE claims[r]
  BY <1>1
<1>3. ASSUME NEW r \in Feeds PROVE ClaimFits(r)'
  <2>1. ClaimFits(r)
    BY <1>1
  <2>2. QED
    BY <1>2, <2>1 DEF ClaimFits
<1>4. QED
  BY <1>1, <1>2, <1>3 DEF HealthInv

\* What a step may do to the rows: leave all as they are, or write one at the end of its claim.
Outcome(s, src) ==
  \/ src = Health!Healthy
  \/ src.failures = rows[s].failures /\ src.circuit = rows[s].circuit
     /\ src.error = "discovery_required"
  \/ /\ src.failures = rows[s].failures + 1
     /\ rows[s].circuit = "open" => src.circuit = "open"
     /\ src.error \in Health!Kind
     /\ \E h \in Answers : src.wait = Health!FailureDelay(src.error, src.failures, h, 0, 0)

Written ==
  \/ rows' = rows
  \/ \E s \in Feeds, src \in Health!SourceRow :
       rows' = [rows EXCEPT ![s] = src] /\ Outcome(s, src)

\* Each of the steps keeps the invariant, and writes an outcome or nothing.
LEMMA HealthStep ==
  ASSUME Health!HealthAssumption, HealthInv, [Health!Next]_Health!vars
  PROVE  HealthInv' /\ Written
<1> USE DEF Written
<1>0. /\ Failures \subseteq Health!Kind /\ Answers \subseteq Int
      /\ \A s \in Feeds : SourceFits(rows[s]) /\ ClaimFits(s)
      /\ OriginFits(host)
  BY DEF HealthInv, Health!HealthAssumption
<1>1. ASSUME NEW s \in Feeds, NEW step \in {"fetching", "parsing"}, Health!Begin(s, step)
      PROVE  HealthInv' /\ Written
  <2>1. PICK c : c = [step |-> step, src |-> rows[s], org |-> host]
    OBVIOUS
  <2>2. claims' = [claims EXCEPT ![s] = c] /\ UNCHANGED <<rows, host>>
    BY <1>1, <2>1 DEF Health!Begin
  <2>3. rows[s] \in Health!SourceRow /\ host \in Health!OriginRow
    BY <1>0 DEF SourceFits, OriginFits
  <2>4. c.src = rows[s] /\ c.org = host
    BY <2>1
  <2>5. c \in [step : {"none", "fetching", "parsing"}, src : Health!SourceRow,
               org : Health!OriginRow]
    BY <2>1, <2>3
  <2>6. QED
    BY <1>0, <2>2, <2>4, <2>5, ClaimMoves
<1>2. ASSUME NEW s \in Feeds, Health!ReceiveBody(s)
      PROVE  HealthInv' /\ Written
  <2>1. PICK c : c = [claims[s] EXCEPT !.step = "parsing"]
    OBVIOUS
  <2>2. /\ claims' = [claims EXCEPT ![s] = c] /\ UNCHANGED <<rows, host>>
        /\ claims[s].step # "none"
    BY <1>2, <2>1 DEF Health!ReceiveBody
  <2>3. ClaimFits(s)
    BY <1>0
  <2>4. /\ c \in [step : {"none", "fetching", "parsing"}, src : Health!SourceRow,
                  org : Health!OriginRow]
        /\ c.src = rows[s] /\ OriginFits(c.org)
    BY <2>1, <2>2, <2>3 DEF ClaimFits
  <2>5. QED
    BY <2>2, <2>4, ClaimMoves
<1>3. ASSUME NEW s \in Feeds, Health!Abandon(s)
      PROVE  HealthInv' /\ Written
  <2>1. claims' = [claims EXCEPT ![s] = Health!NoClaim] /\ UNCHANGED <<rows, host>>
    BY <1>3 DEF Health!Abandon
  <2>2. QED
    BY <2>1, NewFits, ClaimMoves
<1>4. ASSUME NEW s \in Feeds, Health!CompleteParsed(s)
      PROVE  HealthInv' /\ Written
  <2>1. Health!Ends(s, "parsing", Health!Healthy, Health!NewOrigin)
    BY <1>4 DEF Health!CompleteParsed
  <2>2. HealthInv' /\ rows' = [rows EXCEPT ![s] = Health!Healthy]
    BY <2>1, EndsFit, HealthyFits, NewFits
  <2>3. Outcome(s, Health!Healthy) /\ Health!Healthy \in Health!SourceRow
    BY HealthyFits DEF Outcome, SourceFits
  <2>4. QED
    BY <2>2, <2>3
<1>5. ASSUME NEW s \in Feeds, Health!NotModified(s)
      PROVE  HealthInv' /\ Written
  <2>1. PICK o : o = [host EXCEPT !.failures = 0]
    OBVIOUS
  <2>2. Health!Ends(s, "fetching", Health!Healthy, o)
    BY <1>5, <2>1 DEF Health!NotModified
  <2>3. OriginFits(o)
    BY <1>0, <2>1 DEF OriginFits, Health!OriginRow
  <2>4. HealthInv' /\ rows' = [rows EXCEPT ![s] = Health!Healthy]
    BY <2>2, <2>3, EndsFit, HealthyFits
  <2>5. Outcome(s, Health!Healthy) /\ Health!Healthy \in Health!SourceRow
    BY HealthyFits DEF Outcome, SourceFits
  <2>6. QED
    BY <2>4, <2>5
<1>6. ASSUME NEW s \in Feeds, Health!Discover(s)
      PROVE  HealthInv' /\ Written
  <2>1. PICK r, q : /\ r = rows[s]
                    /\ q = [r EXCEPT !.state = "paused", !.wait = Health!Week,
                                     !.error = "discovery_required"]
    OBVIOUS
  <2>2. Health!Ends(s, "parsing", q, host)
    BY <1>6, <2>1 DEF Health!Discover
  <2>3. SourceFits(q) /\ q.failures = r.failures /\ q.circuit = r.circuit
                      /\ q.error = "discovery_required"
    BY <1>0, <2>1, DiscoveredFits
  <2>4. HealthInv' /\ rows' = [rows EXCEPT ![s] = q]
    BY <1>0, <2>2, <2>3, EndsFit
  <2>5. Outcome(s, q) /\ q \in Health!SourceRow
    BY <2>1, <2>3 DEF Outcome, SourceFits
  <2>6. QED
    BY <2>4, <2>5
<1>7. ASSUME NEW s \in Feeds, NEW step \in {"fetching", "parsing"}, NEW kind \in Failures,
             NEW header \in Answers, Health!Fails(s, step, kind, header)
      PROVE  HealthInv' /\ Written
  <2>1. PICK q, o : /\ q = Health!FailedSource(s, kind, header)
                    /\ o = Health!FailedOrigin(s, kind, header)
    OBVIOUS
  <2>2. Health!Ends(s, step, q, o)
    BY <1>7, <2>1 DEF Health!Fails
  <2>3. claims[s].src = rows[s] /\ OriginFits(claims[s].org) /\ SourceFits(claims[s].src)
    <3>1. ClaimFits(s) /\ claims[s].step # "none" /\ SourceFits(rows[s])
      BY <1>0, <2>2 DEF Health!Ends
    <3>2. QED
      BY <3>1 DEF ClaimFits
  <2>4. /\ SourceFits(q) /\ q.failures = rows[s].failures + 1 /\ q.error = kind
        /\ q.wait = Health!FailureDelay(kind, q.failures, header, 0, 0)
        /\ rows[s].circuit = "open" => q.circuit = "open"
    BY <1>0, <2>1, <2>3, FailedFits
  <2>5. OriginFits(o)
    BY <1>0, <2>1, <2>3, FailedOriginFits
  <2>6. HealthInv' /\ rows' = [rows EXCEPT ![s] = q]
    BY <2>2, <2>4, <2>5, EndsFit
  <2>7. Outcome(s, q) /\ q \in Health!SourceRow
    BY <1>0, <2>4 DEF Outcome, SourceFits
  <2>8. QED
    BY <2>6, <2>7
<1>8. CASE UNCHANGED Health!vars
  BY <1>8 DEF Health!vars, HealthInv, ClaimFits
<1>9. QED
  BY <1>1, <1>2, <1>3, <1>4, <1>5, <1>6, <1>7, <1>8 DEF Health!Next

\* FeedHealth: the rows of sources, origins and claims have their types.
THEOREM HealthTypes ==
  ASSUME Health!HealthAssumption PROVE Health!Spec => []Health!TypeOK
<1>1. HealthInv => Health!TypeOK
  BY DEF HealthInv, SourceFits, OriginFits, ClaimFits, Health!TypeOK
<1>2. Health!Init => HealthInv
  BY HealthInit
<1>3. HealthInv /\ [Health!Next]_Health!vars => HealthInv'
  BY HealthStep
<1>4. QED
  BY <1>1, <1>2, <1>3, PTL DEF Health!Spec

\* FeedHealth: whatever publishers answer, and in whatever order failures of all kinds come, a
\* source that failed waits between a quarter of an hour and a leap year, an origin is blocked for
\* no longer, one that is paused or failed eight times rests for a week, and a circuit that is
\* closed belongs to one that failed less than eight times (failClaim, classifyFetchFailure).
THEOREM BackoffIsBounded ==
  ASSUME Health!HealthAssumption
  PROVE  Health!Spec => [](Health!WaitsBounded /\ Health!LongFailureRests
                           /\ Health!ClosedIsHealthy)
<1>1. ASSUME HealthInv
      PROVE  Health!WaitsBounded /\ Health!LongFailureRests /\ Health!ClosedIsHealthy
  <2>1. OriginFits(host) /\ \A s \in Feeds : SourceFits(rows[s])
    BY <1>1 DEF HealthInv
  <2>2. \A s \in Feeds : rows[s].wait \in Nat
    BY <2>1 DEF SourceFits, Health!SourceRow
  <2>3. Health!WaitsBounded
    BY <2>1, <2>2, Times DEF Health!WaitsBounded, SourceFits, OriginFits
  <2>4. Health!LongFailureRests /\ Health!ClosedIsHealthy
    BY <2>1 DEF Health!LongFailureRests, Health!ClosedIsHealthy, SourceFits, OriginFits
  <2>5. QED
    BY <2>3, <2>4
<1>2. Health!Init => HealthInv
  BY HealthInit
<1>3. HealthInv /\ [Health!Next]_Health!vars => HealthInv'
  BY HealthStep
<1>4. QED
  BY <1>1, <1>2, <1>3, PTL DEF Health!Spec

\* FeedHealth: only a fetch that succeeded closes a source's circuit or forgets its failures, and a
\* failure of the same kind never shortens the wait unless the publisher asked for another one.
THEOREM BackoffGrows ==
  ASSUME Health!HealthAssumption
  PROVE  Health!Spec => [][Health!OnlySuccessForgives /\ Health!WaitsGrow]_Health!vars
<1>1. ASSUME HealthInv, [Health!Next]_Health!vars
      PROVE  Health!OnlySuccessForgives /\ Health!WaitsGrow
  <2>0. Answers \subseteq Int /\ DOMAIN rows = Feeds /\ rows = [s \in Feeds |-> rows[s]]
    BY <1>1 DEF HealthInv, Health!HealthAssumption
  <2>1. \A s \in Feeds : SourceFits(rows[s])
    BY <1>1 DEF HealthInv
  <2>2. CASE rows' = rows
    <3>1. \A s \in Feeds : rows[s].failures \in Nat /\ rows[s].wait \in Nat
      BY <2>1 DEF SourceFits, Health!SourceRow
    <3>2. QED
      BY <2>2, <3>1 DEF Health!OnlySuccessForgives, Health!WaitsGrow
  <2>3. ASSUME NEW s \in Feeds, NEW src \in Health!SourceRow,
               rows' = [rows EXCEPT ![s] = src], Outcome(s, src)
        PROVE  Health!OnlySuccessForgives /\ Health!WaitsGrow
    <3>1. PICK r \in Health!SourceRow : r = rows[s] /\ SourceFits(r)
      BY <2>1 DEF SourceFits
    <3>2. /\ r.failures \in Nat /\ r.wait \in Nat /\ src.failures \in Nat /\ src.wait \in Nat
          /\ \A q \in Feeds : rows[q].failures \in Nat /\ rows[q].wait \in Nat
      BY <2>1, <3>1 DEF SourceFits, Health!SourceRow
    <3>3. /\ rows'[s] = src
          /\ \A q \in Feeds : q # s => rows'[q] = rows[q]
      BY <2>0, <2>3
    <3>4. \/ r.circuit = "open" /\ src.circuit = "closed"
          \/ src.failures < r.failures
          => src = Health!Healthy
      BY <2>3, <3>1, <3>2 DEF Outcome
    <3>5. Health!OnlySuccessForgives
      BY <3>1, <3>2, <3>3, <3>4 DEF Health!OnlySuccessForgives
    <3>6. ASSUME src.failures > r.failures, src.error = r.error,
                 src.error \notin {"limited", "unavailable"}
          PROVE  src.wait >= r.wait
      <4>1. src.failures # 0
        BY <3>2, <3>6
      <4>2. /\ src.failures = r.failures + 1 /\ src.error \in Health!Kind
            /\ \E h \in Answers : src.wait = Health!FailureDelay(src.error, src.failures, h, 0, 0)
        BY <2>3, <3>1, <3>2, <3>6, <4>1, HealthyFits DEF Outcome
      <4>3. /\ r.failures >= 1 /\ r.error \in Health!Kind \ {"limited", "unavailable"}
            /\ \E h \in Answers : r.wait = Health!FailureDelay(r.error, r.failures, h, 0, 0)
        BY <3>1, <3>6, <4>2 DEF SourceFits
      <4>4. PICK after \in Answers, before \in Answers :
              /\ src.wait = Health!FailureDelay(r.error, r.failures + 1, after, 0, 0)
              /\ r.wait = Health!FailureDelay(r.error, r.failures, before, 0, 0)
        BY <3>6, <4>2, <4>3
      <4>5. Health!FailureDelay(r.error, r.failures, before, 0, 0)
              <= Health!FailureDelay(r.error, r.failures + 1, after, 0, 0)
        BY <2>0, <3>2, <4>3, DelaysRise
      <4>6. QED
        BY <3>2, <4>4, <4>5
    <3>7. Health!WaitsGrow
      BY <3>1, <3>2, <3>3, <3>6 DEF Health!WaitsGrow
    <3>8. QED
      BY <3>5, <3>7
  <2>4. QED
    BY <1>1, <2>2, <2>3, HealthStep DEF Written
<1>2. Health!Init => HealthInv
  BY HealthInit
<1>3. HealthInv /\ [Health!Next]_Health!vars => HealthInv'
  BY HealthStep
<1>4. QED
  BY <1>1, <1>2, <1>3, PTL DEF Health!Spec
=============================================================================

--------------------------- MODULE Cleanup_proofs ---------------------------
(***************************************************************************)
(* The cleanup of operational history forgets nothing that is still being  *)
(* worked on, and keeps the job of a snapshot that new feeds are served    *)
(* from, for any feeds, jobs, batch and retention.                         *)
(*                                                                         *)
(* What is open is protected by the conditions of the deletions alone, but *)
(* the job of an open item has to be there in the first place (Followed),  *)
(* and that a retained snapshot has its job rests on ages: a job that is   *)
(* old enough to be deleted was over before its snapshot was a day old,    *)
(* because a snapshot is only parsed under a job that runs (Runs, Aged).   *)
(*                                                                         *)
(* At the end, what is proved of the legacy refresh of all feeds of a user *)
(* (BulkSync): it is not dropped, its status is known, its counts add up.  *)
(***************************************************************************)
EXTENDS Cleanup, SequenceTheorems, TLAPS

JobRow == [status : {"absent", "queued", "running"} \cup Finished,
           attempts : 0..MaxAttempts, age : Age]
SnapRow == [status : {"absent", "parsed", "expired"} \cup Unparsed, age : Age]
DeliveryRow == [status : {"absent"} \cup Open \cup Finished, age : Age]
ItemRow == [status : {"absent", "failed"} \cup Open \cup Finished, told : BOOLEAN, age : Age]
TaskRow == [job : Job \cup {None}, step : {"idle", "asking", "parsing", "parsed", "telling"}]

\* The job that the worker asks, parses or stores for is running.
Runs ==
  task.step \in {"asking", "parsing", "parsed"} =>
    task.job \in Job /\ job[task.job].status = "running"

\* An open item has a job.
Followed == \A j \in Job, f \in Feed : item[j][f].status \in Open => job[j].status # "absent"

\* A parsed snapshot is not younger than the end of its job.
Aged == \A j \in Job :
  snap[j].status = "parsed" /\ job[j].status \in Finished => snap[j].age >= job[j].age

IInv == CleanupAssumption /\ TypeOK /\ Runs /\ Followed /\ Aged /\ RetainedHasJob

(***************************************************************************)
(* Rows.                                                                   *)
(***************************************************************************)
LEMMA Constant ==
  ASSUME CleanupAssumption
  PROVE  /\ Retention \in Nat /\ Retention >= 1 /\ MaxAttempts \in Nat /\ MaxAttempts >= 1
         /\ MaxFaults \in Nat /\ 0 \in Age /\ 0 \in 0..MaxAttempts
BY DEF CleanupAssumption, Age

LEMMA Empty ==
  ASSUME CleanupAssumption
  PROVE  /\ NoJob \in JobRow /\ Absent \in SnapRow /\ Absent \in DeliveryRow
         /\ NoItem \in ItemRow /\ Idle \in TaskRow /\ Asked \in ItemRow
         /\ Asked.status = "pending"
BY Constant DEF NoJob, JobRow, Absent, SnapRow, DeliveryRow, NoItem, ItemRow, Idle, TaskRow,
                Asked, Open, Unparsed

LEMMA Typed ==
  ASSUME IInv
  PROVE  /\ job \in [Job -> JobRow] /\ snap \in [Job -> SnapRow]
         /\ delivery \in [Job -> [Feed -> DeliveryRow]] /\ item \in [Job -> [Feed -> ItemRow]]
         /\ task \in TaskRow /\ faults \in 0..MaxFaults
         /\ \A j, k \in Job : Active(j) /\ Active(k) => j = k
BY DEF IInv, TypeOK, JobRow, SnapRow, DeliveryRow, ItemRow, TaskRow

LEMMA Initially == ASSUME CleanupAssumption PROVE Init => IInv
<1> SUFFICES ASSUME Init PROVE IInv
  OBVIOUS
<1>1. /\ job \in [Job -> JobRow] /\ snap \in [Job -> SnapRow]
      /\ delivery \in [Job -> [Feed -> DeliveryRow]] /\ item \in [Job -> [Feed -> ItemRow]]
      /\ task \in TaskRow /\ faults \in 0..MaxFaults
  BY Empty, Constant DEF Init
<1>2. feed \in [Feed -> {"absent", "pending", "attached"}]
  BY DEF Init
<1>3. \A j \in Job : job[j].status = "absent" /\ snap[j].status = "absent"
  BY DEF Init, NoJob, Absent
<1>4. TypeOK
  BY <1>1, <1>2, <1>3 DEF TypeOK, JobRow, SnapRow, DeliveryRow, ItemRow, TaskRow, Active
<1>5. task.step = "idle" /\ \A j \in Job, f \in Feed : item[j][f].status = "absent"
  BY DEF Init, Idle, NoItem
<1>6. Runs /\ Followed /\ Aged /\ RetainedHasJob
  BY <1>3, <1>5 DEF Runs, Followed, Aged, RetainedHasJob, Retained, Open
<1> QED BY <1>4, <1>6 DEF IInv

\* What is left to show of a step.
Kept ==
  /\ job \in [Job -> JobRow] /\ snap \in [Job -> SnapRow]
  /\ delivery \in [Job -> [Feed -> DeliveryRow]] /\ item \in [Job -> [Feed -> ItemRow]]
  /\ feed \in [Feed -> {"absent", "pending", "attached"}]
  /\ task \in TaskRow /\ faults \in 0..MaxFaults
  /\ \A j, k \in Job : Active(j) /\ Active(k) => j = k
  /\ Runs /\ Followed /\ Aged /\ RetainedHasJob

LEMMA KeptIsIInv == ASSUME CleanupAssumption, Kept' PROVE IInv'
BY DEF Kept, IInv, TypeOK, JobRow, SnapRow, DeliveryRow, ItemRow, TaskRow

LEMMA Now == ASSUME IInv PROVE Kept /\ CleanupAssumption
BY Typed DEF Kept, IInv, TypeOK

LEMMA MarkedRows ==
  ASSUME IInv, NEW j \in Job, NEW feeds, NEW status \in {"failed"} \cup Open \cup Finished
  PROVE  /\ Marked(j, feeds, status) \in [Feed -> ItemRow]
         /\ \A f \in Feed : Marked(j, feeds, status)[f].status =
              IF f \in feeds /\ item[j][f] # NoItem THEN status ELSE item[j][f].status
<1>1. ASSUME NEW f \in Feed
      PROVE  /\ item[j][f] \in ItemRow
             /\ [item[j][f] EXCEPT !.status = status] \in ItemRow
             /\ [item[j][f] EXCEPT !.status = status].status = status
  <2>1. PICK i \in ItemRow : i = item[j][f]
    BY Now DEF Kept
  <2>2. status \in {"absent", "failed"} \cup Open \cup Finished
    OBVIOUS
  <2>3. [i EXCEPT !.status = status] \in ItemRow /\ [i EXCEPT !.status = status].status = status
    BY <2>2 DEF ItemRow
  <2> QED BY <2>1, <2>3
<1> QED BY <1>1 DEF Marked

LEMMA AtTask ==
  ASSUME IInv, NEW j \in Job, NEW step, At(j, step)
  PROVE  /\ task.job = j /\ task.step = step
         /\ step \in {"asking", "parsing", "parsed"} => job[j].status = "running"
BY DEF At, IInv, Runs

(***************************************************************************)
(* Steps that leave the rows of jobs and snapshots alone.                  *)
(***************************************************************************)
LEMMA ItemsKept ==
  ASSUME IInv, UNCHANGED <<job, snap, faults>>,
         delivery' \in [Job -> [Feed -> DeliveryRow]], item' \in [Job -> [Feed -> ItemRow]],
         feed' \in [Feed -> {"absent", "pending", "attached"}], task' \in TaskRow,
         \A j \in Job, f \in Feed :
           item'[j][f].status \in Open => item[j][f].status \in Open \/ job[j].status # "absent",
         task'.step \in {"asking", "parsing", "parsed"} => task' = task
  PROVE  IInv'
<1> USE Now
<1>1. \A j \in Job : job'[j] = job[j] /\ snap'[j] = snap[j]
  OBVIOUS
<1>2. Runs'
  BY DEF Kept, Runs
<1>3. Followed'
  BY DEF Kept, Followed
<1>4. Aged' /\ RetainedHasJob'
  BY DEF Kept, Aged, RetainedHasJob, Retained
<1>5. (\A j, k \in Job : Active(j) /\ Active(k) => j = k)'
  BY DEF Kept, Active
<1>6. Kept'
  BY <1>2, <1>3, <1>4, <1>5 DEF Kept
<1> QED BY <1>6, KeptIsIInv

LEMMA SummedRows ==
  ASSUME CleanupAssumption, NEW row \in [Feed -> ItemRow]
  PROVE  /\ Summed(row) \in [Feed -> ItemRow]
         /\ \A f \in Feed : Summed(row)[f].status = row[f].status
<1>1. ASSUME NEW f \in Feed
      PROVE  /\ row[f] \in ItemRow
             /\ [row[f] EXCEPT !.told = ~@, !.age = 0] \in ItemRow
             /\ [row[f] EXCEPT !.told = ~@, !.age = 0].status = row[f].status
  BY Constant DEF ItemRow
<1> QED BY <1>1 DEF Summed

LEMMA TellKept == ASSUME IInv, NEW j \in Job, Tell(j) PROVE IInv'
<1> USE Now
<1>1. PICK row \in [Feed -> ItemRow] : row = item[j]
  BY DEF Kept
<1>2. PICK new \in [Feed -> ItemRow] :
        new = Summed(row) /\ \A f \in Feed : new[f].status = row[f].status
  BY SummedRows
<1>3. item' = [item EXCEPT ![j] = new]
  BY <1>1, <1>2 DEF Tell
<1>4. /\ item' \in [Job -> [Feed -> ItemRow]]
      /\ \A k \in Job, f \in Feed : item'[k][f].status = item[k][f].status
  BY <1>1, <1>2, <1>3 DEF Kept
<1>5. task' = Idle /\ UNCHANGED <<job, snap, delivery, feed, faults>>
  BY DEF Tell
<1>6. task' \in TaskRow /\ task'.step = "idle"
  BY <1>5, Empty DEF Idle
<1> QED BY <1>4, <1>5, <1>6, ItemsKept DEF Kept

LEMMA ClaimDeliveryKept ==
  ASSUME IInv, NEW j \in Job, NEW f \in Feed, ClaimDelivery(j, f) PROVE IInv'
<1> USE Now
<1>1. PICK d : d = [delivery[j][f] EXCEPT !.status = "running"]
  OBVIOUS
<1>2. d \in DeliveryRow
  <2>1. delivery[j][f] \in DeliveryRow
    BY DEF Kept
  <2>2. "running" \in {"absent"} \cup Open \cup Finished
    BY DEF Open
  <2> QED BY <1>1, <2>1, <2>2 DEF DeliveryRow
<1>3. delivery' = [delivery EXCEPT ![j] = [@ EXCEPT ![f] = d]]
  BY <1>1 DEF ClaimDelivery, Kept, DeliveryRow
<1>4. delivery' \in [Job -> [Feed -> DeliveryRow]]
  BY <1>2, <1>3 DEF Kept
<1> QED BY <1>4, ItemsKept DEF ClaimDelivery, Kept

LEMMA FinishDeliveryKept ==
  ASSUME IInv, NEW j \in Job, NEW f \in Feed, FinishDelivery(j, f) PROVE IInv'
<1> USE Now
<1>1. PICK status \in Finished :
        /\ delivery' = [delivery EXCEPT ![j][f] = [status |-> status, age |-> 0]]
        /\ item' = [item EXCEPT ![j] = Summed(Marked(j, {f}, status))]
  BY DEF FinishDelivery
<1>2. PICK row \in [Feed -> ItemRow] : row = Marked(j, {f}, status)
  BY <1>1, MarkedRows
<1>3. PICK new \in [Feed -> ItemRow] :
        new = Summed(row) /\ \A g \in Feed : new[g].status = row[g].status
  BY <1>2, SummedRows
<1>4. item' = [item EXCEPT ![j] = new]
  BY <1>1, <1>2, <1>3
<1>5. \A g \in Feed : new[g].status \in Open => item[j][g].status \in Open
  <2>1. status \notin Open /\ status \in {"failed"} \cup Open \cup Finished
    BY <1>1 DEF Open, Finished
  <2>2. ASSUME NEW g \in Feed, new[g].status \in Open PROVE item[j][g].status \in Open
    <3>1. Marked(j, {f}, status)[g].status =
            IF g \in {f} /\ item[j][g] # NoItem THEN status ELSE item[j][g].status
      BY <2>1, MarkedRows
    <3>2. new[g].status = Marked(j, {f}, status)[g].status
      BY <1>2, <1>3
    <3> QED BY <2>1, <2>2, <3>1, <3>2
  <2> QED BY <2>2
<1>6. PICK d : d = [status |-> status, age |-> 0]
  OBVIOUS
<1>7. d \in DeliveryRow
  BY <1>1, <1>6, Constant DEF DeliveryRow
<1>8. delivery' \in [Job -> [Feed -> DeliveryRow]]
  BY <1>1, <1>6, <1>7 DEF Kept
<1>9. item' \in [Job -> [Feed -> ItemRow]]
  BY <1>3, <1>4 DEF Kept
<1>10. \A k \in Job, g \in Feed : item'[k][g].status \in Open => item[k][g].status \in Open
  BY <1>4, <1>5 DEF Kept
<1> QED BY <1>8, <1>9, <1>10, ItemsKept DEF FinishDelivery, Kept

LEMMA CrashKept == ASSUME IInv, Crash PROVE IInv'
<1> USE Now
<1>1. task' \in TaskRow /\ task'.step = "idle" /\ faults' \in 0..MaxFaults
  BY Empty, Constant DEF Crash, Idle, Kept
<1>2. Kept'
  BY <1>1 DEF Crash, Kept, Runs, Followed, Aged, RetainedHasJob, Retained, Active
<1> QED BY <1>2, KeptIsIInv

(***************************************************************************)
(* Requests: jobs and items are added.                                     *)
(***************************************************************************)
LEMMA Enqueued ==
  ASSUME IInv, NEW j \in Job, Enqueue(j)
  PROVE  /\ job' \in [Job -> JobRow] /\ (\A i, k \in Job : Active(i) /\ Active(k) => i = k)'
         /\ \A k \in Job : k # j => job'[k] = job[k]
         /\ Active(j)' /\ (job[j].status # "absent" => job'[j] = job[j])
         /\ job[j].status = "absent" => item[j] = [f \in Feed |-> NoItem]
         /\ job[j].status = "absent" => snap[j] = Absent
<1> USE Now
<1>1. PICK b \in JobRow : b = job[j]
  BY DEF Kept
<1>2. PICK n : n = [b EXCEPT !.status = IF @ = "absent" THEN "queued" ELSE @]
  OBVIOUS
<1>3. job' = [job EXCEPT ![j] = n]
  BY <1>1, <1>2 DEF Enqueue, Kept, JobRow
<1>4. n \in JobRow
  BY <1>2 DEF JobRow, Finished
<1>5. job' \in [Job -> JobRow] /\ job'[j] = n /\ \A k \in Job : k # j => job'[k] = job[k]
  BY <1>3, <1>4 DEF Kept
<1>6. b.status # "absent" => n = b
  BY <1>2 DEF JobRow
<1>7. CASE \E k \in Job : Active(k)
  <2>1. Active(j)
    BY <1>7 DEF Enqueue
  <2>2. job' = job
    BY <1>1, <1>5, <1>6, <2>1 DEF Active, Kept
  <2> QED BY <1>1, <1>5, <1>6, <2>1, <2>2 DEF Kept, Active
<1>8. CASE \A k \in Job : ~Active(k)
  <2>1. Free(j)
    BY <1>8 DEF Enqueue
  <2>2. item[j] = [f \in Feed |-> NoItem] /\ snap[j] = Absent /\ b.status = "absent"
    BY <1>1, <2>1 DEF Free, Kept, NoJob
  <2>3. n.status = "queued"
    BY <1>2, <2>2 DEF JobRow
  <2> QED BY <1>1, <1>5, <1>6, <1>8, <2>2, <2>3 DEF Active
<1> QED BY <1>7, <1>8

\* Steps that add rows, when the job of what is added is active, or was there.
LEMMA AddedKept ==
  ASSUME IInv, NEW j \in Job, Enqueue(j) \/ (job' = job /\ job[j].status # "absent"),
         UNCHANGED <<snap, task, faults>>,
         delivery' \in [Job -> [Feed -> DeliveryRow]],
         feed' \in [Feed -> {"absent", "pending", "attached"}],
         UNCHANGED item \/ \E f \in Feed : item' = [item EXCEPT ![j][f] = Asked]
  PROVE  IInv'
<1> USE Now
<1>1. /\ job' \in [Job -> JobRow] /\ (\A i, k \in Job : Active(i) /\ Active(k) => i = k)'
      /\ \A k \in Job : k # j => job'[k] = job[k]
      /\ job'[j].status # "absent" /\ (job[j].status # "absent" => job'[j] = job[j])
      /\ job[j].status = "absent" => snap[j] = Absent
  <2>1. CASE Enqueue(j)
    BY <2>1, Enqueued DEF Active
  <2>2. CASE job' = job /\ job[j].status # "absent"
    BY <2>2 DEF Kept, Active
  <2> QED BY <2>1, <2>2
<1>2. /\ item' \in [Job -> [Feed -> ItemRow]]
      /\ \A k \in Job, f \in Feed : k # j => item'[k][f] = item[k][f]
  <2>1. CASE UNCHANGED item
    BY <2>1 DEF Kept
  <2>2. ASSUME NEW f \in Feed, item' = [item EXCEPT ![j][f] = Asked]
        PROVE  <1>2!1 /\ <1>2!2
    BY <2>2, Empty DEF Kept
  <2> QED BY <2>1, <2>2
<1>3. Followed'
  BY <1>1, <1>2 DEF Kept, Followed
<1>4. Runs'
  <2>1. SUFFICES ASSUME task'.step \in {"asking", "parsing", "parsed"}
                 PROVE  task'.job \in Job /\ job'[task'.job].status = "running"
    BY DEF Runs
  <2>2. task.job \in Job /\ job[task.job].status = "running"
    BY <2>1 DEF Kept, Runs
  <2>3. job'[task.job] = job[task.job]
    BY <1>1, <2>2
  <2> QED BY <2>2, <2>3
<1>5. Aged' /\ RetainedHasJob'
  <2>1. ASSUME NEW k \in Job
        PROVE  /\ snap'[k].status = "parsed" /\ job'[k].status \in Finished
                    => snap'[k].age >= job'[k].age
               /\ snap'[k].status = "parsed" /\ snap'[k].age = 0 => job'[k].status # "absent"
    BY <1>1 DEF Kept, Aged, RetainedHasJob, Retained, Absent
  <2> QED BY <2>1 DEF Aged, RetainedHasJob, Retained
<1>6. Kept'
  BY <1>1, <1>2, <1>3, <1>4, <1>5 DEF Kept
<1> QED BY <1>6, KeptIsIInv

LEMMA AskingKept ==
  ASSUME IInv, NEW j \in Job,
         Schedule(j) \/ \E f \in Feed : Refresh(j, f) \/ Subscribe(j, f)
  PROVE  IInv'
<1> USE Now
<1>1. CASE Schedule(j)
  BY <1>1, AddedKept DEF Schedule, Kept
<1>2. ASSUME NEW f \in Feed, Refresh(j, f) PROVE IInv'
  BY <1>2, AddedKept DEF Refresh, Kept
<1>3. ASSUME NEW f \in Feed, Subscribe(j, f) PROVE IInv'
  <2>1. item' = [item EXCEPT ![j][f] = Asked] /\ UNCHANGED <<snap, task, faults>>
    BY <1>3 DEF Subscribe
  <2>2. feed' \in [Feed -> {"absent", "pending", "attached"}]
    <3>1. feed' = [feed EXCEPT ![f] = "attached"] \/ feed' = [feed EXCEPT ![f] = "pending"]
      BY <1>3 DEF Subscribe
    <3> QED BY <3>1 DEF Kept
  <2>3. PICK d : d = [status |-> "pending", age |-> 0]
    OBVIOUS
  <2>4. d \in DeliveryRow
    BY <2>3, Constant DEF DeliveryRow, Open
  <2>5. delivery' \in [Job -> [Feed -> DeliveryRow]]
    <3>1. delivery' = delivery \/ delivery' = [delivery EXCEPT ![j][f] = d]
      BY <1>3, <2>3 DEF Subscribe
    <3>2. CASE delivery' = delivery
      BY <3>2 DEF Kept
    <3>3. CASE delivery' = [delivery EXCEPT ![j][f] = d]
      BY <3>3, <2>4 DEF Kept
    <3> QED BY <3>1, <3>2, <3>3
  <2>6. Enqueue(j) \/ (job' = job /\ job[j].status # "absent")
    BY <1>3 DEF Subscribe, Reusable
  <2> QED BY <2>1, <2>2, <2>5, <2>6, AddedKept
<1> QED BY <1>1, <1>2, <1>3

(***************************************************************************)
(* The worker.                                                             *)
(***************************************************************************)
\* What the steps of the worker have in common: the row of one job changes, which stays there, and
\* no other items than those of this job.
LEMMA WorkedKept ==
  ASSUME IInv, NEW j \in Job, NEW row \in JobRow, Active(j),
         job' = [job EXCEPT ![j] = row], row.status # "absent",
         snap' \in [Job -> SnapRow], \A k \in Job : k # j => snap'[k] = snap[k],
         snap'[j].status = "parsed" /\ row.status \in Finished => snap'[j].age >= row.age,
         delivery' \in [Job -> [Feed -> DeliveryRow]],
         feed' \in [Feed -> {"absent", "pending", "attached"}],
         item' \in [Job -> [Feed -> ItemRow]],
         \A k \in Job, f \in Feed : k # j => item'[k][f] = item[k][f],
         task' \in TaskRow, faults' \in 0..MaxFaults,
         task'.step \in {"asking", "parsing", "parsed"} => task'.job = j /\ row.status = "running"
  PROVE  IInv'
<1> USE Now
<1>1. job' \in [Job -> JobRow] /\ job'[j] = row /\ \A k \in Job : k # j => job'[k] = job[k]
  BY DEF Kept
<1>2. (\A i, k \in Job : Active(i) /\ Active(k) => i = k)'
  BY <1>1 DEF Kept, Active
<1>3. Runs'
  BY <1>1 DEF Runs
<1>4. Followed'
  BY <1>1 DEF Kept, Followed
<1>5. Aged' /\ RetainedHasJob'
  <2>1. ASSUME NEW k \in Job
        PROVE  /\ snap'[k].status = "parsed" /\ job'[k].status \in Finished
                    => snap'[k].age >= job'[k].age
               /\ snap'[k].status = "parsed" /\ snap'[k].age = 0 => job'[k].status # "absent"
    BY <1>1 DEF Kept, Aged, RetainedHasJob, Retained
  <2> QED BY <2>1 DEF Aged, RetainedHasJob, Retained
<1>6. Kept'
  BY <1>1, <1>2, <1>3, <1>4, <1>5 DEF Kept
<1> QED BY <1>6, KeptIsIInv

LEMMA ClaimKept == ASSUME IInv, NEW j \in Job, Claim(j) PROVE IInv'
<1> USE Now
<1>1. PICK b \in JobRow : b = job[j]
  BY DEF Kept
<1>2. PICK row : row = [b EXCEPT !.status = "running", !.attempts = @ + 1]
  OBVIOUS
<1>3. row \in JobRow /\ row.status = "running"
  <2>1. b.attempts + 1 \in 0..MaxAttempts
    BY <1>1, Constant DEF Claim, JobRow
  <2> QED BY <1>2, <2>1 DEF JobRow
<1>4. job' = [job EXCEPT ![j] = row]
  BY <1>1, <1>2 DEF Claim, Kept, JobRow
<1>5. task' \in TaskRow /\ task'.job = j
  BY DEF Claim, TaskRow
<1>6. "running" \notin Finished /\ "running" # "absent"
  BY DEF Finished
<1> QED BY <1>3, <1>4, <1>5, <1>6, WorkedKept DEF Claim, Kept

LEMMA ExhaustedKept == ASSUME IInv, NEW j \in Job, Exhausted(j) PROVE IInv'
<1> USE Now
<1>1. PICK b \in JobRow : b = job[j]
  BY DEF Kept
<1>2. PICK row : row = [b EXCEPT !.status = "dead", !.age = 0]
  OBVIOUS
<1>3. row \in JobRow /\ row.status # "absent" /\ row.age = 0
  BY <1>1, <1>2, Constant DEF JobRow, Finished
<1>4. job' = [job EXCEPT ![j] = row]
  BY <1>1, <1>2 DEF Exhausted, Kept, JobRow
<1>5. PICK new \in [Feed -> ItemRow] : new = Marked(j, Feed, "dead")
  BY MarkedRows DEF Finished
<1>6. /\ item' \in [Job -> [Feed -> ItemRow]]
      /\ \A k \in Job, f \in Feed : k # j => item'[k][f] = item[k][f]
  BY <1>5 DEF Exhausted, Kept
<1>7. task' \in TaskRow /\ task'.step = "telling"
  BY DEF Exhausted, TaskRow
<1>8. Active(j) /\ UNCHANGED <<snap, delivery, feed, faults>>
  BY DEF Exhausted, Active
<1>9. snap'[j].age >= row.age
  BY <1>3, <1>8, Constant DEF Kept, SnapRow, Age
<1> QED BY <1>3, <1>4, <1>6, <1>7, <1>8, <1>9, WorkedKept DEF Kept

\* The worker ends its work on a job.
LEMMA EndsKept ==
  ASSUME IInv, NEW j \in Job, NEW status \in {"queued"} \cup Finished,
         NEW new \in [Feed -> ItemRow],
         task.step \in {"asking", "parsing", "parsed"}, task.job = j, Ends(j, status, new),
         snap' \in [Job -> SnapRow], \A k \in Job : k # j => snap'[k] = snap[k],
         UNCHANGED <<delivery, feed>>, faults' \in 0..MaxFaults
  PROVE  IInv'
<1> USE Now
<1>1. PICK b \in JobRow : b = job[j]
  BY DEF Kept
<1>2. PICK row : row = [b EXCEPT !.status = status, !.age = 0]
  OBVIOUS
<1>3. row \in JobRow /\ row.status # "absent" /\ row.age = 0
  BY <1>1, <1>2, Constant DEF JobRow, Finished
<1>4. job' = [job EXCEPT ![j] = row]
  BY <1>1, <1>2 DEF Ends, Kept, JobRow
<1>5. /\ item' \in [Job -> [Feed -> ItemRow]]
      /\ \A k \in Job, f \in Feed : k # j => item'[k][f] = item[k][f]
  BY DEF Ends, Kept
<1>6. task' \in TaskRow /\ task'.step = "telling"
  BY DEF Ends, TaskRow, Kept
<1>7. Active(j)
  BY DEF Active, Kept, Runs
<1>8. snap'[j].age >= row.age
  BY <1>3, Constant DEF SnapRow, Age
<1> QED BY <1>3, <1>4, <1>5, <1>6, <1>7, <1>8, WorkedKept DEF Kept

\* The worker goes on with a job.
LEMMA GoesOnKept ==
  ASSUME IInv, NEW j \in Job, NEW step \in {"parsing", "parsed"},
         task.step \in {"asking", "parsing", "parsed"}, task.job = j,
         task' = [task EXCEPT !.step = step], UNCHANGED <<job, item, faults>>,
         snap' \in [Job -> SnapRow], \A k \in Job : k # j => snap'[k] = snap[k],
         delivery' \in [Job -> [Feed -> DeliveryRow]],
         feed' \in [Feed -> {"absent", "pending", "attached"}]
  PROVE  IInv'
<1> USE Now
<1>1. PICK row \in JobRow : row = job[j]
  BY DEF Kept
<1>2. row.status = "running" /\ "running" \notin Finished /\ "running" # "absent" /\ Active(j)
  BY <1>1 DEF Kept, Runs, Active, Finished
<1>3. job' = [job EXCEPT ![j] = row]
  BY <1>1 DEF Kept
<1>4. task' \in TaskRow /\ task'.job = j
  BY DEF Kept, TaskRow
<1> QED BY <1>1, <1>2, <1>3, <1>4, WorkedKept DEF Kept

LEMMA RetryStatus == ASSUME NEW j \in Job PROVE Retry(j) \in {"queued"} \cup Finished
BY DEF Retry, Finished

LEMMA ReceiveKept == ASSUME IInv, NEW j \in Job, Receive(j) PROVE IInv'
<1> USE Now
<1>1. task.job = j /\ task.step = "asking"
  BY AtTask DEF Receive
<1>2. PICK s : s = [status |-> "pending", age |-> 0]
  OBVIOUS
<1>3. s \in SnapRow
  BY <1>2, Constant DEF SnapRow, Unparsed
<1>4. snap' \in [Job -> SnapRow] /\ \A k \in Job : k # j => snap'[k] = snap[k]
  BY <1>2, <1>3 DEF Receive, Kept
<1> QED BY <1>1, <1>4, GoesOnKept DEF Receive, Kept

LEMMA ParseKept == ASSUME IInv, NEW j \in Job, Parse(j) PROVE IInv'
<1> USE Now
<1>1. task.job = j /\ task.step = "parsing"
  BY AtTask DEF Parse
<1>2. task' = [task EXCEPT !.step = "parsed"] /\ UNCHANGED <<job, item, faults>>
  BY DEF Parse
<1>3. CASE snap[j].status \in Unparsed
  <2>1. PICK s : s = [status |-> "parsed", age |-> 0]
    OBVIOUS
  <2>2. s \in SnapRow
    BY <2>1, Constant DEF SnapRow
  <2>3. snap' \in [Job -> SnapRow] /\ \A k \in Job : k # j => snap'[k] = snap[k]
    BY <1>3, <2>1, <2>2 DEF Parse, Kept
  <2>4. PICK d : d = [status |-> "pending", age |-> 0]
    OBVIOUS
  <2>5. d \in DeliveryRow
    BY <2>4, Constant DEF DeliveryRow, Open
  <2>6. PICK new : new = [f \in Feed |-> IF feed[f] # "absent" /\ delivery[j][f] = Absent
                                         THEN d ELSE delivery[j][f]]
    OBVIOUS
  <2>7. new \in [Feed -> DeliveryRow]
    BY <2>5, <2>6 DEF Kept
  <2>8. delivery' = [delivery EXCEPT ![j] = new]
    BY <1>3, <2>4, <2>6 DEF Parse, Kept
  <2>9. delivery' \in [Job -> [Feed -> DeliveryRow]]
    BY <2>7, <2>8 DEF Kept
  <2>10. feed' \in [Feed -> {"absent", "pending", "attached"}]
    BY <1>3 DEF Parse, Kept
  <2> QED BY <1>1, <1>2, <2>3, <2>9, <2>10, GoesOnKept
<1>4. CASE snap[j].status \notin Unparsed
  BY <1>1, <1>2, <1>4, GoesOnKept DEF Parse, Kept
<1> QED BY <1>3, <1>4

LEMMA NotModifiedKept == ASSUME IInv, NEW j \in Job, NotModified(j) PROVE IInv'
<1> USE Now
<1>1. PICK new \in [Feed -> ItemRow] : new = Marked(j, Feed, "completed")
  BY MarkedRows DEF Finished
<1>2. Ends(j, "completed", new) /\ UNCHANGED <<snap, delivery, feed, faults>>
  BY <1>1 DEF NotModified
<1> QED BY <1>2, AtTask, EndsKept DEF NotModified, Kept, Finished

LEMMA PublisherFailsKept == ASSUME IInv, NEW j \in Job, PublisherFails(j) PROVE IInv'
<1> USE Now
<1>1. PICK new \in [Feed -> ItemRow] : new = Marked(j, Feed, "failed")
  BY MarkedRows
<1>2. PICK status \in {"queued"} \cup Finished : status = Retry(j)
  BY RetryStatus
<1>3. Ends(j, status, new) /\ UNCHANGED <<snap, delivery, feed, faults>>
  BY <1>1, <1>2 DEF PublisherFails
<1> QED BY <1>3, AtTask, EndsKept DEF PublisherFails, Kept

LEMMA RejectKept == ASSUME IInv, NEW j \in Job, Reject(j) PROVE IInv'
<1> USE Now
<1>1. PICK new \in [Feed -> ItemRow] : new = Marked(j, Feed, "failed")
  BY MarkedRows
<1>2. PICK status \in {"queued"} \cup Finished :
        status = IF Retry(j) = "dead" THEN "dead" ELSE "completed"
  BY DEF Finished
<1>3. Ends(j, status, new) /\ UNCHANGED <<delivery, feed, faults>>
  BY <1>1, <1>2 DEF Reject
<1>4. PICK s \in SnapRow : s = snap[j]
  BY DEF Kept
<1>5. PICK t : t = [s EXCEPT !.status = IF @ \in Unparsed THEN "failed" ELSE @]
  OBVIOUS
<1>6. t \in SnapRow
  BY <1>5 DEF SnapRow, Unparsed
<1>7. snap' = [snap EXCEPT ![j] = t]
  BY <1>4, <1>5 DEF Reject, Kept, SnapRow
<1>8. snap' \in [Job -> SnapRow] /\ \A k \in Job : k # j => snap'[k] = snap[k]
  BY <1>6, <1>7 DEF Kept
<1> QED BY <1>3, <1>8, AtTask, EndsKept DEF Reject, Kept

LEMMA RethrowKept == ASSUME IInv, NEW j \in Job, Rethrow(j) PROVE IInv'
<1> USE Now
<1>1. PICK status \in {"queued"} \cup Finished : status = Retry(j)
  BY RetryStatus
<1>2. PICK new : new = IF Retry(j) = "dead" THEN Marked(j, Feed, "dead") ELSE item[j]
  OBVIOUS
<1>3. new \in [Feed -> ItemRow]
  BY <1>2, MarkedRows DEF Finished, Kept
<1>4. Ends(j, status, new) /\ UNCHANGED <<snap, delivery, feed>>
  BY <1>1, <1>2 DEF Rethrow
<1>5. faults' \in 0..MaxFaults
  BY Constant DEF Rethrow, Kept
<1> QED BY <1>3, <1>4, <1>5, AtTask, EndsKept DEF Rethrow, Kept

LEMMA CompleteKept == ASSUME IInv, NEW j \in Job, Complete(j) PROVE IInv'
<1> USE Now
<1>1. PICK new : new = [f \in Feed |->
                          IF delivery[j][f] = Absent THEN Marked(j, {f}, "completed")[f]
                          ELSE Marked(j, {f}, "running")[f]]
  OBVIOUS
<1>2. new \in [Feed -> ItemRow]
  <2>1. ASSUME NEW f \in Feed
        PROVE  Marked(j, {f}, "completed")[f] \in ItemRow
               /\ Marked(j, {f}, "running")[f] \in ItemRow
    <3>1. /\ Marked(j, {f}, "completed") \in [Feed -> ItemRow]
          /\ Marked(j, {f}, "running") \in [Feed -> ItemRow]
      BY MarkedRows DEF Finished, Open
    <3> QED BY <3>1
  <2> QED BY <1>1, <2>1
<1>3. Ends(j, "completed", new) /\ UNCHANGED <<snap, delivery, feed, faults>>
  BY <1>1 DEF Complete
<1> QED BY <1>2, <1>3, AtTask, EndsKept DEF Complete, Kept, Finished

(***************************************************************************)
(* The cleanup and the days.                                               *)
(***************************************************************************)

\* What a cleanup does to the rows of a job.
Cleaned(j) ==
  /\ snap'[j] \in {snap[j], Absent, [status |-> "expired", age |-> 0]}
  /\ job'[j] = job[j]
     \/ /\ job'[j] = NoJob /\ job[j].status \in Finished /\ job[j].age >= Retention
        /\ \A f \in Feed : item'[j][f].status \notin Open
  /\ \A f \in Feed :
       /\ item'[j][f] = item[j][f] \/ (item'[j][f] = NoItem /\ item[j][f].status \notin Open)
       /\ \/ delivery'[j][f] = delivery[j][f]
          \/ delivery'[j][f] = Absent /\ delivery[j][f].status \notin Open

LEMMA CleanDoes ==
  ASSUME IInv, Clean
  PROVE  /\ \A j \in Job : Cleaned(j)
         /\ job' \in [Job -> JobRow] /\ snap' \in [Job -> SnapRow]
         /\ delivery' \in [Job -> [Feed -> DeliveryRow]] /\ item' \in [Job -> [Feed -> ItemRow]]
         /\ UNCHANGED <<feed, task, faults>>
<1> USE Now
<1>1. PICK bodies \in SUBSET Expiring, requests \in SUBSET OldRequests :
        \E gone \in Batches(OldSnapshots(Expired(bodies)), LAMBDA j : Expired(bodies)[j].age) :
        \E some \in Batches(OldDeliveries(Left(gone)), LAMBDA p : Left(gone)[p[1]][p[2]].age) :
          /\ item' = [j \in Job |-> [f \in Feed |->
                        IF <<j, f>> \in requests THEN NoItem ELSE item[j][f]]]
          /\ snap' = [j \in Job |-> IF j \in gone THEN Absent ELSE Expired(bodies)[j]]
          /\ delivery' = [j \in Job |-> [f \in Feed |->
                            IF <<j, f>> \in some THEN Absent ELSE Left(gone)[j][f]]]
          /\ \E jobs \in Batches(OldJobs(item', snap', delivery'), LAMBDA j : job[j].age) :
               job' = [j \in Job |-> IF j \in jobs THEN NoJob ELSE job[j]]
          /\ UNCHANGED <<feed, task, faults>>
  BY DEF Clean, Batches
<1>2. PICK gone \in Batches(OldSnapshots(Expired(bodies)), LAMBDA j : Expired(bodies)[j].age) :
        \E some \in Batches(OldDeliveries(Left(gone)), LAMBDA p : Left(gone)[p[1]][p[2]].age) :
          /\ item' = [j \in Job |-> [f \in Feed |->
                        IF <<j, f>> \in requests THEN NoItem ELSE item[j][f]]]
          /\ snap' = [j \in Job |-> IF j \in gone THEN Absent ELSE Expired(bodies)[j]]
          /\ delivery' = [j \in Job |-> [f \in Feed |->
                            IF <<j, f>> \in some THEN Absent ELSE Left(gone)[j][f]]]
          /\ \E jobs \in Batches(OldJobs(item', snap', delivery'), LAMBDA j : job[j].age) :
               job' = [j \in Job |-> IF j \in jobs THEN NoJob ELSE job[j]]
          /\ UNCHANGED <<feed, task, faults>>
  BY <1>1
<1>3. PICK some \in Batches(OldDeliveries(Left(gone)), LAMBDA p : Left(gone)[p[1]][p[2]].age) :
        /\ item' = [j \in Job |-> [f \in Feed |->
                      IF <<j, f>> \in requests THEN NoItem ELSE item[j][f]]]
        /\ snap' = [j \in Job |-> IF j \in gone THEN Absent ELSE Expired(bodies)[j]]
        /\ delivery' = [j \in Job |-> [f \in Feed |->
                          IF <<j, f>> \in some THEN Absent ELSE Left(gone)[j][f]]]
        /\ \E jobs \in Batches(OldJobs(item', snap', delivery'), LAMBDA j : job[j].age) :
             job' = [j \in Job |-> IF j \in jobs THEN NoJob ELSE job[j]]
        /\ UNCHANGED <<feed, task, faults>>
  BY <1>2
<1>4. PICK jobs \in Batches(OldJobs(item', snap', delivery'), LAMBDA j : job[j].age) :
        job' = [j \in Job |-> IF j \in jobs THEN NoJob ELSE job[j]]
  BY <1>3
<1>5. /\ gone \in SUBSET OldSnapshots(Expired(bodies)) /\ some \in SUBSET OldDeliveries(Left(gone))
      /\ jobs \in SUBSET OldJobs(item', snap', delivery')
  BY DEF Batches
<1>6. \A j \in Job, f \in Feed :
        Left(gone)[j][f] = IF j \in gone THEN Absent ELSE delivery[j][f]
  BY DEF Left
<1>7. ASSUME NEW j \in Job
      PROVE  /\ snap'[j] \in {snap[j], Absent, [status |-> "expired", age |-> 0]}
             /\ snap'[j] \in SnapRow
  BY <1>3, Empty, Constant DEF Kept, SnapRow, Expired
<1>8. ASSUME NEW j \in Job
      PROVE  /\ \/ job'[j] = job[j]
                \/ /\ job'[j] = NoJob /\ job[j].status \in Finished /\ job[j].age >= Retention
                   /\ \A f \in Feed : item'[j][f].status \notin Open
             /\ job'[j] \in JobRow
  BY <1>4, <1>5, Empty DEF Kept, OldJobs
<1>9. ASSUME NEW j \in Job, NEW f \in Feed
      PROVE  /\ item'[j][f] = item[j][f] \/ (item'[j][f] = NoItem /\ item[j][f].status \notin Open)
             /\ item'[j][f] \in ItemRow
  BY <1>1, <1>3, Empty DEF Kept, OldRequests
<1>10. ASSUME NEW j \in Job, NEW f \in Feed
       PROVE  /\ \/ delivery'[j][f] = delivery[j][f]
                 \/ delivery'[j][f] = Absent /\ delivery[j][f].status \notin Open
              /\ delivery'[j][f] \in DeliveryRow
  <2>1. CASE j \in gone
    <3>1. \A g \in Feed : delivery[j][g].status \notin Open
      BY <1>5, <2>1 DEF OldSnapshots
    <3>2. delivery'[j][f] = Absent
      BY <1>3, <1>6, <2>1
    <3> QED BY <3>1, <3>2, Empty
  <2>2. CASE j \notin gone /\ <<j, f>> \in some
    <3>1. Left(gone)[j][f].status \in Finished /\ delivery'[j][f] = Absent
      BY <1>3, <1>5, <2>2 DEF OldDeliveries
    <3>2. Left(gone)[j][f] = delivery[j][f]
      BY <1>6, <2>2
    <3> QED BY <3>1, <3>2, Empty DEF Open, Finished
  <2>3. CASE j \notin gone /\ <<j, f>> \notin some
    BY <1>3, <1>6, <2>3 DEF Kept
  <2> QED BY <2>1, <2>2, <2>3
<1>11. \A j \in Job : Cleaned(j)
  BY <1>7, <1>8, <1>9, <1>10 DEF Cleaned
<1>12. job' \in [Job -> JobRow] /\ snap' \in [Job -> SnapRow]
  BY <1>3, <1>4, <1>7, <1>8
<1>13. delivery' \in [Job -> [Feed -> DeliveryRow]] /\ item' \in [Job -> [Feed -> ItemRow]]
  BY <1>3, <1>9, <1>10
<1> QED BY <1>3, <1>11, <1>12, <1>13

LEMMA CleanKept == ASSUME IInv, Clean PROVE IInv'
<1> USE Now
<1>1. UNCHANGED <<feed, task, faults>>
  BY CleanDoes
<1>2. ASSUME NEW j \in Job PROVE Cleaned(j)
  BY CleanDoes
<1>3. ASSUME NEW j \in Job
      PROVE  /\ job'[j] = job[j] \/ job'[j].status = "absent"
             /\ job[j].status \notin Finished => job'[j] = job[j]
  BY <1>2 DEF Cleaned, NoJob
<1>4. (\A i, k \in Job : Active(i) /\ Active(k) => i = k)'
  BY <1>3 DEF Active, Kept
<1>5. Runs'
  BY <1>1, <1>3 DEF Runs, Kept, Finished
<1>6. Followed'
  <2>1. SUFFICES ASSUME NEW j \in Job, NEW f \in Feed, item'[j][f].status \in Open
                 PROVE  job'[j].status # "absent"
    BY DEF Followed
  <2>2. item'[j][f] = item[j][f]
    BY <1>2, <2>1 DEF Cleaned, NoItem, Open
  <2>3. job'[j] = job[j]
    BY <1>2, <2>1 DEF Cleaned
  <2> QED BY <2>1, <2>2, <2>3 DEF Kept, Followed
<1>7. Aged' /\ RetainedHasJob'
  <2>1. SUFFICES ASSUME NEW j \in Job, snap'[j].status = "parsed"
        PROVE  /\ job'[j].status \in Finished => snap'[j].age >= job'[j].age
               /\ snap'[j].age = 0 => job'[j].status # "absent"
    BY DEF Aged, RetainedHasJob, Retained
  <2>2. snap'[j] = snap[j]
    BY <1>2, <2>1 DEF Cleaned, Absent
  <2>3. CASE job'[j] = job[j]
    BY <2>1, <2>2, <2>3 DEF Kept, Aged, RetainedHasJob, Retained
  <2>4. CASE job'[j] = NoJob /\ job[j].status \in Finished /\ job[j].age >= Retention
    <3>1. snap[j].age >= job[j].age
      BY <2>1, <2>2, <2>4 DEF Kept, Aged
    <3>2. snap[j].age \in Nat /\ job[j].age \in Nat
      BY Constant DEF Kept, SnapRow, JobRow, Age
    <3>3. snap[j].age # 0
      BY <2>4, <3>1, <3>2, Constant
    <3> QED BY <2>2, <2>4, <3>3 DEF NoJob, Finished
  <2> QED BY <1>2, <2>3, <2>4 DEF Cleaned
<1>8. Kept'
  BY <1>1, <1>4, <1>5, <1>6, <1>7, CleanDoes DEF Kept
<1> QED BY <1>8, KeptIsIInv

LEMMA OlderRow ==
  ASSUME CleanupAssumption
  PROVE  /\ \A r \in JobRow : Older(r) \in JobRow /\ Older(r).status = r.status
         /\ \A r \in SnapRow : Older(r) \in SnapRow /\ Older(r).status = r.status
         /\ \A r \in DeliveryRow : Older(r) \in DeliveryRow /\ Older(r).status = r.status
         /\ \A r \in ItemRow : Older(r) \in ItemRow /\ Older(r).status = r.status
         /\ \A r \in JobRow \cup SnapRow : Older(r).age = IF r.age < Retention THEN r.age + 1
                                                          ELSE r.age
<1>1. ASSUME NEW a \in Age, a < Retention PROVE a + 1 \in Age
  BY <1>1, Constant DEF Age
<1>2. ASSUME NEW r \in JobRow
      PROVE  /\ Older(r) \in JobRow /\ Older(r).status = r.status
             /\ Older(r).age = IF r.age < Retention THEN r.age + 1 ELSE r.age
  BY <1>1 DEF Older, JobRow
<1>3. ASSUME NEW r \in SnapRow
      PROVE  /\ Older(r) \in SnapRow /\ Older(r).status = r.status
             /\ Older(r).age = IF r.age < Retention THEN r.age + 1 ELSE r.age
  BY <1>1 DEF Older, SnapRow
<1>4. ASSUME NEW r \in DeliveryRow
      PROVE  Older(r) \in DeliveryRow /\ Older(r).status = r.status
  BY <1>1 DEF Older, DeliveryRow
<1>5. ASSUME NEW r \in ItemRow PROVE Older(r) \in ItemRow /\ Older(r).status = r.status
  BY <1>1 DEF Older, ItemRow
<1> QED BY <1>2, <1>3, <1>4, <1>5

LEMMA DayKept == ASSUME IInv, Day PROVE IInv'
<1> USE Now
<1>1. UNCHANGED <<feed, task, faults>> /\ task.step = "idle"
  BY DEF Day, Idle
<1>2. ASSUME NEW j \in Job
      PROVE  /\ job'[j] = IF job[j].status \in Finished THEN Older(job[j]) ELSE job[j]
             /\ snap'[j] = IF snap[j] # Absent THEN Older(snap[j]) ELSE snap[j]
             /\ job[j] \in JobRow /\ snap[j] \in SnapRow
  BY DEF Day, Kept
<1>3. ASSUME NEW j \in Job, NEW f \in Feed
      PROVE  /\ item'[j][f] \in ItemRow /\ item'[j][f].status = item[j][f].status
             /\ delivery'[j][f] \in DeliveryRow
  BY OlderRow DEF Day, Kept
<1>4. item' \in [Job -> [Feed -> ItemRow]] /\ delivery' \in [Job -> [Feed -> DeliveryRow]]
  BY <1>3 DEF Day
<1>5. ASSUME NEW j \in Job
      PROVE  /\ job'[j] \in JobRow /\ snap'[j] \in SnapRow
             /\ job'[j].status = job[j].status /\ snap'[j].status = snap[j].status
             /\ snap[j].status = "parsed" => snap'[j].age # 0
             /\ snap[j].status = "parsed" /\ job[j].status \in Finished
                => snap'[j].age >= job'[j].age
  <2>1. /\ job'[j] \in JobRow /\ snap'[j] \in SnapRow
        /\ job'[j].status = job[j].status /\ snap'[j].status = snap[j].status
    BY <1>2, OlderRow
  <2>2. PICK n \in Age, m \in Age : n = snap[j].age /\ m = job[j].age
    BY <1>2 DEF SnapRow, JobRow
  <2>3. ASSUME snap[j].status = "parsed"
        PROVE  snap'[j].age = IF n < Retention THEN n + 1 ELSE n
    BY <1>2, <2>2, <2>3, OlderRow DEF Absent
  <2>4. ASSUME job[j].status \in Finished
        PROVE  job'[j].age = IF m < Retention THEN m + 1 ELSE m
    BY <1>2, <2>2, <2>4, OlderRow
  <2>5. snap[j].status = "parsed" /\ job[j].status \in Finished => n >= m
    BY <2>2 DEF Kept, Aged
  <2> QED BY <2>1, <2>3, <2>4, <2>5, Constant DEF Age
<1>6. job' \in [Job -> JobRow] /\ snap' \in [Job -> SnapRow]
  BY <1>5 DEF Day
<1>7. Followed' /\ Runs' /\ Aged' /\ RetainedHasJob'
  BY <1>1, <1>3, <1>5 DEF Kept, Followed, Runs, Aged, RetainedHasJob, Retained
<1>8. (\A i, k \in Job : Active(i) /\ Active(k) => i = k)'
  BY <1>5 DEF Kept, Active
<1>9. Kept'
  BY <1>1, <1>4, <1>6, <1>7, <1>8 DEF Kept
<1> QED BY <1>9, KeptIsIInv

LEMMA StepIInv == IInv /\ [Next]_vars => IInv'
<1> SUFFICES ASSUME IInv, [Next]_vars PROVE IInv'
  OBVIOUS
<1>1. ASSUME NEW j \in Job, Schedule(j) PROVE IInv'
  BY <1>1, AskingKept
<1>2. ASSUME NEW j \in Job, NEW f \in Feed, Refresh(j, f) \/ Subscribe(j, f) PROVE IInv'
  BY <1>2, AskingKept
<1>3. ASSUME NEW j \in Job, NEW f \in Feed, Deliver(j, f) PROVE IInv'
  BY <1>3, ClaimDeliveryKept, FinishDeliveryKept DEF Deliver
<1>4. CASE Worker
  BY <1>4, ClaimKept, ExhaustedKept, ReceiveKept, NotModifiedKept, PublisherFailsKept, ParseKept,
     RejectKept, RethrowKept, CompleteKept, TellKept DEF Worker
<1>5. CASE Crash \/ Clean \/ Day
  BY <1>5, CrashKept, CleanKept, DayKept
<1>6. CASE UNCHANGED vars
  <2>1. Kept'
    BY <1>6, Now DEF vars, Kept, Runs, Followed, Aged, RetainedHasJob, Retained, Active
  <2> QED BY <2>1, Now, KeptIsIInv
<1> QED BY <1>1, <1>2, <1>3, <1>4, <1>5, <1>6 DEF Next

LEMMA SpecIInv == ASSUME CleanupAssumption PROVE Spec => []IInv
BY Initially, StepIInv, PTL DEF Spec

(***************************************************************************)
(* What goes: nothing but by a cleanup.                                    *)
(***************************************************************************)
Stays ==
  \A j \in Job :
    /\ job[j].status # "absent" => job'[j].status # "absent"
    /\ \A f \in Feed :
         /\ item[j][f].status # "absent" => item'[j][f].status # "absent"
         /\ delivery[j][f].status # "absent" => delivery'[j][f].status # "absent"

LEMMA AskingStays ==
  ASSUME IInv, NEW j \in Job,
         Schedule(j) \/ \E f \in Feed : Refresh(j, f) \/ Subscribe(j, f)
  PROVE  Stays
<1> USE Now
<1>1. \A k \in Job : job[k].status # "absent" => job'[k].status # "absent"
  <2>1. CASE Enqueue(j)
    BY <2>1, Enqueued
  <2>2. CASE job' = job
    BY <2>2
  <2> QED BY <2>1, <2>2 DEF Schedule, Refresh, Subscribe
<1>2. \A k \in Job, g \in Feed : item[k][g].status # "absent" => item'[k][g].status # "absent"
  <2>1. CASE UNCHANGED item
    BY <2>1
  <2>2. ASSUME NEW f \in Feed, item' = [item EXCEPT ![j][f] = Asked]
        PROVE  <1>2
    BY <2>2, Empty DEF Kept
  <2> QED BY <2>1, <2>2 DEF Schedule, Refresh, Subscribe
<1>3. \A k \in Job, g \in Feed :
        delivery[k][g].status # "absent" => delivery'[k][g].status # "absent"
  <2>1. CASE UNCHANGED delivery
    BY <2>1
  <2>2. ASSUME NEW f \in Feed,
               delivery' = [delivery EXCEPT ![j][f] = [status |-> "pending", age |-> 0]]
        PROVE  <1>3
    BY <2>2 DEF Kept
  <2> QED BY <2>1, <2>2 DEF Schedule, Refresh, Subscribe
<1> QED BY <1>1, <1>2, <1>3 DEF Stays

\* A job ends with its items, which stay.
LEMMA EndsStays ==
  ASSUME IInv, NEW j \in Job, NEW status \in {"queued"} \cup Finished,
         NEW new \in [Feed -> ItemRow],
         Ends(j, status, new), UNCHANGED delivery,
         \A f \in Feed : item[j][f].status # "absent" => new[f].status # "absent"
  PROVE  Stays
<1> USE Now
<1>1. status # "absent"
  BY DEF Finished
<1>2. \A k \in Job : job[k].status # "absent" => job'[k].status # "absent"
  BY <1>1 DEF Ends, Kept, JobRow
<1>3. \A k \in Job, f \in Feed : item[k][f].status # "absent" => item'[k][f].status # "absent"
  BY DEF Ends, Kept
<1> QED BY <1>2, <1>3 DEF Stays

LEMMA MarkedStays ==
  ASSUME IInv, NEW j \in Job, NEW feeds, NEW status \in {"failed"} \cup Open \cup Finished
  PROVE  \A f \in Feed :
           item[j][f].status # "absent" => Marked(j, feeds, status)[f].status # "absent"
<1>1. status # "absent"
  BY DEF Open, Finished
<1>2. \A f \in Feed : Marked(j, feeds, status)[f].status =
        IF f \in feeds /\ item[j][f] # NoItem THEN status ELSE item[j][f].status
  BY MarkedRows
<1> QED BY <1>1, <1>2

LEMMA WorkerStays == ASSUME IInv, Worker PROVE Stays
<1> USE Now
<1>1. ASSUME NEW j \in Job, Claim(j) \/ Receive(j) PROVE Stays
  BY <1>1 DEF Stays, Claim, Receive, Kept, JobRow
<1>2. ASSUME NEW j \in Job, Exhausted(j) PROVE Stays
  <2>1. PICK new \in [Feed -> ItemRow] : new = Marked(j, Feed, "dead")
    BY MarkedRows DEF Finished
  <2>2. \A f \in Feed : item[j][f].status # "absent" => new[f].status # "absent"
    BY <2>1, MarkedStays DEF Finished
  <2>3. item' = [item EXCEPT ![j] = new]
    BY <1>2, <2>1 DEF Exhausted
  <2> QED BY <1>2, <2>2, <2>3 DEF Stays, Exhausted, Kept, JobRow
<1>3. ASSUME NEW j \in Job, NotModified(j) PROVE Stays
  <2>1. PICK new \in [Feed -> ItemRow] : new = Marked(j, Feed, "completed")
    BY MarkedRows DEF Finished
  <2>2. Ends(j, "completed", new) /\ UNCHANGED delivery
    BY <1>3, <2>1 DEF NotModified
  <2> QED BY <2>1, <2>2, MarkedStays, EndsStays DEF Finished
<1>4. ASSUME NEW j \in Job, PublisherFails(j) \/ Reject(j) PROVE Stays
  <2>1. PICK new \in [Feed -> ItemRow] : new = Marked(j, Feed, "failed")
    BY MarkedRows
  <2>2. PICK status \in {"queued"} \cup Finished : Ends(j, status, new)
    BY <1>4, <2>1, RetryStatus DEF PublisherFails, Reject, Finished
  <2> QED BY <1>4, <2>1, <2>2, MarkedStays, EndsStays DEF PublisherFails, Reject
<1>5. ASSUME NEW j \in Job, Rethrow(j) PROVE Stays
  <2>1. PICK new : new = IF Retry(j) = "dead" THEN Marked(j, Feed, "dead") ELSE item[j]
    OBVIOUS
  <2>2. /\ new \in [Feed -> ItemRow]
        /\ \A f \in Feed : item[j][f].status # "absent" => new[f].status # "absent"
    BY <2>1, MarkedRows, MarkedStays DEF Finished, Kept
  <2>3. PICK status \in {"queued"} \cup Finished : Ends(j, status, new)
    BY <1>5, <2>1, RetryStatus DEF Rethrow
  <2> QED BY <1>5, <2>2, <2>3, EndsStays DEF Rethrow
<1>6. ASSUME NEW j \in Job, Parse(j) PROVE Stays
  <2>1. job' = job /\ item' = item
    BY <1>6 DEF Parse
  <2>2. \A k \in Job, f \in Feed :
          delivery[k][f].status # "absent" => delivery'[k][f].status # "absent"
    <3>1. CASE snap[j].status \in Unparsed
      <4>1. PICK new : new = [f \in Feed |->
                                IF feed[f] # "absent" /\ delivery[j][f] = Absent
                                THEN [status |-> "pending", age |-> 0] ELSE delivery[j][f]]
        OBVIOUS
      <4>2. delivery' = [delivery EXCEPT ![j] = new]
        BY <1>6, <3>1, <4>1 DEF Parse, Kept
      <4>3. \A f \in Feed : delivery[j][f].status # "absent" => new[f].status # "absent"
        BY <4>1
      <4> QED BY <4>2, <4>3 DEF Kept
    <3>2. CASE snap[j].status \notin Unparsed
      BY <1>6, <3>2 DEF Parse
    <3> QED BY <3>1, <3>2
  <2> QED BY <2>1, <2>2 DEF Stays
<1>7. ASSUME NEW j \in Job, Complete(j) PROVE Stays
  <2>1. PICK new : new = [f \in Feed |->
                            IF delivery[j][f] = Absent THEN Marked(j, {f}, "completed")[f]
                            ELSE Marked(j, {f}, "running")[f]]
    OBVIOUS
  <2>2. ASSUME NEW f \in Feed
        PROVE  /\ new[f] \in ItemRow
               /\ item[j][f].status # "absent" => new[f].status # "absent"
    <3>1. /\ Marked(j, {f}, "completed") \in [Feed -> ItemRow]
          /\ Marked(j, {f}, "running") \in [Feed -> ItemRow]
      BY MarkedRows DEF Finished, Open
    <3>2. item[j][f].status # "absent" =>
            /\ Marked(j, {f}, "completed")[f].status # "absent"
            /\ Marked(j, {f}, "running")[f].status # "absent"
      BY MarkedStays DEF Finished, Open
    <3> QED BY <2>1, <3>1, <3>2
  <2>3. new \in [Feed -> ItemRow]
    BY <2>1, <2>2
  <2>4. Ends(j, "completed", new) /\ UNCHANGED delivery
    BY <1>7, <2>1 DEF Complete
  <2> QED BY <2>2, <2>3, <2>4, EndsStays DEF Finished
<1>8. ASSUME NEW j \in Job, Tell(j) PROVE Stays
  <2>1. PICK row \in [Feed -> ItemRow] : row = item[j]
    BY DEF Kept
  <2>2. \A f \in Feed : Summed(row)[f].status = row[f].status
    BY SummedRows
  <2> QED BY <1>8, <2>1, <2>2 DEF Stays, Tell, Kept
<1> QED BY <1>1, <1>2, <1>3, <1>4, <1>5, <1>6, <1>7, <1>8 DEF Worker

LEMMA DeliverStays ==
  ASSUME IInv, NEW j \in Job, NEW f \in Feed, Deliver(j, f) PROVE Stays
<1> USE Now
<1>1. CASE ClaimDelivery(j, f)
  <2>1. /\ job' = job /\ item' = item
        /\ delivery' = [delivery EXCEPT ![j][f].status = "running"]
    BY <1>1 DEF ClaimDelivery
  <2> QED BY <2>1 DEF Stays, Kept, DeliveryRow
<1>2. CASE FinishDelivery(j, f)
  <2>1. PICK status \in Finished :
          /\ delivery' = [delivery EXCEPT ![j][f] = [status |-> status, age |-> 0]]
          /\ item' = [item EXCEPT ![j] = Summed(Marked(j, {f}, status))]
    BY <1>2 DEF FinishDelivery
  <2>2. PICK row \in [Feed -> ItemRow] :
          /\ row = Marked(j, {f}, status)
          /\ \A g \in Feed : item[j][g].status # "absent" => row[g].status # "absent"
    BY <2>1, MarkedRows, MarkedStays
  <2>3. \A g \in Feed : Summed(row)[g].status = row[g].status
    BY SummedRows
  <2>4. status # "absent"
    BY DEF Finished
  <2> QED BY <1>2, <2>1, <2>2, <2>3, <2>4 DEF Stays, FinishDelivery, Kept
<1> QED BY <1>1, <1>2 DEF Deliver

LEMMA DayStays == ASSUME IInv, Day PROVE Stays
<1> USE Now
<1>1. ASSUME NEW j \in Job
      PROVE  job'[j] = IF job[j].status \in Finished THEN Older(job[j]) ELSE job[j]
  BY DEF Day
<1>2. ASSUME NEW j \in Job PROVE job'[j].status = job[j].status
  BY <1>1, OlderRow DEF Kept
<1>3. ASSUME NEW j \in Job, NEW f \in Feed
      PROVE  /\ item'[j][f].status = item[j][f].status
             /\ delivery'[j][f].status = delivery[j][f].status
  BY OlderRow DEF Day, Kept
<1> QED BY <1>2, <1>3 DEF Stays

LEMMA NothingElseGoes == ASSUME IInv, [Next]_vars, ~Clean PROVE Stays
<1>1. ASSUME NEW j \in Job, Schedule(j) PROVE Stays
  BY <1>1, AskingStays
<1>2. ASSUME NEW j \in Job, NEW f \in Feed, Refresh(j, f) \/ Subscribe(j, f) PROVE Stays
  BY <1>2, AskingStays
<1>3. ASSUME NEW j \in Job, NEW f \in Feed, Deliver(j, f) PROVE Stays
  BY <1>3, DeliverStays
<1>4. CASE Worker
  BY <1>4, WorkerStays
<1>5. CASE Crash
  BY <1>5 DEF Crash, Stays
<1>6. CASE Day
  BY <1>6, DayStays
<1>7. CASE UNCHANGED vars
  BY <1>7 DEF vars, Stays
<1> QED BY <1>1, <1>2, <1>3, <1>4, <1>5, <1>6, <1>7 DEF Next

(***************************************************************************)
(* Theorems.                                                               *)
(***************************************************************************)
\* The rows keep their types, and a source never has two active jobs.
THEOREM TypesKept == ASSUME CleanupAssumption PROVE Spec => []TypeOK
<1>1. IInv => TypeOK
  BY DEF IInv
<1> QED BY <1>1, SpecIInv, PTL

\* A snapshot that createPendingFeed may serve a new feed from still has its job, whatever was
\* cleaned up since.
THEOREM RetainedKeepsJob == ASSUME CleanupAssumption PROVE Spec => []RetainedHasJob
<1>1. IInv => RetainedHasJob
  BY DEF IInv
<1> QED BY <1>1, SpecIInv, PTL

\* Nothing takes away an open delivery, or an open item or the job that it follows: neither
\* cleanupOperationalHistory, in batches of any size and at any moment, nor anything else.
THEOREM NothingActiveGoes == ASSUME CleanupAssumption PROVE Spec => [][ActiveKept]_vars
<1>1. IInv /\ [Next]_vars => [ActiveKept]_vars
  <2> SUFFICES ASSUME IInv, [Next]_vars PROVE ActiveKept
    OBVIOUS
  <2>1. "absent" \notin Open
    BY DEF Open
  <2> SUFFICES ASSUME NEW j \in Job, NEW f \in Feed
               PROVE  /\ delivery[j][f].status \in Open => delivery'[j][f].status # "absent"
                      /\ item[j][f].status \in Open =>
                           item'[j][f].status # "absent" /\ job'[j].status # "absent"
    BY DEF ActiveKept
  <2>2. item[j][f].status \in Open => job[j].status # "absent"
    BY DEF IInv, Followed
  <2>3. CASE Clean
    <3>1. Cleaned(j)
      BY <2>3, CleanDoes
    <3>2. delivery[j][f].status \in Open => delivery'[j][f] = delivery[j][f]
      BY <3>1 DEF Cleaned
    <3>3. item[j][f].status \in Open => item'[j][f] = item[j][f] /\ job'[j] = job[j]
      BY <3>1 DEF Cleaned
    <3> QED BY <2>1, <2>2, <3>2, <3>3
  <2>4. CASE ~Clean
    BY <2>1, <2>2, <2>4, NothingElseGoes DEF Stays
  <2> QED BY <2>3, <2>4
<1> QED BY <1>1, SpecIInv, PTL DEF Spec

---------------------------------------------------------------------------

(***************************************************************************)
(* BulkSync: a user's refresh of all feeds in the legacy synchronisation.  *)
(***************************************************************************)
CONSTANTS Users, Workers, Fresh, Life, Feeds, Loops, MaxJobs, MaxCrashes, MaxStalls
VARIABLES list, marker, request, lock, worker, busy, reader, jobs, crashes, stalls, accepted, ran

Bulk == INSTANCE BulkSync WITH User <- Users, Worker <- Workers

RequestRow == [job : 0..MaxJobs, life : 0..Life]

\* Who serves a user's refresh and holds the lock serves the job accepted last, and has run it when
\* the batch is over: a user with a lock cannot ask again, and whoever takes the lock over ends the
\* other's ownership.
Serving == \A w \in Workers :
  /\ worker[w].step # "idle" => worker[w].user \in Users
  /\ worker[w].step = "ended" /\ worker[w].job # 0 => worker[w].job \in ran
  /\ worker[w].step \in {"running", "ended"} /\ lock[worker[w].user].owner = w
       => worker[w].job = accepted[worker[w].user]

\* What is counted and what is left make up the batch.
Counting == \A w \in Workers :
  /\ worker[w].step = "running" => worker[w].counted + worker[w].left = Feeds
  /\ worker[w].step = "ended" => worker[w].counted = Feeds

Requested == \A u \in Users : request[u].job \in {0, accepted[u]}

\* A status that began while the user was in the list notices the removal.
Watching ==
  reader.step # "idle" /\ reader.there =>
    /\ reader.user \in Users /\ Bulk!Listed(reader.user)
    /\ reader.step = "answered" => reader.active

BulkInv == Bulk!BulkAssumption /\ Bulk!TypeOK /\ Serving /\ Counting /\ Requested /\ Watching
           /\ Bulk!NotDropped

LEMMA BulkConstants ==
  ASSUME Bulk!BulkAssumption
  PROVE  /\ None \notin Users /\ None \notin Workers
         /\ Fresh \in Nat /\ Life \in Nat /\ Life > Fresh /\ Life > 0
         /\ Feeds \in Nat /\ Feeds > 0
         /\ MaxJobs \in Nat /\ MaxCrashes \in Nat /\ MaxStalls \in Nat
BY DEF Bulk!BulkAssumption

LEMMA BulkRows ==
  ASSUME Bulk!BulkAssumption
  PROVE  /\ Bulk!Resting \in Bulk!WorkerState /\ Bulk!Waiting \in Bulk!ReaderState
         /\ Bulk!NoLock \in Bulk!Lock /\ Bulk!NoRequest \in RequestRow
         /\ Bulk!NoLock.owner = None /\ Bulk!NoLock.life = 0
         /\ Bulk!Resting.step = "idle" /\ Bulk!Waiting.step = "idle"
         /\ Bulk!NoRequest.job = 0
BY BulkConstants DEF Bulk!Resting, Bulk!WorkerState, Bulk!Waiting, Bulk!ReaderState, Bulk!NoLock,
                     Bulk!Lock, Bulk!NoRequest, RequestRow

(***************************************************************************)
(* The list.                                                               *)
(***************************************************************************)
\* The list without one of its places.
LEMMA RemovedFromList ==
  ASSUME NEW s \in Seq(Users), Bulk!IsInjective(s), NEW i \in DOMAIN s
  PROVE  /\ Bulk!RemoveAt(s, i) \in Seq(Users)
         /\ Bulk!IsInjective(Bulk!RemoveAt(s, i))
         /\ \A u \in Users :
              u # s[i] /\ u \in Bulk!ToSet(s) => u \in Bulk!ToSet(Bulk!RemoveAt(s, i))
<1> DEFINE a == SubSeq(s, 1, i - 1)  b == SubSeq(s, i + 1, Len(s))
<1>1. /\ i \in 1..Len(s) /\ Len(s) \in Nat /\ DOMAIN s = 1..Len(s)
      /\ \A k \in 1..Len(s) : s[k] \in Users
  OBVIOUS
<1>2. /\ a \in Seq(Users) /\ Len(a) = i - 1 /\ \A k \in 1..i - 1 : a[k] = s[k]
  <2>1. \A k \in 1..i - 1 : s[k] \in Users
    BY <1>1
  <2>2. /\ 1 \in Int /\ i - 1 \in Int
    BY <1>1
  <2> HIDE DEF a
  <2>3. /\ a \in Seq(Users) /\ Len(a) = IF 1 <= i - 1 THEN i - 1 - 1 + 1 ELSE 0
        /\ \A k \in 1..i - 1 - 1 + 1 : a[k] = s[1 + k - 1]
    BY <2>1, <2>2, SubSeqProperties DEF a
  <2> QED BY <2>3, <1>1
<1>3. /\ b \in Seq(Users) /\ Len(b) = Len(s) - i /\ \A k \in 1..Len(s) - i : b[k] = s[i + k]
  <2>1. \A k \in i + 1..Len(s) : s[k] \in Users
    BY <1>1
  <2>2. /\ i + 1 \in Int /\ Len(s) \in Int
    BY <1>1
  <2> HIDE DEF b
  <2>3. /\ b \in Seq(Users) /\ Len(b) = IF i + 1 <= Len(s) THEN Len(s) - (i + 1) + 1 ELSE 0
        /\ \A k \in 1..Len(s) - (i + 1) + 1 : b[k] = s[i + 1 + k - 1]
    BY <2>1, <2>2, SubSeqProperties DEF b
  <2>4. Len(b) = Len(s) - i /\ Len(s) - (i + 1) + 1 = Len(s) - i
    BY <2>3, <1>1
  <2>5. ASSUME NEW k \in 1..Len(s) - i
        PROVE  b[k] = s[i + k]
    <3>1. b[k] = s[i + 1 + k - 1]
      BY <2>3, <2>4
    <3>2. i + 1 + k - 1 = i + k
      BY <1>1
    <3> QED BY <3>1, <3>2
  <2> QED BY <2>3, <2>4, <2>5
<1> DEFINE r == a \o b
<1> HIDE DEF a, b
<1>4. r \in Seq(Users) /\ Len(r) = Len(s) - 1
      /\ \A k \in 1..Len(s) - 1 : r[k] = IF k < i THEN s[k] ELSE s[k + 1]
  <2> HIDE DEF r
  <2>1. /\ r \in Seq(Users) /\ Len(r) = Len(a) + Len(b)
        /\ \A k \in 1..Len(a) + Len(b) : r[k] = IF k <= Len(a) THEN a[k] ELSE b[k - Len(a)]
    BY <1>2, <1>3, ConcatProperties, Zenon DEF r
  <2>2. Len(r) = Len(s) - 1
    BY <2>1, <1>1, <1>2, <1>3
  <2>3. ASSUME NEW k \in 1..Len(s) - 1
        PROVE  r[k] = IF k < i THEN s[k] ELSE s[k + 1]
    <3>1. r[k] = IF k <= i - 1 THEN a[k] ELSE b[k - (i - 1)]
      BY <2>1, <1>1, <1>2, <1>3
    <3>2. CASE k < i
      BY <3>1, <3>2, <1>1, <1>2
    <3>3. CASE ~(k < i)
      <4>1. k - (i - 1) \in 1..Len(s) - i /\ i + (k - (i - 1)) = k + 1
        BY <3>3, <1>1
      <4> QED BY <4>1, <3>1, <3>3, <1>1, <1>3
    <3> QED BY <3>2, <3>3
  <2> QED BY <2>1, <2>2, <2>3
<1>5. Bulk!RemoveAt(s, i) = r
  BY Zenon DEF Bulk!RemoveAt, a, b
<1> HIDE DEF r
<1>6. DOMAIN r = 1..Len(s) - 1
  BY <1>4
<1>7. \A x, y \in DOMAIN s : s[x] = s[y] => x = y
  BY Zenon DEF Bulk!IsInjective
<1>8. Bulk!IsInjective(r)
  <2> SUFFICES ASSUME NEW x \in 1..Len(s) - 1, NEW y \in 1..Len(s) - 1, r[x] = r[y]
               PROVE  x = y
    BY <1>6, Zenon DEF Bulk!IsInjective
  <2> DEFINE at(k) == IF k < i THEN k ELSE k + 1
  <2>1. /\ at(x) \in DOMAIN s /\ r[x] = s[at(x)]
        /\ at(y) \in DOMAIN s /\ r[y] = s[at(y)]
    BY <1>1, <1>4
  <2>2. at(x) = at(y)
    BY <2>1, <1>7, Zenon
  <2> QED BY <2>2, <1>1
<1>9. ASSUME NEW u \in Users, u # s[i], u \in Bulk!ToSet(s)
      PROVE  u \in Bulk!ToSet(r)
  <2>1. PICK k \in DOMAIN s : s[k] = u
    BY <1>9, Zenon DEF Bulk!ToSet
  <2>2. PICK m \in 1..Len(s) - 1 : r[m] = u
    <3>1. CASE k < i
      BY <3>1, <2>1, <1>1, <1>4
    <3>2. CASE k > i
      <4>1. k - 1 \in 1..Len(s) - 1 /\ ~(k - 1 < i) /\ k - 1 + 1 = k
        BY <3>2, <1>1
      <4> QED BY <4>1, <2>1, <1>4
    <3> QED BY <3>1, <3>2, <2>1, <1>1, <1>9
  <2> QED BY <2>2, <1>6, Zenon DEF Bulk!ToSet
<1> QED BY <1>4, <1>5, <1>8, <1>9, Zenon

(***************************************************************************)
(* What the steps have in common.                                          *)
(***************************************************************************)
LEMMA BulkTypes ==
  ASSUME BulkInv
  PROVE  /\ list \in Seq(Users) /\ Bulk!IsInjective(list)
         /\ marker \in [Users -> 0..Life] /\ request \in [Users -> RequestRow]
         /\ lock \in [Users -> Bulk!Lock]
         /\ \A u \in Users : (lock[u].owner = None) = (lock[u].life = 0)
         /\ worker \in [Workers -> Bulk!WorkerState] /\ busy \in [Workers -> SUBSET Loops]
         /\ reader \in Bulk!ReaderState
         /\ jobs \in 0..MaxJobs /\ crashes \in 0..MaxCrashes /\ stalls \in 0..MaxStalls
         /\ accepted \in [Users -> 0..MaxJobs] /\ ran \subseteq 1..MaxJobs
BY Zenon DEF BulkInv, Bulk!TypeOK, RequestRow

LEMMA BulkTyped ==
  ASSUME list' \in Seq(Users), Bulk!IsInjective(list'),
         marker' \in [Users -> 0..Life], request' \in [Users -> RequestRow],
         lock' \in [Users -> Bulk!Lock],
         \A u \in Users : (lock'[u].owner = None) = (lock'[u].life = 0),
         worker' \in [Workers -> Bulk!WorkerState], busy' \in [Workers -> SUBSET Loops],
         reader' \in Bulk!ReaderState,
         jobs' \in 0..MaxJobs, crashes' \in 0..MaxCrashes, stalls' \in 0..MaxStalls,
         accepted' \in [Users -> 0..MaxJobs], ran' \subseteq 1..MaxJobs
  PROVE  Bulk!TypeOK'
BY Zenon DEF Bulk!TypeOK, RequestRow

\* What a worker may become.
Serves(w, row, l, a, r) ==
  /\ row \in Bulk!WorkerState
  /\ row.step # "idle" => row.user \in Users
  /\ row.step = "ended" /\ row.job # 0 => row.job \in r
  /\ row.step \in {"running", "ended"} /\ l[row.user].owner = w => row.job = a[row.user]
  /\ row.step = "running" => row.counted + row.left = Feeds
  /\ row.step = "ended" => row.counted = Feeds

LEMMA ServesNow ==
  ASSUME BulkInv, NEW w \in Workers
  PROVE  Serves(w, worker[w], lock, accepted, ran)
BY BulkTypes, Zenon DEF BulkInv, Serving, Counting, Serves

LEMMA ServesThen ==
  ASSUME worker' \in [Workers -> Bulk!WorkerState],
         \A w \in Workers : Serves(w, worker'[w], lock', accepted', ran')
  PROVE  Serving' /\ Counting'
BY Zenon DEF Serving, Counting, Serves

\* One worker moves; no other comes to own a lock.
LEMMA WorkerMoves ==
  ASSUME BulkInv, NEW w \in Workers, NEW row,
         worker' = [worker EXCEPT ![w] = row], Serves(w, row, lock', accepted', ran'),
         \A u \in Users, v \in Workers : v # w /\ lock'[u].owner = v => lock[u].owner = v,
         accepted' = accepted, ran \subseteq ran'
  PROVE  worker' \in [Workers -> Bulk!WorkerState] /\ Serving' /\ Counting'
<1>1. row \in Bulk!WorkerState
  BY Zenon DEF Serves
<1>2. worker' \in [Workers -> Bulk!WorkerState]
  BY <1>1, BulkTypes
<1>3. ASSUME NEW v \in Workers
      PROVE  Serves(v, worker'[v], lock', accepted', ran')
  <2>1. CASE v = w
    <3>1. worker'[v] = row
      BY <2>1, BulkTypes
    <3> QED BY <3>1, <2>1, Zenon
  <2>2. CASE v # w
    <3>1. worker'[v] = worker[v]
      BY <2>2, BulkTypes
    <3>2. PICK r : r = worker[v]
      OBVIOUS
    <3>3. Serves(v, r, lock, accepted, ran)
      BY <3>2, ServesNow, Zenon
    <3>4. /\ r \in Bulk!WorkerState
          /\ r.step # "idle" => r.user \in Users
          /\ r.step = "running" => r.counted + r.left = Feeds
          /\ r.step = "ended" => r.counted = Feeds
      BY <3>3, Zenon DEF Serves
    <3>5. r.step = "ended" /\ r.job # 0 => r.job \in ran'
      BY <3>3, Zenon DEF Serves
    <3>6. r.step \in {"running", "ended"} /\ lock'[r.user].owner = v => r.job = accepted'[r.user]
      <4> SUFFICES ASSUME r.step \in {"running", "ended"}, lock'[r.user].owner = v
                   PROVE  r.job = accepted'[r.user]
        OBVIOUS
      <4>1. r.user \in Users
        BY <3>4
      <4>2. lock[r.user].owner = v
        BY <4>1, <2>2, Zenon
      <4> QED BY <4>2, <3>3, Zenon DEF Serves
    <3>7. Serves(v, r, lock', accepted', ran')
      BY <3>4, <3>5, <3>6, Zenon DEF Serves
    <3> QED BY <3>1, <3>2, <3>7, Zenon
  <2> QED BY <2>1, <2>2
<1> QED BY <1>2, <1>3, ServesThen, Zenon

\* No worker moves; nobody comes to own a lock, and no user who has one asks again.
LEMMA WorkersStay ==
  ASSUME BulkInv, worker' = worker, ran' = ran,
         \A u \in Users, v \in Workers :
           lock'[u].owner = v => lock[u].owner = v /\ accepted'[u] = accepted[u]
  PROVE  Serving' /\ Counting'
<1>1. ASSUME NEW v \in Workers
      PROVE  Serves(v, worker'[v], lock', accepted', ran')
  <2>2. PICK r : r = worker[v]
    OBVIOUS
  <2>3. Serves(v, r, lock, accepted, ran)
    BY <2>2, ServesNow, Zenon
  <2>4. r.step \in {"running", "ended"} /\ lock'[r.user].owner = v => r.job = accepted'[r.user]
    <3> SUFFICES ASSUME r.step \in {"running", "ended"}, lock'[r.user].owner = v
                 PROVE  r.job = accepted'[r.user]
      OBVIOUS
    <3>1. r.user \in Users
      BY <2>3 DEF Serves
    <3>2. lock[r.user].owner = v /\ accepted'[r.user] = accepted[r.user]
      BY <3>1, Zenon
    <3> QED BY <3>2, <2>3, Zenon DEF Serves
  <2>5. Serves(v, r, lock', accepted', ran')
    BY <2>3, <2>4, Zenon DEF Serves
  <2> QED BY <2>2, <2>5, Zenon
<1>2. worker' \in [Workers -> Bulk!WorkerState]
  BY BulkTypes
<1> QED BY <1>1, <1>2, ServesThen, Zenon

\* Nothing is asked for, nothing is taken out of the list, and nobody's status is watched anew.
LEMMA ListStays ==
  ASSUME BulkInv, list' = list, accepted' = accepted, ran \subseteq ran',
         \A u \in Users : request'[u].job \in {0, request[u].job}
  PROVE  Requested' /\ Bulk!NotDropped'
<1>1. Requested'
  BY Zenon DEF BulkInv, Requested
<1>2. Bulk!NotDropped'
  BY Zenon DEF BulkInv, Bulk!NotDropped, Bulk!Listed
<1> QED BY <1>1, <1>2

LEMMA StillWatching ==
  ASSUME BulkInv, list' = list, reader' = reader
  PROVE  Watching'
BY Zenon DEF BulkInv, Watching, Bulk!Listed

LEMMA BulkKept ==
  ASSUME BulkInv, Bulk!TypeOK', Serving', Counting', Requested', Watching', Bulk!NotDropped'
  PROVE  BulkInv'
BY Zenon DEF BulkInv

(***************************************************************************)
(* The workers' steps.                                                     *)
(***************************************************************************)
LEMMA BulkLookAtHead ==
  ASSUME BulkInv, NEW w \in Workers, Bulk!LookAtHead(w)
  PROVE  BulkInv'
<1>1. /\ list' = list /\ marker' = marker /\ request' = request /\ lock' = lock
      /\ busy' = busy /\ reader' = reader /\ jobs' = jobs /\ crashes' = crashes
      /\ stalls' = stalls /\ accepted' = accepted /\ ran' = ran
  BY DEF Bulk!LookAtHead, Bulk!keys, Bulk!bounds, Bulk!history
<1>2. PICK row : row = [Bulk!Resting EXCEPT !.step = "head", !.user = Head(list)]
  OBVIOUS
<1>3. ran' = ran
  BY <1>1 DEF Bulk!LookAtHead
<1>4. /\ worker' = [worker EXCEPT ![w] = row] /\ list # <<>> /\ row.step = "head"
      /\ row.user = Head(list)
  BY <1>2 DEF Bulk!LookAtHead, Bulk!Resting
<1>5. Serves(w, row, lock', accepted', ran')
  <2>1. Head(list) \in Users
    BY <1>4, BulkTypes, HeadTailProperties
  <2>2. PICK h \in Users : h = Head(list)
    BY <2>1
  <2>3. row = [Bulk!Resting EXCEPT !.step = "head", !.user = h]
    BY <1>2, <2>2
  <2>4. PICK rest : rest = Bulk!Resting /\ rest \in Bulk!WorkerState
    BY BulkRows DEF BulkInv
  <2>5. row = [rest EXCEPT !.step = "head", !.user = h]
    BY <2>3, <2>4
  <2>6. row \in Bulk!WorkerState /\ row.user = h
    BY <2>4, <2>5 DEF Bulk!WorkerState
  <2> QED BY <1>4, <2>6 DEF Serves
<1>6. worker' \in [Workers -> Bulk!WorkerState] /\ Serving' /\ Counting'
  BY <1>1, <1>3, <1>4, <1>5, WorkerMoves, Zenon
<1>7. Bulk!TypeOK'
  BY <1>1, <1>6, BulkTypes, BulkTyped
<1>8. Requested' /\ Bulk!NotDropped'
  BY <1>1, <1>3, ListStays, Zenon
<1>9. Watching'
  BY <1>1, StillWatching, Zenon
<1> QED BY <1>6, <1>7, <1>8, <1>9, BulkKept, Zenon

LEMMA BulkFeedDone ==
  ASSUME BulkInv, NEW w \in Workers, Bulk!FeedDone(w)
  PROVE  BulkInv'
<1>1. /\ list' = list /\ marker' = marker /\ request' = request /\ lock' = lock
      /\ busy' = busy /\ reader' = reader /\ jobs' = jobs /\ crashes' = crashes
      /\ stalls' = stalls /\ accepted' = accepted /\ ran' = ran
  BY DEF Bulk!FeedDone, Bulk!keys, Bulk!bounds, Bulk!history
<1>2. PICK row : row = [worker[w] EXCEPT !.left = worker[w].left - 1,
                                         !.counted = worker[w].counted + 1]
  OBVIOUS
<1>3. ran' = ran
  BY <1>1 DEF Bulk!FeedDone
<1>4. /\ worker' = [worker EXCEPT ![w] = row] /\ worker[w].step = "running"
      /\ worker[w].left > 0
  BY <1>2 DEF Bulk!FeedDone
<1>5. Serves(w, row, lock', accepted', ran')
  <2>1. PICK old : old = worker[w]
    OBVIOUS
  <2>2. Serves(w, old, lock, accepted, ran)
    BY <2>1, ServesNow, Zenon
  <2>3. /\ old \in Bulk!WorkerState /\ old.step = "running" /\ old.left > 0
        /\ old.counted + old.left = Feeds
    BY <2>1, <2>2, <1>4 DEF Serves
  <2>6. /\ old.left \in 0..Feeds /\ old.counted \in Nat /\ old.late \in 0..Feeds
    BY <2>3 DEF Bulk!WorkerState
  <2>7. PICK n \in 0..2 * Feeds, m \in 0..Feeds :
           n = old.counted + 1 /\ m = old.left - 1 /\ n + m = Feeds
    BY <2>3, <2>6, BulkConstants DEF BulkInv
  <2>4. row = [old EXCEPT !.left = m, !.counted = n]
    BY <2>1, <1>2, <2>7
  <2>5. /\ row \in Bulk!WorkerState /\ row.step = "running" /\ row.user = old.user
        /\ row.job = old.job /\ row.counted = n /\ row.left = m
    BY <2>3, <2>4 DEF Bulk!WorkerState
  <2> QED BY <2>2, <2>3, <2>5, <2>7, <1>1 DEF Serves
<1>6. worker' \in [Workers -> Bulk!WorkerState] /\ Serving' /\ Counting'
  BY <1>1, <1>3, <1>4, <1>5, WorkerMoves, Zenon
<1>7. Bulk!TypeOK'
  BY <1>1, <1>6, BulkTypes, BulkTyped
<1>8. Requested' /\ Bulk!NotDropped'
  BY <1>1, <1>3, ListStays, Zenon
<1>9. Watching'
  BY <1>1, StillWatching, Zenon
<1> QED BY <1>6, <1>7, <1>8, <1>9, BulkKept, Zenon

LEMMA BulkDeadline ==
  ASSUME BulkInv, NEW w \in Workers, Bulk!Deadline(w)
  PROVE  BulkInv'
<1>1. /\ list' = list /\ marker' = marker /\ request' = request /\ lock' = lock
      /\ busy' = busy /\ reader' = reader /\ jobs' = jobs /\ crashes' = crashes
      /\ stalls' = stalls /\ accepted' = accepted /\ ran' = ran
  BY DEF Bulk!Deadline, Bulk!keys, Bulk!bounds, Bulk!history
<1>2. PICK row : row = [worker[w] EXCEPT !.left = 0, !.late = worker[w].left,
                                   !.counted = worker[w].counted + worker[w].left]
  OBVIOUS
<1>3. ran' = ran
  BY <1>1 DEF Bulk!Deadline
<1>4. /\ worker' = [worker EXCEPT ![w] = row] /\ worker[w].step = "running"
      /\ worker[w].left > 0
  BY <1>2 DEF Bulk!Deadline
<1>5. Serves(w, row, lock', accepted', ran')
  <2>1. PICK old : old = worker[w]
    OBVIOUS
  <2>2. Serves(w, old, lock, accepted, ran)
    BY <2>1, ServesNow, Zenon
  <2>3. /\ old \in Bulk!WorkerState /\ old.step = "running" /\ old.left > 0
        /\ old.counted + old.left = Feeds
    BY <2>1, <2>2, <1>4 DEF Serves
  <2>6. /\ old.left \in 0..Feeds /\ old.counted \in Nat /\ old.late \in 0..Feeds
    BY <2>3 DEF Bulk!WorkerState
  <2>7. PICK n \in 0..2 * Feeds, m \in 0..Feeds :
           n = old.counted + old.left /\ m = 0 /\ n + m = Feeds
    BY <2>3, <2>6, BulkConstants DEF BulkInv
  <2>4. row = [old EXCEPT !.left = m, !.late = old.left, !.counted = n]
    BY <2>1, <1>2, <2>7
  <2>5. /\ row \in Bulk!WorkerState /\ row.step = "running" /\ row.user = old.user
        /\ row.job = old.job /\ row.counted = n /\ row.left = m
    BY <2>3, <2>4 DEF Bulk!WorkerState
  <2> QED BY <2>2, <2>3, <2>5, <2>7, <1>1 DEF Serves
<1>6. worker' \in [Workers -> Bulk!WorkerState] /\ Serving' /\ Counting'
  BY <1>1, <1>3, <1>4, <1>5, WorkerMoves, Zenon
<1>7. Bulk!TypeOK'
  BY <1>1, <1>6, BulkTypes, BulkTyped
<1>8. Requested' /\ Bulk!NotDropped'
  BY <1>1, <1>3, ListStays, Zenon
<1>9. Watching'
  BY <1>1, StillWatching, Zenon
<1> QED BY <1>6, <1>7, <1>8, <1>9, BulkKept, Zenon

LEMMA BulkFeedLate ==
  ASSUME BulkInv, NEW w \in Workers, Bulk!FeedLate(w)
  PROVE  BulkInv'
<1>1. /\ list' = list /\ marker' = marker /\ request' = request /\ lock' = lock
      /\ busy' = busy /\ reader' = reader /\ jobs' = jobs /\ crashes' = crashes
      /\ stalls' = stalls /\ accepted' = accepted /\ ran' = ran
  BY DEF Bulk!FeedLate, Bulk!keys, Bulk!bounds, Bulk!history
<1>2. PICK row : row = [worker[w] EXCEPT !.late = worker[w].late - 1]
  OBVIOUS
<1>3. ran' = ran
  BY <1>1 DEF Bulk!FeedLate
<1>4. /\ worker' = [worker EXCEPT ![w] = row] /\ worker[w].late > 0
  BY <1>2 DEF Bulk!FeedLate, Bulk!Counts
<1>5. Serves(w, row, lock', accepted', ran')
  <2>1. PICK old : old = worker[w]
    OBVIOUS
  <2>2. Serves(w, old, lock, accepted, ran)
    BY <2>1, ServesNow, Zenon
  <2>3. old \in Bulk!WorkerState /\ old.late > 0
    BY <2>1, <2>2, <1>4 DEF Serves
  <2>4. row = [old EXCEPT !.late = old.late - 1]
    BY <2>1, <1>2
  <2>5. /\ row \in Bulk!WorkerState /\ row.step = old.step /\ row.user = old.user
        /\ row.job = old.job /\ row.counted = old.counted /\ row.left = old.left
    BY <2>3, <2>4, BulkConstants DEF Bulk!WorkerState, BulkInv
  <2> QED BY <2>2, <2>5, <1>1 DEF Serves
<1>6. worker' \in [Workers -> Bulk!WorkerState] /\ Serving' /\ Counting'
  BY <1>1, <1>3, <1>4, <1>5, WorkerMoves, Zenon
<1>7. Bulk!TypeOK'
  BY <1>1, <1>6, BulkTypes, BulkTyped
<1>8. Requested' /\ Bulk!NotDropped'
  BY <1>1, <1>3, ListStays, Zenon
<1>9. Watching'
  BY <1>1, StillWatching, Zenon
<1> QED BY <1>6, <1>7, <1>8, <1>9, BulkKept, Zenon

LEMMA BulkEnd ==
  ASSUME BulkInv, NEW w \in Workers, Bulk!End(w)
  PROVE  BulkInv'
<1>1. /\ list' = list /\ marker' = marker /\ request' = request /\ lock' = lock
      /\ busy' = busy /\ reader' = reader /\ jobs' = jobs /\ crashes' = crashes
      /\ stalls' = stalls /\ accepted' = accepted
  BY DEF Bulk!End, Bulk!keys, Bulk!bounds, Bulk!history
<1>2. PICK row : row = [worker[w] EXCEPT !.step = "ended"]
  OBVIOUS
<1>3. /\ ran \subseteq ran'
      /\ ran' \subseteq 1..MaxJobs
  <2>1. worker[w].job \in 0..MaxJobs
    BY BulkTypes DEF Bulk!WorkerState
  <2>2. ran' = IF worker[w].job = 0 THEN ran ELSE ran \cup {worker[w].job}
    BY DEF Bulk!End
  <2> QED BY <2>1, <2>2, BulkTypes
<1>4. /\ worker' = [worker EXCEPT ![w] = row] /\ worker[w].step = "running"
      /\ worker[w].left = 0
      /\ ran' = IF worker[w].job = 0 THEN ran ELSE ran \cup {worker[w].job}
  BY <1>2 DEF Bulk!End, Bulk!Does
<1>5. Serves(w, row, lock', accepted', ran')
  <2>1. PICK old : old = worker[w]
    OBVIOUS
  <2>2. Serves(w, old, lock, accepted, ran)
    BY <2>1, ServesNow, Zenon
  <2>3. /\ old \in Bulk!WorkerState /\ old.step = "running" /\ old.left = 0
        /\ old.counted + old.left = Feeds
    BY <2>1, <2>2, <1>4 DEF Serves
  <2>4. row = [old EXCEPT !.step = "ended"]
    BY <2>1, <1>2
  <2>5. /\ row \in Bulk!WorkerState /\ row.step = "ended" /\ row.user = old.user
        /\ row.job = old.job /\ row.counted = Feeds
    BY <2>3, <2>4, BulkConstants DEF Bulk!WorkerState, BulkInv
  <2>6. row.job # 0 => row.job \in ran'
    BY <1>4, <2>1, <2>5
  <2> QED BY <2>2, <2>3, <2>5, <2>6, <1>1 DEF Serves
<1>6. worker' \in [Workers -> Bulk!WorkerState] /\ Serving' /\ Counting'
  BY <1>1, <1>3, <1>4, <1>5, WorkerMoves, Zenon
<1>7. Bulk!TypeOK'
  BY <1>1, <1>3, <1>6, BulkTypes, BulkTyped
<1>8. Requested' /\ Bulk!NotDropped'
  BY <1>1, <1>3, ListStays, Zenon
<1>9. Watching'
  BY <1>1, StillWatching, Zenon
<1> QED BY <1>6, <1>7, <1>8, <1>9, BulkKept, Zenon

LEMMA BulkCrash ==
  ASSUME BulkInv, NEW w \in Workers, Bulk!Crash(w)
  PROVE  BulkInv'
<1>1. /\ list' = list /\ marker' = marker /\ request' = request /\ lock' = lock
      /\ reader' = reader /\ jobs' = jobs /\ stalls' = stalls /\ accepted' = accepted
      /\ ran' = ran
  BY DEF Bulk!Crash, Bulk!keys, Bulk!bounds, Bulk!history
<1>2. PICK row : row = Bulk!Resting
  OBVIOUS
<1>3. ran' = ran
  BY <1>1
<1>4. /\ worker' = [worker EXCEPT ![w] = row] /\ busy' = [busy EXCEPT ![w] = {}]
      /\ crashes < MaxCrashes /\ crashes' = crashes + 1
  BY <1>2 DEF Bulk!Crash
<1>5. Serves(w, row, lock', accepted', ran')
  BY <1>2, BulkRows DEF BulkInv, Serves
<1>a. /\ busy' \in [Workers -> SUBSET Loops] /\ crashes' \in 0..MaxCrashes
  BY <1>4, BulkTypes, BulkConstants DEF BulkInv
<1>6. worker' \in [Workers -> Bulk!WorkerState] /\ Serving' /\ Counting'
  BY <1>1, <1>3, <1>4, <1>5, WorkerMoves, Zenon
<1>7. Bulk!TypeOK'
  BY <1>1, <1>6, <1>a, BulkTypes, BulkTyped
<1>8. Requested' /\ Bulk!NotDropped'
  BY <1>1, <1>3, ListStays, Zenon
<1>9. Watching'
  BY <1>1, StillWatching, Zenon
<1> QED BY <1>6, <1>7, <1>8, <1>9, BulkKept, Zenon

LEMMA BulkAcquire ==
  ASSUME BulkInv, NEW w \in Workers, Bulk!Acquire(w)
  PROVE  BulkInv'
<1>1. /\ list' = list /\ marker' = marker /\ request' = request /\ busy' = busy
      /\ reader' = reader /\ jobs' = jobs /\ crashes' = crashes /\ stalls' = stalls
      /\ accepted' = accepted /\ ran' = ran
  BY DEF Bulk!Acquire, Bulk!bounds, Bulk!history
<1>2. PICK old : old = worker[w]
  OBVIOUS
<1>3. Serves(w, old, lock, accepted, ran) /\ old.step = "head"
  BY <1>2, ServesNow, Zenon DEF Bulk!Acquire
<1>4. PICK u \in Users : u = worker[w].user
  BY <1>2, <1>3 DEF Serves
<1>5. \/ /\ lock' = [lock EXCEPT ![u] = [owner |-> w, age |-> 0, life |-> Life]]
         /\ worker' = [worker EXCEPT ![w].step = "locked"]
      \/ lock' = lock /\ worker' = [worker EXCEPT ![w] = Bulk!Resting]
  BY <1>4 DEF Bulk!Acquire, Bulk!Does
<1>6. PICK row : /\ worker' = [worker EXCEPT ![w] = row] /\ row \in Bulk!WorkerState
                 /\ row.step \in {"locked", "idle"}
                 /\ row.step # "idle" => row.user \in Users
  <2>1. CASE worker' = [worker EXCEPT ![w].step = "locked"]
    <3>1. PICK row : row = [old EXCEPT !.step = "locked"]
      OBVIOUS
    <3>2. worker' = [worker EXCEPT ![w] = row]
      BY <2>1, <3>1, <1>2
    <3>3. row \in Bulk!WorkerState /\ row.step = "locked" /\ row.user = u
      BY <3>1, <1>2, <1>3, <1>4 DEF Serves, Bulk!WorkerState
    <3> QED BY <3>2, <3>3
  <2>2. CASE worker' = [worker EXCEPT ![w] = Bulk!Resting]
    BY <2>2, BulkRows, Zenon DEF BulkInv
  <2> QED BY <2>1, <2>2, <1>5
<1>7. Serves(w, row, lock', accepted', ran')
  BY <1>6 DEF Serves
<1>8. \A x \in Users, v \in Workers : v # w /\ lock'[x].owner = v => lock[x].owner = v
  <2>1. CASE lock' = [lock EXCEPT ![u] = [owner |-> w, age |-> 0, life |-> Life]]
    BY <2>1, BulkTypes
  <2>2. CASE lock' = lock
    BY <2>2
  <2> QED BY <2>1, <2>2, <1>5
<1>9. worker' \in [Workers -> Bulk!WorkerState] /\ Serving' /\ Counting'
  BY <1>1, <1>6, <1>7, <1>8, WorkerMoves, Zenon
<1>10. /\ lock' \in [Users -> Bulk!Lock]
       /\ \A x \in Users : (lock'[x].owner = None) = (lock'[x].life = 0)
  <2>1. CASE lock' = [lock EXCEPT ![u] = [owner |-> w, age |-> 0, life |-> Life]]
    <3>1. PICK l : l = [owner |-> w, age |-> 0, life |-> Life]
      OBVIOUS
    <3>2. l \in Bulk!Lock /\ l.owner # None /\ l.life # 0
      BY <3>1, BulkConstants DEF BulkInv, Bulk!Lock
    <3>3. lock' = [lock EXCEPT ![u] = l]
      BY <2>1, <3>1
    <3> QED BY <3>2, <3>3, BulkTypes
  <2>2. CASE lock' = lock
    BY <2>2, BulkTypes
  <2> QED BY <2>1, <2>2, <1>5
<1>11. Bulk!TypeOK'
  BY <1>1, <1>9, <1>10, BulkTypes, BulkTyped
<1>12. Requested' /\ Bulk!NotDropped'
  BY <1>1, ListStays, Zenon
<1>13. Watching'
  BY <1>1, StillWatching, Zenon
<1> QED BY <1>9, <1>11, <1>12, <1>13, BulkKept, Zenon

LEMMA BulkStart ==
  ASSUME BulkInv, NEW w \in Workers, Bulk!Start(w)
  PROVE  BulkInv'
<1>1. /\ list' = list /\ marker' = marker /\ request' = request /\ lock' = lock /\ busy' = busy
      /\ reader' = reader /\ jobs' = jobs /\ crashes' = crashes /\ stalls' = stalls
      /\ accepted' = accepted /\ ran' = ran
  BY DEF Bulk!Start, Bulk!keys, Bulk!bounds, Bulk!history
<1>2. PICK old : old = worker[w]
  OBVIOUS
<1>3. Serves(w, old, lock, accepted, ran) /\ old.step = "locked"
  BY <1>2, ServesNow, Zenon DEF Bulk!Start
<1>4. PICK u \in Users : u = worker[w].user
  BY <1>2, <1>3 DEF Serves
<1>5. PICK total \in 0..Feeds :
        worker' = [worker EXCEPT
                     ![w].step = "running", ![w].left = total, ![w].counted = Feeds - total,
                     ![w].job = IF request[u].job = 0 THEN accepted[u] ELSE request[u].job]
  BY <1>4 DEF Bulk!Start
<1>6. PICK job1 \in 0..MaxJobs : /\ job1 = accepted[u]
                                 /\ job1 = IF request[u].job = 0 THEN accepted[u]
                                           ELSE request[u].job
  BY BulkTypes DEF BulkInv, Requested
<1>7. PICK n \in 0..2 * Feeds : n = Feeds - total /\ n + total = Feeds
  BY BulkConstants DEF BulkInv
<1>8. PICK row : row = [old EXCEPT !.step = "running", !.left = total, !.counted = n,
                                   !.job = job1]
  OBVIOUS
<1>9. worker' = [worker EXCEPT ![w] = row]
  BY <1>2, <1>5, <1>6, <1>7, <1>8
<1>10. /\ row \in Bulk!WorkerState /\ row.step = "running" /\ row.user = u /\ row.job = job1
       /\ row.counted = n /\ row.left = total
  BY <1>2, <1>3, <1>4, <1>8 DEF Serves, Bulk!WorkerState
<1>11. Serves(w, row, lock', accepted', ran')
  BY <1>1, <1>6, <1>7, <1>10 DEF Serves
<1>12. worker' \in [Workers -> Bulk!WorkerState] /\ Serving' /\ Counting'
  BY <1>1, <1>9, <1>11, WorkerMoves, Zenon
<1>13. Bulk!TypeOK'
  BY <1>1, <1>12, BulkTypes, BulkTyped
<1>14. Requested' /\ Bulk!NotDropped'
  BY <1>1, ListStays, Zenon
<1>15. Watching'
  BY <1>1, StillWatching, Zenon
<1> QED BY <1>12, <1>13, <1>14, <1>15, BulkKept, Zenon

\* The user leaves the list, who has nothing left to be run.
LEMMA BulkReleases ==
  ASSUME BulkInv, NEW w \in Workers, NEW u \in Users, u = worker[w].user,
         worker[w].step = "ended", lock[u].owner = w, list' = Bulk!Removed(u),
         marker' = [marker EXCEPT ![u] = 0], request' = [request EXCEPT ![u] = Bulk!NoRequest],
         lock' = [lock EXCEPT ![u] = Bulk!NoLock],
         reader' = IF reader.user = u THEN [reader EXCEPT !.there = FALSE] ELSE reader,
         worker' = [worker EXCEPT ![w] = Bulk!Resting], busy' = busy, jobs' = jobs,
         crashes' = crashes, stalls' = stalls, accepted' = accepted, ran' = ran
  PROVE  BulkInv'
<1>1. /\ list' \in Seq(Users) /\ Bulk!IsInjective(list')
      /\ \A x \in Users : x # u /\ x \in Bulk!ToSet(list) => x \in Bulk!ToSet(list')
  <2>1. CASE Bulk!Listed(u)
    <3>1. PICK i \in DOMAIN list : list[i] = u
      BY <2>1, Zenon DEF Bulk!Listed, Bulk!ToSet
    <3>2. PICK k : k = CHOOSE n \in DOMAIN list : list[n] = u
      OBVIOUS
    <3>3. k \in DOMAIN list /\ list[k] = u
      BY <3>1, <3>2, Zenon
    <3>4. list' = Bulk!RemoveAt(list, k)
      BY <2>1, <3>2, Zenon DEF Bulk!Removed
    <3>5. PICK s \in Seq(Users) : s = list
      BY BulkTypes
    <3>6. Bulk!IsInjective(s) /\ k \in DOMAIN s /\ s[k] = u
      BY <3>3, <3>5, BulkTypes, Zenon
    <3> QED BY <3>4, <3>5, <3>6, RemovedFromList, Zenon
  <2>2. CASE ~Bulk!Listed(u)
    <3>1. list' = list
      BY <2>2, Zenon DEF Bulk!Removed
    <3> QED BY <3>1, BulkTypes, Zenon
  <2> QED BY <2>1, <2>2
<1>2. Serves(w, Bulk!Resting, lock', accepted', ran')
  BY BulkRows DEF BulkInv, Serves
<1>3. \A x \in Users, v \in Workers : v # w /\ lock'[x].owner = v => lock[x].owner = v
  BY BulkTypes, BulkRows, BulkConstants DEF BulkInv
<1>4. worker' \in [Workers -> Bulk!WorkerState] /\ Serving' /\ Counting'
  BY <1>2, <1>3, WorkerMoves, Zenon
<1>5. PICK old : old = reader /\ old \in Bulk!ReaderState
  BY BulkTypes
<1>6. /\ reader' \in Bulk!ReaderState /\ reader'.user = reader.user /\ reader'.step = reader.step
      /\ reader'.active = reader.active
      /\ reader'.there => reader.there /\ reader.user # u
  BY <1>5 DEF Bulk!ReaderState
<1>7. Bulk!TypeOK'
  <2>1. marker' \in [Users -> 0..Life]
    BY BulkTypes, BulkConstants DEF BulkInv
  <2>2. request' \in [Users -> RequestRow] /\ lock' \in [Users -> Bulk!Lock]
    BY BulkTypes, BulkRows DEF BulkInv
  <2>3. \A x \in Users : (lock'[x].owner = None) = (lock'[x].life = 0)
    BY BulkTypes, BulkRows DEF BulkInv
  <2> QED BY <2>1, <2>2, <2>3, <1>1, <1>4, <1>6, BulkTypes, BulkTyped
<1>8. Requested'
  BY BulkTypes, BulkRows DEF BulkInv, Requested
<1>9. Bulk!NotDropped'
  <2>1. accepted[u] # 0 => accepted[u] \in ran
    BY Zenon DEF BulkInv, Serving
  <2> QED BY <2>1, <1>1, Zenon DEF BulkInv, Bulk!NotDropped, Bulk!Listed
<1>10. Watching'
  <2>1. reader.step # "idle" /\ reader.there =>
          /\ reader.user \in Users /\ reader.user \in Bulk!ToSet(list)
          /\ reader.step = "answered" => reader.active
    BY Zenon DEF BulkInv, Watching, Bulk!Listed
  <2> QED BY <2>1, <1>1, <1>6, Zenon DEF Watching, Bulk!Listed
<1> QED BY <1>4, <1>7, <1>8, <1>9, <1>10, BulkKept, Zenon

LEMMA BulkRelease ==
  ASSUME BulkInv, NEW w \in Workers, Bulk!Release(w)
  PROVE  BulkInv'
<1>1. /\ busy' = busy /\ jobs' = jobs /\ crashes' = crashes /\ stalls' = stalls
      /\ accepted' = accepted /\ ran' = ran /\ worker[w].step = "ended"
      /\ worker' = [worker EXCEPT ![w] = Bulk!Resting]
  BY DEF Bulk!Release, Bulk!bounds, Bulk!history
<1>2. PICK u \in Users : u = worker[w].user
  BY <1>1, Zenon DEF BulkInv, Serving
<1>3. CASE Bulk!Owns(w, u)
  BY <1>1, <1>2, <1>3, BulkReleases, Zenon DEF Bulk!Release, Bulk!Owns
<1>4. CASE ~Bulk!Owns(w, u)
  <2>1. /\ list' = list /\ marker' = marker /\ request' = request /\ lock' = lock
        /\ reader' = reader
    BY <1>2, <1>4 DEF Bulk!Release, Bulk!keys
  <2>2. Serves(w, Bulk!Resting, lock', accepted', ran')
    BY BulkRows DEF BulkInv, Serves
  <2>3. worker' \in [Workers -> Bulk!WorkerState] /\ Serving' /\ Counting'
    BY <1>1, <2>1, <2>2, WorkerMoves, Zenon
  <2>4. Bulk!TypeOK'
    BY <1>1, <2>1, <2>3, BulkTypes, BulkTyped
  <2>5. Requested' /\ Bulk!NotDropped'
    BY <1>1, <2>1, ListStays, Zenon
  <2>6. Watching'
    BY <2>1, StillWatching, Zenon
  <2> QED BY <2>3, <2>4, <2>5, <2>6, BulkKept, Zenon
<1> QED BY <1>3, <1>4

(***************************************************************************)
(* Users who ask, the loops, and time.                                     *)
(***************************************************************************)
LEMMA BulkQueue ==
  ASSUME BulkInv, NEW u \in Users, Bulk!Queue(u)
  PROVE  BulkInv'
<1>1. /\ lock' = lock /\ worker' = worker /\ busy' = busy /\ reader' = reader
      /\ crashes' = crashes /\ stalls' = stalls /\ ran' = ran
      /\ jobs' = jobs + 1 /\ jobs < MaxJobs /\ lock[u].life = 0 /\ ~Bulk!Listed(u)
      /\ marker' = [marker EXCEPT ![u] = Life] /\ list' = Append(list, u)
      /\ request' = [request EXCEPT ![u] = [job |-> jobs + 1, life |-> Life]]
      /\ accepted' = [accepted EXCEPT ![u] = jobs + 1]
  <2>1. ~(lock[u].life > 0) /\ lock[u].life \in Nat
    BY BulkTypes, BulkConstants DEF BulkInv, Bulk!Queue, Bulk!Asked, Bulk!Lock
  <2> QED BY <2>1 DEF Bulk!Queue, Bulk!Asked
<1>2. PICK n \in 0..MaxJobs : n = jobs + 1
  BY <1>1, BulkTypes, BulkConstants DEF BulkInv
<1>3. PICK row \in RequestRow : row = [job |-> jobs + 1, life |-> Life] /\ row.job = n
  <2>1. PICK r : r = [job |-> n, life |-> Life]
    OBVIOUS
  <2>2. r \in RequestRow /\ r.job = n
    BY <2>1, BulkConstants DEF BulkInv, RequestRow
  <2> QED BY <2>1, <2>2, <1>2, Zenon
<1>4. /\ marker' \in [Users -> 0..Life] /\ request' \in [Users -> RequestRow]
      /\ accepted' \in [Users -> 0..MaxJobs] /\ jobs' \in 0..MaxJobs
  <2>1. request' = [request EXCEPT ![u] = row] /\ accepted' = [accepted EXCEPT ![u] = n]
    BY <1>1, <1>2, <1>3
  <2>2. request' \in [Users -> RequestRow]
    BY <2>1, BulkTypes
  <2>3. accepted' \in [Users -> 0..MaxJobs] /\ jobs' \in 0..MaxJobs
    BY <2>1, <1>1, <1>2, BulkTypes
  <2>4. marker' \in [Users -> 0..Life]
    BY <1>1, BulkTypes, BulkConstants DEF BulkInv
  <2> QED BY <2>2, <2>3, <2>4
<1>5. /\ list' \in Seq(Users) /\ Bulk!IsInjective(list')
      /\ \A x \in Users : x = u \/ x \in Bulk!ToSet(list) => x \in Bulk!ToSet(list')
  <2>1. PICK s \in Seq(Users) : s = list
    BY BulkTypes
  <2>2. PICK t : t = Append(s, u)
    OBVIOUS
  <2>3. /\ t \in Seq(Users) /\ Len(t) = Len(s) + 1 /\ t[Len(s) + 1] = u
        /\ \A k \in 1..Len(s) : t[k] = s[k]
    BY <2>2, AppendProperties
  <2>4. /\ \A x, y \in 1..Len(s) : s[x] = s[y] => x = y
        /\ \A x \in 1..Len(s) : s[x] # u
    <3>1. DOMAIN s = 1..Len(s)
      BY <2>1
    <3>2. /\ \A x, y \in DOMAIN s : s[x] = s[y] => x = y
          /\ \A x \in DOMAIN s : s[x] # u
      BY <2>1, <1>1, BulkTypes, Zenon DEF Bulk!IsInjective, Bulk!Listed, Bulk!ToSet
    <3> QED BY <3>1, <3>2, Zenon
  <2>5. Len(s) \in Nat /\ DOMAIN t = 1..Len(s) + 1
    BY <2>3
  <2>6. \A x, y \in 1..Len(s) + 1 : t[x] = t[y] => x = y
    BY <2>3, <2>4, <2>5
  <2>7. \A x \in Users : x = u \/ x \in Bulk!ToSet(s) => x \in Bulk!ToSet(t)
    <3>1. DOMAIN s = 1..Len(s) /\ DOMAIN t = 1..Len(s) + 1
      BY <2>3
    <3>2. ASSUME NEW x \in Users, x \in Bulk!ToSet(s)
          PROVE  x \in Bulk!ToSet(t)
      <4>1. PICK k \in 1..Len(s) : s[k] = x
        BY <3>1, <3>2, Zenon DEF Bulk!ToSet
      <4>2. k \in 1..Len(s) + 1 /\ t[k] = x
        BY <4>1, <2>3, <2>5
      <4> QED BY <4>2, <3>1, Zenon DEF Bulk!ToSet
    <3>3. u \in Bulk!ToSet(t)
      <4>1. Len(s) + 1 \in DOMAIN t
        BY <2>5
      <4> QED BY <4>1, <2>3, Zenon DEF Bulk!ToSet
    <3> QED BY <3>2, <3>3, Zenon
  <2>8. list' = t
    BY <2>1, <2>2, <1>1
  <2> QED BY <2>1, <2>3, <2>5, <2>6, <2>7, <2>8, Zenon DEF Bulk!IsInjective
<1>6. Serving' /\ Counting'
  <2>1. \A x \in Users, v \in Workers :
          lock'[x].owner = v => lock[x].owner = v /\ accepted'[x] = accepted[x]
    BY <1>1, BulkTypes, BulkConstants DEF BulkInv
  <2> QED BY <1>1, <2>1, WorkersStay, Zenon
<1>7. Bulk!TypeOK'
  BY <1>1, <1>4, <1>5, BulkTypes, BulkTyped
<1>8. Requested'
  <2>1. request'[u].job = n /\ accepted'[u] = n
    BY <1>1, <1>2, <1>3, BulkTypes
  <2>2. \A x \in Users \ {u} : request'[x] = request[x] /\ accepted'[x] = accepted[x]
    BY <1>1, BulkTypes
  <2> QED BY <2>1, <2>2, Zenon DEF BulkInv, Requested
<1>9. Bulk!NotDropped'
  <2>1. \A x \in Users \ {u} : accepted'[x] = accepted[x]
    BY <1>1, BulkTypes
  <2>2. ASSUME NEW x \in Users, accepted'[x] # 0
        PROVE  x \in Bulk!ToSet(list') \/ accepted'[x] \in ran'
    <3>1. CASE x = u
      BY <3>1, <1>5, Zenon
    <3>2. CASE x # u
      <4>1. accepted[x] # 0 /\ accepted'[x] = accepted[x]
        BY <2>1, <2>2, <3>2, Zenon
      <4>2. x \in Bulk!ToSet(list) \/ accepted[x] \in ran
        BY <4>1, Zenon DEF BulkInv, Bulk!NotDropped, Bulk!Listed
      <4>3. ran' = ran
        BY <1>1
      <4>4. x \in Bulk!ToSet(list) => x \in Bulk!ToSet(list')
        BY <1>5
      <4> QED BY <4>1, <4>2, <4>3, <4>4
    <3> QED BY <3>1, <3>2
  <2> QED BY <2>2, Zenon DEF Bulk!NotDropped, Bulk!Listed
<1>10. Watching'
  BY <1>1, <1>5, Zenon DEF BulkInv, Watching, Bulk!Listed
<1> QED BY <1>6, <1>7, <1>8, <1>9, <1>10, BulkKept, Zenon

\* Steps of the reader: the lock may be cleared, and the marker.
LEMMA ReaderMoves ==
  ASSUME BulkInv, list' = list, request' = request, worker' = worker, busy' = busy, jobs' = jobs,
         crashes' = crashes, stalls' = stalls, accepted' = accepted, ran' = ran,
         NEW u \in Users,
         lock' = lock \/ lock' = [lock EXCEPT ![u] = Bulk!NoLock],
         marker' = marker \/ marker' = [marker EXCEPT ![u] = 0],
         reader' \in Bulk!ReaderState, Watching'
  PROVE  BulkInv'
<1>1. /\ lock' \in [Users -> Bulk!Lock]
      /\ \A x \in Users : (lock'[x].owner = None) = (lock'[x].life = 0)
      /\ \A x \in Users, v \in Workers : lock'[x].owner = v => lock[x].owner = v
  <2>1. CASE lock' = lock
    BY <2>1, BulkTypes
  <2>2. CASE lock' = [lock EXCEPT ![u] = Bulk!NoLock]
    BY <2>2, BulkTypes, BulkRows, BulkConstants DEF BulkInv
  <2> QED BY <2>1, <2>2
<1>2. marker' \in [Users -> 0..Life]
  BY BulkTypes, BulkConstants DEF BulkInv
<1>3. Serving' /\ Counting'
  BY <1>1, WorkersStay, Zenon
<1>4. Bulk!TypeOK'
  BY <1>1, <1>2, BulkTypes, BulkTyped
<1>5. Requested' /\ Bulk!NotDropped'
  BY ListStays, Zenon
<1> QED BY <1>3, <1>4, <1>5, BulkKept, Zenon

LEMMA BulkReadKeys ==
  ASSUME BulkInv, NEW u \in Users, Bulk!ReadKeys(u)
  PROVE  BulkInv'
<1>1. /\ list' = list /\ marker' = marker /\ request' = request /\ lock' = lock
      /\ worker' = worker /\ busy' = busy /\ jobs' = jobs /\ crashes' = crashes
      /\ stalls' = stalls /\ accepted' = accepted /\ ran' = ran /\ Bulk!Listed(u)
      /\ reader' = [step |-> "read", user |-> u, marked |-> marker[u], lock |-> lock[u],
                    there |-> TRUE, active |-> FALSE]
  BY DEF Bulk!ReadKeys, Bulk!keys, Bulk!bounds, Bulk!history
<1>2. PICK m \in 0..Life, l \in Bulk!Lock : m = marker[u] /\ l = lock[u]
  BY BulkTypes
<1>3. reader' = [step |-> "read", user |-> u, marked |-> m, lock |-> l,
                 there |-> TRUE, active |-> FALSE]
  BY <1>1, <1>2
<1>4. reader' \in Bulk!ReaderState /\ reader'.user = u /\ reader'.step = "read"
  BY <1>3 DEF Bulk!ReaderState
<1>5. Watching'
  BY <1>1, <1>4 DEF Watching, Bulk!Listed
<1> QED BY <1>1, <1>4, <1>5, ReaderMoves, Zenon

\* The status is on its way, or has been answered as the list says.
LEMMA StatusMoves ==
  ASSUME BulkInv, reader.step # "idle", list' = list,
         NEW step \in {"unlocked", "answered"}, NEW active \in BOOLEAN,
         reader' = [reader EXCEPT !.step = step, !.active = active],
         step = "answered" /\ ~active => ~Bulk!Listed(reader.user)
  PROVE  reader' \in Bulk!ReaderState /\ Watching'
<1>1. PICK old \in Bulk!ReaderState : old = reader
  BY BulkTypes
<1>2. reader' = [old EXCEPT !.step = step, !.active = active]
  BY <1>1
<1>3. /\ reader' \in Bulk!ReaderState /\ reader'.user = old.user /\ reader'.step = step
      /\ reader'.there = old.there /\ reader'.active = active
  BY <1>2 DEF Bulk!ReaderState
<1>4. Watching'
  BY <1>1, <1>3, Zenon DEF BulkInv, Watching, Bulk!Listed
<1> QED BY <1>3, <1>4

LEMMA Unlocks ==
  ASSUME BulkInv, reader' = [reader EXCEPT !.step = "unlocked"]
  PROVE  \E active \in BOOLEAN :
           reader' = [reader EXCEPT !.step = "unlocked", !.active = active]
<1>1. PICK old \in Bulk!ReaderState : old = reader
  BY BulkTypes
<1>2. [old EXCEPT !.step = "unlocked"]
        = [old EXCEPT !.step = "unlocked", !.active = old.active]
  BY <1>1 DEF Bulk!ReaderState
<1>3. old.active \in BOOLEAN
  BY DEF Bulk!ReaderState
<1>4. reader' = [reader EXCEPT !.step = "unlocked", !.active = old.active]
  BY <1>1, <1>2, Zenon
<1> QED BY <1>3, <1>4, Zenon

\* The reader alone moves.
LEMMA NobodysKeys ==
  ASSUME BulkInv, list' = list, marker' = marker, request' = request, lock' = lock,
         worker' = worker, busy' = busy, jobs' = jobs, crashes' = crashes, stalls' = stalls,
         accepted' = accepted, ran' = ran, reader' \in Bulk!ReaderState, Watching'
  PROVE  BulkInv'
<1>1. Serving' /\ Counting'
  <2>1. \A x \in Users, v \in Workers :
          lock'[x].owner = v => lock[x].owner = v /\ accepted'[x] = accepted[x]
    OBVIOUS
  <2> QED BY <2>1, WorkersStay, Zenon
<1>2. Bulk!TypeOK'
  BY BulkTypes, BulkTyped
<1>3. Requested' /\ Bulk!NotDropped'
  BY ListStays, Zenon
<1> QED BY <1>1, <1>2, <1>3, BulkKept, Zenon

LEMMA BulkReadLock ==
  ASSUME BulkInv, Bulk!ReadLock
  PROVE  BulkInv'
<1> DEFINE u == reader.user
<1>1. /\ list' = list /\ marker' = marker /\ request' = request /\ worker' = worker
      /\ busy' = busy /\ jobs' = jobs /\ crashes' = crashes /\ stalls' = stalls
      /\ accepted' = accepted /\ ran' = ran /\ reader.step # "idle"
  BY DEF Bulk!ReadLock, Bulk!bounds, Bulk!history
<1>2. lock' = lock \/ lock' = [lock EXCEPT ![u] = Bulk!NoLock]
  BY Zenon DEF Bulk!ReadLock
<1>3. \/ reader' = [reader EXCEPT !.step = "answered", !.active = TRUE]
      \/ reader' = [reader EXCEPT !.step = "unlocked"]
  BY Zenon DEF Bulk!ReadLock, Bulk!Answers
<1>4. reader' \in Bulk!ReaderState /\ Watching'
  <2>1. CASE reader' = [reader EXCEPT !.step = "answered", !.active = TRUE]
    <3>1. PICK step \in {"unlocked", "answered"}, active \in BOOLEAN :
            step = "answered" /\ active
      OBVIOUS
    <3>2. reader' = [reader EXCEPT !.step = step, !.active = active]
      BY <2>1, <3>1
    <3> QED BY <1>1, <3>1, <3>2, StatusMoves, Zenon
  <2>2. CASE reader' = [reader EXCEPT !.step = "unlocked"]
    <3>1. PICK active \in BOOLEAN :
            reader' = [reader EXCEPT !.step = "unlocked", !.active = active]
      BY <2>2, Unlocks, Zenon
    <3>2. PICK step \in {"unlocked", "answered"} : step = "unlocked" /\ step # "answered"
      OBVIOUS
    <3> QED BY <1>1, <3>1, <3>2, StatusMoves, Zenon
  <2> QED BY <1>3, <2>1, <2>2
<1>5. CASE u \in Users
  BY <1>1, <1>2, <1>4, <1>5, ReaderMoves, Zenon
<1>6. CASE u \notin Users
  <2>1. lock' = lock
    BY <1>2, <1>6, BulkTypes
  <2> QED BY <1>1, <1>4, <2>1, NobodysKeys, Zenon
<1> QED BY <1>5, <1>6

LEMMA BulkReadQueue ==
  ASSUME BulkInv, Bulk!ReadQueue
  PROVE  BulkInv'
<1> DEFINE u == reader.user
<1>1. /\ list' = list /\ lock' = lock /\ request' = request /\ worker' = worker
      /\ busy' = busy /\ jobs' = jobs /\ crashes' = crashes /\ stalls' = stalls
      /\ accepted' = accepted /\ ran' = ran /\ reader.step # "idle"
  BY DEF Bulk!ReadQueue, Bulk!bounds, Bulk!history
<1>2. marker' = marker \/ marker' = [marker EXCEPT ![u] = 0]
  BY Zenon DEF Bulk!ReadQueue
<1>3. PICK active \in BOOLEAN :
        /\ reader' = [reader EXCEPT !.step = "answered", !.active = active]
        /\ ~active => ~Bulk!Listed(u)
  BY Zenon DEF Bulk!ReadQueue, Bulk!Answers, Bulk!InQueue
<1>4. reader' \in Bulk!ReaderState /\ Watching'
  <2>1. PICK step \in {"unlocked", "answered"} : step = "answered"
    OBVIOUS
  <2>2. reader' = [reader EXCEPT !.step = step, !.active = active]
    BY <2>1, <1>3
  <2> QED BY <1>1, <1>3, <2>2, StatusMoves, Zenon
<1>5. CASE u \in Users
  BY <1>1, <1>2, <1>4, <1>5, ReaderMoves, Zenon
<1>6. CASE u \notin Users
  <2>1. marker' = marker
    BY <1>2, <1>6, BulkTypes
  <2> QED BY <1>1, <1>4, <2>1, NobodysKeys, Zenon
<1> QED BY <1>5, <1>6

LEMMA BulkHearStatus ==
  ASSUME BulkInv, Bulk!HearStatus
  PROVE  BulkInv'
<1>1. /\ list' = list /\ marker' = marker /\ request' = request /\ lock' = lock
      /\ worker' = worker /\ busy' = busy /\ jobs' = jobs /\ crashes' = crashes
      /\ stalls' = stalls /\ accepted' = accepted /\ ran' = ran /\ reader' = Bulk!Waiting
  BY DEF Bulk!HearStatus, Bulk!keys, Bulk!bounds, Bulk!history
<1>2. reader' \in Bulk!ReaderState /\ Watching'
  BY <1>1, BulkRows DEF BulkInv, Watching
<1> QED BY <1>1, <1>2, NobodysKeys, Zenon

LEMMA BulkLoops ==
  ASSUME BulkInv, NEW w \in Workers, NEW loop \in Loops,
         Bulk!LoopStarts(w, loop) \/ Bulk!LoopEnds(w, loop)
  PROVE  BulkInv'
<1>1. /\ list' = list /\ marker' = marker /\ request' = request /\ lock' = lock
      /\ worker' = worker /\ reader' = reader /\ jobs' = jobs /\ crashes' = crashes
      /\ stalls' = stalls /\ accepted' = accepted /\ ran' = ran
      /\ \/ busy' = [busy EXCEPT ![w] = @ \cup {loop}]
         \/ busy' = [busy EXCEPT ![w] = @ \ {loop}]
  BY DEF Bulk!LoopStarts, Bulk!LoopEnds, Bulk!keys, Bulk!bounds, Bulk!history
<1>2. busy' \in [Workers -> SUBSET Loops]
  BY <1>1, BulkTypes
<1>3. Serving' /\ Counting'
  <2>1. \A x \in Users, v \in Workers :
          lock'[x].owner = v => lock[x].owner = v /\ accepted'[x] = accepted[x]
    BY <1>1
  <2> QED BY <1>1, <2>1, WorkersStay, Zenon
<1>4. Bulk!TypeOK'
  BY <1>1, <1>2, BulkTypes, BulkTyped
<1>5. Requested' /\ Bulk!NotDropped'
  BY <1>1, ListStays, Zenon
<1>6. Watching'
  BY <1>1, StillWatching, Zenon
<1> QED BY <1>3, <1>4, <1>5, <1>6, BulkKept, Zenon

\* Keys expire, and heartbeats grow old or are renewed by their owner.
LEMMA GrowsOlder ==
  ASSUME BulkInv, NEW u \in Users, NEW stalled \in BOOLEAN
  PROVE  /\ Bulk!Older(u, stalled) \in Bulk!Lock
         /\ (Bulk!Older(u, stalled).owner = None) = (Bulk!Older(u, stalled).life = 0)
         /\ Bulk!Older(u, stalled).owner \in {None, lock[u].owner}
<1>1. PICK l \in Bulk!Lock : l = lock[u] /\ (l.owner = None) = (l.life = 0)
  BY BulkTypes
<1>2. PICK new : new = Bulk!Older(u, stalled)
  OBVIOUS
<1>3. \/ l.owner # None /\ new = [l EXCEPT !.age = 0, !.life = Life]
      \/ new = Bulk!NoLock
      \/ /\ l.life > 1
         /\ new = [l EXCEPT !.age = IF l.age > Fresh THEN l.age ELSE l.age + 1,
                            !.life = l.life - 1]
  <2>1. CASE Bulk!Holds(u) /\ ~stalled
    BY <1>1, <1>2, <2>1 DEF Bulk!Older, Bulk!Holds
  <2>2. CASE ~(Bulk!Holds(u) /\ ~stalled)
    <3>1. new = IF l.life <= 1 THEN Bulk!NoLock
                ELSE [l EXCEPT !.age = IF l.age > Fresh THEN l.age ELSE l.age + 1,
                               !.life = l.life - 1]
      BY <1>1, <1>2, <2>2 DEF Bulk!Older
    <3>2. l.life \in Nat
      BY BulkConstants DEF BulkInv, Bulk!Lock
    <3> QED BY <3>1, <3>2
  <2> QED BY <2>1, <2>2
<1>4. new \in Bulk!Lock /\ (new.owner = None) = (new.life = 0) /\ new.owner \in {None, l.owner}
  <2>1. CASE l.owner # None /\ new = [l EXCEPT !.age = 0, !.life = Life]
    <3>1. PICK n \in 0..Life, a \in 0..Fresh + 1 : n = Life /\ a = 0 /\ n # 0
      BY BulkConstants DEF BulkInv
    <3>2. new = [l EXCEPT !.age = a, !.life = n]
      BY <2>1, <3>1
    <3>3. new \in Bulk!Lock /\ new.owner = l.owner /\ new.life = n
      BY <3>2 DEF Bulk!Lock
    <3> QED BY <2>1, <3>1, <3>3
  <2>2. CASE new = Bulk!NoLock
    BY <2>2, BulkRows DEF BulkInv
  <2>3. CASE /\ l.life > 1
             /\ new = [l EXCEPT !.age = IF l.age > Fresh THEN l.age ELSE l.age + 1,
                                !.life = l.life - 1]
    <3>1. l.age \in 0..Fresh + 1 /\ l.life \in 0..Life
      BY DEF Bulk!Lock
    <3>2. PICK a \in 0..Fresh + 1, n \in 0..Life :
            /\ a = IF l.age > Fresh THEN l.age ELSE l.age + 1
            /\ n = l.life - 1 /\ n # 0
      BY <2>3, <3>1, BulkConstants DEF BulkInv
    <3>3. new = [l EXCEPT !.age = a, !.life = n]
      BY <2>3, <3>2
    <3>4. new \in Bulk!Lock /\ new.owner = l.owner /\ new.life = n
      BY <3>3 DEF Bulk!Lock
    <3>5. l.life # 0
      BY <2>3
    <3> QED BY <3>2, <3>4, <3>5, <1>1
  <2> QED BY <1>3, <2>1, <2>2, <2>3
<1> QED BY <1>1, <1>2, <1>4, Zenon

LEMMA BulkTick ==
  ASSUME BulkInv, NEW stalled \in BOOLEAN, Bulk!Tick(stalled)
  PROVE  BulkInv'
<1>1. /\ list' = list /\ worker' = worker /\ busy' = busy /\ reader' = reader /\ jobs' = jobs
      /\ crashes' = crashes /\ accepted' = accepted /\ ran' = ran
      /\ stalled => stalls < MaxStalls
      /\ stalls' = IF stalled THEN stalls + 1 ELSE stalls
      /\ lock' = [u \in Users |-> Bulk!Older(u, stalled)]
      /\ marker' = [u \in Users |-> Bulk!Less(marker[u])]
      /\ request' = [u \in Users |-> IF request[u].life <= 1 THEN Bulk!NoRequest
                                     ELSE [request[u] EXCEPT !.life = request[u].life - 1]]
  BY DEF Bulk!Tick, Bulk!history
<1>2. /\ lock' \in [Users -> Bulk!Lock]
      /\ \A u \in Users : (lock'[u].owner = None) = (lock'[u].life = 0)
      /\ \A u \in Users : lock'[u].owner \in {None, lock[u].owner}
  <2>1. ASSUME NEW u \in Users
        PROVE  /\ lock'[u] \in Bulk!Lock /\ (lock'[u].owner = None) = (lock'[u].life = 0)
               /\ lock'[u].owner \in {None, lock[u].owner}
    <3>1. lock'[u] = Bulk!Older(u, stalled)
      BY <1>1
    <3> QED BY <3>1, GrowsOlder, Zenon
  <2>2. lock' = [u \in Users |-> lock'[u]]
    BY <1>1
  <2> QED BY <2>1, <2>2
<1>3. marker' \in [Users -> 0..Life]
  <2>1. ASSUME NEW u \in Users
        PROVE  Bulk!Less(marker[u]) \in 0..Life
    <3>1. marker[u] \in 0..Life
      BY BulkTypes
    <3> QED BY <3>1, BulkConstants DEF BulkInv, Bulk!Less
  <2> QED BY <2>1, <1>1
<1>4. request' \in [Users -> RequestRow] /\ \A u \in Users : request'[u].job \in {0, request[u].job}
  <2>1. ASSUME NEW u \in Users
        PROVE  request'[u] \in RequestRow /\ request'[u].job \in {0, request[u].job}
    <3>1. PICK r \in RequestRow : r = request[u]
      BY BulkTypes
    <3>2. request'[u] = IF r.life <= 1 THEN Bulk!NoRequest ELSE [r EXCEPT !.life = r.life - 1]
      BY <3>1, <1>1
    <3>3. CASE r.life <= 1
      BY <3>2, <3>3, BulkRows DEF BulkInv
    <3>4. CASE ~(r.life <= 1)
      <4>1. PICK n \in 0..Life : n = r.life - 1
        BY <3>4, BulkConstants DEF BulkInv, RequestRow
      <4>2. request'[u] = [r EXCEPT !.life = n]
        BY <3>2, <3>4, <4>1
      <4> QED BY <4>2, <3>1 DEF RequestRow
    <3> QED BY <3>3, <3>4
  <2>2. request' = [u \in Users |-> request'[u]]
    BY <1>1
  <2> QED BY <2>1, <2>2
<1>5. stalls' \in 0..MaxStalls
  BY <1>1, BulkTypes, BulkConstants DEF BulkInv
<1>6. Serving' /\ Counting'
  <2>1. \A x \in Users, v \in Workers :
          lock'[x].owner = v => lock[x].owner = v /\ accepted'[x] = accepted[x]
    BY <1>1, <1>2, BulkConstants DEF BulkInv
  <2> QED BY <1>1, <2>1, WorkersStay, Zenon
<1>7. Bulk!TypeOK'
  BY <1>1, <1>2, <1>3, <1>4, <1>5, BulkTypes, BulkTyped
<1>8. Requested' /\ Bulk!NotDropped'
  BY <1>1, <1>4, ListStays, Zenon
<1>9. Watching'
  BY <1>1, StillWatching, Zenon
<1> QED BY <1>6, <1>7, <1>8, <1>9, BulkKept, Zenon

(***************************************************************************)
(* The theorems.                                                           *)
(***************************************************************************)
LEMMA BulkBegins ==
  ASSUME Bulk!BulkAssumption, Bulk!Init
  PROVE  BulkInv
<1>1. /\ list = <<>> /\ marker = [u \in Users |-> 0]
      /\ request = [u \in Users |-> Bulk!NoRequest] /\ lock = [u \in Users |-> Bulk!NoLock]
      /\ worker = [w \in Workers |-> Bulk!Resting] /\ busy = [w \in Workers |-> {}]
      /\ reader = Bulk!Waiting /\ jobs = 0 /\ crashes = 0 /\ stalls = 0
      /\ accepted = [u \in Users |-> 0] /\ ran = {}
  BY DEF Bulk!Init
<1>2. Bulk!TypeOK
  <2>1. list \in Seq(Users) /\ Bulk!IsInjective(list)
    BY <1>1 DEF Bulk!IsInjective
  <2>2. /\ marker \in [Users -> 0..Life] /\ request \in [Users -> RequestRow]
        /\ lock \in [Users -> Bulk!Lock] /\ accepted \in [Users -> 0..MaxJobs]
        /\ \A u \in Users : (lock[u].owner = None) = (lock[u].life = 0)
        /\ worker \in [Workers -> Bulk!WorkerState] /\ busy \in [Workers -> SUBSET Loops]
    BY <1>1, BulkRows, BulkConstants
  <2>3. /\ jobs \in 0..MaxJobs /\ crashes \in 0..MaxCrashes /\ stalls \in 0..MaxStalls
        /\ ran \subseteq 1..MaxJobs /\ reader \in Bulk!ReaderState
    BY <1>1, BulkRows, BulkConstants
  <2> QED BY <2>1, <2>2, <2>3, Zenon DEF Bulk!TypeOK, RequestRow
<1>3. Serving /\ Counting
  <2>1. \A w \in Workers : worker[w].step = "idle"
    BY <1>1, BulkRows
  <2> QED BY <2>1 DEF Serving, Counting
<1>4. Requested /\ Watching /\ Bulk!NotDropped
  BY <1>1, BulkRows DEF Requested, Watching, Bulk!NotDropped
<1> QED BY <1>2, <1>3, <1>4 DEF BulkInv

LEMMA BulkStays ==
  ASSUME BulkInv, [Bulk!Next]_Bulk!vars
  PROVE  BulkInv'
<1>1. CASE UNCHANGED Bulk!vars
  <2>1. /\ list' = list /\ marker' = marker /\ request' = request /\ lock' = lock
        /\ worker' = worker /\ busy' = busy /\ reader' = reader /\ jobs' = jobs
        /\ crashes' = crashes /\ stalls' = stalls /\ accepted' = accepted /\ ran' = ran
    BY <1>1 DEF Bulk!vars
  <2>2. reader' \in Bulk!ReaderState /\ Watching'
    BY <2>1, BulkTypes, StillWatching, Zenon
  <2> QED BY <2>1, <2>2, NobodysKeys, Zenon
<1>2. ASSUME NEW u \in Users, Bulk!Queue(u) \/ Bulk!ReadKeys(u)
      PROVE  BulkInv'
  BY <1>2, BulkQueue, BulkReadKeys, Zenon
<1>3. CASE Bulk!ReadLock \/ Bulk!ReadQueue \/ Bulk!HearStatus
  BY <1>3, BulkReadLock, BulkReadQueue, BulkHearStatus, Zenon
<1>4. ASSUME NEW w \in Workers, Bulk!Work(w) \/ Bulk!FeedLate(w) \/ Bulk!Crash(w)
      PROVE  BulkInv'
  BY <1>4, BulkLookAtHead, BulkAcquire, BulkStart, BulkFeedDone, BulkDeadline, BulkEnd,
     BulkRelease, BulkFeedLate, BulkCrash, Zenon DEF Bulk!Work
<1>5. ASSUME NEW w \in Workers, NEW loop \in Loops,
             Bulk!LoopStarts(w, loop) \/ Bulk!LoopEnds(w, loop)
      PROVE  BulkInv'
  BY <1>5, BulkLoops, Zenon
<1>6. ASSUME NEW stalled \in BOOLEAN, Bulk!Tick(stalled)
      PROVE  BulkInv'
  BY <1>6, BulkTick, Zenon
<1> QED BY <1>1, <1>2, <1>3, <1>4, <1>5, <1>6, Zenon DEF Bulk!Next

\* Every value of the legacy refresh has its type, the list never names a user twice, and a lock
\* has an owner while it lives (feed-sync-status.ts).
THEOREM BulkTypesHold == Bulk!BulkAssumption => (Bulk!Spec => []Bulk!TypeOK)
<1>1. BulkInv => Bulk!TypeOK
  BY Zenon DEF BulkInv
<1>2. Bulk!BulkAssumption /\ Bulk!Init => BulkInv
  BY BulkBegins, Zenon
<1>3. BulkInv /\ [Bulk!Next]_Bulk!vars => BulkInv'
  BY BulkStays, Zenon
<1> SUFFICES ASSUME Bulk!BulkAssumption
             PROVE  Bulk!Spec => []Bulk!TypeOK
  OBVIOUS
<1> QED BY <1>1, <1>2, <1>3, PTL DEF Bulk!Spec

\* A refresh that was accepted stays in the list until a worker has run it, a user whose refresh is
\* in the list is never told that nothing is going on, and a batch counts every feed once: for any
\* users, workers and feeds, however often workers die or stall (releaseManualSyncAllFeedsState,
\* getManualSyncAllFeedsStatus, syncFeedsForBulk).
THEOREM NoRefreshIsDropped ==
  Bulk!BulkAssumption =>
    (Bulk!Spec => [](Bulk!NotDropped /\ Bulk!StatusKnows /\ Bulk!CountsAddUp))
<1>1. BulkInv => Bulk!NotDropped /\ Bulk!StatusKnows /\ Bulk!CountsAddUp
  BY DEF BulkInv, Bulk!StatusKnows, Bulk!CountsAddUp, Watching, Counting
<1>2. Bulk!BulkAssumption /\ Bulk!Init => BulkInv
  BY BulkBegins, Zenon
<1>3. BulkInv /\ [Bulk!Next]_Bulk!vars => BulkInv'
  BY BulkStays, Zenon
<1> SUFFICES ASSUME Bulk!BulkAssumption
             PROVE  Bulk!Spec => [](Bulk!NotDropped /\ Bulk!StatusKnows /\ Bulk!CountsAddUp)
  OBVIOUS
<1> QED BY <1>1, <1>2, <1>3, PTL DEF Bulk!Spec
=============================================================================

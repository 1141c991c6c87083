------------------------ MODULE RefreshRequests_proofs ------------------------
(***************************************************************************)
(* Theorems about RefreshRequests, for every value of its constants.       *)
(*                                                                         *)
(*   TypesHold               Spec => []TypeOK                              *)
(*   CompletedIsDelivered    Spec => []CompletedMeansDelivered             *)
(*   UsersAreAnswered        Spec => []AnswersHold                         *)
(*                                                                         *)
(* None is inductive.  An item may be completed on a job only while its    *)
(* snapshot's delivery to the feed is missing or done, and a delivery may  *)
(* appear only where no item is completed, so the invariant has to follow  *)
(* a job from its creation to the parsing of its snapshot (IInv).  What    *)
(* the user is told also needs the order in which one loop of the worker   *)
(* does things between two waits (SInv).                                   *)
(***************************************************************************)
EXTENDS RefreshRequests, TLAPS

Early(j) == job[j].snap \in {"none", "raw"}

\* Deliveries come from a parsed snapshot only.
Bare == \A j \in Job : Early(j) => \A f \in Feed : delivery[j][f].status = "absent"

\* The claim being processed is a running job; one that is being fetched has no body.
Working ==
  task.step \in {"fetching", "parsing", "parsed"} =>
    /\ task.job \in Job /\ job[task.job].status = "running"
    /\ task.step = "fetching" => job[task.job].snap = "none"

\* No item is completed on a job that has its snapshot's parsing before it.
Uncompleted ==
  \A j \in Job : Active(j) /\ Early(j) =>
    \A r \in Request, f \in Feed : item[r][f].job = j => item[r][f].status # "completed"

\* A job that does not exist yet has no snapshot, and no item follows it.
Fresh ==
  \A j \in Job : job[j].status = "absent" =>
    /\ job[j].snap = "none"
    /\ \A r \in Request, f \in Feed : item[r][f].job # j

\* Neither has a feed that does not exist yet.
Unborn == \A f \in Feed : feed[f] = "absent" => \A r \in Request : item[r][f].job = None

\* The delivery being carried has not ended.
Carried == carrying # None => delivery[carrying[1]][carrying[2]].status \in Open

IInv ==
  /\ TypeOK /\ CompletedMeansDelivered
  /\ Bare /\ Working /\ Uncompleted /\ Fresh /\ Unborn /\ Carried

(***************************************************************************)
(* Types, one by one.                                                      *)
(***************************************************************************)
Jobs == [Job -> [status : {"absent", "queued", "running", "completed", "dead"},
                 attempts : 0..MaxAttempts, snap : Snapshots]]
Deliveries == [Job -> [Feed -> [status : {"absent"} \cup Open \cup {"completed", "dead"},
                                attempts : 0..MaxDeliveryAttempts]]]
Items == [Request -> [Feed -> [status : {"absent"} \cup Open \cup Ended,
                               job : Job \cup {None}]]]
Statuses == {"absent", "completed_with_errors", "completed"} \cup Open

LEMMA Parameters ==
  /\ Job \subseteq Nat /\ None \notin Job /\ None \notin Job \X Feed
  /\ MaxAttempts \in Nat /\ MaxAttempts > 0
  /\ MaxDeliveryAttempts \in Nat /\ MaxDeliveryAttempts > 0
  /\ MaxFaults \in Nat
  /\ Feed \subseteq Request /\ Manual \subseteq Request
BY ParametersAssumption DEF Request

LEMMA InitIInv == Init => IInv
<1> SUFFICES ASSUME Init PROVE IInv
  OBVIOUS
<1>1. TypeOK
  BY Parameters DEF Init, TypeOK, Active, Snapshots, Open, Ended, NoTask
<1>2. CompletedMeansDelivered /\ Bare /\ Working /\ Uncompleted /\ Fresh /\ Unborn /\ Carried
  BY Parameters DEF Init, CompletedMeansDelivered, Bare, Working, Uncompleted, Fresh, Unborn,
                    Carried, Active, NoTask, Early
<1> QED BY <1>1, <1>2 DEF IInv

\* What Marked does to each item.
LEMMA MarkedItems ==
  ASSUME TypeOK, NEW pairs \in SUBSET Pairs, NEW status \in Open \cup Ended
  PROVE  /\ Marked(pairs, status) \in Items
         /\ \A r \in Request, f \in Feed :
              /\ Marked(pairs, status)[r][f].job = item[r][f].job
              /\ Marked(pairs, status)[r][f].status =
                   IF <<r, f>> \in pairs THEN status ELSE item[r][f].status
<1>1. item \in Items
  BY DEF TypeOK, Items
<1>2. \A r \in Request, f \in Feed :
        Marked(pairs, status)[r][f] =
          IF <<r, f>> \in pairs THEN [item[r][f] EXCEPT !.status = status] ELSE item[r][f]
  BY DEF Marked
<1>3. \A r \in Request, f \in Feed :
        item[r][f] \in [status : {"absent"} \cup Open \cup Ended, job : Job \cup {None}]
  BY <1>1 DEF Items
<1>4. ASSUME NEW r \in Request, NEW f \in Feed
      PROVE  /\ Marked(pairs, status)[r][f]
                  \in [status : {"absent"} \cup Open \cup Ended, job : Job \cup {None}]
             /\ Marked(pairs, status)[r][f].job = item[r][f].job
             /\ Marked(pairs, status)[r][f].status =
                  IF <<r, f>> \in pairs THEN status ELSE item[r][f].status
  <2>1. CASE <<r, f>> \in pairs
    <3>1. Marked(pairs, status)[r][f] = [item[r][f] EXCEPT !.status = status]
      BY <1>2, <2>1
    <3> QED BY <3>1, <1>3, <2>1
  <2>2. CASE <<r, f>> \notin pairs
    <3>1. Marked(pairs, status)[r][f] = item[r][f]
      BY <1>2, <2>2
    <3> QED BY <3>1, <1>3, <2>2
  <2> QED BY <2>1, <2>2
<1>5. Marked(pairs, status) \in Items
  BY <1>4 DEF Marked, Items
<1> QED BY <1>4, <1>5

LEMMA OnPairs ==
  ASSUME NEW j
  PROVE  /\ On(j) \in SUBSET Pairs
         /\ \A r \in Request, f \in Feed : <<r, f>> \in On(j) <=> item[r][f].job = j
         /\ RequestsOf(On(j)) \in SUBSET Request
BY DEF On, Pairs, RequestsOf

LEMMA OnDeliveryPairs ==
  ASSUME NEW j, NEW f
  PROVE  /\ OnDelivery(j, f) \in SUBSET Pairs
         /\ \A r \in Request, g \in Feed :
              <<r, g>> \in OnDelivery(j, f) <=> item[r][g].job = j /\ g = f
         /\ RequestsOf(OnDelivery(j, f)) \in SUBSET Request
BY DEF OnDelivery, On, Pairs, RequestsOf

LEMMA SummaryTyped == ASSUME NEW row PROVE Summary(row) \in Statuses \ {"absent"}
BY DEF Summary, Statuses, Open

LEMMA OweTyped ==
  ASSUME TypeOK, NEW l \in Loop, NEW requests \in SUBSET Request, Owe(l, requests)
  PROVE  owed' \in [Loop -> SUBSET Request]
BY DEF TypeOK, Owe

(***************************************************************************)
(* What the writes of one row do.                                          *)
(***************************************************************************)
LEMMA StatusSet ==
  ASSUME TypeOK, NEW j \in Job,
         NEW status \in {"absent", "queued", "running", "completed", "dead"},
         job' = [job EXCEPT ![j].status = status]
  PROVE  /\ job' \in Jobs /\ job'[j].status = status
         /\ \A k \in Job : job'[k].snap = job[k].snap
         /\ \A k \in Job \ {j} : job'[k] = job[k]
<1>1. job \in Jobs
  BY DEF TypeOK, Jobs
<1>2. job' = [job EXCEPT ![j] = [job[j] EXCEPT !.status = status]]
  OBVIOUS
<1> QED BY <1>1, <1>2 DEF Jobs

LEMMA SnapSet ==
  ASSUME TypeOK, NEW j \in Job, NEW snap \in Snapshots, job' = [job EXCEPT ![j].snap = snap]
  PROVE  /\ job' \in Jobs /\ job'[j].snap = snap
         /\ \A k \in Job : job'[k].status = job[k].status
         /\ \A k \in Job \ {j} : job'[k] = job[k]
<1>1. job \in Jobs
  BY DEF TypeOK, Jobs
<1>2. job' = [job EXCEPT ![j] = [job[j] EXCEPT !.snap = snap]]
  OBVIOUS
<1> QED BY <1>1, <1>2 DEF Jobs

\* An item is completed by a job that ends only where it has no delivery.
ItemsEnded(items, j, status) ==
  /\ items \in Items
  /\ \A r \in Request, f \in Feed :
       /\ items[r][f].job = item[r][f].job
       /\ items[r][f].status = "completed" =>
            \/ item[r][f].status = "completed"
            \/ item[r][f].job = j /\ status # "queued" /\ delivery[j][f].status = "absent"

EndsJob(j, status) ==
  /\ job[j].status = "running" /\ job' = [job EXCEPT ![j].status = status]
  /\ ItemsEnded(item', j, status)
  /\ UNCHANGED <<feed, delivery, request, carrying>>
  /\ task' \in [job : Job \cup {None}, fresh : BOOLEAN, step : {"idle", "failing"}]
  /\ owed' \in [Loop -> SUBSET Request]
  /\ source' \in [active : BOOLEAN, succeeded : BOOLEAN, validators : BOOLEAN]
  /\ faults' \in 0..MaxFaults

LEMMA Ending ==
  ASSUME IInv, NEW j \in Job, NEW status \in {"queued", "completed", "dead"},
         EndsJob(j, status)
  PROVE  IInv'
<1> USE DEF IInv
<1>0. /\ job[j].status = "running" /\ job' = [job EXCEPT ![j].status = status]
      /\ item' \in Items
      /\ \A r \in Request, f \in Feed :
           /\ item'[r][f].job = item[r][f].job
           /\ item'[r][f].status = "completed" =>
                \/ item[r][f].status = "completed"
                \/ item[r][f].job = j /\ status # "queued" /\ delivery[j][f].status = "absent"
      /\ UNCHANGED <<feed, delivery, request, carrying>>
      /\ task' \in [job : Job \cup {None}, fresh : BOOLEAN, step : {"idle", "failing"}]
      /\ owed' \in [Loop -> SUBSET Request]
      /\ source' \in [active : BOOLEAN, succeeded : BOOLEAN, validators : BOOLEAN]
      /\ faults' \in 0..MaxFaults
  BY DEF EndsJob, ItemsEnded
<1>1. /\ job' \in Jobs /\ job'[j].status = status
      /\ \A k \in Job : job'[k].snap = job[k].snap
      /\ \A k \in Job \ {j} : job'[k] = job[k]
  BY <1>0, StatusSet
<1>2. /\ \A k \in Job : Active(k)' => Active(k)
      /\ Active(j) /\ Active(j)' => status = "queued"
      /\ \A k \in Job : Early(k)' <=> Early(k)
      /\ \A k \in Job : job'[k].status = "absent" => job[k].status = "absent"
  BY <1>0, <1>1 DEF Active, Early
<1>3. TypeOK'
  BY <1>0, <1>1, <1>2 DEF TypeOK, Jobs, Items
<1>4. CompletedMeansDelivered'
  BY <1>0 DEF CompletedMeansDelivered
<1>5. (Bare /\ Fresh /\ Unborn /\ Carried)'
  BY <1>0, <1>1, <1>2 DEF Bare, Fresh, Unborn, Carried
<1>6. Uncompleted'
  BY <1>0, <1>1, <1>2 DEF Uncompleted, Active
<1>7. Working'
  BY <1>0 DEF Working
<1> QED BY <1>3, <1>4, <1>5, <1>6, <1>7

\* A step on one open delivery completes the items of this delivery only, and with it.
Steps(j, f) ==
  /\ delivery' \in Deliveries
  /\ \A k \in Job, g \in Feed : k # j \/ g # f => delivery'[k][g] = delivery[k][g]
  /\ item' \in Items
  /\ \A r \in Request, g \in Feed :
       /\ item'[r][g].job = item[r][g].job
       /\ item[r][g].job = j /\ g = f /\ item'[r][g].status = "completed" =>
            delivery'[j][f].status = "completed"
       /\ item[r][g].job # j \/ g # f => item'[r][g] = item[r][g]
  /\ UNCHANGED <<job, source, feed, request, task, faults>>
  /\ carrying' = None \/ (carrying' = <<j, f>> /\ delivery'[j][f].status \in Open)
  /\ owed' \in [Loop -> SUBSET Request]

LEMMA Delivering ==
  ASSUME IInv, NEW j \in Job, NEW f \in Feed, delivery[j][f].status \in Open, Steps(j, f)
  PROVE  IInv'
<1> USE DEF IInv, Steps
<1>1. ~Early(j) /\ \A k \in Job : (Active(k)' <=> Active(k)) /\ (Early(k)' <=> Early(k))
  BY DEF Bare, Active, Early, Open
<1>2. TypeOK'
  BY <1>1 DEF TypeOK, Deliveries, Items
<1>3. CompletedMeansDelivered'
  <2> SUFFICES ASSUME NEW r \in Request, NEW g \in Feed,
                      item'[r][g].status = "completed", item'[r][g].job # None
               PROVE  delivery'[item'[r][g].job][g].status \in {"absent", "completed"}
    BY DEF CompletedMeansDelivered
  <2>1. item[r][g].job = item'[r][g].job /\ item[r][g].job \in Job
    BY DEF TypeOK
  <2>2. CASE item[r][g].job = j /\ g = f
    BY <2>1, <2>2
  <2>3. CASE item[r][g].job # j \/ g # f
    <3>1. item[r][g].status = "completed"
      BY <2>3
    <3>2. delivery'[item[r][g].job][g] = delivery[item[r][g].job][g]
      BY <2>1, <2>3
    <3> QED BY <2>1, <3>1, <3>2 DEF CompletedMeansDelivered
  <2> QED BY <2>2, <2>3
<1>4. (Bare /\ Working /\ Fresh /\ Unborn /\ Carried)'
  BY <1>1, Parameters DEF Bare, Working, Fresh, Unborn, Carried
<1>5. Uncompleted'
  BY <1>1 DEF Uncompleted
<1> QED BY <1>2, <1>3, <1>4, <1>5

(***************************************************************************)
(* The fetch loop, one lemma per action.                                   *)
(***************************************************************************)
LEMMA ClaimFetchJobKept ==
  ASSUME IInv, NEW j \in Job, ClaimFetchJob(j)
  PROVE  IInv'
<1> USE DEF IInv
<1>1. /\ job' = [job EXCEPT ![j].status = "running", ![j].attempts = @ + 1]
      /\ job[j].status \in {"queued", "running"} /\ job[j].attempts < MaxAttempts
      /\ task'.job = j
      /\ task' \in [job : Job \cup {None}, fresh : BOOLEAN,
                    step : {"fetching", "parsing", "parsed"}]
      /\ task'.step = "fetching" => job[j].snap = "none"
  BY DEF ClaimFetchJob, Lost
<1>2. /\ job' \in Jobs /\ job'[j].status = "running"
      /\ \A k \in Job : job'[k].snap = job[k].snap
      /\ \A k \in Job \ {j} : job'[k] = job[k]
  <2>1. job \in Jobs
    BY DEF TypeOK, Jobs
  <2>2. job' = [job EXCEPT ![j] = [job[j] EXCEPT !.status = "running", !.attempts = @ + 1]]
    BY <1>1
  <2>3. job[j].attempts + 1 \in 0..MaxAttempts
    BY <1>1, <2>1, Parameters DEF Jobs
  <2> QED BY <2>1, <2>2, <2>3 DEF Jobs
<1>3. UNCHANGED <<source, feed, delivery, item, request, carrying, owed, faults>>
  BY DEF ClaimFetchJob
<1>4. \A k \in Job : /\ Active(k)' <=> Active(k)
                     /\ Early(k)' <=> Early(k)
                     /\ job'[k].status = "absent" <=> job[k].status = "absent"
  BY <1>1, <1>2 DEF Active, Early
<1>5. TypeOK'
  BY <1>1, <1>2, <1>3, <1>4 DEF TypeOK, Jobs
<1>6. (CompletedMeansDelivered /\ Bare /\ Uncompleted /\ Fresh /\ Unborn /\ Carried)'
  BY <1>2, <1>3, <1>4 DEF CompletedMeansDelivered, Bare, Uncompleted, Fresh, Unborn, Carried, Early
<1>7. Working'
  BY <1>1, <1>2 DEF Working
<1> QED BY <1>5, <1>6, <1>7

\* The claim that is being processed, by the guards of its steps.
LEMMA Processing ==
  ASSUME IInv, NEW j \in Job, NEW step \in {"fetching", "parsing", "parsed"}, At(j, step)
  PROVE  /\ job[j].status = "running" /\ Active(j) /\ task.job = j
         /\ step = "fetching" => job[j].snap = "none"
BY DEF IInv, Working, At, Active

LEMMA ReceiveBodyKept ==
  ASSUME IInv, NEW j \in Job, ReceiveBody(j)
  PROVE  IInv'
<1> USE DEF IInv
<1>1. /\ job' = [job EXCEPT ![j].snap = "raw"] /\ At(j, "fetching")
      /\ task' = [task EXCEPT !.step = "parsing", !.fresh = TRUE]
      /\ UNCHANGED <<source, feed, delivery, item, request, carrying, owed, faults>>
  BY DEF ReceiveBody
<1>2. job[j].status = "running" /\ job[j].snap = "none" /\ task.job = j
  BY <1>1, Processing
<1>3. /\ job' \in Jobs /\ job'[j].snap = "raw"
      /\ \A k \in Job : job'[k].status = job[k].status
      /\ \A k \in Job \ {j} : job'[k] = job[k]
  BY <1>1, SnapSet DEF Snapshots
<1>4. task' \in [job : Job \cup {None}, fresh : BOOLEAN, step : {"parsing"}] /\ task'.job = j
  BY <1>1, <1>2 DEF TypeOK
<1>5. \A k \in Job : (Active(k)' <=> Active(k)) /\ (Early(k)' <=> Early(k))
  BY <1>2, <1>3 DEF Active, Early
<1>6. TypeOK'
  BY <1>1, <1>3, <1>4, <1>5 DEF TypeOK, Jobs
<1>7. (CompletedMeansDelivered /\ Bare /\ Uncompleted /\ Unborn /\ Carried)'
  BY <1>1, <1>5 DEF CompletedMeansDelivered, Bare, Uncompleted, Unborn, Carried
<1>8. Fresh'
  BY <1>1, <1>2, <1>3 DEF Fresh
<1>9. Working'
  BY <1>2, <1>3, <1>4 DEF Working
<1> QED BY <1>6, <1>7, <1>8, <1>9

LEMMA ParseOkKept ==
  ASSUME IInv, NEW j \in Job, ParseOk(j)
  PROVE  IInv'
<1> USE DEF IInv
<1>1. /\ job' = [job EXCEPT ![j].snap = "parsed"] /\ At(j, "parsing") /\ job[j].snap = "raw"
      /\ task' = [task EXCEPT !.step = "parsed"]
      /\ UNCHANGED <<source, item, request, carrying, owed, faults>>
  BY DEF ParseOk
<1>2. job[j].status = "running" /\ task.job = j /\ Active(j) /\ Early(j)
  BY <1>1, Processing DEF Early
<1>3. /\ job' \in Jobs /\ job'[j].snap = "parsed"
      /\ \A k \in Job : job'[k].status = job[k].status
      /\ \A k \in Job \ {j} : job'[k] = job[k]
  BY <1>1, SnapSet DEF Snapshots
<1>4. /\ task' \in [job : Job \cup {None}, fresh : BOOLEAN, step : {"parsed"}]
      /\ task'.job = j
  BY <1>1, <1>2 DEF TypeOK
<1>5. /\ feed' \in [Feed -> {"absent", "pending", "attached"}]
      /\ \A f \in Feed : feed'[f] = "absent" => feed[f] = "absent"
  BY DEF ParseOk, TypeOK
<1>6. /\ delivery' \in Deliveries
      /\ \A k \in Job \ {j} : delivery'[k] = delivery[k]
  <2> DEFINE new == [f \in Feed |-> IF feed[f] # "absent" /\ delivery[j][f].status = "absent"
                                    THEN [delivery[j][f] EXCEPT !.status = "pending"]
                                    ELSE delivery[j][f]]
             row == [status : {"absent"} \cup Open \cup {"completed", "dead"},
                     attempts : 0..MaxDeliveryAttempts]
  <2>1. delivery \in [Job -> [Feed -> row]]
    BY DEF TypeOK
  <2>2. delivery' = [delivery EXCEPT ![j] = new]
    BY DEF ParseOk
  <2>3. ASSUME NEW f \in Feed PROVE new[f] \in row
    BY <2>1 DEF Open
  <2>4. new \in [Feed -> row]
    BY <2>3
  <2> HIDE DEF new
  <2> QED BY <2>1, <2>2, <2>4 DEF Deliveries
<1>7. /\ \A k \in Job : (Active(k)' <=> Active(k))
      /\ ~Early(j)' /\ \A k \in Job \ {j} : Early(k)' <=> Early(k)
  BY <1>3 DEF Active, Early
<1>8. TypeOK'
  BY <1>1, <1>3, <1>4, <1>5, <1>6, <1>7 DEF TypeOK, Jobs, Deliveries
<1>9. CompletedMeansDelivered'
  <2> SUFFICES ASSUME NEW r \in Request, NEW f \in Feed,
                      item[r][f].status = "completed", item[r][f].job # None
               PROVE  delivery'[item[r][f].job][f].status \in {"absent", "completed"}
    BY <1>1 DEF CompletedMeansDelivered
  <2>1. item[r][f].job \in Job \ {j}
    BY <1>2 DEF TypeOK, Uncompleted
  <2> QED BY <1>6, <2>1 DEF CompletedMeansDelivered
<1>10. (Bare /\ Uncompleted /\ Unborn)'
  BY <1>1, <1>5, <1>6, <1>7 DEF Bare, Uncompleted, Unborn
<1>11. Fresh'
  BY <1>1, <1>2, <1>3 DEF Fresh
<1>12. Working'
  BY <1>2, <1>3, <1>4 DEF Working
<1>13. Carried'
  <2>1. carrying = None
    BY <1>1 DEF At, Turn, MidRun, Loop
  <2> QED BY <1>1, <2>1 DEF Carried
<1> QED BY <1>8, <1>9, <1>10, <1>11, <1>12, <1>13

\* What Marked does to the items that follow a job.
LEMMA MarkedOn ==
  ASSUME TypeOK, NEW j, NEW status \in Open \cup Ended
  PROVE  /\ Marked(On(j), status) \in Items
         /\ \A r \in Request, f \in Feed :
              /\ Marked(On(j), status)[r][f].job = item[r][f].job
              /\ Marked(On(j), status)[r][f].status =
                   IF item[r][f].job = j THEN status ELSE item[r][f].status
<1>1. On(j) \in SUBSET Pairs
  BY OnPairs
<1>2. /\ Marked(On(j), status) \in Items
      /\ \A r \in Request, f \in Feed :
           /\ Marked(On(j), status)[r][f].job = item[r][f].job
           /\ Marked(On(j), status)[r][f].status =
                IF <<r, f>> \in On(j) THEN status ELSE item[r][f].status
  BY <1>1, MarkedItems
<1>3. \A r \in Request, f \in Feed : <<r, f>> \in On(j) <=> item[r][f].job = j
  BY OnPairs
<1> QED BY <1>2, <1>3

\* Items that follow a job without deliveries may all be completed, or all fail.
LEMMA EndedItems ==
  ASSUME IInv, NEW j \in Job, NEW status \in {"failed", "dead", "completed"},
         status # "completed" \/ Early(j), NEW end, end # "queued"
  PROVE  ItemsEnded(Marked(On(j), status), j, end)
<1>1. /\ Marked(On(j), status) \in Items
      /\ \A r \in Request, f \in Feed :
           /\ Marked(On(j), status)[r][f].job = item[r][f].job
           /\ Marked(On(j), status)[r][f].status =
                IF item[r][f].job = j THEN status ELSE item[r][f].status
  BY MarkedOn DEF IInv, Ended
<1> QED BY <1>1 DEF IInv, Bare, ItemsEnded

LEMMA ItemsTyped == ASSUME IInv PROVE item \in Items
BY DEF IInv, TypeOK, Items

LEMMA RetriedKept ==
  ASSUME IInv, NEW j \in Job
  PROVE  /\ Retried(j) \in {"queued", "completed", "dead"}
         /\ ItemsEnded(RetriedItems(j), j, Retried(j))
<1>1. CASE Retried(j) = "dead"
  <2>1. ItemsEnded(Marked(On(j), "dead"), j, "dead")
    BY EndedItems
  <2> QED BY <1>1, <2>1 DEF RetriedItems
<1>2. CASE Retried(j) # "dead"
  BY <1>2, ItemsTyped DEF RetriedItems, Retried, ItemsEnded
<1> QED BY <1>1, <1>2 DEF Retried

LEMMA NoTaskTyped ==
  NoTask \in [job : Job \cup {None}, fresh : BOOLEAN, step : {"idle", "failing"}]
BY DEF NoTask

LEMMA ExhaustFetchJobKept ==
  ASSUME IInv, NEW j \in Job, ExhaustFetchJob(j)
  PROVE  IInv'
<1>1. /\ job' = [job EXCEPT ![j].status = "dead"] /\ job[j].status = "running"
      /\ item' = Marked(On(j), "dead") /\ Owe("fetch", RequestsOf(On(j)))
      /\ UNCHANGED <<source, feed, delivery, request, task, carrying, faults>>
      /\ task.step = "idle"
  BY DEF ExhaustFetchJob, Lost, At
<1>2. owed' \in [Loop -> SUBSET Request]
  BY <1>1, OnPairs, OweTyped DEF IInv, Loop
<1>3. ItemsEnded(item', j, "dead")
  BY <1>1, EndedItems
<1>4. /\ task' \in [job : Job \cup {None}, fresh : BOOLEAN, step : {"idle", "failing"}]
      /\ source' \in [active : BOOLEAN, succeeded : BOOLEAN, validators : BOOLEAN]
      /\ faults' \in 0..MaxFaults
  BY <1>1 DEF IInv, TypeOK
<1>5. EndsJob(j, "dead")
  BY <1>1, <1>2, <1>3, <1>4 DEF EndsJob
<1> QED BY <1>5, Ending

LEMMA CompleteParsedKept ==
  ASSUME IInv, NEW j \in Job, CompleteParsed(j)
  PROVE  IInv'
<1>1. /\ job' = [job EXCEPT ![j].status = "completed"] /\ job[j].status = "running"
      /\ item' = Finished(j) /\ Owe("fetch", RequestsOf(On(j)))
      /\ UNCHANGED <<feed, delivery, request, carrying, faults>>
      /\ task' = NoTask
  BY Processing DEF CompleteParsed, Ends
<1>2. owed' \in [Loop -> SUBSET Request]
  BY <1>1, OnPairs, OweTyped DEF IInv, Loop
<1>3. source' \in [active : BOOLEAN, succeeded : BOOLEAN, validators : BOOLEAN]
  BY DEF CompleteParsed, IInv, TypeOK
<1>4. ASSUME NEW r \in Request, NEW f \in Feed
      PROVE  /\ item'[r][f] \in [status : {"absent"} \cup Open \cup Ended, job : Job \cup {None}]
             /\ item'[r][f].job = item[r][f].job
             /\ item'[r][f].status = "completed" =>
                  \/ item[r][f].status = "completed"
                  \/ item[r][f].job = j /\ delivery[j][f].status = "absent"
  <2>1. item[r][f] \in [status : {"absent"} \cup Open \cup Ended, job : Job \cup {None}]
    BY ItemsTyped DEF Items
  <2>2. CASE item[r][f].job # j
    BY <1>1, <2>1, <2>2 DEF Finished
  <2>3. CASE item[r][f].job = j
    <3>1. item'[r][f] = [item[r][f] EXCEPT !.status = IF delivery[j][f].status = "absent"
                                                      THEN "completed" ELSE "running"]
      BY <1>1, <2>3 DEF Finished
    <3> QED BY <2>1, <2>3, <3>1 DEF Open, Ended
  <2> QED BY <2>2, <2>3
<1>5. ItemsEnded(item', j, "completed")
  BY <1>1, <1>4 DEF Finished, Items, ItemsEnded
<1>6. faults' \in 0..MaxFaults
  BY <1>1 DEF IInv, TypeOK
<1>7. EndsJob(j, "completed")
  BY <1>1, <1>2, <1>3, <1>5, <1>6, NoTaskTyped DEF EndsJob
<1> QED BY <1>7, Ending

LEMMA NotModifiedKept ==
  ASSUME IInv, NEW j \in Job, NotModified(j)
  PROVE  IInv'
<1>1. /\ job' = [job EXCEPT ![j].status = "completed"] /\ job[j].status = "running"
      /\ item' = Marked(On(j), "completed") /\ Owe("fetch", RequestsOf(On(j)))
      /\ UNCHANGED <<feed, delivery, request, carrying, faults>>
      /\ task' = NoTask /\ Early(j)
  BY Processing DEF NotModified, Ends, Early
<1>2. owed' \in [Loop -> SUBSET Request]
  BY <1>1, OnPairs, OweTyped DEF IInv, Loop
<1>3. source' \in [active : BOOLEAN, succeeded : BOOLEAN, validators : BOOLEAN]
  BY DEF NotModified, IInv, TypeOK
<1>4. ItemsEnded(item', j, "completed")
  BY <1>1, EndedItems
<1>5. faults' \in 0..MaxFaults
  BY <1>1 DEF IInv, TypeOK
<1>6. EndsJob(j, "completed")
  BY <1>1, <1>2, <1>3, <1>4, <1>5, NoTaskTyped DEF EndsJob
<1> QED BY <1>6, Ending

LEMMA FailRetryableKept ==
  ASSUME IInv, NEW j \in Job, FailRetryable(j)
  PROVE  IInv'
<1>1. /\ job' = [job EXCEPT ![j].status = Retried(j)] /\ job[j].status = "running"
      /\ item' = RetriedItems(j) /\ Owe("fetch", RequestsOf(On(j)))
      /\ UNCHANGED <<feed, delivery, request, carrying, source>>
      /\ task' = NoTask
  BY Processing DEF FailRetryable, Ends
<1>2. owed' \in [Loop -> SUBSET Request]
  BY <1>1, OnPairs, OweTyped DEF IInv, Loop
<1>3. /\ source' \in [active : BOOLEAN, succeeded : BOOLEAN, validators : BOOLEAN]
      /\ faults' \in 0..MaxFaults
  BY <1>1, Parameters DEF FailRetryable, IInv, TypeOK
<1>4. ItemsEnded(item', j, Retried(j)) /\ Retried(j) \in {"queued", "completed", "dead"}
  BY <1>1, RetriedKept
<1>5. EndsJob(j, Retried(j))
  BY <1>1, <1>2, <1>3, <1>4, NoTaskTyped DEF EndsJob
<1> QED BY <1>4, <1>5, Ending

\* The first transaction of a failure.
LEMMA FailingKept ==
  ASSUME IInv, NEW j \in Job, job[j].status = "running",
         NEW status \in {"queued", "completed", "dead"}, NEW items, NEW active \in BOOLEAN,
         ItemsEnded(items, j, status), Failing(j, status, items, active)
  PROVE  IInv'
<1>1. /\ job' = [job EXCEPT ![j].status = status] /\ item' = items
      /\ Owe("fetch", RequestsOf(On(j)))
      /\ UNCHANGED <<feed, delivery, request, carrying, faults>>
  BY DEF Failing
<1>2. owed' \in [Loop -> SUBSET Request]
  BY <1>1, OnPairs, OweTyped DEF IInv, Loop
<1>3. task' \in [job : Job \cup {None}, fresh : BOOLEAN, step : {"idle", "failing"}]
  BY DEF Failing, IInv, TypeOK
<1>4. source' \in [active : BOOLEAN, succeeded : BOOLEAN, validators : BOOLEAN]
  BY DEF Failing, IInv, TypeOK
<1>5. faults' \in 0..MaxFaults
  BY <1>1 DEF IInv, TypeOK
<1>6. EndsJob(j, status)
  BY <1>1, <1>2, <1>3, <1>4, <1>5 DEF EndsJob
<1> QED BY <1>6, Ending

LEMMA PublisherFailureKept ==
  ASSUME IInv, NEW j \in Job, PublisherFailure(j)
  PROVE  IInv'
<1>1. PICK active \in BOOLEAN : Failing(j, Retried(j), RetriedItems(j), active)
  BY DEF PublisherFailure
<1>2. job[j].status = "running"
  BY Processing DEF PublisherFailure
<1> QED BY <1>1, <1>2, RetriedKept, FailingKept

LEMMA RejectBodyKept ==
  ASSUME IInv, NEW j \in Job, RejectBody(j)
  PROVE  IInv'
<1> DEFINE status == IF Retried(j) = "dead" THEN "dead" ELSE "completed"
<1>1. PICK active \in BOOLEAN : Failing(j, status, Marked(On(j), status), active)
  BY DEF RejectBody
<1>2. job[j].status = "running" /\ Early(j)
  BY Processing DEF RejectBody, Early
<1>3. status \in {"completed", "dead"}
  OBVIOUS
<1> HIDE DEF status
<1>4. ItemsEnded(Marked(On(j), status), j, status)
  BY <1>2, <1>3, EndedItems
<1> QED BY <1>1, <1>2, <1>3, <1>4, FailingKept

LEMMA DiscoverKept ==
  ASSUME IInv, NEW j \in Job, Discover(j)
  PROVE  IInv'
<1>1. /\ Failing(j, "completed", Marked(On(j), "completed"), FALSE)
      /\ job[j].status = "running" /\ Early(j)
  BY Processing DEF Discover, Early
<1>2. ItemsEnded(Marked(On(j), "completed"), j, "completed")
  BY <1>1, EndedItems
<1> QED BY <1>1, <1>2, FailingKept

\* Steps that only take items off the list of those waited for.
ItemsLeft ==
  /\ item' \in Items
  /\ \A r \in Request, f \in Feed :
       \/ item'[r][f].job = None
       \/ /\ item'[r][f].job = item[r][f].job
          /\ item'[r][f].status = "completed" => item[r][f].status = "completed"
  /\ UNCHANGED <<job, source, feed, delivery, request, carrying, faults>>
  /\ task' \in {task, NoTask} /\ owed' \in [Loop -> SUBSET Request]

LEMMA ItemsClosed ==
  ASSUME IInv, ItemsLeft
  PROVE  IInv'
<1> USE DEF IInv, ItemsLeft
<1>1. \A k \in Job : (Active(k)' <=> Active(k)) /\ (Early(k)' <=> Early(k))
  BY DEF Active, Early
<1>2. TypeOK'
  BY <1>1, NoTaskTyped DEF TypeOK, Items
<1>3. (CompletedMeansDelivered /\ Bare /\ Unborn /\ Carried)'
  BY <1>1 DEF CompletedMeansDelivered, Bare, Unborn, Carried
<1>4. (Uncompleted /\ Fresh)'
  BY <1>1, Parameters DEF Uncompleted, Fresh
<1>5. Working'
  BY DEF Working, NoTask
<1> QED BY <1>2, <1>3, <1>4, <1>5

LEMMA FailItemsKept ==
  ASSUME IInv, FailItems
  PROVE  IInv'
<1>1. /\ item' = Marked(On(task.job), "failed") /\ task' = NoTask
      /\ UNCHANGED <<job, source, feed, delivery, request, carrying, owed, faults>>
  BY DEF FailItems
<1>2. /\ item' \in Items
      /\ \A r \in Request, f \in Feed :
           /\ item'[r][f].job = item[r][f].job
           /\ item'[r][f].status = "completed" => item[r][f].status = "completed"
  BY <1>1, MarkedOn DEF IInv, Ended
<1>3. owed' \in [Loop -> SUBSET Request]
  BY <1>1 DEF IInv, TypeOK
<1>4. ItemsLeft
  BY <1>1, <1>2, <1>3 DEF ItemsLeft
<1> QED BY <1>4, ItemsClosed

\* Steps that change nothing but what is said of requests.
LEMMA Bookkeeping ==
  ASSUME IInv, request' \in [Request -> Statuses], owed' \in [Loop -> SUBSET Request],
         UNCHANGED <<job, source, feed, delivery, item, task, carrying, faults>>
  PROVE  IInv'
<1> USE DEF IInv
<1>1. \A k \in Job : (Active(k)' <=> Active(k)) /\ (Early(k)' <=> Early(k))
  BY DEF Active, Early
<1>2. TypeOK'
  BY <1>1 DEF TypeOK, Statuses
<1>3. (CompletedMeansDelivered /\ Bare /\ Working /\ Uncompleted /\ Fresh /\ Unborn /\ Carried)'
  BY <1>1 DEF CompletedMeansDelivered, Bare, Working, Uncompleted, Fresh, Unborn, Carried
<1> QED BY <1>2, <1>3

(***************************************************************************)
(* The deliver loop and the schedule loop.                                 *)
(***************************************************************************)
LEMMA DeliveriesTyped == ASSUME IInv PROVE delivery \in Deliveries
BY DEF IInv, TypeOK, Deliveries

\* The write of one delivery.
Reached == {"absent"} \cup Open \cup {"completed", "dead"}
SetsDelivery(j, f, status, attempts) ==
  delivery' = [delivery EXCEPT ![j][f] = [status |-> status, attempts |-> attempts]]

LEMMA DeliverySet ==
  ASSUME IInv, NEW j \in Job, NEW f \in Feed,
         NEW status \in Reached,
         NEW attempts \in 0..MaxDeliveryAttempts, SetsDelivery(j, f, status, attempts)
  PROVE  /\ delivery' \in Deliveries /\ delivery'[j][f].status = status
         /\ \A k \in Job, g \in Feed : k # j \/ g # f => delivery'[k][g] = delivery[k][g]
BY DeliveriesTyped DEF Deliveries, SetsDelivery, Reached

\* The write of its status alone.
LEMMA StatusOnly ==
  ASSUME IInv, NEW j \in Job, NEW f \in Feed, NEW status,
         delivery' = [delivery EXCEPT ![j][f].status = status]
  PROVE  /\ SetsDelivery(j, f, status, delivery[j][f].attempts)
         /\ delivery[j][f].attempts \in 0..MaxDeliveryAttempts
<1>1. delivery[j][f] \in [status : {"absent"} \cup Open \cup {"completed", "dead"},
                          attempts : 0..MaxDeliveryAttempts]
  BY DeliveriesTyped DEF Deliveries
<1>2. [delivery[j][f] EXCEPT !.status = status]
        = [status |-> status, attempts |-> delivery[j][f].attempts]
  BY <1>1
<1>3. delivery' = [delivery EXCEPT ![j][f] = [delivery[j][f] EXCEPT !.status = status]]
  OBVIOUS
<1>4. delivery' = [delivery EXCEPT ![j][f] = [status |-> status,
                                              attempts |-> delivery[j][f].attempts]]
  BY <1>2, <1>3
<1> QED BY <1>1, <1>4 DEF SetsDelivery

LEMMA SettleKept ==
  ASSUME IInv, NEW j \in Job, NEW f \in Feed, delivery[j][f].status \in Open,
         NEW status \in {"completed", "dead"}, Settle(j, f, status)
  PROVE  IInv'
<1> DEFINE pairs == OnDelivery(j, f)
<1>1. /\ delivery' = [delivery EXCEPT ![j][f].status = status]
      /\ item' = Marked(pairs, status) /\ Owe("deliver", RequestsOf(pairs))
      /\ carrying' = None
      /\ UNCHANGED <<job, source, feed, request, task, faults>>
  BY DEF Settle
<1>2. /\ pairs \in SUBSET Pairs /\ RequestsOf(pairs) \in SUBSET Request
      /\ \A r \in Request, g \in Feed : <<r, g>> \in pairs <=> item[r][g].job = j /\ g = f
  BY OnDeliveryPairs
<1> HIDE DEF pairs
<1>3. /\ item' \in Items
      /\ \A r \in Request, g \in Feed :
           /\ item'[r][g].job = item[r][g].job
           /\ item'[r][g].status = IF <<r, g>> \in pairs THEN status ELSE item[r][g].status
  <2>1. TypeOK /\ status \in Open \cup Ended /\ pairs \in SUBSET Pairs
    BY <1>2 DEF IInv, Ended
  <2>2. /\ Marked(pairs, status) \in Items
        /\ \A r \in Request, g \in Feed :
             /\ Marked(pairs, status)[r][g].job = item[r][g].job
             /\ Marked(pairs, status)[r][g].status =
                  IF <<r, g>> \in pairs THEN status ELSE item[r][g].status
    BY <2>1, MarkedItems, SMTT(20)
  <2> QED BY <1>1, <2>2
<1>4. ASSUME NEW r \in Request, NEW g \in Feed, item[r][g].job # j \/ g # f
      PROVE  item'[r][g] = item[r][g]
  BY <1>1, <1>2, <1>4 DEF Marked
<1>5. owed' \in [Loop -> SUBSET Request]
  BY <1>1, <1>2, OweTyped DEF IInv, Loop
<1>6. status \in Reached
  BY DEF Reached
<1>7. /\ SetsDelivery(j, f, status, delivery[j][f].attempts)
      /\ delivery[j][f].attempts \in 0..MaxDeliveryAttempts
  BY <1>1, StatusOnly
<1>8. /\ delivery' \in Deliveries /\ delivery'[j][f].status = status
      /\ \A k \in Job, g \in Feed : k # j \/ g # f => delivery'[k][g] = delivery[k][g]
  BY <1>6, <1>7, DeliverySet
<1>9. Steps(j, f)
  BY <1>1, <1>2, <1>3, <1>4, <1>5, <1>8 DEF Steps
<1> QED BY <1>9, Delivering

\* A step of the deliver loop that settles nothing.
LEMMA DeliveryMoves ==
  ASSUME IInv, NEW j \in Job, NEW f \in Feed, delivery[j][f].status \in Open,
         NEW status \in Open, NEW attempts \in 0..MaxDeliveryAttempts,
         SetsDelivery(j, f, status, attempts),
         carrying' \in {None, <<j, f>>},
         UNCHANGED <<job, source, feed, item, request, task, owed, faults>>
  PROVE  IInv'
<1>0. status \in Reached
  BY DEF Reached
<1>1. /\ delivery' \in Deliveries /\ delivery'[j][f].status = status
      /\ \A k \in Job, g \in Feed : k # j \/ g # f => delivery'[k][g] = delivery[k][g]
  BY <1>0, DeliverySet
<1>2. item' \in Items /\ owed' \in [Loop -> SUBSET Request]
  BY ItemsTyped DEF IInv, TypeOK
<1>3. \A r \in Request : item[r][f].job = j => item[r][f].status # "completed"
  BY Parameters DEF IInv, CompletedMeansDelivered, Open
<1>4. Steps(j, f)
  BY <1>1, <1>2, <1>3 DEF Steps
<1> QED BY <1>4, Delivering

LEMMA ClaimDeliveryKept ==
  ASSUME IInv, NEW j \in Job, NEW f \in Feed, ClaimDelivery(j, f)
  PROVE  IInv'
<1>1. /\ delivery[j][f].status \in Open /\ delivery[j][f].attempts < MaxDeliveryAttempts
      /\ delivery' = [delivery EXCEPT ![j][f].status = "running", ![j][f].attempts = @ + 1]
      /\ carrying' = <<j, f>>
      /\ UNCHANGED <<job, source, feed, item, request, task, owed, faults>>
  BY DEF ClaimDelivery, Ready
<1>2. delivery[j][f] \in [status : {"absent"} \cup Open \cup {"completed", "dead"},
                          attempts : 0..MaxDeliveryAttempts]
  BY DeliveriesTyped DEF Deliveries
<1>3. delivery' = [delivery EXCEPT ![j][f] = [status |-> "running",
                                              attempts |-> delivery[j][f].attempts + 1]]
  BY <1>1, <1>2, DeliveriesTyped DEF Deliveries
<1>4. delivery[j][f].attempts + 1 \in 0..MaxDeliveryAttempts
  BY <1>1, <1>2, Parameters
<1>5. SetsDelivery(j, f, "running", delivery[j][f].attempts + 1) /\ "running" \in Open
  BY <1>3 DEF SetsDelivery, Open
<1> QED BY <1>1, <1>4, <1>5, DeliveryMoves

\* The delivery that is being carried is open.
LEMMA Carrying ==
  ASSUME IInv, NEW j \in Job, NEW f \in Feed, carrying = <<j, f>>
  PROVE  delivery[j][f].status \in Open
BY Parameters DEF IInv, Carried

LEMMA DeliveryFailsKept ==
  ASSUME IInv, NEW j \in Job, NEW f \in Feed, DeliveryFails(j, f)
  PROVE  IInv'
<1>1. delivery[j][f].status \in Open
  BY Carrying DEF DeliveryFails
<1>2. CASE delivery[j][f].attempts >= MaxDeliveryAttempts
  BY <1>1, <1>2, SettleKept DEF DeliveryFails
<1>3. CASE ~(delivery[j][f].attempts >= MaxDeliveryAttempts)
  <2>1. /\ delivery' = [delivery EXCEPT ![j][f].status = "pending"] /\ carrying' = None
        /\ UNCHANGED <<job, source, feed, item, request, task, owed, faults>>
    BY <1>3 DEF DeliveryFails
  <2>2. /\ SetsDelivery(j, f, "pending", delivery[j][f].attempts)
        /\ delivery[j][f].attempts \in 0..MaxDeliveryAttempts
    BY <2>1, StatusOnly
  <2>3. "pending" \in Open
    BY DEF Open
  <2> QED BY <1>1, <2>1, <2>2, <2>3, DeliveryMoves
<1> QED BY <1>2, <1>3

LEMMA ExpireManualKept ==
  ASSUME IInv, NEW requests \in SUBSET Manual, ExpireManual(requests)
  PROVE  IInv'
<1>1. /\ item' = [r \in Request |-> [f \in Feed |->
                   IF r \in requests /\ item[r][f].status \in Open
                   THEN [status |-> "completed", job |-> None] ELSE item[r][f]]]
      /\ Owe("schedule", requests)
      /\ UNCHANGED <<job, source, feed, delivery, request, task, carrying, faults>>
  BY DEF ExpireManual
<1>2. requests \in SUBSET Request
  BY Parameters
<1>3. owed' \in [Loop -> SUBSET Request]
  BY <1>1, <1>2, OweTyped DEF IInv, Loop
<1>4. ASSUME NEW r \in Request, NEW f \in Feed
      PROVE  /\ item'[r][f] \in [status : {"absent"} \cup Open \cup Ended, job : Job \cup {None}]
             /\ \/ item'[r][f].job = None
                \/ item'[r][f] = item[r][f]
  BY <1>1, ItemsTyped DEF Items, Ended
<1>5. item' \in Items
  BY <1>1, <1>4 DEF Items
<1>6. ItemsLeft
  BY <1>1, <1>3, <1>4, <1>5 DEF ItemsLeft
<1> QED BY <1>6, ItemsClosed

LEMMA AggregateKept ==
  ASSUME IInv, NEW l \in Loop, NEW r \in Request, Aggregate(l, r)
  PROVE  IInv'
<1>1. /\ request' = [request EXCEPT ![r] = Summary(item[r])]
      /\ owed' = [owed EXCEPT ![l] = @ \ {r}]
      /\ UNCHANGED <<job, source, feed, delivery, item, task, carrying, faults>>
  BY DEF Aggregate
<1>2. /\ request' \in [Request -> Statuses] /\ owed' \in [Loop -> SUBSET Request]
  BY <1>1, SummaryTyped DEF IInv, TypeOK, Statuses
<1> QED BY <1>1, <1>2, Bookkeeping

LEMMA CrashKept ==
  ASSUME IInv, Crash
  PROVE  IInv'
<1> USE DEF IInv
<1>1. /\ task' = NoTask /\ carrying' = None /\ owed' = [l \in Loop |-> {}]
      /\ faults' \in 0..MaxFaults
      /\ UNCHANGED <<job, source, feed, delivery, item, request>>
  BY Parameters DEF Crash, tables, TypeOK
<1>2. \A k \in Job : (Active(k)' <=> Active(k)) /\ (Early(k)' <=> Early(k))
  BY <1>1 DEF Active, Early
<1>3. TypeOK'
  BY <1>1, <1>2, NoTaskTyped DEF TypeOK
<1>4. (CompletedMeansDelivered /\ Bare /\ Uncompleted /\ Fresh /\ Unborn)'
  BY <1>1, <1>2 DEF CompletedMeansDelivered, Bare, Uncompleted, Fresh, Unborn
<1>5. (Working /\ Carried)'
  BY <1>1 DEF Working, NoTask, Carried
<1> QED BY <1>3, <1>4, <1>5

LEMMA LapseKept ==
  ASSUME IInv, NEW j \in Job, Lapse(j)
  PROVE  IInv'
<1> USE DEF IInv
<1>1. /\ job' = [job EXCEPT ![j].snap = "lapsed"] /\ job[j].snap = "parsed"
      /\ UNCHANGED <<source, feed, delivery, item, request, task, carrying, owed, faults>>
  BY DEF Lapse, worker
<1>2. /\ job' \in Jobs /\ job'[j].snap = "lapsed"
      /\ \A k \in Job : job'[k].status = job[k].status
      /\ \A k \in Job \ {j} : job'[k] = job[k]
  BY <1>1, SnapSet DEF Snapshots
<1>3. \A k \in Job : (Active(k)' <=> Active(k)) /\ (Early(k)' <=> Early(k))
  BY <1>1, <1>2 DEF Active, Early
<1>4. TypeOK'
  BY <1>1, <1>2, <1>3 DEF TypeOK, Jobs
<1>5. (CompletedMeansDelivered /\ Bare /\ Uncompleted /\ Unborn /\ Carried)'
  BY <1>1, <1>3 DEF CompletedMeansDelivered, Bare, Uncompleted, Unborn, Carried
<1>6. (Fresh /\ Working)'
  BY <1>1, <1>2 DEF Fresh, Working
<1> QED BY <1>4, <1>5, <1>6

(***************************************************************************)
(* The API.                                                                *)
(***************************************************************************)
\* A job that is queued, or is found active: nothing else of it changes.
Enqueued(j) ==
  \/ EnqueueOrAttach(j)
  \/ ActiveJobs = {} /\ FirstUnused(j) /\ job' = [job EXCEPT ![j].status = "queued"]

LEMMA Attached ==
  ASSUME IInv, NEW j \in Job, Enqueued(j)
  PROVE  /\ job' \in Jobs /\ job'[j].status # "absent"
         /\ \A k \in Job : /\ job'[k].snap = job[k].snap
                           /\ job[k].status # "absent" => job'[k].status = job[k].status
                           /\ job'[k].status = "absent" => job[k].status = "absent"
                           /\ Active(k)' => Active(k) \/ (k = j /\ job[j].status = "absent")
         /\ \A k, l \in Job : Active(k)' /\ Active(l)' => k = l
<1> DEFINE status == IF job[j].status = "absent" THEN "queued" ELSE job[j].status
<1>1. job \in Jobs
  BY DEF IInv, TypeOK, Jobs
<1>2. job' = [job EXCEPT ![j].status = status]
  BY <1>1 DEF Enqueued, EnqueueOrAttach, FirstUnused, Unused, Jobs
<1>3. status \in {"absent", "queued", "running", "completed", "dead"} /\ status # "absent"
  BY <1>1 DEF Jobs
<1>4. job[j].status # "absent" => status = job[j].status
  OBVIOUS
<1> HIDE DEF status
<1>5. /\ job' \in Jobs /\ job'[j].status = status
      /\ \A k \in Job : job'[k].snap = job[k].snap
      /\ \A k \in Job \ {j} : job'[k] = job[k]
  BY <1>2, <1>3, StatusSet DEF IInv
<1>6. \A k \in Job : Active(k)' => Active(k) \/ (k = j /\ job[j].status = "absent")
  BY <1>4, <1>5 DEF Active
<1>7. job[j].status = "absent" => \A k \in Job : ~Active(k)
  BY DEF Enqueued, EnqueueOrAttach, ActiveJobs, Active
<1>8. \A k, l \in Job : Active(k)' /\ Active(l)' => k = l
  BY <1>6, <1>7 DEF IInv, TypeOK
<1> QED BY <1>3, <1>4, <1>5, <1>6, <1>8

\* What a new request adds to the items.
Extended(r, feeds, status, j) ==
  /\ item' \in Items /\ request' \in [Request -> Statuses]
  /\ \A q \in Request, f \in Feed :
       IF q = r /\ f \in feeds THEN item'[q][f].job = j /\ item'[q][f].status = status
                               ELSE item'[q][f] = item[q][f]

LEMMA RequestedItems ==
  ASSUME IInv, NEW r \in Request, NEW feeds \in SUBSET Feed, NEW status \in Open \cup Ended,
         NEW j \in Job \cup {None}, Requested(r, feeds, status, j)
  PROVE  Extended(r, feeds, status, j)
<1> DEFINE row == [f \in Feed |-> IF f \in feeds THEN [status |-> status, job |-> j]
                                                 ELSE item[r][f]]
<1>1. item \in Items
  BY ItemsTyped
<1>2. item' = [item EXCEPT ![r] = row]
  BY DEF Requested
<1>3. row \in [Feed -> [status : {"absent"} \cup Open \cup Ended, job : Job \cup {None}]]
  BY <1>1 DEF Items
<1>4. \A f \in Feed : IF f \in feeds THEN row[f].job = j /\ row[f].status = status
                                     ELSE row[f] = item[r][f]
  OBVIOUS
<1> HIDE DEF row
<1>5. item' \in Items /\ item'[r] = row /\ \A q \in Request \ {r} : item'[q] = item[q]
  BY <1>1, <1>2, <1>3 DEF Items
<1>6. request' \in [Request -> Statuses]
  BY SummaryTyped DEF Requested, IInv, TypeOK, Statuses
<1> QED BY <1>4, <1>5, <1>6 DEF Extended

\* A new row or none; items that wait for it, or for nothing.
Waiting(j) ==
  /\ item' \in Items /\ request' \in [Request -> Statuses]
  /\ feed' \in [Feed -> {"absent", "pending", "attached"}]
  /\ \A f \in Feed : feed'[f] = "absent" => feed[f] = "absent"
  /\ \A q \in Request, f \in Feed :
       \/ item'[q][f] = item[q][f]
       \/ item'[q][f].job = j /\ item'[q][f].status = "pending" /\ feed'[f] # "absent"

LEMMA EnqueueKept ==
  ASSUME IInv, NEW j \in Job, Enqueued(j), Waiting(j),
         UNCHANGED <<source, delivery, task, carrying, owed, faults>>
  PROVE  IInv'
<1> USE DEF Waiting
<1> USE DEF IInv
<1>1. /\ job' \in Jobs /\ job'[j].status # "absent"
      /\ \A k \in Job : /\ job'[k].snap = job[k].snap
                        /\ job[k].status # "absent" => job'[k].status = job[k].status
                        /\ job'[k].status = "absent" => job[k].status = "absent"
                        /\ Active(k)' => Active(k) \/ (k = j /\ job[j].status = "absent")
      /\ \A k, l \in Job : Active(k)' /\ Active(l)' => k = l
  BY Attached
<1>2. \A k \in Job : Early(k)' <=> Early(k)
  BY <1>1 DEF Early
<1>3. TypeOK'
  BY <1>1 DEF TypeOK, Jobs, Items, Statuses
<1>4. CompletedMeansDelivered'
  BY DEF CompletedMeansDelivered
<1>5. (Bare /\ Carried /\ Unborn)'
  BY <1>2 DEF Bare, Carried, Unborn
<1>6. Uncompleted'
  BY <1>1, <1>2 DEF Uncompleted, Fresh
<1>7. Fresh'
  BY <1>1 DEF Fresh
<1>8. Working'
  BY <1>1 DEF Working
<1> QED BY <1>3, <1>4, <1>5, <1>6, <1>7, <1>8

LEMMA RequestRefreshKept ==
  ASSUME IInv, NEW r \in Manual, RequestRefresh(r)
  PROVE  IInv'
<1>1. PICK j \in Job : EnqueueOrAttach(j) /\ Requested(r, Following, "pending", j)
  BY DEF RequestRefresh
<1>2. UNCHANGED <<source, feed, delivery, task, carrying, owed, faults>>
  BY DEF RequestRefresh, worker
<1>3. /\ r \in Request /\ Following \in SUBSET Feed /\ "pending" \in Open \cup Ended
      /\ j \in Job \cup {None}
  BY Parameters DEF Following, Open
<1>4. Extended(r, Following, "pending", j)
  BY <1>1, <1>3, RequestedItems
<1>5. Waiting(j)
  BY <1>2, <1>4 DEF Waiting, Following, IInv, TypeOK, Extended
<1> QED BY <1>1, <1>2, <1>5, EnqueueKept DEF Enqueued

LEMMA RequestDeferredKept ==
  ASSUME IInv, NEW r \in Manual, RequestDeferred(r)
  PROVE  IInv'
<1> USE DEF IInv
<1>1. /\ Requested(r, Following, "completed", None)
      /\ UNCHANGED <<job, source, feed, delivery, task, carrying, owed, faults>>
  BY DEF RequestDeferred, worker
<1>2. /\ r \in Request /\ Following \in SUBSET Feed /\ "completed" \in Open \cup Ended
      /\ None \in Job \cup {None}
  BY Parameters DEF Following, Ended
<1>3. Extended(r, Following, "completed", None)
  BY <1>1, <1>2, RequestedItems
<1>4. \A k \in Job : (Active(k)' <=> Active(k)) /\ (Early(k)' <=> Early(k))
  BY <1>1 DEF Active, Early
<1>5. TypeOK'
  BY <1>1, <1>3, <1>4 DEF TypeOK, Items, Statuses, Extended
<1>6. (CompletedMeansDelivered /\ Bare /\ Working /\ Unborn /\ Carried)'
  BY <1>1, <1>3, <1>4 DEF CompletedMeansDelivered, Bare, Working, Unborn, Carried, Extended
<1>7. \A k \in Job, q \in Request, f \in Feed :
        item'[q][f].job = k => item'[q][f] = item[q][f]
  BY <1>3, Parameters DEF Extended
<1>8. Uncompleted'
  BY <1>1, <1>4, <1>7 DEF Uncompleted
<1>9. Fresh'
  BY <1>1, <1>7 DEF Fresh
<1> QED BY <1>5, <1>6, <1>8, <1>9

LEMMA CreateFeedKept ==
  ASSUME IInv, NEW f \in Feed, CreateFeed(f)
  PROVE  IInv'
<1>1. PICK j \in Job : EnqueueOrAttach(j) /\ Requested(f, {f}, "pending", j)
  BY DEF CreateFeed
<1>2. /\ feed' = [feed EXCEPT ![f] = "pending"]
      /\ UNCHANGED <<source, delivery, task, carrying, owed, faults>>
  BY DEF CreateFeed, worker
<1>3. /\ f \in Request /\ {f} \in SUBSET Feed /\ "pending" \in Open \cup Ended
      /\ j \in Job \cup {None}
  BY Parameters DEF Open
<1>4. Extended(f, {f}, "pending", j)
  BY <1>1, <1>3, RequestedItems
<1>5. /\ feed' \in [Feed -> {"absent", "pending", "attached"}] /\ feed'[f] = "pending"
      /\ \A g \in Feed : feed'[g] = "absent" => feed[g] = "absent"
  BY <1>2 DEF IInv, TypeOK
<1>6. Waiting(j)
  BY <1>4, <1>5 DEF Waiting, Extended
<1> QED BY <1>1, <1>2, <1>6, EnqueueKept DEF Enqueued

\* The delivery it adds is for a feed that no item has followed.
LEMMA CreateFeedFromSnapshotKept ==
  ASSUME IInv, NEW f \in Feed, CreateFeedFromSnapshot(f)
  PROVE  IInv'
<1> USE DEF IInv
<1>1. PICK j \in Job : /\ Newest(j)
                       /\ delivery' = [delivery EXCEPT ![j][f].status = "pending"]
                       /\ Requested(f, {f}, "pending", j)
  BY DEF CreateFeedFromSnapshot
<1>2. /\ feed[f] = "absent" /\ feed' = [feed EXCEPT ![f] = "attached"]
      /\ UNCHANGED <<job, source, task, carrying, owed, faults>>
  BY DEF CreateFeedFromSnapshot, worker
<1>3. /\ f \in Request /\ {f} \in SUBSET Feed /\ "pending" \in Open \cup Ended
      /\ j \in Job \cup {None}
  BY Parameters DEF Open
<1>4. Extended(f, {f}, "pending", j)
  BY <1>1, <1>3, RequestedItems
<1>5. /\ feed' \in [Feed -> {"absent", "pending", "attached"}] /\ feed'[f] = "attached"
      /\ \A g \in Feed : feed'[g] = "absent" => feed[g] = "absent"
  BY <1>2 DEF TypeOK
<1>6. /\ delivery' \in Deliveries /\ delivery'[j][f].status = "pending"
      /\ \A k \in Job, g \in Feed : k # j \/ g # f => delivery'[k][g] = delivery[k][g]
  <2>1. /\ SetsDelivery(j, f, "pending", delivery[j][f].attempts)
        /\ delivery[j][f].attempts \in 0..MaxDeliveryAttempts
    BY <1>1, StatusOnly
  <2>2. "pending" \in Reached
    BY DEF Open, Reached
  <2> QED BY <2>1, <2>2, DeliverySet
<1>7. /\ job[j].snap = "parsed" /\ job[j].status # "absent"
      /\ \A k \in Job : (Active(k)' <=> Active(k)) /\ (Early(k)' <=> Early(k))
  BY <1>1, <1>2 DEF Newest, Retained, Fresh, Active, Early
<1>8. TypeOK'
  BY <1>2, <1>4, <1>5, <1>6, <1>7 DEF TypeOK, Items, Deliveries, Statuses, Extended
<1>9. CompletedMeansDelivered'
  <2> SUFFICES ASSUME NEW r \in Request, NEW g \in Feed,
                      item'[r][g].status = "completed", item'[r][g].job # None
               PROVE  delivery'[item'[r][g].job][g].status \in {"absent", "completed"}
    BY DEF CompletedMeansDelivered
  <2>1. item'[r][g] = item[r][g]
    BY <1>4 DEF Extended
  <2>2. g # f /\ item[r][g].job \in Job
    BY <1>2, <2>1 DEF Unborn, TypeOK
  <2> QED BY <1>6, <2>1, <2>2 DEF CompletedMeansDelivered
<1>10. Bare'
  BY <1>6, <1>7 DEF Bare, Early
<1>11. (Working /\ Unborn)'
  BY <1>2, <1>4, <1>5 DEF Working, Unborn, Extended
<1>12. (Uncompleted /\ Fresh)'
  BY <1>2, <1>4, <1>7 DEF Uncompleted, Fresh, Extended
<1>13. Carried'
  <2> SUFFICES ASSUME carrying # None
               PROVE  delivery'[carrying[1]][carrying[2]].status \in Open
    BY <1>2 DEF Carried
  <2>1. /\ carrying[1] \in Job /\ carrying[2] \in Feed
        /\ delivery[carrying[1]][carrying[2]].status \in Open
    BY DEF TypeOK, Carried
  <2> QED BY <1>6, <2>1 DEF Open
<1> QED BY <1>8, <1>9, <1>10, <1>11, <1>12, <1>13

LEMMA EnqueueDueSourceKept ==
  ASSUME IInv, EnqueueDueSource
  PROVE  IInv'
<1>1. PICK j \in Job : FirstUnused(j) /\ job' = [job EXCEPT ![j].status = "queued"]
  BY DEF EnqueueDueSource
<1>2. /\ ActiveJobs = {}
      /\ UNCHANGED <<source, feed, delivery, item, request, task, carrying, owed, faults>>
  BY DEF EnqueueDueSource, worker
<1>3. Waiting(j)
  BY <1>2, ItemsTyped DEF Waiting, IInv, TypeOK, Statuses
<1> QED BY <1>1, <1>2, <1>3, EnqueueKept DEF Enqueued

(***************************************************************************)
(* Every step.                                                             *)
(***************************************************************************)
LEMMA FetchLoopKept == ASSUME IInv, FetchLoop PROVE IInv'
<1>1. ASSUME NEW j \in Job,
             \/ ClaimFetchJob(j) \/ ExhaustFetchJob(j) \/ ReceiveBody(j) \/ ParseOk(j)
             \/ CompleteParsed(j) \/ NotModified(j) \/ FailRetryable(j)
             \/ PublisherFailure(j) \/ RejectBody(j) \/ Discover(j)
      PROVE  IInv'
  BY <1>1, ClaimFetchJobKept, ExhaustFetchJobKept, ReceiveBodyKept, ParseOkKept,
     CompleteParsedKept, NotModifiedKept, FailRetryableKept, PublisherFailureKept,
     RejectBodyKept, DiscoverKept
<1>2. ASSUME NEW r \in Request, Aggregate("fetch", r) PROVE IInv'
  BY <1>2, AggregateKept DEF Loop
<1> QED BY <1>1, <1>2, FailItemsKept DEF FetchLoop

LEMMA DeliverLoopKept == ASSUME IInv, DeliverLoop PROVE IInv'
<1>1. ASSUME NEW j \in Job, NEW f \in Feed, ExhaustDelivery(j, f) PROVE IInv'
  <2>1. delivery[j][f].status \in Open /\ Settle(j, f, "dead")
    BY <1>1 DEF ExhaustDelivery, Ready
  <2> QED BY <2>1, SettleKept
<1>2. ASSUME NEW j \in Job, NEW f \in Feed, Deliver(j, f) PROVE IInv'
  <2>1. delivery[j][f].status \in Open /\ Settle(j, f, "completed")
    BY <1>2, Carrying DEF Deliver
  <2> QED BY <2>1, SettleKept
<1>3. ASSUME NEW r \in Request, Aggregate("deliver", r) PROVE IInv'
  BY <1>3, AggregateKept DEF Loop
<1> QED BY <1>1, <1>2, <1>3, ClaimDeliveryKept, DeliveryFailsKept DEF DeliverLoop

LEMMA ExpireKept == ASSUME IInv, Expire PROVE IInv'
<1>1. ASSUME NEW r \in Request, Aggregate("schedule", r) PROVE IInv'
  BY <1>1, AggregateKept DEF Loop
<1> QED BY <1>1, ExpireManualKept DEF Expire

LEMMA Stutter == ASSUME IInv, UNCHANGED vars PROVE IInv'
<1>1. /\ request' \in [Request -> Statuses] /\ owed' \in [Loop -> SUBSET Request]
      /\ UNCHANGED <<job, source, feed, delivery, item, task, carrying, faults>>
  BY DEF vars, IInv, TypeOK, Statuses
<1> QED BY <1>1, Bookkeeping

LEMMA IInvKept == IInv /\ [Next]_vars => IInv'
<1> SUFFICES ASSUME IInv, [Next]_vars PROVE IInv'
  OBVIOUS
<1>1. CASE API
  BY <1>1, RequestRefreshKept, RequestDeferredKept, CreateFeedKept, CreateFeedFromSnapshotKept
     DEF API
<1>2. CASE FetchLoop \/ DeliverLoop \/ Expire
  BY <1>2, FetchLoopKept, DeliverLoopKept, ExpireKept
<1>3. CASE EnqueueDueSource \/ Crash \/ \E j \in Job : Lapse(j)
  BY <1>3, EnqueueDueSourceKept, CrashKept, LapseKept
<1>4. CASE ClaimNothing \/ UNCHANGED vars
  BY <1>4, Stutter DEF ClaimNothing
<1> QED BY <1>1, <1>2, <1>3, <1>4 DEF Next

LEMMA Invariance == Spec => []IInv
BY InitIInv, IInvKept, PTL DEF Spec

\* The state keeps its types, and a source never has two active jobs: the partial
\* unique index of feed_fetch_jobs is never run into.
THEOREM TypesHold == Spec => []TypeOK
<1>1. IInv => TypeOK
  BY DEF IInv
<1> QED BY <1>1, Invariance, PTL

\* An item that is reported as completed has its articles: whatever the API, the
\* three loops and crashes do in between, the snapshot of its job has no delivery
\* to its feed, or a completed one.
THEOREM CompletedIsDelivered == Spec => []CompletedMeansDelivered
<1>1. IInv => CompletedMeansDelivered
  BY DEF IInv
<1> QED BY <1>1, Invariance, PTL

(***************************************************************************)
(* What the user is told.  AnswersHold speaks of runs without a crash or   *)
(* an error.  An open item is kept served because a job that ends settles  *)
(* its items or hands them to deliveries that have only just been made     *)
(* (Undelivered): the fetch loop holds the event loop from the parsing of  *)
(* a snapshot to the end of its job.  A change of an item is reported      *)
(* because the loop that made it owes its request an aggregation, and does *)
(* not pay before the second transaction of a failure (FailingOwes).       *)
(***************************************************************************)
Served == \A r \in Request, f \in Feed : item[r][f].status \in Open => ServedItem(r, f)
Tended == \A j \in Job : Active(j) /\ job[j].snap # "none" =>
            task.job = j /\ task.step \in {"parsing", "parsed"}
Undelivered == task.step = "parsed" =>
  \A f \in Feed : delivery[task.job][f].status \in {"absent"} \cup Open
CarryingOwes == carrying # None => owed["deliver"] = {}
FailingOwes == task.step = "failing" =>
  /\ task.job \in Job /\ Early(task.job) /\ job[task.job].status # "absent"
  /\ Active(task.job) \/ RequestsOf(On(task.job)) \subseteq owed["fetch"]
AllReported == \A r \in Request : Reported(r)

SInv == Served /\ Tended /\ Undelivered /\ CarryingOwes /\ FailingOwes /\ AllReported

LEMMA InitSInv == Init => SInv
<1> SUFFICES ASSUME Init PROVE SInv
  OBVIOUS
<1>1. Served /\ Tended /\ Undelivered /\ CarryingOwes /\ FailingOwes
  BY DEF Init, Served, Tended, Undelivered, CarryingOwes, FailingOwes, Open, Active, NoTask
<1>2. AllReported
  BY DEF Init, AllReported, Reported
<1> QED BY <1>1, <1>2 DEF SInv

\* A request stays reported when it is owed, has just been aggregated, has an
\* item on an active job, or nothing about it changes.
Told(r) ==
  \/ \E l \in Loop : r \in owed'[l]
  \/ request'[r] = Summary(item'[r])
  \/ (\E f \in Feed : item[r][f].job # None /\ Active(item[r][f].job))'
  \/ /\ request'[r] = request[r] /\ item'[r] = item[r]
     /\ \A l \in Loop : r \in owed[l] => r \in owed'[l]
     /\ \A f \in Feed : item[r][f].job # None /\ Active(item[r][f].job)
                          => (Active(item[r][f].job))'

LEMMA ToldReported ==
  ASSUME AllReported, \A r \in Request : Told(r)
  PROVE  AllReported'
<1> SUFFICES ASSUME NEW r \in Request PROVE Reported(r)'
  BY DEF AllReported
<1>1. CASE \E l \in Loop : r \in owed'[l]
  BY <1>1 DEF Reported
<1>2. CASE request'[r] = Summary(item'[r])
  BY <1>2 DEF Reported, Summary
<1>3. CASE (\E f \in Feed : item[r][f].job # None /\ Active(item[r][f].job))'
  BY <1>3 DEF Reported
<1>4. CASE /\ request'[r] = request[r] /\ item'[r] = item[r]
           /\ \A l \in Loop : r \in owed[l] => r \in owed'[l]
           /\ \A f \in Feed : item[r][f].job # None /\ Active(item[r][f].job)
                                => (Active(item[r][f].job))'
  <2>1. CASE request[r] = Summary(item[r])
    BY <1>2, <1>4, <2>1
  <2>2. CASE request[r] # Summary(item[r])
    BY <1>4, <2>2 DEF AllReported, Reported, Active
  <2> QED BY <2>1, <2>2
<1> QED BY <1>1, <1>2, <1>3, <1>4 DEF Told

\* A job ends: its items are settled, wait for open deliveries, or stay with the
\* job that is queued again; their requests are owed.
Closes(j, status) ==
  /\ job[j].status = "running" /\ job' = [job EXCEPT ![j].status = status]
  /\ \A r \in Request, f \in Feed :
       /\ item'[r][f].job = item[r][f].job
       /\ item[r][f].job # j => item'[r][f] = item[r][f]
       /\ item[r][f].job = j /\ item'[r][f].status \in Open =>
            status = "queued" \/ delivery[j][f].status \in Open
  /\ status = "queued" => job[j].snap = "none"
  /\ owed["fetch"] = {} /\ Owe("fetch", RequestsOf(On(j)))
  /\ UNCHANGED <<delivery, request, carrying>>
  /\ task.step # "failing"
  /\ task'.step = "idle" \/ (task'.step = "failing" /\ task'.job = j /\ Early(j))

LEMMA Closing ==
  ASSUME IInv, SInv, NEW j \in Job, NEW status \in {"queued", "completed", "dead"},
         Closes(j, status), item' \in Items
  PROVE  SInv'
<1>1. /\ job'[j].status = status /\ \A k \in Job : job'[k].snap = job[k].snap
      /\ \A k \in Job \ {j} : job'[k] = job[k]
  BY StatusSet DEF IInv, Closes
<1>2. Active(j) /\ \A k \in Job : Active(k) => k = j
  BY DEF Closes, Active, IInv, TypeOK
<1>3. Active(j)' <=> status = "queued"
  BY <1>1 DEF Active
<1>4. \A k \in Job : Active(k)' => k = j
  BY <1>1, <1>2 DEF Active
<1>5. owed'["fetch"] = RequestsOf(On(j)) /\ owed'["deliver"] = owed["deliver"]
      /\ \A l \in Loop : owed[l] \subseteq owed'[l]
  BY DEF Closes, Owe, IInv, TypeOK, Loop
<1>6. Served'
  <2> SUFFICES ASSUME NEW r \in Request, NEW f \in Feed, item'[r][f].status \in Open
               PROVE  ServedItem(r, f)'
    BY DEF Served, Open
  <2>1. CASE item[r][f].job = j
    BY <1>3, <2>1, Parameters DEF Closes, ServedItem, Open, Active
  <2>2. CASE item[r][f].job # j
    <3>1. item'[r][f] = item[r][f] /\ ServedItem(r, f)
      BY <2>2 DEF Closes, SInv, Served
    <3>2. item[r][f].job \in Job /\ ~Active(item[r][f].job)
      BY <1>2, <2>2, <3>1 DEF ServedItem, IInv, TypeOK
    <3>3. delivery[item[r][f].job][f].status \in Open
      BY <3>1, <3>2 DEF ServedItem, Closes
    <3> QED BY <3>1, <3>3 DEF ServedItem, Closes, Open
  <2> QED BY <2>1, <2>2
<1>7. Tended'
  BY <1>1, <1>3, <1>4 DEF Tended, Closes
<1>8. Undelivered' /\ CarryingOwes'
  BY <1>5 DEF Undelivered, CarryingOwes, Closes, SInv
<1>9. FailingOwes'
  <2> SUFFICES ASSUME task'.step = "failing"
               PROVE  (/\ task.job \in Job /\ Early(task.job) /\ job[task.job].status # "absent"
                       /\ RequestsOf(On(task.job)) \subseteq owed["fetch"])'
    BY DEF FailingOwes
  <2>1. task'.job = j /\ Early(j)'
    BY <1>1 DEF Closes, Early
  <2>2. \A r \in Request, f \in Feed : item'[r][f].job = item[r][f].job
    BY DEF Closes
  <2>3. RequestsOf(On(j))' \subseteq RequestsOf(On(j))
    BY <2>2 DEF RequestsOf, On, Pairs
  <2>4. (RequestsOf(On(task.job)))' = RequestsOf(On(j))' /\ (Early(task.job))' = Early(j)'
    BY <2>1 DEF RequestsOf, On, Early
  <2> QED BY <1>1, <1>5, <2>1, <2>3, <2>4
<1>10. AllReported'
  <2> SUFFICES ASSUME NEW r \in Request PROVE Told(r)
    BY ToldReported DEF SInv
  <2>1. CASE \E f \in Feed : item[r][f].job = j
    <3>0. PICK f \in Feed : <<r, f>> \in On(j)
      BY <2>1, OnPairs
    <3>1. r \in RequestsOf(On(j))
      BY <3>0 DEF RequestsOf
    <3> QED BY <1>5, <3>1 DEF Told, Loop
  <2>2. CASE \A f \in Feed : item[r][f].job # j
    <3>1. \A f \in Feed : item'[r][f] = item[r][f]
      BY <2>2 DEF Closes
    <3>2. item'[r] = item[r]
      BY <3>1, ItemsTyped DEF Items
    <3>3. \A f \in Feed : ~(item[r][f].job # None /\ Active(item[r][f].job))
      BY <1>2, <2>2 DEF IInv, TypeOK
    <3> QED BY <1>5, <3>2, <3>3 DEF Told, Closes
  <2> QED BY <2>1, <2>2
<1> QED BY <1>6, <1>7, <1>8, <1>9, <1>10 DEF SInv

\* The ways in which a job ends.
LEMMA MarkedCloses ==
  ASSUME IInv, NEW j \in Job, NEW status \in Ended, item' = Marked(On(j), status)
  PROVE  /\ item' \in Items
         /\ \A r \in Request, f \in Feed :
              /\ item'[r][f].job = item[r][f].job
              /\ item[r][f].job # j => item'[r][f] = item[r][f]
              /\ item[r][f].job = j => item'[r][f].status \notin Open
<1>1. \A r \in Request, f \in Feed : <<r, f>> \in On(j) <=> item[r][f].job = j
  BY OnPairs
<1>2. \A r \in Request, f \in Feed : item[r][f].job # j => item'[r][f] = item[r][f]
  BY <1>1 DEF Marked
<1>3. status \notin Open /\ status \in Open \cup Ended
  BY DEF Open, Ended
<1>4. /\ Marked(On(j), status) \in Items
      /\ \A r \in Request, f \in Feed :
           /\ Marked(On(j), status)[r][f].job = item[r][f].job
           /\ Marked(On(j), status)[r][f].status =
                IF item[r][f].job = j THEN status ELSE item[r][f].status
  BY <1>3, MarkedOn DEF IInv
<1> QED BY <1>2, <1>3, <1>4

LEMMA RetriedCloses ==
  ASSUME IInv, NEW j \in Job, item' = RetriedItems(j)
  PROVE  /\ item' \in Items /\ Retried(j) \in {"queued", "completed", "dead"}
         /\ \A r \in Request, f \in Feed :
              /\ item'[r][f].job = item[r][f].job
              /\ item[r][f].job # j => item'[r][f] = item[r][f]
              /\ item[r][f].job = j /\ item'[r][f].status \in Open => Retried(j) = "queued"
<1>1. CASE Retried(j) = "dead"
  <2>1. item' = Marked(On(j), "dead") /\ "dead" \in Ended
    BY <1>1 DEF RetriedItems, Ended
  <2> QED BY <1>1, <2>1, MarkedCloses
<1>2. CASE Retried(j) # "dead"
  BY <1>2, ItemsTyped DEF RetriedItems, Retried
<1> QED BY <1>1, <1>2

LEMMA ExhaustFetchJobTells ==
  ASSUME IInv, SInv, NEW j \in Job, ExhaustFetchJob(j)
  PROVE  SInv'
<1>1. "dead" \in Ended /\ item' = Marked(On(j), "dead")
  BY DEF Ended, ExhaustFetchJob
<1>2. /\ item' \in Items
      /\ \A r \in Request, f \in Feed :
           /\ item'[r][f].job = item[r][f].job
           /\ item[r][f].job # j => item'[r][f] = item[r][f]
           /\ item[r][f].job = j => item'[r][f].status \notin Open
  BY <1>1, MarkedCloses
<1>3. Closes(j, "dead")
  BY <1>2 DEF ExhaustFetchJob, Lost, At, Closes
<1> QED BY <1>2, <1>3, Closing

LEMMA CompleteParsedTells ==
  ASSUME IInv, SInv, NEW j \in Job, CompleteParsed(j)
  PROVE  SInv'
<1>1. /\ At(j, "parsed") /\ Ends(j, "completed", Finished(j))
      /\ job[j].status = "running"
  BY DEF CompleteParsed, At, IInv, Working
<1>2. item' = Finished(j)
  BY <1>1 DEF Ends
<1>3. \A r \in Request, f \in Feed :
        item[r][f] \in [status : {"absent"} \cup Open \cup Ended, job : Job \cup {None}]
  BY ItemsTyped DEF Items
<1>4. \A f \in Feed : delivery[j][f].status # "absent" => delivery[j][f].status \in Open
  BY <1>1 DEF At, SInv, Undelivered
<1>5. ASSUME NEW r \in Request, NEW f \in Feed
      PROVE  /\ item'[r][f] \in [status : {"absent"} \cup Open \cup Ended, job : Job \cup {None}]
             /\ item'[r][f].job = item[r][f].job
             /\ item[r][f].job # j => item'[r][f] = item[r][f]
             /\ item[r][f].job = j /\ item'[r][f].status \in Open => delivery[j][f].status \in Open
  <2>1. CASE item[r][f].job # j
    BY <1>2, <1>3, <2>1 DEF Finished
  <2>2. CASE item[r][f].job = j
    <3>1. item'[r][f] = [item[r][f] EXCEPT !.status =
                           IF delivery[j][f].status = "absent" THEN "completed" ELSE "running"]
      BY <1>2, <2>2 DEF Finished
    <3> QED BY <1>3, <1>4, <2>2, <3>1 DEF Open, Ended
  <2> QED BY <2>1, <2>2
<1>6. item' \in Items
  BY <1>2, <1>5 DEF Finished, Items
<1>7. Closes(j, "completed")
  BY <1>1, <1>5 DEF Ends, At, Closes, NoTask
<1> QED BY <1>6, <1>7, Closing

LEMMA NotModifiedTells ==
  ASSUME IInv, SInv, NEW j \in Job, NotModified(j)
  PROVE  SInv'
<1>1. /\ At(j, "fetching") /\ Ends(j, "completed", Marked(On(j), "completed"))
      /\ job[j].status = "running" /\ "completed" \in Ended
  BY DEF NotModified, At, IInv, Working, Ended
<1>2. item' = Marked(On(j), "completed")
  BY <1>1 DEF Ends
<1>3. /\ item' \in Items
      /\ \A r \in Request, f \in Feed :
           /\ item'[r][f].job = item[r][f].job
           /\ item[r][f].job # j => item'[r][f] = item[r][f]
           /\ item[r][f].job = j => item'[r][f].status \notin Open
  BY <1>1, <1>2, MarkedCloses
<1>4. Closes(j, "completed")
  BY <1>1, <1>3 DEF Ends, At, Closes, NoTask
<1> QED BY <1>3, <1>4, Closing

LEMMA FailingTells ==
  ASSUME IInv, SInv, NEW j \in Job, NEW status \in {"queued", "completed", "dead"},
         NEW items, NEW active, Failing(j, status, items, active),
         task.job = j, job[j].status = "running", task.step \in {"fetching", "parsing"},
         owed["fetch"] = {}, Early(j), status = "queued" => job[j].snap = "none",
         item' \in Items,
         \A r \in Request, f \in Feed :
           /\ item'[r][f].job = item[r][f].job
           /\ item[r][f].job # j => item'[r][f] = item[r][f]
           /\ item[r][f].job = j /\ item'[r][f].status \in Open => status = "queued"
  PROVE  SInv'
<1>1. task'.step = "failing" /\ task'.job = j
  BY DEF Failing, IInv, TypeOK
<1>2. Closes(j, status)
  BY <1>1 DEF Failing, Closes
<1> QED BY <1>2, Closing

LEMMA PublisherFailureTells ==
  ASSUME IInv, SInv, NEW j \in Job, PublisherFailure(j)
  PROVE  SInv'
<1>1. /\ task.job = j /\ task.step = "fetching" /\ owed["fetch"] = {}
      /\ job[j].status = "running" /\ job[j].snap = "none"
  BY DEF PublisherFailure, At, IInv, Working
<1>2. PICK active \in BOOLEAN : Failing(j, Retried(j), RetriedItems(j), active)
  BY DEF PublisherFailure
<1>3. item' = RetriedItems(j)
  BY <1>2 DEF Failing
<1>4. /\ item' \in Items /\ Retried(j) \in {"queued", "completed", "dead"}
      /\ \A r \in Request, f \in Feed :
           /\ item'[r][f].job = item[r][f].job
           /\ item[r][f].job # j => item'[r][f] = item[r][f]
           /\ item[r][f].job = j /\ item'[r][f].status \in Open => Retried(j) = "queued"
  BY <1>3, RetriedCloses
<1> QED BY <1>1, <1>2, <1>4, FailingTells DEF Early

LEMMA EndedFailingTells ==
  ASSUME IInv, SInv, NEW j \in Job, NEW status \in {"completed", "dead"}, NEW active,
         Failing(j, status, Marked(On(j), status), active), owed["fetch"] = {},
         task.job = j, task.step = "fetching" \/ (task.step = "parsing" /\ job[j].snap = "raw")
  PROVE  SInv'
<1>1. Early(j) /\ job[j].status = "running" /\ status \in Ended
  BY DEF IInv, Working, Early, Ended
<1>2. item' = Marked(On(j), status)
  BY DEF Failing
<1>3. /\ item' \in Items
      /\ \A r \in Request, f \in Feed :
           /\ item'[r][f].job = item[r][f].job
           /\ item[r][f].job # j => item'[r][f] = item[r][f]
           /\ item[r][f].job = j => item'[r][f].status \notin Open
  BY <1>1, <1>2, MarkedCloses
<1> QED BY <1>1, <1>3, FailingTells

LEMMA RejectBodyTells ==
  ASSUME IInv, SInv, NEW j \in Job, RejectBody(j)
  PROVE  SInv'
<1>1. PICK status \in {"completed", "dead"}, active \in BOOLEAN :
        Failing(j, status, Marked(On(j), status), active)
  BY DEF RejectBody
<1>2. /\ owed["fetch"] = {} /\ task.job = j
      /\ task.step = "fetching" \/ (task.step = "parsing" /\ job[j].snap = "raw")
  BY DEF RejectBody, At
<1> QED BY <1>1, <1>2, EndedFailingTells

LEMMA DiscoverTells ==
  ASSUME IInv, SInv, NEW j \in Job, Discover(j)
  PROVE  SInv'
BY EndedFailingTells DEF Discover, At

LEMMA ClaimFetchJobTells ==
  ASSUME IInv, SInv, NEW j \in Job, ClaimFetchJob(j)
  PROVE  SInv'
<1>1. /\ job' = [job EXCEPT ![j].status = "running", ![j].attempts = @ + 1]
      /\ job[j].status \in {"queued", "running"}
      /\ task.job = None /\ task.step = "idle" /\ task'.job = j
      /\ task'.step = CASE job[j].snap = "none" -> "fetching"
                        [] job[j].snap = "raw" -> "parsing"
                        [] OTHER -> "parsed"
      /\ UNCHANGED <<source, feed, delivery, item, request, carrying, owed, faults>>
  BY DEF ClaimFetchJob, Lost, At
<1>2. \A k \in Job : /\ job'[k].snap = job[k].snap
                     /\ Active(k)' <=> Active(k)
  BY <1>1 DEF Active, IInv, TypeOK
<1>3. \A k \in Job : Active(k) => job[k].snap = "none"
  BY <1>1, Parameters DEF SInv, Tended
<1>4. task'.step = "fetching"
  BY <1>1, <1>3 DEF Active
<1>5. Served'
  <2> SUFFICES ASSUME NEW r \in Request, NEW f \in Feed, item[r][f].status \in Open
               PROVE  ServedItem(r, f)'
    BY <1>1 DEF Served
  <2>1. ServedItem(r, f) /\ item[r][f].job \in Job
    BY DEF SInv, Served, ServedItem, IInv, TypeOK
  <2> QED BY <1>1, <1>2, <2>1 DEF ServedItem
<1>6. Tended' /\ Undelivered' /\ CarryingOwes' /\ FailingOwes'
  BY <1>1, <1>2, <1>3, <1>4 DEF Tended, Undelivered, CarryingOwes, FailingOwes, SInv
<1>7. AllReported'
  <2> SUFFICES ASSUME NEW r \in Request PROVE Told(r)
    BY ToldReported DEF SInv
  <2>1. \A f \in Feed : item[r][f].job # None => item[r][f].job \in Job
    BY DEF IInv, TypeOK
  <2> QED BY <1>1, <1>2, <2>1 DEF Told
<1> QED BY <1>5, <1>6, <1>7 DEF SInv

\* Steps that leave items, requests and the active jobs as they were.
LEMMA TellsSame ==
  ASSUME IInv, SInv, Tended', Undelivered', CarryingOwes', FailingOwes',
         UNCHANGED <<item, request>>,
         \A k \in Job : Active(k) => Active(k)',
         \A k \in Job, f \in Feed :
           delivery[k][f].status \in Open => delivery'[k][f].status \in Open,
         \A l \in Loop : owed[l] \subseteq owed'[l],
         task.step # "failing" \/ UNCHANGED task
  PROVE  SInv'
<1>1. Served'
  <2> SUFFICES ASSUME NEW r \in Request, NEW f \in Feed, item[r][f].status \in Open
               PROVE  ServedItem(r, f)'
    BY DEF Served
  <2>1. ServedItem(r, f) /\ item[r][f].job \in Job
    BY DEF SInv, Served, ServedItem, IInv, TypeOK
  <2> QED BY <2>1 DEF ServedItem
<1>2. AllReported'
  <2> SUFFICES ASSUME NEW r \in Request PROVE Told(r)
    BY ToldReported DEF SInv
  <2>1. \A f \in Feed : item[r][f].job # None => item[r][f].job \in Job
    BY DEF IInv, TypeOK
  <2> QED BY <2>1 DEF Told
<1> QED BY <1>1, <1>2 DEF SInv

LEMMA ReceiveBodyTells ==
  ASSUME IInv, SInv, NEW j \in Job, ReceiveBody(j)
  PROVE  SInv'
<1>1. /\ job' = [job EXCEPT ![j].snap = "raw"] /\ job[j].status = "running"
      /\ task.job = j /\ task.step = "fetching" /\ task'.job = j /\ task'.step = "parsing"
      /\ UNCHANGED <<source, feed, delivery, item, request, carrying, owed, faults>>
  BY DEF ReceiveBody, At, IInv, Working, TypeOK
<1>2. \A k \in Job : job'[k].status = job[k].status
  BY <1>1 DEF IInv, TypeOK
<1>3. \A k \in Job : (Active(k)' <=> Active(k)) /\ (Active(k) => k = j)
  BY <1>1, <1>2 DEF Active, IInv, TypeOK
<1>4. Tended' /\ Undelivered' /\ CarryingOwes' /\ FailingOwes'
  BY <1>1, <1>3 DEF Tended, Undelivered, CarryingOwes, FailingOwes, SInv
<1> QED BY <1>1, <1>3, <1>4, TellsSame

LEMMA ParseOkTells ==
  ASSUME IInv, SInv, NEW j \in Job, ParseOk(j)
  PROVE  SInv'
<1>1. /\ job' = [job EXCEPT ![j].snap = "parsed"] /\ job[j].status = "running"
      /\ job[j].snap = "raw"
      /\ task.job = j /\ task.step = "parsing" /\ task'.job = j /\ task'.step = "parsed"
      /\ delivery' = [delivery EXCEPT ![j] = [f \in Feed |->
                    IF feed[f] # "absent" /\ @[f].status = "absent"
                    THEN [@[f] EXCEPT !.status = "pending"] ELSE @[f]]]
      /\ UNCHANGED <<item, request, carrying, owed, faults>>
  BY DEF ParseOk, At, IInv, Working, TypeOK
<1>2. \A k \in Job : job'[k].status = job[k].status
  BY <1>1 DEF IInv, TypeOK
<1>3. \A k \in Job : (Active(k)' <=> Active(k)) /\ (Active(k) => k = j)
  BY <1>1, <1>2 DEF Active, IInv, TypeOK
<1>4. \A f \in Feed : delivery[j][f].status = "absent"
  BY <1>1 DEF IInv, Bare, Early
<1>5. \A f \in Feed : delivery'[j][f].status \in {"absent", "pending"}
  <2> SUFFICES ASSUME NEW f \in Feed PROVE delivery'[j][f].status \in {"absent", "pending"}
    OBVIOUS
  <2>1. \/ delivery'[j][f] = delivery[j][f]
        \/ delivery'[j][f] = [delivery[j][f] EXCEPT !.status = "pending"]
    BY <1>1, DeliveriesTyped DEF Deliveries
  <2> QED BY <1>4, <2>1, DeliveriesTyped DEF Deliveries
<1>6. \A k \in Job \ {j} : delivery'[k] = delivery[k]
  BY <1>1, DeliveriesTyped DEF Deliveries
<1>7. Tended' /\ CarryingOwes' /\ FailingOwes'
  BY <1>1, <1>3 DEF Tended, CarryingOwes, FailingOwes, SInv
<1>8. Undelivered'
  BY <1>1, <1>5 DEF Undelivered, Open
<1>9. \A k \in Job, f \in Feed : delivery[k][f].status \in Open => delivery'[k][f].status \in Open
  BY <1>4, <1>6 DEF Open
<1> QED BY <1>1, <1>3, <1>7, <1>8, <1>9, TellsSame

LEMMA FailItemsTells ==
  ASSUME IInv, SInv, FailItems
  PROVE  SInv'
<1> DEFINE j == task.job
<1>1. /\ task.step = "failing" /\ item' = Marked(On(j), "failed") /\ task' = NoTask
      /\ UNCHANGED <<job, source, feed, delivery, request, carrying, owed, faults>>
      /\ j \in Job /\ Early(j)
      /\ Active(j) \/ RequestsOf(On(j)) \subseteq owed["fetch"]
  BY DEF FailItems, SInv, FailingOwes
<1>2. "failed" \in Ended
  BY DEF Ended
<1>3. \A r \in Request, f \in Feed :
        /\ item'[r][f].job = item[r][f].job
        /\ item[r][f].job # j => item'[r][f] = item[r][f]
        /\ item[r][f].job = j => item'[r][f].status \notin Open
  BY <1>1, <1>2, MarkedCloses
<1>4. task'.step = "idle"
  BY <1>1 DEF NoTask
<1>5. \A k \in Job : Active(k)' <=> Active(k)
  BY <1>1 DEF Active
<1>6. Served'
  <2> SUFFICES ASSUME NEW r \in Request, NEW f \in Feed, item'[r][f].status \in Open
               PROVE  ServedItem(r, f)'
    BY DEF Served, Open
  <2>1. item[r][f].job # j /\ item'[r][f] = item[r][f]
    BY <1>3
  <2>2. ServedItem(r, f) /\ item[r][f].job \in Job
    BY <2>1 DEF SInv, Served, ServedItem, IInv, TypeOK
  <2> QED BY <1>1, <1>5, <2>1, <2>2 DEF ServedItem, Open
<1>7. Tended' /\ Undelivered' /\ CarryingOwes' /\ FailingOwes'
  BY <1>1, <1>4, <1>5 DEF Tended, Undelivered, CarryingOwes, FailingOwes, SInv
<1>8. AllReported'
  <2> SUFFICES ASSUME NEW r \in Request PROVE Told(r)
    BY ToldReported DEF SInv
  <2>1. ASSUME NEW f \in Feed, item[r][f].job = j
        PROVE  Told(r)
    <3>1. CASE Active(j)
      <4>1. (item[r][f].job # None /\ Active(item[r][f].job))'
        BY <1>1, <1>3, <1>5, <2>1, <3>1, Parameters DEF Active
      <4> QED BY <4>1 DEF Told
    <3>2. CASE RequestsOf(On(j)) \subseteq owed["fetch"]
      <4>1. <<r, f>> \in On(j)
        BY <2>1, OnPairs
      <4>2. r \in owed'["fetch"]
        BY <1>1, <3>2, <4>1 DEF RequestsOf
      <4> QED BY <4>2 DEF Told, Loop
    <3> QED BY <1>1, <3>1, <3>2
  <2>2. CASE \A f \in Feed : item[r][f].job # j
    <3>1. \A f \in Feed : item'[r][f] = item[r][f]
      BY <1>3, <2>2
    <3>2. item'[r] = item[r]
      BY <1>1, <1>2, <3>1, MarkedCloses, ItemsTyped DEF Items
    <3>3. \A f \in Feed : item[r][f].job # None => item[r][f].job \in Job
      BY DEF IInv, TypeOK
    <3> QED BY <1>1, <1>5, <3>2, <3>3 DEF Told
  <2> QED BY <2>1, <2>2
<1> QED BY <1>6, <1>7, <1>8 DEF SInv

LEMMA AggregateTells ==
  ASSUME IInv, SInv, NEW l \in Loop, NEW r \in Request, Aggregate(l, r)
  PROVE  SInv'
<1>1. /\ request' = [request EXCEPT ![r] = Summary(item[r])]
      /\ owed' = [owed EXCEPT ![l] = @ \ {r}]
      /\ UNCHANGED <<job, source, feed, delivery, item, task, carrying, faults>>
      /\ l = "fetch" => task.step # "failing"
      /\ owed[l] # {}
  BY DEF Aggregate
<1>2. Served' /\ Tended' /\ Undelivered'
  BY <1>1 DEF SInv, Served, ServedItem, Tended, Undelivered, Active
<1>3. CarryingOwes' /\ FailingOwes'
  BY <1>1 DEF SInv, CarryingOwes, FailingOwes, IInv, TypeOK, Active, Early, On, RequestsOf, Loop
<1>4. AllReported'
  <2> SUFFICES ASSUME NEW q \in Request PROVE Told(q)
    BY ToldReported DEF SInv
  <2>1. CASE q = r
    BY <1>1, <2>1 DEF Told, IInv, TypeOK
  <2>2. CASE q # r
    BY <1>1, <2>2 DEF Told, IInv, TypeOK, Active
  <2> QED BY <2>1, <2>2
<1> QED BY <1>2, <1>3, <1>4 DEF SInv

LEMMA ClaimDeliveryTells ==
  ASSUME IInv, SInv, NEW j \in Job, NEW f \in Feed, ClaimDelivery(j, f)
  PROVE  SInv'
<1>1. /\ delivery' = [delivery EXCEPT ![j][f].status = "running", ![j][f].attempts = @ + 1]
      /\ owed["deliver"] = {} /\ task.step # "parsed"
      /\ UNCHANGED <<job, source, feed, item, request, task, owed, faults>>
  BY DEF ClaimDelivery, Ready, Turn, MidRun, Loop
<1>2. \A k \in Job, g \in Feed : delivery[k][g].status \in Open => delivery'[k][g].status \in Open
  <2> SUFFICES ASSUME NEW k \in Job, NEW g \in Feed, delivery[k][g].status \in Open
               PROVE  delivery'[k][g].status \in Open
    OBVIOUS
  <2>1. CASE k = j /\ g = f
    BY <1>1, <2>1, DeliveriesTyped DEF Deliveries, Open
  <2>2. CASE k # j \/ g # f
    BY <1>1, <2>2, DeliveriesTyped DEF Deliveries
  <2> QED BY <2>1, <2>2
<1>3. \A k \in Job : Active(k)' <=> Active(k)
  BY <1>1 DEF Active
<1>4. Tended' /\ Undelivered' /\ CarryingOwes' /\ FailingOwes'
  BY <1>1, <1>3 DEF Tended, Undelivered, CarryingOwes, FailingOwes, SInv, Active, Early, On,
                    RequestsOf
<1> QED BY <1>1, <1>2, <1>3, <1>4, TellsSame

\* Items that are settled, by a loop that then owes their requests.
SettlesItems(l, pairs) ==
  /\ pairs \in SUBSET Pairs /\ item' \in Items
  /\ \A r \in Request, f \in Feed : IF <<r, f>> \in pairs THEN item'[r][f].status \notin Open
                                    ELSE item'[r][f] = item[r][f]
  /\ owed[l] = {} /\ RequestsOf(pairs) \subseteq owed'[l]
  /\ \A k \in Loop \ {l} : owed'[k] = owed[k]
  /\ task.step \notin {"parsed", "failing"}
  /\ \A r \in Request, f \in Feed :
       /\ <<r, f>> \notin pairs /\ item[r][f].job # None
       /\ delivery[item[r][f].job][f].status \in Open
       => delivery'[item[r][f].job][f].status \in Open
  /\ UNCHANGED <<job, request, task>>

LEMMA Settling ==
  ASSUME IInv, SInv, CarryingOwes', NEW l \in Loop, NEW pairs, SettlesItems(l, pairs)
  PROVE  SInv'
<1> USE DEF SettlesItems
<1>1. \A k \in Job : Active(k)' <=> Active(k)
  BY DEF Active
<1>2. Served'
  <2> SUFFICES ASSUME NEW r \in Request, NEW f \in Feed, item'[r][f].status \in Open
               PROVE  ServedItem(r, f)'
    BY DEF Served, Open
  <2>1. <<r, f>> \notin pairs /\ item'[r][f] = item[r][f]
    BY DEF Open
  <2>2. ServedItem(r, f) /\ item[r][f].job \in Job
    BY <2>1 DEF SInv, Served, ServedItem, IInv, TypeOK, Open
  <2> QED BY <1>1, <2>1, <2>2 DEF ServedItem, Open
<1>3. Tended' /\ Undelivered' /\ FailingOwes'
  BY <1>1 DEF Tended, Undelivered, FailingOwes, SInv
<1>4. AllReported'
  <2> SUFFICES ASSUME NEW r \in Request PROVE Told(r)
    BY ToldReported DEF SInv
  <2>1. CASE \E f \in Feed : <<r, f>> \in pairs
    BY <2>1 DEF RequestsOf, Told
  <2>2. CASE \A f \in Feed : <<r, f>> \notin pairs
    <3>0. \A f \in Feed : item'[r][f] = item[r][f]
      BY <2>2
    <3>1. item'[r] = item[r]
      <4>1. item' \in Items /\ item \in Items
        BY ItemsTyped
      <4> HIDE DEF SettlesItems
      <4> QED BY <3>0, <4>1 DEF Items
    <3>2. \A f \in Feed : item[r][f].job # None => item[r][f].job \in Job
      BY DEF IInv, TypeOK
    <3> QED BY <1>1, <3>1, <3>2 DEF Told
  <2> QED BY <2>1, <2>2
<1> QED BY <1>2, <1>3, <1>4 DEF SInv

LEMMA SettleTells ==
  ASSUME IInv, SInv, NEW j \in Job, NEW f \in Feed, NEW status \in {"completed", "dead"},
         Turn("deliver"), owed["deliver"] = {}, Settle(j, f, status)
  PROVE  SInv'
<1> DEFINE pairs == OnDelivery(j, f)
<1>1. /\ delivery' = [delivery EXCEPT ![j][f].status = status]
      /\ item' = Marked(pairs, status) /\ Owe("deliver", RequestsOf(pairs))
      /\ carrying' = None
      /\ UNCHANGED <<job, source, feed, request, task, faults>>
  BY DEF Settle
<1>2. /\ pairs \in SUBSET Pairs /\ RequestsOf(pairs) \in SUBSET Request
      /\ \A r \in Request, g \in Feed : <<r, g>> \in pairs <=> item[r][g].job = j /\ g = f
  BY OnDeliveryPairs
<1> HIDE DEF pairs
<1>3. TypeOK /\ status \in Open \cup Ended /\ status \notin Open
  BY DEF IInv, Ended, Open
<1>4. /\ Marked(pairs, status) \in Items
      /\ \A r \in Request, g \in Feed :
           /\ Marked(pairs, status)[r][g].job = item[r][g].job
           /\ Marked(pairs, status)[r][g].status =
                IF <<r, g>> \in pairs THEN status ELSE item[r][g].status
  BY <1>2, <1>3, MarkedItems
<1>5. \A r \in Request, g \in Feed : IF <<r, g>> \in pairs THEN item'[r][g].status \notin Open
                                     ELSE item'[r][g] = item[r][g]
  BY <1>1, <1>3, <1>4 DEF Marked
<1>6. \A r \in Request, g \in Feed : <<r, g>> \notin pairs /\ item[r][g].job # None =>
        delivery'[item[r][g].job][g] = delivery[item[r][g].job][g]
  BY <1>1, <1>2, DeliveriesTyped DEF Deliveries
<1>7. /\ owed'["deliver"] = RequestsOf(pairs)
      /\ \A k \in Loop \ {"deliver"} : owed'[k] = owed[k]
  BY <1>1, <1>3 DEF Owe, TypeOK, Loop
<1>8. task.step \notin {"parsed", "failing"} /\ "deliver" \in Loop
  BY DEF Turn, MidRun, Loop
<1>9. SettlesItems("deliver", pairs)
  BY <1>1, <1>2, <1>4, <1>5, <1>6, <1>7, <1>8 DEF SettlesItems
<1>10. CarryingOwes'
  BY <1>1 DEF CarryingOwes
<1> QED BY <1>8, <1>9, <1>10, Settling

LEMMA DeliveryFailsTells ==
  ASSUME IInv, SInv, NEW j \in Job, NEW f \in Feed, DeliveryFails(j, f)
  PROVE  SInv'
<1>1. Turn("deliver") /\ owed["deliver"] = {}
  BY Parameters DEF DeliveryFails, SInv, CarryingOwes
<1>2. CASE delivery[j][f].attempts >= MaxDeliveryAttempts
  BY <1>1, <1>2, SettleTells DEF DeliveryFails
<1>3. CASE ~(delivery[j][f].attempts >= MaxDeliveryAttempts)
  <2>1. /\ delivery' = [delivery EXCEPT ![j][f].status = "pending"] /\ carrying' = None
        /\ UNCHANGED <<job, source, feed, item, request, task, owed, faults>>
    BY <1>3 DEF DeliveryFails
  <2>2. \A k \in Job, g \in Feed : delivery[k][g].status \in Open
                                     => delivery'[k][g].status \in Open
    <3> SUFFICES ASSUME NEW k \in Job, NEW g \in Feed, delivery[k][g].status \in Open
                 PROVE  delivery'[k][g].status \in Open
      OBVIOUS
    <3>1. CASE k = j /\ g = f
      BY <2>1, <3>1, DeliveriesTyped DEF Deliveries, Open
    <3>2. CASE k # j \/ g # f
      BY <2>1, <3>2, DeliveriesTyped DEF Deliveries
    <3> QED BY <3>1, <3>2
  <2>3. \A k \in Job : Active(k)' <=> Active(k)
    BY <2>1 DEF Active
  <2>4. task.step \notin {"parsed", "failing"}
    BY <1>1 DEF Turn, MidRun, Loop
  <2>5. Tended' /\ Undelivered' /\ CarryingOwes' /\ FailingOwes'
    BY <2>1, <2>3, <2>4 DEF Tended, Undelivered, CarryingOwes, FailingOwes, SInv
  <2> QED BY <2>1, <2>2, <2>3, <2>5, TellsSame
<1> QED BY <1>2, <1>3

LEMMA ExpireManualTells ==
  ASSUME IInv, SInv, NEW requests \in SUBSET Manual, ExpireManual(requests)
  PROVE  SInv'
<1> DEFINE pairs == {p \in Pairs : p[1] \in requests /\ item[p[1]][p[2]].status \in Open}
<1>1. /\ item' = [r \in Request |-> [f \in Feed |->
                   IF r \in requests /\ item[r][f].status \in Open
                   THEN [status |-> "completed", job |-> None] ELSE item[r][f]]]
      /\ Owe("schedule", requests) /\ owed["schedule"] = {} /\ Turn("schedule")
      /\ UNCHANGED <<job, source, feed, delivery, request, task, carrying, faults>>
  BY DEF ExpireManual
<1>2. /\ pairs \in SUBSET Pairs /\ RequestsOf(pairs) \subseteq requests
      /\ \A r \in Request, f \in Feed :
           <<r, f>> \in pairs <=> r \in requests /\ item[r][f].status \in Open
  BY DEF Pairs, RequestsOf
<1> HIDE DEF pairs
<1>3. \A r \in Request, f \in Feed : IF <<r, f>> \in pairs THEN item'[r][f].status \notin Open
                                     ELSE item'[r][f] = item[r][f]
  BY <1>1, <1>2 DEF Open
<1>4. item' \in Items
  <2>1. \A r \in Request, f \in Feed : item'[r][f] \in [status : {"absent"} \cup Open \cup Ended,
                                                        job : Job \cup {None}]
    BY <1>1, ItemsTyped DEF Items, Ended
  <2> QED BY <1>1, <2>1 DEF Items
<1>5. /\ owed'["schedule"] = requests
      /\ \A k \in Loop \ {"schedule"} : owed'[k] = owed[k]
  BY <1>1 DEF Owe, IInv, TypeOK, Loop
<1>6. task.step \notin {"parsed", "failing"} /\ "schedule" \in Loop /\ "deliver" \in Loop
  BY <1>1 DEF Turn, MidRun, Loop
<1>7. SettlesItems("schedule", pairs)
  BY <1>1, <1>2, <1>3, <1>4, <1>5, <1>6 DEF SettlesItems
<1>8. CarryingOwes'
  BY <1>1, <1>5, <1>6 DEF CarryingOwes, SInv
<1> QED BY <1>6, <1>7, <1>8, Settling

\* A new request: it is aggregated at once, and its items wait for something.
Opened(r) ==
  /\ item' \in Items /\ request'[r] = Summary(item'[r])
  /\ \A q \in Request \ {r} : request'[q] = request[q] /\ item'[q] = item[q]
  /\ \A f \in Feed : item'[r][f].status \in Open => item'[r][f] = item[r][f] \/ ServedItem(r, f)'

LEMMA Opening ==
  ASSUME IInv, SInv, NEW r \in Request, Opened(r), Tended', Undelivered', FailingOwes',
         UNCHANGED <<task, carrying, owed>>,
         \A k \in Job : Active(k) => Active(k)',
         \A k \in Job, f \in Feed :
           delivery[k][f].status \in Open => delivery'[k][f].status \in Open
  PROVE  SInv'
<1>1. Served'
  <2> SUFFICES ASSUME NEW q \in Request, NEW f \in Feed, item'[q][f].status \in Open
               PROVE  ServedItem(q, f)'
    BY DEF Served, Open
  <2>1. CASE item'[q][f] = item[q][f]
    <3>1. ServedItem(q, f) /\ item[q][f].job \in Job
      BY <2>1 DEF SInv, Served, ServedItem, IInv, TypeOK, Open
    <3> QED BY <2>1, <3>1 DEF ServedItem, Open
  <2>2. CASE item'[q][f] # item[q][f]
    BY <2>2 DEF Opened, Open
  <2> QED BY <2>1, <2>2
<1>2. CarryingOwes'
  BY DEF CarryingOwes, SInv
<1>3. AllReported'
  <2> SUFFICES ASSUME NEW q \in Request PROVE Told(q)
    BY ToldReported DEF SInv
  <2>1. \A f \in Feed : item[q][f].job # None => item[q][f].job \in Job
    BY DEF IInv, TypeOK
  <2> QED BY <2>1 DEF Opened, Told
<1> QED BY <1>1, <1>2, <1>3 DEF SInv

\* The items of a request for some feeds are served.
Awaited(r, feeds) == \A f \in feeds : ServedItem(r, f)

LEMMA RequestedOpens ==
  ASSUME IInv, NEW r \in Request, NEW feeds \in SUBSET Feed, NEW status \in Open \cup Ended,
         NEW j \in Job \cup {None}, Requested(r, feeds, status, j), Awaited(r, feeds)'
  PROVE  /\ Opened(r)
         /\ \A q \in Request, f \in Feed : item'[q][f].job = item[q][f].job
                                           \/ (q = r /\ f \in feeds /\ item'[q][f].job = j)
<1>1. Extended(r, feeds, status, j)
  BY RequestedItems
<1>2. /\ request' = [request EXCEPT ![r] = Summary(item'[r])]
      /\ \A q \in Request \ {r} : item'[q] = item[q]
  BY ItemsTyped DEF Requested, Items
<1>3. /\ request'[r] = Summary(item'[r])
      /\ \A q \in Request \ {r} : request'[q] = request[q]
  BY <1>2 DEF IInv, TypeOK
<1> QED BY <1>1, <1>2, <1>3 DEF Opened, Extended, Awaited

\* No job that is being failed is attached to: its own has ended, or is queued
\* again and owed; the items it has then are still to be failed.
LEMMA EnqueueTells ==
  ASSUME IInv, SInv, NEW r \in Request, NEW feeds \in SUBSET Feed, NEW j \in Job,
         Enqueued(j), EnqueueOrAttach(j), Requested(r, feeds, "pending", j),
         UNCHANGED <<delivery, task, carrying, owed>>
  PROVE  SInv'
<1>1. /\ job'[j].status # "absent"
      /\ \A k \in Job : /\ job'[k].snap = job[k].snap
                        /\ job[k].status # "absent" => job'[k].status = job[k].status
                        /\ Active(k)' => Active(k) \/ (k = j /\ job[j].status = "absent")
  BY Attached
<1>2. Active(j)'
  <2>1. Active(j) \/ job[j].status = "absent"
    BY DEF EnqueueOrAttach, FirstUnused, Unused
  <2> QED BY <1>1, <2>1 DEF EnqueueOrAttach, Active, IInv, TypeOK
<1>3. \A k \in Job : Active(k) => Active(k)'
  BY <1>1 DEF Active
<1>0. "pending" \in Open \cup Ended /\ j \in Job \cup {None}
  BY DEF Open
<1>4. Extended(r, feeds, "pending", j)
  BY <1>0, RequestedItems
<1>5. Awaited(r, feeds)'
  BY <1>2, <1>4, Parameters DEF Extended, ServedItem, Active, Awaited
<1>6. /\ Opened(r)
      /\ \A q \in Request, f \in Feed : item'[q][f].job = item[q][f].job
                                        \/ (q = r /\ f \in feeds /\ item'[q][f].job = j)
  BY <1>0, <1>5, RequestedOpens
<1>7. Tended'
  BY <1>1 DEF Tended, SInv, IInv, Fresh
<1>8. Undelivered'
  BY DEF Undelivered, SInv
<1>9. FailingOwes'
  <2> SUFFICES ASSUME task.step = "failing"
               PROVE  (/\ task.job \in Job /\ Early(task.job) /\ job[task.job].status # "absent"
                       /\ Active(task.job) \/ RequestsOf(On(task.job)) \subseteq owed["fetch"])'
    BY DEF FailingOwes
  <2>1. /\ task.job \in Job /\ Early(task.job) /\ job[task.job].status # "absent"
        /\ Active(task.job) \/ RequestsOf(On(task.job)) \subseteq owed["fetch"]
    BY DEF SInv, FailingOwes
  <2>2. (task.job \in Job /\ Early(task.job) /\ job[task.job].status # "absent")'
    BY <1>1, <2>1 DEF Early
  <2>3. CASE Active(task.job) \/ task.job = j
    BY <1>2, <1>3, <2>1, <2>2, <2>3 DEF Active
  <2>4. CASE ~Active(task.job) /\ task.job # j
    <3>1. (RequestsOf(On(task.job)))' \subseteq RequestsOf(On(task.job))
      BY <1>6, <2>4 DEF RequestsOf, On, Pairs
    <3> QED BY <2>1, <2>2, <2>4, <3>1
  <2> QED BY <2>3, <2>4
<1> QED BY <1>3, <1>6, <1>7, <1>8, <1>9, Opening

LEMMA RequestRefreshTells ==
  ASSUME IInv, SInv, NEW r \in Manual, RequestRefresh(r)
  PROVE  SInv'
<1>1. PICK j \in Job : EnqueueOrAttach(j) /\ Requested(r, Following, "pending", j)
  BY DEF RequestRefresh
<1>2. UNCHANGED <<delivery, task, carrying, owed>> /\ Following \in SUBSET Feed /\ r \in Request
  BY Parameters DEF RequestRefresh, worker, Following
<1> QED BY <1>1, <1>2, EnqueueTells DEF Enqueued

LEMMA CreateFeedTells ==
  ASSUME IInv, SInv, NEW f \in Feed, CreateFeed(f)
  PROVE  SInv'
<1>1. PICK j \in Job : EnqueueOrAttach(j) /\ Requested(f, {f}, "pending", j)
  BY DEF CreateFeed
<1>2. UNCHANGED <<delivery, task, carrying, owed>> /\ {f} \in SUBSET Feed /\ f \in Request
  BY Parameters DEF CreateFeed, worker
<1> QED BY <1>1, <1>2, EnqueueTells DEF Enqueued

LEMMA RequestDeferredTells ==
  ASSUME IInv, SInv, NEW r \in Manual, RequestDeferred(r)
  PROVE  SInv'
<1>0. PICK feeds \in SUBSET Feed : feeds = Following
  BY DEF Following
<1>1. /\ Requested(r, feeds, "completed", None)
      /\ UNCHANGED <<job, source, feed, delivery, task, carrying, owed, faults>>
  BY <1>0 DEF RequestDeferred, worker
<1>2. /\ r \in Request /\ "completed" \in Open \cup Ended
      /\ None \in Job \cup {None} /\ "completed" \notin Open
  BY Parameters DEF Ended, Open
<1>3. /\ Opened(r)
      /\ \A q \in Request, f \in Feed : item'[q][f].job = item[q][f].job
                                        \/ (q = r /\ f \in feeds /\ item'[q][f].job = None)
  <2>1. Extended(r, feeds, "completed", None)
    BY <1>1, <1>2, RequestedItems
  <2>2. /\ request' = [request EXCEPT ![r] = Summary(item'[r])]
        /\ \A q \in Request \ {r} : item'[q] = item[q]
    BY <1>1, ItemsTyped DEF Requested, Items
  <2>3. /\ request'[r] = Summary(item'[r])
        /\ \A q \in Request \ {r} : request'[q] = request[q]
    BY <1>2, <2>2 DEF IInv, TypeOK
  <2> QED BY <1>2, <2>1, <2>2, <2>3 DEF Opened, Extended
<1>4. \A k \in Job : Active(k)' <=> Active(k)
  BY <1>1 DEF Active
<1>5. Tended' /\ Undelivered'
  BY <1>1, <1>4 DEF Tended, Undelivered, SInv
<1>6. FailingOwes'
  <2> SUFFICES ASSUME task.step = "failing"
               PROVE  (/\ task.job \in Job /\ Early(task.job) /\ job[task.job].status # "absent"
                       /\ Active(task.job) \/ RequestsOf(On(task.job)) \subseteq owed["fetch"])'
    BY <1>1 DEF FailingOwes
  <2>1. /\ task.job \in Job /\ Early(task.job) /\ job[task.job].status # "absent"
        /\ Active(task.job) \/ RequestsOf(On(task.job)) \subseteq owed["fetch"]
    BY DEF SInv, FailingOwes
  <2>2. (RequestsOf(On(task.job)))' \subseteq RequestsOf(On(task.job))
    BY <1>1, <1>3, <2>1, Parameters DEF RequestsOf, On, Pairs
  <2> QED BY <1>1, <2>1, <2>2 DEF Early, Active
<1> QED BY <1>1, <1>2, <1>3, <1>4, <1>5, <1>6, Opening

LEMMA CreateFeedFromSnapshotTells ==
  ASSUME IInv, SInv, NEW f \in Feed, CreateFeedFromSnapshot(f)
  PROVE  SInv'
<1>1. PICK j \in Job : /\ Newest(j)
                       /\ delivery' = [delivery EXCEPT ![j][f].status = "pending"]
                       /\ Requested(f, {f}, "pending", j)
  BY DEF CreateFeedFromSnapshot
<1>2. /\ f \in Request /\ {f} \in SUBSET Feed /\ "pending" \in Open \cup Ended
      /\ j \in Job \cup {None} /\ job[j].snap = "parsed"
      /\ UNCHANGED <<job, source, task, carrying, owed, faults>>
  BY <1>1, Parameters DEF CreateFeedFromSnapshot, worker, Open, Newest, Retained
<1>3. /\ delivery' \in Deliveries /\ delivery'[j][f].status = "pending"
      /\ \A k \in Job, g \in Feed : k # j \/ g # f => delivery'[k][g] = delivery[k][g]
  <2>1. /\ SetsDelivery(j, f, "pending", delivery[j][f].attempts)
        /\ delivery[j][f].attempts \in 0..MaxDeliveryAttempts
    BY <1>1, StatusOnly
  <2>2. "pending" \in Reached
    BY DEF Open, Reached
  <2> QED BY <2>1, <2>2, DeliverySet
<1>4. Extended(f, {f}, "pending", j)
  BY <1>1, <1>2, RequestedItems
<1>5. Awaited(f, {f})'
  BY <1>3, <1>4, Parameters DEF Extended, ServedItem, Open, Awaited
<1>6. /\ Opened(f)
      /\ \A q \in Request, g \in Feed : item'[q][g].job = item[q][g].job
                                        \/ (q = f /\ g \in {f} /\ item'[q][g].job = j)
  BY <1>1, <1>2, <1>5, RequestedOpens
<1>7. \A k \in Job : Active(k)' <=> Active(k)
  BY <1>2 DEF Active
<1>8. Tended' /\ Undelivered'
  BY <1>2, <1>3, <1>7 DEF Tended, Undelivered, SInv, IInv, Working, Open
<1>9. FailingOwes'
  <2> SUFFICES ASSUME task.step = "failing"
               PROVE  (/\ task.job \in Job /\ Early(task.job) /\ job[task.job].status # "absent"
                       /\ Active(task.job) \/ RequestsOf(On(task.job)) \subseteq owed["fetch"])'
    BY <1>2 DEF FailingOwes
  <2>1. /\ task.job \in Job /\ Early(task.job) /\ job[task.job].status # "absent"
        /\ Active(task.job) \/ RequestsOf(On(task.job)) \subseteq owed["fetch"]
    BY DEF SInv, FailingOwes
  <2>2. task.job # j
    BY <1>2, <2>1 DEF Early
  <2>3. (RequestsOf(On(task.job)))' \subseteq RequestsOf(On(task.job))
    BY <1>2, <1>6, <2>2 DEF RequestsOf, On, Pairs
  <2> QED BY <1>2, <2>1, <2>3 DEF Early, Active
<1>10. \A k \in Job, g \in Feed : delivery[k][g].status \in Open => delivery'[k][g].status \in Open
  BY <1>3 DEF Open
<1> QED BY <1>2, <1>6, <1>7, <1>8, <1>9, <1>10, Opening

LEMMA EnqueueDueSourceTells ==
  ASSUME IInv, SInv, EnqueueDueSource
  PROVE  SInv'
<1>1. PICK j \in Job : FirstUnused(j) /\ job' = [job EXCEPT ![j].status = "queued"]
  BY DEF EnqueueDueSource
<1>2. /\ ActiveJobs = {} /\ task.step # "failing"
      /\ UNCHANGED <<source, feed, delivery, item, request, task, carrying, owed, faults>>
  BY DEF EnqueueDueSource, worker, Turn, MidRun, Loop
<1>3. \A k \in Job : /\ job'[k].snap = job[k].snap
                     /\ Active(k)' => Active(k) \/ (k = j /\ job[j].status = "absent")
  BY <1>1, <1>2, Attached DEF Enqueued
<1>4. \A k \in Job : Active(k) => Active(k)'
  BY <1>2 DEF ActiveJobs, Active
<1>5. Tended' /\ Undelivered' /\ CarryingOwes' /\ FailingOwes'
  BY <1>2, <1>3 DEF Tended, Undelivered, CarryingOwes, FailingOwes, SInv, IInv, Fresh
<1> QED BY <1>2, <1>4, <1>5, TellsSame

LEMMA LapseTells ==
  ASSUME IInv, SInv, NEW j \in Job, Lapse(j)
  PROVE  SInv'
<1>1. /\ job' = [job EXCEPT ![j].snap = "lapsed"] /\ ~Active(j) /\ task.job # j
      /\ UNCHANGED <<source, feed, delivery, item, request, task, carrying, owed, faults>>
  BY DEF Lapse, worker
<1>2. /\ \A k \in Job : job'[k].status = job[k].status
      /\ \A k \in Job \ {j} : job'[k] = job[k]
  BY <1>1, SnapSet DEF Snapshots, IInv
<1>3. \A k \in Job : Active(k)' <=> Active(k)
  BY <1>2 DEF Active
<1>4. Tended' /\ Undelivered' /\ CarryingOwes' /\ FailingOwes'
  BY <1>1, <1>2, <1>3 DEF Tended, Undelivered, CarryingOwes, FailingOwes, SInv, Active, Early,
                          On, RequestsOf
<1> QED BY <1>1, <1>3, <1>4, TellsSame

(***************************************************************************)
(* Every step of a run in which nothing has failed.                        *)
(***************************************************************************)
LEMMA FetchLoopTells ==
  ASSUME IInv, SInv, FetchLoop, faults' = 0
  PROVE  SInv'
<1>1. ASSUME NEW j \in Job,
             \/ ClaimFetchJob(j) \/ ExhaustFetchJob(j) \/ ReceiveBody(j) \/ ParseOk(j)
             \/ CompleteParsed(j) \/ NotModified(j)
             \/ PublisherFailure(j) \/ RejectBody(j) \/ Discover(j)
      PROVE  SInv'
  BY <1>1, ClaimFetchJobTells, ExhaustFetchJobTells, ReceiveBodyTells, ParseOkTells,
     CompleteParsedTells, NotModifiedTells, PublisherFailureTells, RejectBodyTells, DiscoverTells
<1>2. ASSUME NEW r \in Request, Aggregate("fetch", r)
      PROVE  SInv'
  BY <1>2, AggregateTells DEF Loop
<1>3. \A j \in Job : ~FailRetryable(j)
  BY DEF FailRetryable, IInv, TypeOK
<1> QED BY <1>1, <1>2, <1>3, FailItemsTells DEF FetchLoop

LEMMA DeliverLoopTells ==
  ASSUME IInv, SInv, DeliverLoop
  PROVE  SInv'
<1>1. ASSUME NEW j \in Job, NEW f \in Feed, ExhaustDelivery(j, f)
      PROVE  SInv'
  BY <1>1, SettleTells DEF ExhaustDelivery, Ready
<1>2. ASSUME NEW j \in Job, NEW f \in Feed, Deliver(j, f)
      PROVE  SInv'
  <2>1. owed["deliver"] = {}
    BY <1>2, Parameters DEF Deliver, SInv, CarryingOwes
  <2> QED BY <1>2, <2>1, SettleTells DEF Deliver
<1>3. ASSUME NEW r \in Request, Aggregate("deliver", r)
      PROVE  SInv'
  BY <1>3, AggregateTells DEF Loop
<1> QED BY <1>1, <1>2, <1>3, ClaimDeliveryTells, DeliveryFailsTells DEF DeliverLoop

LEMMA SInvKept ==
  ASSUME IInv, SInv, [Next]_vars, faults' = 0
  PROVE  SInv'
<1>1. CASE API
  BY <1>1, RequestRefreshTells, RequestDeferredTells, CreateFeedTells,
     CreateFeedFromSnapshotTells DEF API
<1>2. CASE FetchLoop
  BY <1>2, FetchLoopTells
<1>3. CASE DeliverLoop
  BY <1>3, DeliverLoopTells
<1>4. CASE Expire
  <2>1. ASSUME NEW r \in Request, Aggregate("schedule", r)
        PROVE  SInv'
    BY <2>1, AggregateTells DEF Loop
  <2> QED BY <1>4, <2>1, ExpireManualTells DEF Expire
<1>5. CASE EnqueueDueSource
  BY <1>5, EnqueueDueSourceTells
<1>6. CASE UNCHANGED vars
  <2>1. Tended' /\ Undelivered' /\ CarryingOwes' /\ FailingOwes'
    BY <1>6 DEF vars, SInv, Tended, Undelivered, CarryingOwes, FailingOwes, Active, Early, On,
                RequestsOf
  <2> QED BY <1>6, <2>1, TellsSame DEF vars, Active
<1>7. CASE ClaimNothing
  BY <1>6, <1>7 DEF ClaimNothing
<1>8. ~Crash
  BY DEF Crash, IInv, TypeOK
<1> QED BY <1>1, <1>2, <1>3, <1>4, <1>5, <1>6, <1>7, <1>8, LapseTells DEF Next

\* What has failed stays counted.
LEMMA FaultsGrow == IInv /\ [Next]_vars /\ faults' = 0 => faults = 0
<1> SUFFICES ASSUME IInv, [Next]_vars, faults' = 0 PROVE faults = 0
  OBVIOUS
<1>1. faults \in Nat
  BY Parameters DEF IInv, TypeOK
<1> USE DEF Ends, Failing, Settle
<1>2. CASE API
  BY <1>2 DEF API, RequestRefresh, RequestDeferred, CreateFeed, CreateFeedFromSnapshot, worker
<1>3. CASE FetchLoop
  <2>1. ASSUME NEW j \in Job, ClaimFetchJob(j) \/ ExhaustFetchJob(j) \/ ReceiveBody(j) \/ ParseOk(j)
        PROVE  faults' = faults
    BY <2>1 DEF ClaimFetchJob, ExhaustFetchJob, ReceiveBody, ParseOk
  <2>2. ASSUME NEW j \in Job, CompleteParsed(j) \/ NotModified(j)
        PROVE  faults' = faults
    BY <2>2 DEF CompleteParsed, NotModified
  <2>3. ASSUME NEW j \in Job, PublisherFailure(j) \/ RejectBody(j) \/ Discover(j)
        PROVE  faults' = faults
    BY <2>3 DEF PublisherFailure, RejectBody, Discover
  <2>4. \A j \in Job : ~FailRetryable(j)
    BY <1>1 DEF FailRetryable
  <2> QED BY <1>3, <2>1, <2>2, <2>3, <2>4 DEF FetchLoop, FailItems, Aggregate
<1>4. CASE DeliverLoop
  BY <1>4 DEF DeliverLoop, ClaimDelivery, ExhaustDelivery, Deliver, DeliveryFails, Aggregate
<1>5. CASE Expire
  BY <1>5 DEF Expire, ExpireManual, Aggregate
<1>6. CASE EnqueueDueSource \/ ClaimNothing \/ UNCHANGED vars \/ \E j \in Job : Lapse(j)
  BY <1>6 DEF EnqueueDueSource, ClaimNothing, vars, worker, Lapse
<1>7. ~Crash
  BY <1>1 DEF Crash
<1> QED BY <1>2, <1>3, <1>4, <1>5, <1>6, <1>7 DEF Next

AInv == IInv /\ (faults = 0 => SInv)

\* As long as nothing fails, no item waits for a job that is over, and the stored
\* status of every request tells what has become of its items, is about to be
\* aggregated, or belongs to a job that is still active.
THEOREM UsersAreAnswered == Spec => []AnswersHold
<1>1. Init => AInv
  BY InitIInv, InitSInv DEF AInv
<1>2. AInv /\ [Next]_vars => AInv'
  BY IInvKept, SInvKept, FaultsGrow DEF AInv
<1>3. AInv => AnswersHold
  BY DEF AInv, SInv, Served, AllReported, AnswersHold, ItemsServed, RequestsReported
<1> QED BY <1>1, <1>2, <1>3, PTL DEF Spec
===============================================================================

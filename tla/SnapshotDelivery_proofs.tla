----------------------- MODULE SnapshotDelivery_proofs -----------------------
(***************************************************************************)
(* Theorems about SnapshotDelivery, for any number of processes, snapshots *)
(* and articles, and any faults.                                           *)
(*                                                                         *)
(*   TypesKept           Spec => []TypeOK                                  *)
(*   SourceFollowed      Spec => []ArticlesOfSource                        *)
(*   ToldAtMostOnce      Spec => []ToldOnce                                *)
(*   ToldUnlessFaults    Spec => []Told                                    *)
(*   OrderKept           Spec => [][NeverGoesBack /\ EnrichedKept]_vars    *)
(*                                                                         *)
(* The last one is for one process: two may deliver two snapshots side by  *)
(* side, and the older one may be stored last.                             *)
(*                                                                         *)
(* Then about two other components of the same database: Categories, for   *)
(* any categories, names and requests,                                     *)
(*                                                                         *)
(*   TreeTypes           Spec => []TypeOK                                  *)
(*   KeysAreKept         Spec => []KeysHold                                *)
(*   NothingDisappears   Spec => [][TreeKept]_vars                         *)
(*                                                                         *)
(* and Migrations, for any processes, releases and crashes,                *)
(*                                                                         *)
(*   AppliedOnce         Spec => [](TypeOK /\ AppliedOnce)                 *)
(*   UpOnItsRelease      Spec => [][UpMatches]_vars, releases that agree   *)
(*   ProtectedRowsKept   Spec => [][KnownRowsKept]_vars                    *)
(***************************************************************************)
EXTENDS SnapshotDelivery, FiniteSetTheorems, WellFoundedInduction, TLAPS

\* A delivery is under way in a process.
Working == {"claimed", "loaded", "stored", "replaced"}

\* A process that has stored an article has yet to announce it.
Owes(p, g) ==
  /\ work[p].step \in {"stored", "committed"} /\ g \in work[p].inserted
  /\ work[p].epoch = feed.epoch

\* Who has yet to announce an article is the only one, and has not done so.
OwedOnce ==
  /\ \A g \in Guid : news[g] # "again"
  /\ \A p \in Process : work[p].epoch <= feed.epoch
  /\ \A p \in Process, g \in Guid : Owes(p, g) => article[g].present /\ news[g] = "owed"
  /\ \A p, q \in Process, g \in Guid : Owes(p, g) /\ Owes(q, g) => p = q

\* A snapshot is delivered after it has been parsed.
Unparsed == \A s \in Snapshot :
  s > parsed => delivery[s].status = "absent" /\ delivery[s].attempts = 0

FullPresent == \A g \in Guid : article[g].full => article[g].present

\* As long as nothing has failed: each running delivery is some process's, and nobody else's.
Calm ==
  /\ stalled = {}
  /\ \A s \in Snapshot : ~delivery[s].waiting /\ ~delivery[s].lapsed
  /\ \A p \in Process : work[p].step \in Working => delivery[work[p].snap].status = "running"
  /\ \A s \in Snapshot : delivery[s].status = "running" =>
       \E p \in Process : work[p].step \in Working /\ work[p].snap = s
  /\ \A p, q \in Process :
       /\ work[p].step \in Working /\ work[q].step \in Working
       /\ work[p].snap = work[q].snap
       => p = q
  /\ \A g \in Guid : article[g].present => news[g] = "told" \/ \E p \in Process : Owes(p, g)

\* With one process deliveries are carried out in the order of their snapshots.
Done == {"running", "completed"}
Ordered ==
  /\ \A s \in Snapshot : delivery[s].status = "pending" =>
       delivery[s].attempts = 0 /\ delivery[s].due < now
  /\ \A s, r \in Snapshot :
       delivery[s].status = "pending" /\ delivery[r].status = "pending" /\ s < r =>
         delivery[s].due < delivery[r].due
  /\ \A s, r \in Snapshot :
       delivery[s].status = "pending" /\ delivery[r].status \in Done => r < s
  /\ \A s, r \in Snapshot :
       delivery[s].status = "running" /\ delivery[r].status = "completed" => r < s
  /\ \A g \in Guid : article[g].present /\ article[g].content # Page =>
       delivery[article[g].content].status \in Done

\* With one process the rows that a delivery has loaded are those of the table until it stores.
Loaded ==
  \A p \in Process : work[p].step = "loaded" =>
    /\ work[p].epoch = feed.epoch
    /\ \A g \in Guid : work[p].base[g] = IF g \in ItemsOf[work[p].snap] THEN article[g] ELSE Absent

OneProcess == \A p, q \in Process : p = q

IInv ==
  /\ ParametersAssumption /\ TypeOK /\ ArticlesOfSource /\ OwedOnce /\ FullPresent
  /\ Unparsed
  /\ faults = 0 => Calm
  /\ OneProcess => Loaded
  /\ OneProcess /\ faults = 0 => Ordered

LEMMA IdleRow ==
  ASSUME ParametersAssumption
  PROVE  /\ Idle \in Work /\ Idle.step = "idle" /\ Idle.inserted = {} /\ Idle.epoch = 0
         /\ Absent \in Article /\ ~Absent.present /\ ~Absent.full
         /\ Snapshot \subseteq Nat /\ 0 \notin Snapshot
<1>1. Snapshot \subseteq Nat /\ 0 \notin Snapshot
  BY DEF ParametersAssumption, Snapshot
<1>2. Absent \in Article /\ ~Absent.present /\ ~Absent.full
  BY DEF Absent, Article, Page
<1>3. "idle" \in {"idle", "claimed", "loaded", "stored", "replaced", "committed"}
  OBVIOUS
<1>4. 0 \in 0..MaxAttempts
  BY DEF ParametersAssumption
<1> QED BY <1>1, <1>2, <1>3, <1>4 DEF Idle, Work

LEMMA InitIInv == ParametersAssumption /\ Init => IInv
<1> SUFFICES ASSUME ParametersAssumption, Init PROVE IInv
  OBVIOUS
<1>1. PICK source \in Source : feed = [source |-> None, pending |-> source, epoch |-> 0]
  BY DEF Init
<1>2. delivery \in [Snapshot -> Delivery] /\ \A s \in Snapshot : delivery[s].status = "absent"
  <2>1. [status |-> "absent", attempts |-> 0, due |-> 0, waiting |-> FALSE, lapsed |-> FALSE]
          \in Delivery
    BY DEF ParametersAssumption, Delivery, Open
  <2> QED BY <2>1 DEF Init
<1>3. \A s \in Snapshot : ~delivery[s].waiting /\ ~delivery[s].lapsed
  BY DEF Init
<1>4. TypeOK
  <2>1. feed \in [source : Source \cup {None}, pending : Source \cup {None}, epoch : Nat]
    BY <1>1
  <2>2. article \in [Guid -> Article] /\ news \in [Guid -> {"none", "owed", "told", "again"}]
    BY IdleRow DEF Init
  <2>3. work \in [Process -> Work] /\ \A p \in Process : work[p].step = "idle"
    BY IdleRow DEF Init
  <2>4. /\ stalled \subseteq Process /\ parsed \in 0..Snapshots
        /\ now \in Nat /\ faults \in 0..MaxFaults
    BY DEF Init, ParametersAssumption
  <2> QED BY <1>2, <2>1, <2>2, <2>3, <2>4 DEF TypeOK
<1>5. \A p \in Process : work[p] = Idle
  BY DEF Init
<1>6. \A g \in Guid : article[g] = Absent /\ news[g] = "none"
  BY DEF Init
<1>7. ArticlesOfSource /\ OwedOnce /\ FullPresent
  <2>1. ArticlesOfSource /\ FullPresent
    BY <1>6, IdleRow DEF ArticlesOfSource, FullPresent
  <2>2. feed.epoch = 0 /\ \A p \in Process : work[p].epoch = 0 /\ work[p].inserted = {}
    BY <1>1, <1>5, IdleRow
  <2>3. \A p \in Process, g \in Guid : ~Owes(p, g)
    BY <2>2 DEF Owes
  <2>4. ASSUME NEW p \in Process PROVE work[p].epoch <= feed.epoch
    <3>1. work[p].epoch = 0 /\ feed.epoch = 0 /\ 0 <= 0
      BY <2>2
    <3> QED BY <3>1
  <2>5. \A g \in Guid : news[g] # "again"
    BY <1>6
  <2> QED BY <2>1, <2>3, <2>4, <2>5 DEF OwedOnce
<1>8. Calm /\ Unparsed
  <2>1. Unparsed
    BY <1>2 DEF Init, Unparsed
  <2> QED BY <1>2, <1>3, <1>5, <1>6, <2>1, IdleRow DEF Init, Calm, Working
<1>9. Loaded /\ Ordered
  BY <1>2, <1>5, <1>6, IdleRow DEF Loaded, Ordered, Done
<1> QED BY <1>4, <1>7, <1>8, <1>9 DEF IInv

(***************************************************************************)
(* Rows that change.                                                       *)
(***************************************************************************)
LEMMA Typed ==
  ASSUME IInv
  PROVE  /\ feed.source \in Source \cup {None} /\ feed.epoch \in Nat
         /\ feed = [source |-> feed.source, pending |-> feed.pending, epoch |-> feed.epoch]
         /\ \A s \in Snapshot : delivery[s] \in Delivery
         /\ \A g \in Guid : article[g] \in Article
         /\ \A p \in Process :
              work[p] \in Work /\ (work[p].step # "idle" => work[p].snap \in Snapshot)
         /\ Snapshot \subseteq Nat /\ parsed \in Nat /\ now \in Nat /\ faults \in Nat
BY DEF IInv, TypeOK, ParametersAssumption, Snapshot

LEMMA Moving ==
  ASSUME IInv, NEW p \in Process, NEW w \in Work, w.step # "idle" => w.snap \in Snapshot,
         work' = [work EXCEPT ![p] = w]
  PROVE  /\ work' \in [Process -> Work] /\ work'[p] = w
         /\ \A q \in Process \ {p} : work'[q] = work[q]
         /\ \A q \in Process : work'[q].step # "idle" => work'[q].snap \in Snapshot
BY DEF IInv, TypeOK

LEMMA Resting ==
  ASSUME IInv, NEW p \in Process, work' = [work EXCEPT ![p] = Idle]
  PROVE  /\ work' \in [Process -> Work] /\ work'[p] = Idle
         /\ \A q \in Process \ {p} : work'[q] = work[q]
         /\ \A q \in Process : work'[q].step # "idle" => work'[q].snap \in Snapshot
BY IdleRow DEF IInv, TypeOK

LEMMA Delivering ==
  ASSUME IInv, NEW s \in Snapshot, NEW d \in Delivery, delivery' = [delivery EXCEPT ![s] = d]
  PROVE  /\ delivery' \in [Snapshot -> Delivery] /\ delivery'[s] = d
         /\ \A r \in Snapshot \ {s} : delivery'[r] = delivery[r]
BY DEF IInv, TypeOK

(***************************************************************************)
(* Around the deliveries.                                                  *)
(***************************************************************************)
LEMMA AskedKept ==
  ASSUME IInv, NEW pending \in Source \cup {None}, feed' = [feed EXCEPT !.pending = pending],
         UNCHANGED <<delivery, article, news, work, stalled, parsed, now, faults>>
  PROVE  IInv'
<1>1. feed'.source = feed.source /\ feed'.epoch = feed.epoch
  BY Typed
<1>2. TypeOK'
  BY DEF IInv, TypeOK
<1>3. ArticlesOfSource' /\ OwedOnce' /\ FullPresent'
  BY <1>1 DEF IInv, ArticlesOfSource, OwedOnce, FullPresent, Owes
<1>4. faults' = 0 => Calm'
  BY <1>1 DEF IInv, Calm, Owes
<1>5. OneProcess => Loaded'
  BY <1>1 DEF IInv, Loaded
<1>6. OneProcess /\ faults' = 0 => Ordered'
  BY <1>1 DEF IInv, Ordered
<1> QED BY <1>2, <1>3, <1>4, <1>5, <1>6 DEF IInv, OneProcess, Unparsed

\* An article as its page has it is of no source, and is present.
LEMMA EnrichKept ==
  ASSUME IInv, NEW p \in Process, NEW g \in Guid, Enrich(p, g)
  PROVE  IInv'
<1>1. PICK a : a = [present |-> TRUE, content |-> Page, full |-> TRUE]
  OBVIOUS
<1>2. a \in Article /\ a.present /\ a.full /\ a.content = Page
  BY <1>1 DEF Article
<1>3. /\ article' = [article EXCEPT ![g] = a] /\ article[g].present
      /\ UNCHANGED <<feed, delivery, news, work, stalled, parsed, now, faults>>
      /\ work[p].step \in {"idle", "committed"}
  BY <1>1 DEF Enrich, Free
<1>4. /\ article' \in [Guid -> Article] /\ article'[g] = a
      /\ \A h \in Guid \ {g} : article'[h] = article[h]
  BY <1>2, <1>3 DEF IInv, TypeOK
<1>5. TypeOK'
  BY <1>3, <1>4 DEF IInv, TypeOK
<1>6. ArticlesOfSource' /\ FullPresent'
  BY <1>2, <1>3, <1>4 DEF IInv, ArticlesOfSource, FullPresent
<1>7. OwedOnce'
  BY <1>2, <1>3, <1>4 DEF IInv, OwedOnce, Owes
<1>8. faults' = 0 => Calm'
  BY <1>2, <1>3, <1>4 DEF IInv, Calm, Owes
<1>9. OneProcess => Loaded'
  BY <1>3 DEF OneProcess, Loaded
<1>10. OneProcess /\ faults' = 0 => Ordered'
  BY <1>2, <1>3, <1>4 DEF IInv, Ordered
<1> QED BY <1>3, <1>5, <1>6, <1>7, <1>8, <1>9, <1>10 DEF IInv, OneProcess, Unparsed

\* What a feed moves to.
LEMMA ParseKept ==
  ASSUME IInv, NEW p \in Process, Parse(p)
  PROVE  IInv'
<1>1. PICK s : s = parsed + 1
  OBVIOUS
<1>2. /\ s \in Snapshot /\ parsed' = s /\ now' = now + 1 /\ SourceOf[s] \in Source
      /\ parsed \in Nat /\ parsed' \in 0..Snapshots
      /\ UNCHANGED <<work, stalled, faults>> /\ work[p].step \in {"idle", "committed"}
  BY <1>1 DEF Parse, Free, IInv, TypeOK, Snapshot, ParametersAssumption
<1>3. \/ /\ feed' = [source |-> SourceOf[s], pending |-> None, epoch |-> feed.epoch + 1]
         /\ article' = [g \in Guid |-> Absent] /\ news' = [g \in Guid |-> "none"]
      \/ UNCHANGED <<feed, article, news>>
  BY <1>1 DEF Parse
<1>4. PICK d : d = [delivery[s] EXCEPT !.status = "pending", !.due = now]
  OBVIOUS
<1>5. /\ d \in Delivery /\ d.status = "pending" /\ d.due = now
      /\ d.waiting = delivery[s].waiting /\ d.lapsed = delivery[s].lapsed
      /\ d.attempts = delivery[s].attempts
  BY <1>2, <1>4, Typed DEF Delivery, Open
<1>6. delivery' = [delivery EXCEPT ![s] = d] \/ delivery' = delivery
  BY <1>1, <1>2, <1>4 DEF Parse, IInv, TypeOK
<1>7. /\ delivery' \in [Snapshot -> Delivery]
      /\ \A r \in Snapshot : delivery'[r] = delivery[r] \/ (r = s /\ delivery'[r] = d)
  BY <1>2, <1>5, <1>6, Delivering DEF IInv, TypeOK
<1>8. /\ feed' \in [source : Source \cup {None}, pending : Source \cup {None}, epoch : Nat]
      /\ article' \in [Guid -> Article] /\ news' \in [Guid -> {"none", "owed", "told", "again"}]
  BY <1>2, <1>3, Typed, IdleRow DEF IInv, TypeOK
<1>9. TypeOK'
  BY <1>2, <1>7, <1>8 DEF IInv, TypeOK
<1>10. \/ /\ \A g \in Guid : article'[g] = Absent /\ news'[g] = "none"
          /\ \A q \in Process, g \in Guid : ~Owes(q, g)'
          /\ \A q \in Process : work'[q].epoch <= feed'.epoch
       \/ UNCHANGED <<feed, article, news, work>>
  <2>1. CASE /\ feed' = [source |-> SourceOf[s], pending |-> None, epoch |-> feed.epoch + 1]
             /\ article' = [g \in Guid |-> Absent] /\ news' = [g \in Guid |-> "none"]
    <3>1. \A q \in Process : work'[q].epoch <= feed.epoch /\ work'[q].epoch \in Nat
      BY <1>2, Typed DEF IInv, OwedOnce, Work
    <3>2. feed'.epoch = feed.epoch + 1 /\ feed.epoch \in Nat
      BY <2>1, Typed
    <3> QED BY <2>1, <3>1, <3>2 DEF Owes
  <2> QED BY <1>2, <1>3, <2>1
<1>11. ArticlesOfSource' /\ OwedOnce' /\ FullPresent'
  <2>1. CASE UNCHANGED <<feed, article, news, work>>
    BY <2>1 DEF IInv, ArticlesOfSource, OwedOnce, FullPresent, Owes
  <2>2. CASE /\ \A g \in Guid : article'[g] = Absent /\ news'[g] = "none"
             /\ \A q \in Process, g \in Guid : ~Owes(q, g)'
             /\ \A q \in Process : work'[q].epoch <= feed'.epoch
    BY <2>2, IdleRow DEF IInv, ArticlesOfSource, OwedOnce, FullPresent
  <2> QED BY <1>10, <2>1, <2>2
<1>12. ASSUME faults' = 0 PROVE Calm'
  <2>1. delivery[s].status = "absent"
    BY <1>1, <1>2 DEF IInv, Unparsed
  <2>2. \A g \in Guid : article'[g].present =>
          news'[g] = "told" \/ \E q \in Process : Owes(q, g)'
    BY <1>2, <1>10, <1>12, IdleRow DEF IInv, Calm, Owes
  <2>3. \A q \in Process : work[q].step \in Working => work[q].snap # s
    BY <1>2, <1>12, <2>1 DEF IInv, Calm
  <2> QED BY <1>2, <1>5, <1>7, <1>12, <2>1, <2>2, <2>3, Typed DEF IInv, Calm, Working
<1>13. OneProcess => Loaded'
  BY <1>2 DEF OneProcess, Loaded
<1>14. ASSUME OneProcess, faults' = 0 PROVE Ordered'
  <2>1. delivery[s].status = "absent" /\ d.attempts = 0
    BY <1>1, <1>2, <1>5 DEF IInv, Unparsed
  <2>2. \A r \in Snapshot : delivery[r].status # "absent" => r < s
    BY <1>1, <1>2, Typed DEF IInv, Unparsed
  <2>3. Ordered
    BY <1>2, <1>14 DEF IInv
  <2>4. /\ \A r \in Snapshot : delivery'[r].status = "pending" =>
             delivery'[r].attempts = 0 /\ delivery'[r].due < now'
        /\ \A q, r \in Snapshot :
             delivery'[q].status = "pending" /\ delivery'[r].status = "pending" /\ q < r =>
               delivery'[q].due < delivery'[r].due
    BY <1>2, <1>5, <1>7, <2>1, <2>2, <2>3, Typed DEF Ordered, Delivery
  <2>5. /\ \A q, r \in Snapshot :
             delivery'[q].status = "pending" /\ delivery'[r].status \in Done => r < q
        /\ \A q, r \in Snapshot :
             delivery'[q].status = "running" /\ delivery'[r].status = "completed" => r < q
    BY <1>2, <1>5, <1>7, <2>1, <2>2, <2>3, Typed DEF Ordered, Done
  <2>6. \A g \in Guid : article'[g].present /\ article'[g].content # Page =>
          delivery'[article'[g].content].status \in Done
    <3>1. CASE UNCHANGED article
      <4>1. \A r \in Snapshot : delivery[r].status \in Done => delivery'[r] = delivery[r]
        BY <1>7, <2>1 DEF Done
      <4> QED BY <2>3, <3>1, <4>1, Typed DEF Ordered, Article
    <3> QED BY <1>10, <3>1, IdleRow DEF IInv
  <2> QED BY <2>4, <2>5, <2>6 DEF Ordered
<1>15. Unparsed'
  BY <1>1, <1>2, <1>7, Typed DEF IInv, Unparsed
<1> QED BY <1>9, <1>11, <1>12, <1>13, <1>14, <1>15 DEF IInv, OneProcess

(***************************************************************************)
(* The delivery loop.                                                      *)
(***************************************************************************)
LEMMA SweptRows ==
  ASSUME IInv
  PROVE  /\ Swept \in [Snapshot -> Delivery]
         /\ \A s \in Snapshot :
              /\ Swept[s].attempts = delivery[s].attempts /\ Swept[s].due = delivery[s].due
              /\ Swept[s].waiting = delivery[s].waiting /\ Swept[s].lapsed = delivery[s].lapsed
              /\ \/ Swept[s].status = delivery[s].status
                 \/ delivery[s].lapsed /\ delivery[s].status = "running"
         /\ faults = 0 => Swept = delivery
<1>1. ASSUME NEW s \in Snapshot
      PROVE  /\ Swept[s] \in Delivery
             /\ Swept[s].attempts = delivery[s].attempts /\ Swept[s].due = delivery[s].due
             /\ Swept[s].waiting = delivery[s].waiting /\ Swept[s].lapsed = delivery[s].lapsed
             /\ \/ Swept[s].status = delivery[s].status
                \/ delivery[s].lapsed /\ delivery[s].status = "running"
  <2>1. CASE Exhausted(s)
    <3>1. PICK d \in Delivery : d = delivery[s]
      BY Typed
    <3>2. Swept[s] = [d EXCEPT !.status = "dead"]
      BY <2>1, <3>1 DEF Swept
    <3>3. d.lapsed /\ d.status = "running"
      BY <2>1, <3>1 DEF Exhausted
    <3>4. [d EXCEPT !.status = "dead"] \in Delivery
      BY <3>1 DEF Delivery
    <3> QED BY <3>1, <3>2, <3>3, <3>4 DEF Delivery
  <2>2. CASE ~Exhausted(s)
    BY <2>2, Typed DEF Swept
  <2> QED BY <2>1, <2>2
<1>2. Swept \in [Snapshot -> Delivery]
  BY <1>1 DEF Swept
<1>3. ASSUME faults = 0 PROVE Swept = delivery
  <2>1. \A s \in Snapshot : ~Exhausted(s)
    BY <1>3 DEF IInv, Calm, Exhausted
  <2> QED BY <2>1 DEF Swept, IInv, TypeOK
<1> QED BY <1>1, <1>2, <1>3

\* Steps after which nobody owes more than before.
LEMMA Silent ==
  ASSUME IInv, UNCHANGED <<feed, article, news>>,
         \A q \in Process, g \in Guid : Owes(q, g)' => Owes(q, g),
         \A q \in Process : work'[q].epoch <= feed.epoch
  PROVE  ArticlesOfSource' /\ OwedOnce' /\ FullPresent'
BY DEF IInv, ArticlesOfSource, OwedOnce, FullPresent

\* The claim's process and its delivery.
LEMMA ClaimKept ==
  ASSUME IInv, NEW p \in Process, NEW s \in Snapshot, Claim(p, s)
  PROVE  IInv'
<1>1. /\ UNCHANGED <<feed, article, news, stalled, parsed, now, faults>>
      /\ work[p].step = "idle" /\ Eligible(s)
  BY DEF Claim, At, Candidate
<1>2. PICK w : w = [Idle EXCEPT !.step = "claimed", !.snap = s,
                                !.attempts = delivery[s].attempts + 1]
  OBVIOUS
<1>3. PICK d : d = [Swept[s] EXCEPT !.status = "running", !.lapsed = FALSE,
                                    !.attempts = Swept[s].attempts + 1]
  OBVIOUS
<1>4. delivery[s].attempts + 1 \in 0..MaxAttempts
  BY <1>1, Typed DEF Eligible, Delivery, IInv, ParametersAssumption
<1>5. /\ w \in Work /\ w.step = "claimed" /\ w.snap = s /\ w.epoch = 0 /\ w.inserted = {}
  BY <1>2, <1>4, IdleRow DEF IInv, Work
<1>6. /\ d \in Delivery /\ d.status = "running" /\ ~d.lapsed /\ d.waiting = delivery[s].waiting
  BY <1>3, <1>4, SweptRows DEF Delivery, Open
<1>7. work' = [work EXCEPT ![p] = w] /\ delivery' = [Swept EXCEPT ![s] = d]
  BY <1>2, <1>3, SweptRows DEF Claim
<1>8. /\ work' \in [Process -> Work] /\ work'[p] = w
      /\ \A q \in Process \ {p} : work'[q] = work[q]
      /\ \A q \in Process : work'[q].step # "idle" => work'[q].snap \in Snapshot
  BY <1>5, <1>7, Moving
<1>9. /\ delivery' \in [Snapshot -> Delivery] /\ delivery'[s] = d
      /\ \A r \in Snapshot \ {s} : delivery'[r] = Swept[r]
  BY <1>6, <1>7, SweptRows
<1>10. TypeOK'
  BY <1>1, <1>8, <1>9 DEF IInv, TypeOK
<1>11. \A q \in Process, g \in Guid : Owes(q, g)' <=> Owes(q, g)
  BY <1>1, <1>5, <1>8 DEF Owes
<1>12. ArticlesOfSource' /\ OwedOnce' /\ FullPresent'
  <2>1. \A q \in Process : work'[q].epoch <= feed.epoch
    BY <1>5, <1>8, Typed DEF IInv, OwedOnce
  <2> QED BY <1>1, <1>11, <2>1, Silent
<1>13. Unparsed'
  <2>1. delivery[s].status # "absent"
    BY <1>1 DEF Eligible
  <2> QED BY <1>1, <1>9, <2>1, SweptRows DEF IInv, Unparsed
<1>14. ASSUME faults' = 0
       PROVE  /\ Calm /\ delivery[s].status = "pending"
              /\ \A r \in Snapshot \ {s} : delivery'[r] = delivery[r]
  BY <1>1, <1>9, <1>14, SweptRows DEF IInv, Calm, Eligible
<1>15. ASSUME faults' = 0 PROVE Calm'
  <2>1. /\ \A r \in Snapshot : ~delivery'[r].waiting /\ ~delivery'[r].lapsed
    BY <1>6, <1>9, <1>14, <1>15 DEF Calm
  <2>2. \A q \in Process : work'[q].step \in Working =>
          delivery'[work'[q].snap].status = "running" /\ (q # p => work'[q].snap # s)
    BY <1>5, <1>6, <1>8, <1>9, <1>14, <1>15, Typed DEF Calm, Working
  <2>3. \A r \in Snapshot : delivery'[r].status = "running" =>
          \E q \in Process : work'[q].step \in Working /\ work'[q].snap = r
    BY <1>1, <1>5, <1>6, <1>8, <1>9, <1>14, <1>15 DEF Calm, Working
  <2>4. \A q, t \in Process :
          /\ work'[q].step \in Working /\ work'[t].step \in Working
          /\ work'[q].snap = work'[t].snap
          => q = t
    BY <1>5, <1>8, <1>14, <1>15, <2>2 DEF Calm
  <2> QED BY <1>1, <1>11, <1>14, <1>15, <2>1, <2>2, <2>3, <2>4 DEF Calm
<1>16. OneProcess => Loaded'
  BY <1>5, <1>8 DEF OneProcess, Loaded
<1>17. ASSUME OneProcess, faults' = 0 PROVE Ordered'
  <2>1. Ordered /\ Calm
    BY <1>1, <1>17 DEF IInv
  <2>2. \A r \in Snapshot : delivery[r].status # "running"
    BY <1>1, <1>17, <2>1 DEF Calm, OneProcess, Working
  <2>3. \A r \in Snapshot : delivery[r].status = "pending" /\ r # s => s < r
    <3>1. \A r \in Snapshot : delivery[r].status = "pending" => Eligible(r)
      BY <2>1 DEF Calm, Ordered, Eligible, IInv, ParametersAssumption
    <3>2. \A r \in Snapshot : delivery[r].status = "pending" /\ r # s =>
            delivery[s].due < delivery[r].due
      BY <3>1 DEF Claim, Candidate
    <3> QED BY <1>14, <1>17, <2>1, <3>2, Typed DEF Ordered, Delivery
  <2>4. \A r \in Snapshot \ {s} : delivery'[r] = delivery[r]
    BY <1>14, <1>17
  <2>5. /\ \A r \in Snapshot : delivery'[r].status = "pending" =>
             delivery'[r].attempts = 0 /\ delivery'[r].due < now'
        /\ \A q, r \in Snapshot :
             delivery'[q].status = "pending" /\ delivery'[r].status = "pending" /\ q < r =>
               delivery'[q].due < delivery'[r].due
    BY <1>1, <1>6, <1>9, <2>1, <2>4 DEF Ordered
  <2>6. /\ \A q, r \in Snapshot :
             delivery'[q].status = "pending" /\ delivery'[r].status \in Done => r < q
        /\ \A q, r \in Snapshot :
             delivery'[q].status = "running" /\ delivery'[r].status = "completed" => r < q
    BY <1>6, <1>9, <1>14, <1>17, <2>1, <2>2, <2>3, <2>4 DEF Ordered, Done
  <2>7. \A g \in Guid : article'[g].present /\ article'[g].content # Page =>
          delivery'[article'[g].content].status \in Done
    BY <1>1, <1>6, <1>9, <2>1, <2>4, Typed DEF Ordered, Article, Done
  <2> QED BY <2>5, <2>6, <2>7 DEF Ordered
<1> QED BY <1>10, <1>12, <1>13, <1>15, <1>16, <1>17 DEF IInv, OneProcess

LEMMA ClaimNothingKept ==
  ASSUME IInv, NEW p \in Process, ClaimNothing(p)
  PROVE  IInv'
<1>1. /\ UNCHANGED <<feed, article, news, work, stalled, parsed, now, faults>>
      /\ delivery' = Swept
  BY DEF ClaimNothing
<1>2. TypeOK'
  BY <1>1, SweptRows DEF IInv, TypeOK
<1>3. ArticlesOfSource' /\ OwedOnce' /\ FullPresent'
  BY <1>1 DEF IInv, ArticlesOfSource, OwedOnce, FullPresent, Owes
<1>4. Unparsed'
  BY <1>1, SweptRows DEF IInv, Unparsed
<1>5. faults' = 0 => Calm' /\ (OneProcess => Ordered')
  BY <1>1, SweptRows DEF IInv, Calm, Ordered, Owes
<1>6. OneProcess => Loaded'
  BY <1>1 DEF IInv, Loaded
<1> QED BY <1>2, <1>3, <1>4, <1>5, <1>6 DEF IInv, OneProcess

\* A process goes on with its delivery.
LEMMA GoingOn ==
  ASSUME IInv, NEW p \in Process, NEW w \in Work, work' = [work EXCEPT ![p] = w],
         work[p].step \in Working, w.step \in Working, w.snap = work[p].snap,
         UNCHANGED <<feed, delivery, stalled, parsed, now, faults>>
  PROVE  /\ work' \in [Process -> Work] /\ work'[p] = w
         /\ \A q \in Process \ {p} : work'[q] = work[q]
         /\ \A q \in Process : work'[q].step # "idle" => work'[q].snap \in Snapshot
         /\ Unparsed'
         /\ /\ faults' = 0
            /\ \A g \in Guid : article'[g].present =>
                 news'[g] = "told" \/ \E q \in Process : Owes(q, g)'
            => Calm'
<1>1. /\ work' \in [Process -> Work] /\ work'[p] = w
      /\ \A q \in Process \ {p} : work'[q] = work[q]
      /\ \A q \in Process : work'[q].step # "idle" => work'[q].snap \in Snapshot
  BY Moving, Typed DEF Working
<1>2. Unparsed'
  BY DEF IInv, Unparsed
<1>3. ASSUME faults' = 0,
             \A g \in Guid : article'[g].present =>
               news'[g] = "told" \/ \E q \in Process : Owes(q, g)'
      PROVE  Calm'
  <2>1. Calm
    BY <1>3 DEF IInv
  <2>2. \A q \in Process : work'[q].snap = work[q].snap
    BY <1>1
  <2>3. \A q \in Process : work'[q].step \in Working <=> work[q].step \in Working
    BY <1>1
  <2> QED BY <1>3, <2>1, <2>2, <2>3 DEF Calm
<1> QED BY <1>1, <1>2, <1>3

LEMMA LoadKept ==
  ASSUME IInv, NEW p \in Process, Load(p)
  PROVE  IInv'
<1>1. UNCHANGED <<feed, delivery, article, news, stalled, parsed, now, faults>>
  BY DEF Load
<1>2. work[p].step = "claimed" /\ work[p] \in Work
  BY Typed DEF Load, At
<1>3. PICK base : base = [g \in Guid |-> IF g \in ItemsOf[work[p].snap] THEN article[g] ELSE Absent]
  OBVIOUS
<1>4. PICK w : w = [work[p] EXCEPT !.step = "loaded", !.epoch = feed.epoch, !.base = base]
  OBVIOUS
<1>5. work' = [work EXCEPT ![p] = w]
  BY <1>3, <1>4 DEF Load, IInv, TypeOK
<1>6. base \in [Guid -> Article]
  BY <1>3, Typed, IdleRow DEF IInv
<1>7. /\ w \in Work /\ w.step = "loaded" /\ w.epoch = feed.epoch /\ w.base = base
      /\ w.snap = work[p].snap
  BY <1>2, <1>4, <1>6, Typed DEF Work
<1>8. /\ work' \in [Process -> Work] /\ work'[p] = w
      /\ \A q \in Process \ {p} : work'[q] = work[q]
      /\ \A q \in Process : work'[q].step # "idle" => work'[q].snap \in Snapshot
      /\ Unparsed'
      /\ /\ faults' = 0
         /\ \A g \in Guid : article'[g].present =>
              news'[g] = "told" \/ \E q \in Process : Owes(q, g)'
         => Calm'
  BY <1>1, <1>2, <1>5, <1>7, GoingOn DEF Working
<1>9. \A q \in Process, g \in Guid : Owes(q, g)' <=> Owes(q, g)
  BY <1>1, <1>2, <1>7, <1>8 DEF Owes
<1>10. ArticlesOfSource' /\ OwedOnce' /\ FullPresent'
  <2>1. \A q \in Process : work'[q].epoch <= feed.epoch
    BY <1>7, <1>8, Typed DEF IInv, OwedOnce
  <2> QED BY <1>1, <1>9, <2>1, Silent
<1>11. TypeOK'
  BY <1>1, <1>8 DEF IInv, TypeOK
<1>12. faults' = 0 => Calm'
  BY <1>1, <1>8, <1>9 DEF IInv, Calm
<1>13. OneProcess => Loaded'
  BY <1>1, <1>3, <1>7, <1>8 DEF OneProcess, Loaded
<1>14. OneProcess /\ faults' = 0 => Ordered'
  BY <1>1 DEF IInv, Ordered
<1> QED BY <1>8, <1>10, <1>11, <1>12, <1>13, <1>14 DEF IInv, OneProcess

LEMMA RejectSourceKept ==
  ASSUME IInv, NEW p \in Process, RejectSource(p)
  PROVE  IInv'
<1>1. UNCHANGED <<feed, delivery, article, news, stalled, parsed, now, faults>>
  BY DEF RejectSource
<1>2. work[p].step = "loaded" /\ work[p] \in Work
  BY Typed DEF RejectSource, At
<1>3. PICK w : w = [work[p] EXCEPT !.step = "replaced"]
  OBVIOUS
<1>4. work' = [work EXCEPT ![p] = w]
  BY <1>3 DEF RejectSource, IInv, TypeOK
<1>5. /\ w \in Work /\ w.step = "replaced" /\ w.epoch = work[p].epoch
      /\ w.snap = work[p].snap
  BY <1>2, <1>3 DEF Work
<1>6. /\ work' \in [Process -> Work] /\ work'[p] = w
      /\ \A q \in Process \ {p} : work'[q] = work[q]
      /\ \A q \in Process : work'[q].step # "idle" => work'[q].snap \in Snapshot
      /\ Unparsed'
      /\ /\ faults' = 0
         /\ \A g \in Guid : article'[g].present =>
              news'[g] = "told" \/ \E q \in Process : Owes(q, g)'
         => Calm'
  BY <1>1, <1>2, <1>4, <1>5, GoingOn DEF Working
<1>7. \A q \in Process, g \in Guid : Owes(q, g)' <=> Owes(q, g)
  BY <1>1, <1>2, <1>5, <1>6 DEF Owes
<1>8. ArticlesOfSource' /\ OwedOnce' /\ FullPresent'
  <2>1. \A q \in Process : work'[q].epoch <= feed.epoch
    BY <1>5, <1>6, Typed DEF IInv, OwedOnce
  <2> QED BY <1>1, <1>7, <2>1, Silent
<1>9. TypeOK'
  BY <1>1, <1>6 DEF IInv, TypeOK
<1>10. faults' = 0 => Calm'
  BY <1>1, <1>6, <1>7 DEF IInv, Calm
<1>11. OneProcess => Loaded'
  BY <1>5, <1>6 DEF OneProcess, Loaded
<1>12. OneProcess /\ faults' = 0 => Ordered'
  BY <1>1 DEF IInv, Ordered
<1> QED BY <1>6, <1>8, <1>9, <1>10, <1>11, <1>12 DEF IInv, OneProcess

(***************************************************************************)
(* The transaction that writes the articles.                               *)
(***************************************************************************)
\* What an article is after it, and whether it is new.
LEMMA StoredRows ==
  ASSUME IInv, NEW p \in Process, Store(p)
  PROVE  /\ article' \in [Guid -> Article]
         /\ \A g \in Guid :
              /\ article[g].present => article'[g].present
              /\ article'[g].full => article[g].full
              /\ article'[g] # article[g] =>
                   article'[g].content = work[p].snap /\ article'[g].present
              /\ g \in Inserted(p) => ~article[g].present
              /\ article'[g].present => article[g].present \/ g \in Inserted(p)
<1>1. work[p].snap \in Snapshot
  BY Typed DEF Store, At
<1>2. ASSUME NEW g \in Guid
      PROVE  /\ article'[g] \in Article
             /\ article[g].present => article'[g].present
             /\ article'[g].full => article[g].full
             /\ article'[g] # article[g] =>
                  article'[g].content = work[p].snap /\ article'[g].present
             /\ g \in Inserted(p) => ~article[g].present
             /\ article'[g].present => article[g].present \/ g \in Inserted(p)
  <2>1. article'[g] = Stored(p, g) /\ article[g] \in Article
    BY Typed DEF Store
  <2>2. CASE Insert(p, g) /\ ~article[g].present
    <3>1. article'[g] = [present |-> TRUE, content |-> work[p].snap, full |-> FALSE]
      BY <2>1, <2>2 DEF Stored
    <3> QED BY <1>1, <2>2, <3>1 DEF Article, Inserted
  <2>3. CASE /\ ~(Insert(p, g) /\ ~article[g].present)
             /\ Update(p, g) /\ article[g].present /\ work[p].epoch = feed.epoch
    <3>1. article'[g] = [article[g] EXCEPT !.content = work[p].snap]
      BY <2>1, <2>3 DEF Stored
    <3> QED BY <1>1, <2>1, <2>3, <3>1 DEF Article, Inserted
  <2>4. CASE /\ ~(Insert(p, g) /\ ~article[g].present)
             /\ ~(Update(p, g) /\ article[g].present /\ work[p].epoch = feed.epoch)
    <3>1. article'[g] = article[g]
      BY <2>1, <2>4 DEF Stored
    <3> QED BY <2>1, <2>4, <3>1 DEF Inserted
  <2> QED BY <2>2, <2>3, <2>4
<1>3. article' \in [Guid -> Article]
  BY <1>2 DEF Store
<1> QED BY <1>2, <1>3

LEMMA StoreKept ==
  ASSUME IInv, NEW p \in Process, Store(p)
  PROVE  IInv'
<1>1. /\ UNCHANGED <<feed, delivery, stalled, parsed, now, faults>>
      /\ delivery[work[p].snap].status = "running" /\ SourceOf[work[p].snap] = feed.source
  BY DEF Store, Leased, SourceCurrent
<1>2. work[p].step = "loaded" /\ work[p] \in Work /\ work[p].snap \in Snapshot
  BY Typed DEF Store, At
<1>3. PICK new \in SUBSET Guid : new = Inserted(p)
  BY DEF Inserted
<1>4. PICK w : w = [work[p] EXCEPT !.step = "stored", !.inserted = new, !.epoch = feed.epoch]
  OBVIOUS
<1>5. /\ work' = [work EXCEPT ![p] = w]
      /\ news' = [g \in Guid |-> IF g \in new THEN "owed" ELSE news[g]]
  BY <1>3, <1>4 DEF Store, IInv, TypeOK
<1>6. /\ w \in Work /\ w.step = "stored" /\ w.epoch = feed.epoch /\ w.inserted = new
      /\ w.snap = work[p].snap
  BY <1>2, <1>4, Typed DEF Work
<1>7. /\ work' \in [Process -> Work] /\ work'[p] = w
      /\ \A q \in Process \ {p} : work'[q] = work[q]
      /\ \A q \in Process : work'[q].step # "idle" => work'[q].snap \in Snapshot
      /\ Unparsed'
      /\ /\ faults' = 0
         /\ \A g \in Guid : article'[g].present =>
              news'[g] = "told" \/ \E q \in Process : Owes(q, g)'
         => Calm'
  BY <1>1, <1>2, <1>5, <1>6, GoingOn DEF Working
<1>8. /\ article' \in [Guid -> Article]
      /\ \A g \in Guid :
           /\ article[g].present => article'[g].present
           /\ article'[g].full => article[g].full
           /\ article'[g] # article[g] =>
                article'[g].content = work[p].snap /\ article'[g].present
           /\ g \in new => ~article[g].present
           /\ article'[g].present => article[g].present \/ g \in new
  BY <1>3, StoredRows
<1>9. \A g \in Guid : g \in new => article'[g].present
  <2>1. ASSUME NEW g \in Guid, g \in new PROVE article'[g].present
    <3>1. article'[g] = [present |-> TRUE, content |-> work[p].snap, full |-> FALSE]
      BY <1>3, <2>1 DEF Store, Stored, Inserted
    <3> QED BY <3>1
  <2> QED BY <2>1
<1>10. /\ \A q \in Process \ {p}, g \in Guid : Owes(q, g)' <=> Owes(q, g)
       /\ \A g \in Guid : Owes(p, g)' <=> g \in new
       /\ \A g \in Guid : ~Owes(p, g)
  BY <1>1, <1>2, <1>6, <1>7 DEF Owes
<1>11. ArticlesOfSource' /\ FullPresent'
  BY <1>1, <1>8 DEF IInv, ArticlesOfSource, FullPresent
<1>12. OwedOnce'
  <2>1. \A g \in Guid : news'[g] # "again"
    BY <1>5 DEF IInv, OwedOnce
  <2>2. \A q \in Process : work'[q].epoch <= feed'.epoch
    BY <1>1, <1>6, <1>7, Typed DEF IInv, OwedOnce
  <2>3. \A q \in Process, g \in Guid : Owes(q, g)' => article'[g].present /\ news'[g] = "owed"
    BY <1>5, <1>8, <1>9, <1>10 DEF IInv, OwedOnce
  <2>4. \A q, r \in Process, g \in Guid : Owes(q, g)' /\ Owes(r, g)' => q = r
    BY <1>8, <1>10 DEF IInv, OwedOnce
  <2> QED BY <2>1, <2>2, <2>3, <2>4 DEF OwedOnce
<1>13. TypeOK'
  <2>1. news' \in [Guid -> {"none", "owed", "told", "again"}]
    BY <1>5 DEF IInv, TypeOK
  <2> QED BY <1>1, <1>7, <1>8, <2>1 DEF IInv, TypeOK
<1>14. ASSUME faults' = 0 PROVE Calm'
  <2>1. ASSUME NEW g \in Guid, article'[g].present
        PROVE  news'[g] = "told" \/ \E q \in Process : Owes(q, g)'
    <3>1. CASE g \in new
      BY <1>10, <3>1
    <3>2. CASE g \notin new
      <4>1. news[g] = "told" \/ \E q \in Process : Owes(q, g)
        BY <1>1, <1>8, <1>14, <2>1, <3>2 DEF IInv, Calm
      <4> QED BY <1>5, <1>10, <3>2, <4>1
    <3> QED BY <3>1, <3>2
  <2> QED BY <1>7, <1>14, <2>1
<1>15. OneProcess => Loaded'
  BY <1>6, <1>7 DEF OneProcess, Loaded
<1>16. ASSUME OneProcess, faults' = 0 PROVE Ordered'
  <2>1. Ordered
    BY <1>1, <1>16 DEF IInv
  <2>2. \A g \in Guid : article'[g].present /\ article'[g].content # Page =>
          delivery'[article'[g].content].status \in Done
    BY <1>1, <1>8, <2>1 DEF Ordered, Done
  <2> QED BY <1>1, <2>1, <2>2 DEF Ordered
<1> QED BY <1>7, <1>11, <1>12, <1>13, <1>14, <1>15, <1>16 DEF IInv, OneProcess

(***************************************************************************)
(* The end of a delivery.                                                  *)
(***************************************************************************)
\* A process gives up what it had; something has failed.
LEMMA GivingUp ==
  ASSUME IInv, NEW p \in Process, work' = [work EXCEPT ![p] = Idle], faults' # 0,
         UNCHANGED <<feed, article, news, parsed, now>>, stalled' \subseteq Process,
         faults' \in 0..MaxFaults, delivery' \in [Snapshot -> Delivery], Unparsed'
  PROVE  IInv'
<1>1. /\ work' \in [Process -> Work] /\ work'[p] = Idle
      /\ \A q \in Process \ {p} : work'[q] = work[q]
      /\ \A q \in Process : work'[q].step # "idle" => work'[q].snap \in Snapshot
  BY Resting
<1>2. TypeOK'
  BY <1>1 DEF IInv, TypeOK
<1>3. ArticlesOfSource' /\ OwedOnce' /\ FullPresent'
  <2>1. \A q \in Process, g \in Guid : Owes(q, g)' => Owes(q, g)
    BY <1>1, IdleRow DEF Owes, IInv
  <2>2. \A q \in Process : work'[q].epoch <= feed.epoch
    BY <1>1, IdleRow, Typed DEF IInv, OwedOnce
  <2> QED BY <2>1, <2>2, Silent
<1>4. OneProcess => Loaded'
  BY <1>1, IdleRow DEF IInv, OneProcess, Loaded
<1> QED BY <1>2, <1>3, <1>4 DEF IInv, OneProcess

LEMMA RejectLeaseKept ==
  ASSUME IInv, NEW p \in Process, RejectLease(p)
  PROVE  IInv'
<1>1. /\ UNCHANGED <<feed, delivery, article, news, stalled, parsed, now, faults>>
      /\ work' = [work EXCEPT ![p] = Idle] /\ work[p].step = "loaded" /\ ~Leased(work[p].snap)
  BY DEF RejectLease, At
<1>2. faults # 0
  BY <1>1, Typed DEF IInv, Calm, Working, Leased
<1> QED BY <1>1, <1>2, GivingUp DEF IInv, TypeOK, Unparsed

LEMMA FailKept ==
  ASSUME IInv, NEW p \in Process, Fail(p)
  PROVE  IInv'
<1>1. PICK s \in Snapshot : s = work[p].snap
  BY Typed DEF Fail, At
<1>2. PICK dead \in BOOLEAN : dead <=> work[p].attempts >= MaxAttempts
  <2>1. CASE work[p].attempts >= MaxAttempts
    BY <2>1
  <2>2. CASE ~(work[p].attempts >= MaxAttempts)
    BY <2>2
  <2> QED BY <2>1, <2>2
<1>3. PICK d : d = [delivery[s] EXCEPT !.status = IF dead THEN "dead" ELSE "pending",
                                       !.lapsed = FALSE, !.waiting = ~dead]
  OBVIOUS
<1>4. d \in Delivery
  <2>1. (IF dead THEN "dead" ELSE "pending") \in {"absent", "completed", "dead"} \cup Open
    BY DEF Open
  <2> QED BY <1>3, <2>1, Typed DEF Delivery
<1>5. /\ UNCHANGED <<feed, article, news, stalled, parsed, now>>
      /\ work' = [work EXCEPT ![p] = Idle] /\ faults' = faults + 1 /\ faults < MaxFaults
      /\ delivery' = delivery
         \/ (delivery[s].status = "running" /\ delivery' = [delivery EXCEPT ![s] = d])
  BY <1>1, <1>2, <1>3 DEF Fail, Fault, IInv, TypeOK
<1>6. delivery' \in [Snapshot -> Delivery] /\ Unparsed'
  <2>1. CASE delivery' = delivery
    BY <1>5, <2>1 DEF IInv, TypeOK, Unparsed
  <2>2. CASE delivery[s].status = "running" /\ delivery' = [delivery EXCEPT ![s] = d]
    BY <1>4, <1>5, <2>2, Delivering DEF IInv, Unparsed
  <2> QED BY <1>5, <2>1, <2>2
<1>7. faults' # 0 /\ faults' \in 0..MaxFaults
  BY <1>5, Typed DEF IInv, TypeOK, ParametersAssumption
<1> QED BY <1>5, <1>6, <1>7, GivingUp DEF IInv, TypeOK

LEMMA CrashKept ==
  ASSUME IInv, NEW p \in Process, Crash(p)
  PROVE  IInv'
<1>1. /\ UNCHANGED <<feed, delivery, article, news, parsed, now>> /\ stalled' = stalled \ {p}
      /\ work' = [work EXCEPT ![p] = Idle] /\ faults' = faults + 1 /\ faults < MaxFaults
  BY DEF Crash, Fault
<1>2. faults' # 0 /\ faults' \in 0..MaxFaults
  BY <1>1, Typed DEF IInv, TypeOK, ParametersAssumption
<1> QED BY <1>1, <1>2, GivingUp DEF IInv, TypeOK, Unparsed

LEMMA FinishKept ==
  ASSUME IInv, NEW p \in Process, Finish(p)
  PROVE  IInv'
<1>1. PICK s \in Snapshot : s = work[p].snap
  BY Typed DEF Finish, At
<1>2. /\ UNCHANGED <<feed, article, news, stalled, parsed, now, faults>>
      /\ work[p].step \in {"stored", "replaced"} /\ work[p] \in Work
  BY Typed DEF Finish, At
<1>3. PICK d : d = [delivery[s] EXCEPT !.status = "completed"]
  OBVIOUS
<1>4. PICK w : w = [work[p] EXCEPT !.step = "committed"]
  OBVIOUS
<1>5. /\ d \in Delivery /\ d.status = "completed" /\ d.waiting = delivery[s].waiting
      /\ d.lapsed = delivery[s].lapsed
      /\ w \in Work /\ w.step = "committed" /\ w.snap = s /\ w.epoch = work[p].epoch
      /\ w.inserted = work[p].inserted
  BY <1>1, <1>2, <1>3, <1>4, Typed DEF Delivery, Work
<1>6. CASE delivery[s].status # "running"
  <2>1. faults # 0
    BY <1>1, <1>2, <1>6, Typed DEF IInv, Calm, Working
  <2>2. delivery' = delivery /\ work' = [work EXCEPT ![p] = Idle]
    BY <1>1, <1>6 DEF Finish
  <2> QED BY <1>2, <2>1, <2>2, GivingUp DEF IInv, TypeOK, Unparsed
<1>7. CASE delivery[s].status = "running"
  <2>1. PICK v \in Work : v = IF work[p].step = "stored" THEN w ELSE Idle
    BY <1>5, IdleRow DEF IInv
  <2>2. delivery' = [delivery EXCEPT ![s] = d] /\ work' = [work EXCEPT ![p] = v]
    BY <1>1, <1>3, <1>4, <1>7, <2>1 DEF Finish, IInv, TypeOK
  <2>3. /\ v.step \in {"idle", "committed"} /\ (v.step # "idle" => v.snap \in Snapshot)
        /\ \A g \in Guid : v.step = "committed" /\ g \in v.inserted =>
             work[p].step = "stored" /\ g \in work[p].inserted /\ v.epoch = work[p].epoch
        /\ work[p].step = "stored" => v = w
        /\ v.epoch \in {0, work[p].epoch}
    BY <1>5, <2>1, IdleRow DEF IInv
  <2>4. /\ work' \in [Process -> Work] /\ work'[p] = v
        /\ \A q \in Process \ {p} : work'[q] = work[q]
        /\ \A q \in Process : work'[q].step # "idle" => work'[q].snap \in Snapshot
    BY <2>2, <2>3, Moving
  <2>5. /\ delivery' \in [Snapshot -> Delivery] /\ delivery'[s] = d
        /\ \A r \in Snapshot \ {s} : delivery'[r] = delivery[r]
    BY <1>5, <2>2, Delivering
  <2>6. \A q \in Process, g \in Guid : Owes(q, g)' <=> Owes(q, g)
    BY <1>2, <1>5, <2>3, <2>4 DEF Owes
  <2>7. ArticlesOfSource' /\ OwedOnce' /\ FullPresent'
    <3>1. \A q \in Process : work'[q].epoch <= feed.epoch
      BY <2>3, <2>4, Typed DEF IInv, OwedOnce
    <3> QED BY <1>2, <2>6, <3>1, Silent
  <2>8. TypeOK'
    BY <1>2, <2>4, <2>5 DEF IInv, TypeOK
  <2>9. Unparsed'
    BY <1>2, <1>7, <2>5 DEF IInv, Unparsed
  <2>10. ASSUME faults' = 0 PROVE Calm'
    <3>1. Calm
      BY <1>2, <2>10 DEF IInv
    <3>2. \A q \in Process \ {p} : work[q].step \in Working => work[q].snap # s
      BY <1>1, <1>2, <3>1 DEF Calm, Working
    <3>3. \A r \in Snapshot : ~delivery'[r].waiting /\ ~delivery'[r].lapsed
      BY <1>5, <2>5, <3>1 DEF Calm
    <3>4. \A q \in Process : work'[q].step \in Working =>
            q # p /\ delivery'[work'[q].snap].status = "running"
      BY <2>3, <2>4, <2>5, <3>1, <3>2, Typed DEF Calm, Working
    <3>5. \A r \in Snapshot : delivery'[r].status = "running" =>
            \E q \in Process : work'[q].step \in Working /\ work'[q].snap = r
      BY <1>1, <1>5, <2>4, <2>5, <3>1 DEF Calm
    <3>6. \A q, r \in Process :
            /\ work'[q].step \in Working /\ work'[r].step \in Working
            /\ work'[q].snap = work'[r].snap
            => q = r
      BY <2>4, <3>1, <3>4 DEF Calm
    <3> QED BY <1>2, <2>6, <3>1, <3>3, <3>4, <3>5, <3>6 DEF Calm
  <2>11. OneProcess => Loaded'
    BY <2>3, <2>4 DEF OneProcess, Loaded
  <2>12. ASSUME OneProcess, faults' = 0 PROVE Ordered'
    <3>1. Ordered /\ Calm
      BY <1>2, <2>12 DEF IInv
    <3>2. \A r \in Snapshot : delivery[r].status = "running" => r = s
      BY <1>1, <2>12, <3>1 DEF Calm, OneProcess
    <3>3. \A r \in Snapshot : delivery'[r].status # "running"
      BY <1>5, <2>5, <3>2
    <3> QED BY <1>2, <1>5, <1>7, <2>5, <3>1, <3>3, Typed DEF Ordered, Done, Article
  <2> QED BY <2>7, <2>8, <2>9, <2>10, <2>11, <2>12 DEF IInv, OneProcess
<1> QED BY <1>6, <1>7

LEMMA AnnounceKept ==
  ASSUME IInv, NEW p \in Process, Announce(p)
  PROVE  IInv'
<1>1. /\ UNCHANGED <<feed, delivery, article, stalled, parsed, now, faults>>
      /\ work' = [work EXCEPT ![p] = Idle] /\ work[p].step = "committed"
  BY DEF Announce, At
<1>2. \A g \in Guid : g \in Announced(p) <=> Owes(p, g)
  BY <1>1 DEF Announced, Owes
<1>3. /\ news' \in [Guid -> {"none", "owed", "told", "again"}]
      /\ \A g \in Guid : Owes(p, g) => news'[g] = "told"
      /\ \A g \in Guid : ~Owes(p, g) => news'[g] = news[g]
  BY <1>2 DEF Announce, IInv, TypeOK, OwedOnce
<1>4. /\ work' \in [Process -> Work] /\ work'[p] = Idle
      /\ \A q \in Process \ {p} : work'[q] = work[q]
      /\ \A q \in Process : work'[q].step # "idle" => work'[q].snap \in Snapshot
  BY <1>1, Resting
<1>5. /\ \A g \in Guid : ~Owes(p, g)'
      /\ \A q \in Process \ {p}, g \in Guid : Owes(q, g)' <=> Owes(q, g)
  BY <1>1, <1>4, IdleRow DEF Owes, IInv
<1>6. TypeOK'
  BY <1>1, <1>3, <1>4 DEF IInv, TypeOK
<1>7. ArticlesOfSource' /\ FullPresent' /\ Unparsed'
  BY <1>1 DEF IInv, ArticlesOfSource, FullPresent, Unparsed
<1>8. OwedOnce'
  <2>1. \A g \in Guid : news'[g] # "again"
    BY <1>3 DEF IInv, OwedOnce
  <2>2. \A q \in Process : work'[q].epoch <= feed'.epoch
    BY <1>1, <1>4, IdleRow, Typed DEF IInv, OwedOnce
  <2>3. \A q \in Process, g \in Guid : Owes(q, g)' => article'[g].present /\ news'[g] = "owed"
    BY <1>1, <1>3, <1>5 DEF IInv, OwedOnce
  <2>4. \A q, r \in Process, g \in Guid : Owes(q, g)' /\ Owes(r, g)' => q = r
    BY <1>5 DEF IInv, OwedOnce
  <2> QED BY <2>1, <2>2, <2>3, <2>4 DEF OwedOnce
<1>9. ASSUME faults' = 0 PROVE Calm'
  <2>1. Calm
    BY <1>1, <1>9 DEF IInv
  <2>2. \A q \in Process : work'[q].step \in Working => work'[q] = work[q] /\ q # p
    BY <1>4, IdleRow DEF IInv, Working
  <2>3. \A q \in Process : work[q].step \in Working => work'[q] = work[q]
    BY <1>1, <1>4 DEF Working
  <2>4. \A g \in Guid : article'[g].present => news'[g] = "told" \/ \E q \in Process : Owes(q, g)'
    BY <1>1, <1>3, <1>5, <2>1 DEF Calm
  <2> QED BY <1>1, <2>1, <2>2, <2>3, <2>4 DEF Calm
<1>10. OneProcess => Loaded'
  BY <1>1, <1>4, IdleRow DEF IInv, OneProcess, Loaded
<1>11. OneProcess /\ faults' = 0 => Ordered'
  BY <1>1 DEF IInv, Ordered
<1> QED BY <1>6, <1>7, <1>8, <1>9, <1>10, <1>11 DEF IInv, OneProcess

(***************************************************************************)
(* Stalls, leases and delays.                                              *)
(***************************************************************************)
LEMMA StalledKept ==
  ASSUME IInv, NEW p \in Process, Stall(p) \/ Resume(p)
  PROVE  IInv'
<1>1. /\ UNCHANGED <<feed, delivery, article, news, work, parsed, now>>
      /\ stalled' \subseteq Process /\ faults' \in 0..MaxFaults /\ faults' # 0
  BY Typed DEF Stall, Resume, Fault, IInv, TypeOK, Calm, ParametersAssumption
<1>2. TypeOK'
  BY <1>1 DEF IInv, TypeOK
<1>3. ArticlesOfSource' /\ OwedOnce' /\ FullPresent' /\ Unparsed'
  BY <1>1 DEF IInv, ArticlesOfSource, OwedOnce, FullPresent, Unparsed, Owes
<1>4. OneProcess => Loaded'
  BY <1>1 DEF IInv, Loaded
<1> QED BY <1>1, <1>2, <1>3, <1>4 DEF IInv, OneProcess

LEMMA PassKept ==
  ASSUME IInv, NEW s \in Snapshot, Lapse(s) \/ DelayPasses(s)
  PROVE  IInv'
<1>1. /\ UNCHANGED <<feed, article, news, work, stalled, parsed, faults>>
      /\ now' \in Nat /\ faults # 0
  <2>1. CASE Lapse(s)
    BY <2>1, Typed DEF Lapse, IInv, Calm
  <2>2. CASE DelayPasses(s)
    BY <2>2, Typed DEF DelayPasses, IInv, Calm
  <2> QED BY <2>1, <2>2
<1>2. PICK d \in Delivery :
        /\ delivery' = [delivery EXCEPT ![s] = d] /\ d.status = delivery[s].status
        /\ d.attempts = delivery[s].attempts
  <2>1. CASE Lapse(s)
    <3>1. PICK d : d = [delivery[s] EXCEPT !.lapsed = TRUE]
      OBVIOUS
    <3>2. delivery' = [delivery EXCEPT ![s] = d]
      BY <2>1, <3>1 DEF Lapse, IInv, TypeOK
    <3>3. /\ d \in Delivery /\ d.status = delivery[s].status
          /\ d.attempts = delivery[s].attempts
      BY <3>1, Typed DEF Delivery
    <3> QED BY <3>2, <3>3
  <2>2. CASE DelayPasses(s)
    <3>1. PICK d : d = [delivery[s] EXCEPT !.waiting = FALSE, !.due = now]
      OBVIOUS
    <3>2. delivery' = [delivery EXCEPT ![s] = d]
      BY <2>2, <3>1 DEF DelayPasses, IInv, TypeOK
    <3>3. /\ d \in Delivery /\ d.status = delivery[s].status
          /\ d.attempts = delivery[s].attempts
      BY <3>1, Typed DEF Delivery
    <3> QED BY <3>2, <3>3
  <2> QED BY <2>1, <2>2
<1>3. /\ delivery' \in [Snapshot -> Delivery] /\ delivery'[s] = d
      /\ \A r \in Snapshot \ {s} : delivery'[r] = delivery[r]
  BY <1>2, Delivering
<1>4. TypeOK'
  BY <1>1, <1>3 DEF IInv, TypeOK
<1>5. ArticlesOfSource' /\ OwedOnce' /\ FullPresent'
  BY <1>1 DEF IInv, ArticlesOfSource, OwedOnce, FullPresent, Owes
<1>6. Unparsed'
  BY <1>1, <1>2, <1>3 DEF IInv, Unparsed
<1>7. OneProcess => Loaded'
  BY <1>1 DEF IInv, Loaded
<1> QED BY <1>1, <1>4, <1>5, <1>6, <1>7 DEF IInv, OneProcess

(***************************************************************************)
(* The theorems.                                                           *)
(***************************************************************************)
LEMMA StepIInv == IInv /\ [Next]_vars => IInv'
<1> SUFFICES ASSUME IInv, [Next]_vars PROVE IInv'
  OBVIOUS
<1>1. ASSUME NEW source \in Source, RequestReplacement(source) PROVE IInv'
  BY <1>1, AskedKept DEF RequestReplacement
<1>2. CASE CancelReplacement
  BY <1>2, AskedKept DEF CancelReplacement
<1>3. ASSUME NEW p \in Process, Deliver(p) PROVE IInv'
  BY <1>3, ClaimKept, ClaimNothingKept, LoadKept, StoreKept, RejectLeaseKept, RejectSourceKept,
     FinishKept, AnnounceKept, StalledKept DEF Deliver
<1>4. ASSUME NEW p \in Process,
             Parse(p) \/ (\E g \in Guid : Enrich(p, g)) \/ Fail(p) \/ Crash(p) \/ Stall(p)
      PROVE  IInv'
  BY <1>4, ParseKept, EnrichKept, FailKept, CrashKept, StalledKept
<1>5. CASE Pass
  BY <1>5, PassKept DEF Pass
<1>6. CASE UNCHANGED vars
  BY <1>6 DEF vars, IInv, TypeOK, ArticlesOfSource, OwedOnce, FullPresent, Unparsed, Calm, Loaded,
              Ordered, OneProcess, Owes
<1> QED BY <1>1, <1>2, <1>3, <1>4, <1>5, <1>6 DEF Next

LEMMA SpecIInv == ASSUME ParametersAssumption PROVE Spec => []IInv
BY InitIInv, StepIInv, PTL DEF Spec

\* The rows keep their types.
THEOREM TypesKept == ASSUME ParametersAssumption PROVE Spec => []TypeOK
<1>1. IInv => TypeOK
  BY DEF IInv
<1> QED BY <1>1, SpecIInv, PTL

\* Whichever worker stores a snapshot, however late: each article is of the source that the feed
\* follows, as persistSyncResults checks it once more in its transaction.
THEOREM SourceFollowed == ASSUME ParametersAssumption PROVE Spec => []ArticlesOfSource
<1>1. IInv => ArticlesOfSource
  BY DEF IInv
<1> QED BY <1>1, SpecIInv, PTL

\* Stalls, crashes and repeated deliveries announce no article a second time.
THEOREM ToldAtMostOnce == ASSUME ParametersAssumption PROVE Spec => []ToldOnce
<1>1. IInv => ToldOnce
  BY DEF IInv, OwedOnce, ToldOnce
<1> QED BY <1>1, SpecIInv, PTL

\* And unless something fails, every article is announced, by any number of workers.
THEOREM ToldUnlessFaults == ASSUME ParametersAssumption PROVE Spec => []Told
<1>1. IInv => Told
  BY IdleRow DEF IInv, Calm, Owes, Told
<1> QED BY <1>1, SpecIInv, PTL

\* The steps that write articles.
LEMMA Writers ==
  ASSUME Next
  PROVE  \/ UNCHANGED article
         \/ feed'.epoch = feed.epoch + 1
         \/ \E p \in Process, g \in Guid : Enrich(p, g)
         \/ \E p \in Process : Store(p)
<1>1. ASSUME NEW p \in Process, Parse(p)
      PROVE  UNCHANGED article \/ feed'.epoch = feed.epoch + 1
  <2>1. \/ UNCHANGED article
        \/ feed' = [source |-> SourceOf[parsed + 1], pending |-> None, epoch |-> feed.epoch + 1]
    BY <1>1 DEF Parse
  <2> QED BY <2>1
<1>2. ASSUME NEW p \in Process, Deliver(p), ~Store(p) PROVE UNCHANGED article
  BY <1>2 DEF Deliver, Claim, ClaimNothing, Load, RejectLease, RejectSource, Finish, Announce,
              Resume
<1>3. ASSUME NEW p \in Process, Fail(p) \/ Crash(p) \/ Stall(p) PROVE UNCHANGED article
  BY <1>3 DEF Fail, Crash, Stall
<1>4. Pass => UNCHANGED article
  BY DEF Pass, Lapse, DelayPasses
<1>5. (\E source \in Source : RequestReplacement(source)) \/ CancelReplacement =>
        UNCHANGED article
  BY DEF RequestReplacement, CancelReplacement
<1> QED BY <1>1, <1>2, <1>3, <1>4, <1>5 DEF Next

LEMMA StoreInOrder ==
  ASSUME IInv, OneProcess, NEW p \in Process, Store(p)
  PROVE  NeverGoesBack /\ EnrichedKept
<1>1. /\ work[p].step = "loaded" /\ work[p].snap \in Snapshot /\ UNCHANGED feed
      /\ delivery[work[p].snap].status = "running"
  BY Typed DEF Store, At, Leased
<1>2. ASSUME NEW g \in Guid, article[g].full PROVE article'[g] = article[g]
  <2>1. article[g].present
    BY <1>2 DEF IInv, FullPresent
  <2>2. work[p].base[g] = article[g] \/ (g \notin ItemsOf[work[p].snap] /\ work[p].base[g] = Absent)
    BY <1>1 DEF IInv, Loaded
  <2>3. ~Insert(p, g) /\ ~Update(p, g)
    BY <1>2, <2>1, <2>2, IdleRow DEF IInv, Insert, Update
  <2> QED BY <2>3 DEF Store, Stored
<1>3. ASSUME NEW g \in Guid, faults = 0, article[g].present, article[g].content # Page
      PROVE  article'[g].content >= article[g].content
  <2>1. PICK c \in Snapshot : c = article[g].content
    BY <1>3, Typed DEF Article
  <2>2. CASE article'[g] = article[g]
    BY <2>1, <2>2, Typed
  <2>3. CASE article'[g] # article[g]
    <3>1. article'[g].content = work[p].snap
      BY <2>3, StoredRows
    <3>2. delivery[c].status \in Done /\ Calm /\ Ordered
      BY <1>3, <2>1 DEF IInv, Ordered
    <3>3. CASE delivery[c].status = "completed"
      BY <1>1, <2>1, <3>1, <3>2, <3>3, Typed DEF Ordered
    <3>4. CASE delivery[c].status = "running"
      <4>1. c = work[p].snap
        BY <3>2, <3>4 DEF Calm, OneProcess
      <4> QED BY <2>1, <3>1, <4>1, Typed
    <3> QED BY <3>2, <3>3, <3>4 DEF Done
  <2> QED BY <2>2, <2>3
<1> QED BY <1>1, <1>2, <1>3 DEF NeverGoesBack, EnrichedKept

\* With one worker process, as in the default set-up: an article never goes back to an earlier
\* snapshot while nothing fails, and whatever fails, one that has the page's content keeps it.
THEOREM OrderKept ==
  ASSUME ParametersAssumption, OneProcess
  PROVE  Spec => [][NeverGoesBack /\ EnrichedKept]_vars
<1>1. IInv /\ [Next]_vars => [NeverGoesBack /\ EnrichedKept]_vars
  <2> SUFFICES ASSUME IInv, Next PROVE NeverGoesBack /\ EnrichedKept
    OBVIOUS
  <2>1. CASE UNCHANGED article
    <3>1. \A g \in Guid : article[g].content # Page => article'[g].content >= article[g].content
      BY <2>1, Typed DEF Article
    <3> QED BY <2>1, <3>1 DEF NeverGoesBack, EnrichedKept
  <2>2. CASE feed'.epoch = feed.epoch + 1
    <3>1. feed'.epoch # feed.epoch
      BY <2>2, Typed
    <3> QED BY <3>1 DEF NeverGoesBack, EnrichedKept
  <2>3. ASSUME NEW p \in Process, NEW g \in Guid, Enrich(p, g) PROVE NeverGoesBack /\ EnrichedKept
    <3>1. /\ ~article[g].full /\ article'[g].content = Page
          /\ \A h \in Guid \ {g} : article'[h] = article[h]
      BY <2>3 DEF Enrich, IInv, TypeOK
    <3>2. \A h \in Guid \ {g} : article[h].content # Page =>
            article'[h].content >= article[h].content
      BY <3>1, Typed DEF Article
    <3> QED BY <3>1, <3>2 DEF NeverGoesBack, EnrichedKept
  <2>4. ASSUME NEW p \in Process, Store(p) PROVE NeverGoesBack /\ EnrichedKept
    BY <2>4, StoreInOrder
  <2> QED BY <2>1, <2>2, <2>3, <2>4, Writers
<1> QED BY <1>1, SpecIInv, PTL DEF Spec

---------------------------------------------------------------------------

(***************************************************************************)
(* Categories: what the keys of the tables promise, under any requests.    *)
(***************************************************************************)
CONSTANTS Category, Feed, Name, Slug, Slugs, Requester, Root, Kinds
VARIABLES parent, name, slug, home, used, req, under

Tree == INSTANCE Categories WITH Request <- Requester

StepNames == {"idle", "asked", "checked", "apart", "counted", "made", "undo"}
MadeOnes == {<<>>} \cup {<<c>> : c \in Category} \cup Category \X Category
ReqRow == [kind : Kinds \cup {"none"}, step : StepNames, cat : Category \cup {None},
           to : Category \cup {Root, None}, name : Name, slug : Slug \cup {None},
           feed : SUBSET Feed, path : {<<>>} \cup Name \X Name, made : MadeOnes]

TreeTyped ==
  /\ parent \in [Category -> Category \cup {Root, None}]
  /\ name \in [Category -> Name] /\ slug \in [Category -> Slug \cup {None}]
  /\ home \in [Feed -> Category \cup {None}]
  /\ used \subseteq Category /\ \A c \in Category : parent[c] # None => c \in used

\* A request for an import has a path.
ReqFits(row) == row \in ReqRow /\ (row.kind = "import" => row.path \in Name \X Name)

ReqTyped == req \in [Requester -> ReqRow] /\ \A r \in Requester : ReqFits(req[r])

TreeInv == Tree!CategoriesAssumption /\ TreeTyped /\ ReqTyped /\ Tree!KeysHold

LEMMA TreeConstants ==
  ASSUME Tree!CategoriesAssumption
  PROVE  /\ Root \notin Category /\ None \notin Category /\ Root # None
         /\ \A n \in Name : 1 \in DOMAIN Slugs[n] /\ Slugs[n][1] \in Slug
         /\ Tree!AnyName \in Name /\ Tree!Idle \in ReqRow /\ ReqFits(Tree!Idle)
<1>1. Root \notin Category /\ None \notin Category /\ Root # None /\ Name # {}
  BY DEF Tree!CategoriesAssumption
<1>2. Tree!AnyName \in Name
  BY <1>1, Zenon DEF Tree!AnyName
<1>3. PICK n \in Name : n = Tree!AnyName
  BY <1>2
<1>4. Tree!Idle = [kind |-> "none", step |-> "idle", cat |-> None, to |-> Root, name |-> n,
                   slug |-> None, feed |-> {}, path |-> <<>>, made |-> <<>>]
  BY <1>3 DEF Tree!Idle
<1>5. Tree!Idle \in ReqRow /\ Tree!Idle.kind = "none"
  BY <1>4 DEF ReqRow, StepNames, MadeOnes
<1>6. ASSUME NEW m \in Name
      PROVE  1 \in DOMAIN Slugs[m] /\ Slugs[m][1] \in Slug
  BY DEF Tree!CategoriesAssumption
<1> QED BY <1>1, <1>2, <1>5, <1>6 DEF ReqFits

\* A request moves on.
LEMMA ReqMoves ==
  ASSUME ReqTyped, NEW r \in Requester, NEW row, ReqFits(row), req' = [req EXCEPT ![r] = row]
  PROVE  ReqTyped'
BY DEF ReqTyped, ReqFits

LEMMA ReqGoes ==
  ASSUME TreeInv, NEW r \in Requester, NEW step \in StepNames, Tree!Goes(r, step)
  PROVE  TreeInv'
<1>1. PICK row : row = [req[r] EXCEPT !.step = step]
  OBVIOUS
<1>2. ReqFits(row) /\ req' = [req EXCEPT ![r] = row]
  BY <1>1 DEF Tree!Goes, TreeInv, ReqTyped, ReqFits, ReqRow
<1>3. ReqTyped'
  BY <1>2, ReqMoves DEF TreeInv
<1> QED BY <1>3 DEF TreeInv, TreeTyped, Tree!Goes, Tree!tree, Tree!KeysHold, Tree!Exists,
                    Tree!IsParent

LEMMA ReqEnds ==
  ASSUME TreeInv, NEW r \in Requester, Tree!Ends(r)
  PROVE  ReqTyped'
BY TreeConstants, ReqMoves DEF TreeInv, Tree!Ends

LEMMA ReqRefused ==
  ASSUME TreeInv, NEW r \in Requester, Tree!Refused(r)
  PROVE  TreeInv'
<1>1. ReqTyped'
  BY ReqEnds DEF Tree!Refused
<1> QED BY <1>1 DEF TreeInv, TreeTyped, Tree!Refused, Tree!tree, Tree!KeysHold, Tree!Exists,
                    Tree!IsParent

\* The tree is as it was.
LEMMA TreeKept ==
  ASSUME TreeInv, UNCHANGED Tree!tree
  PROVE  TreeTyped' /\ Tree!KeysHold'
BY DEF TreeInv, TreeTyped, Tree!tree, Tree!KeysHold, Tree!Exists, Tree!IsParent

\* Children of one parent differ by what lab says of them.
Differ(up, lab) ==
  \A c, d \in Category : c # d /\ up[c] # None /\ up[c] = up[d] => lab[c] # lab[d]

\* One category is put where no other is like it.
LEMMA DifferPut ==
  ASSUME NEW A, NEW up \in [Category -> A], NEW B, NEW lab \in [Category -> B], Differ(up, lab),
         NEW c \in Category, NEW to, NEW x, \A d \in Category \ {c} : up[d] = to => lab[d] # x
  PROVE  Differ([up EXCEPT ![c] = to], [lab EXCEPT ![c] = x])
BY DEF Differ

LEMMA KeysDiffer ==
  ASSUME TreeInv
  PROVE  Differ(parent, slug)
BY DEF Differ, TreeInv, Tree!KeysHold, Tree!Exists

(***************************************************************************)
(* The rows.                                                               *)
(***************************************************************************)
\* A category without a row gets one, under a parent that is there and apart from its siblings.
LEMMA RowInserted ==
  ASSUME TreeInv, NEW c \in Category, c \notin used, NEW to, Tree!IsParent(to),
         NEW n \in Name, NEW s \in Slug \cup {None}, ~Tree!SlugTaken(to, s, None),
         parent' = [parent EXCEPT ![c] = to], name' = [name EXCEPT ![c] = n],
         slug' = [slug EXCEPT ![c] = s], used' = used \cup {c}, home' = home
  PROVE  TreeTyped' /\ Tree!KeysHold'
<1>1. parent[c] = None /\ Root \notin Category /\ None \notin Category /\ Root # None
  BY TreeConstants DEF TreeInv, TreeTyped
<1>2. to \in Category \cup {Root} /\ to # c /\ (to = Root \/ parent[to] # None)
  BY <1>1 DEF Tree!IsParent, Tree!Exists
<1>3. \A d \in Category : parent[d] = to => slug[d] # s
  BY <1>1 DEF Tree!SlugTaken, Tree!Siblings
<1>4. TreeTyped'
  BY <1>1, <1>2 DEF TreeInv, TreeTyped
<1>5. /\ \A d \in Category \ {c} : parent'[d] = parent[d] /\ slug'[d] = slug[d]
      /\ parent'[c] = to /\ slug'[c] = s
  BY DEF TreeInv, TreeTyped
<1>6. \A d \in Category : parent'[d] # None => parent'[d] = Root \/ (parent'[d] \in Category
                                                           /\ parent'[parent'[d]] # None)
  BY <1>1, <1>2, <1>5 DEF TreeInv, Tree!KeysHold, Tree!Exists, Tree!IsParent
<1>7. \A f \in Feed : home'[f] # None => home'[f] \in Category /\ parent'[home'[f]] # None
  BY <1>1, <1>2, <1>5 DEF TreeInv, Tree!KeysHold, Tree!Exists
<1>8. \A d, e \in Category : d # e /\ parent'[d] # None /\ parent'[d] = parent'[e]
                               => slug'[d] # slug'[e]
  BY <1>1, <1>2, <1>3, <1>5 DEF TreeInv, Tree!KeysHold, Tree!Exists
<1> QED BY <1>4, <1>6, <1>7, <1>8 DEF Tree!KeysHold, Tree!Exists, Tree!IsParent

\* A category that is there moves below one that is, under a slug that no sibling has.
LEMMA Moved ==
  ASSUME TreeInv, NEW c, Tree!Exists(c), NEW to, Tree!IsParent(to),
         NEW n \in Name, NEW s \in Slug \cup {None}, ~Tree!SlugTaken(to, s, c),
         parent' = [parent EXCEPT ![c] = to], name' = [name EXCEPT ![c] = n],
         slug' = [slug EXCEPT ![c] = s], used' = used, home' = home
  PROVE  TreeTyped' /\ Tree!KeysHold'
<1>1. c \in Category /\ parent[c] # None /\ Root \notin Category /\ None \notin Category
      /\ Root # None
  BY TreeConstants DEF TreeInv, Tree!Exists
<1>2. to \in Category \cup {Root} /\ (to = Root \/ parent[to] # None)
  BY <1>1 DEF Tree!IsParent, Tree!Exists
<1>3. \A d \in Category \ {c} : parent[d] = to => slug[d] # s
  BY <1>1 DEF Tree!SlugTaken, Tree!Siblings
<1>4. TreeTyped'
  BY <1>1, <1>2 DEF TreeInv, TreeTyped
<1>5. /\ \A d \in Category \ {c} : parent'[d] = parent[d] /\ slug'[d] = slug[d]
      /\ parent'[c] = to /\ slug'[c] = s
  BY <1>1 DEF TreeInv, TreeTyped
<1>6. \A d \in Category : parent'[d] # None => parent'[d] = Root \/ (parent'[d] \in Category
                                                           /\ parent'[parent'[d]] # None)
  BY <1>1, <1>2, <1>5 DEF TreeInv, Tree!KeysHold, Tree!Exists, Tree!IsParent
<1>7. \A f \in Feed : home'[f] # None => home'[f] \in Category /\ parent'[home'[f]] # None
  BY <1>1, <1>2, <1>5 DEF TreeInv, Tree!KeysHold, Tree!Exists
<1>8. \A d, e \in Category : d # e /\ parent'[d] # None /\ parent'[d] = parent'[e]
                               => slug'[d] # slug'[e]
  BY <1>1, <1>2, <1>3, <1>5 DEF TreeInv, Tree!KeysHold, Tree!Exists
<1> QED BY <1>4, <1>6, <1>7, <1>8 DEF Tree!KeysHold, Tree!Exists, Tree!IsParent

\* A category goes only without children, and with its feeds.
LEMMA Removed ==
  ASSUME TreeInv, NEW c, Tree!Remove(c)
  PROVE  TreeTyped' /\ Tree!KeysHold'
<1>1. CASE ~(Tree!Exists(c) /\ Tree!MayRemove(c))
  BY <1>1, TreeKept, Zenon DEF Tree!Remove
<1>2. CASE Tree!Exists(c) /\ Tree!MayRemove(c)
  <2>1. /\ c \in Category /\ parent[c] # None /\ \A d \in Category : parent[d] # c
        /\ Root \notin Category /\ None \notin Category /\ Root # None
    BY <1>2, TreeConstants DEF TreeInv, Tree!Exists, Tree!MayRemove, Tree!Children
  <2>2. /\ parent' = [parent EXCEPT ![c] = None] /\ name' = [name EXCEPT ![c] = Tree!AnyName]
        /\ slug' = [slug EXCEPT ![c] = None] /\ used' = used
        /\ home' = [f \in Feed |-> IF home[f] = c THEN None ELSE home[f]]
    BY <1>2, Zenon DEF Tree!Remove, Tree!Left
  <2>3. TreeTyped'
    <3>1. PICK any \in Name : any = Tree!AnyName
      BY TreeConstants DEF TreeInv
    <3>2. name' = [name EXCEPT ![c] = any]
      BY <2>2, <3>1
    <3> QED BY <2>1, <2>2, <3>2 DEF TreeInv, TreeTyped
  <2>4. /\ parent'[c] = None
        /\ \A d \in Category \ {c} : parent'[d] = parent[d] /\ slug'[d] = slug[d]
    BY <2>1, <2>2 DEF TreeInv, TreeTyped
  <2>5. \A d \in Category : parent'[d] # None => parent'[d] = Root \/ (parent'[d] \in Category
                                                           /\ parent'[parent'[d]] # None)
    BY <2>1, <2>4 DEF TreeInv, Tree!KeysHold, Tree!Exists, Tree!IsParent
  <2>6. \A f \in Feed : home'[f] # None => home'[f] \in Category /\ parent'[home'[f]] # None
    BY <2>1, <2>2, <2>4 DEF TreeInv, Tree!KeysHold, Tree!Exists
  <2>7. \A d, e \in Category : d # e /\ parent'[d] # None /\ parent'[d] = parent'[e]
                                 => slug'[d] # slug'[e]
    BY <2>1, <2>2, <2>4 DEF TreeInv, Tree!KeysHold, Tree!Exists
  <2> QED BY <2>3, <2>5, <2>6, <2>7 DEF Tree!KeysHold, Tree!Exists, Tree!IsParent
<1> QED BY <1>1, <1>2

\* Feeds go into a category that is there, or out of any.
LEMMA Housed ==
  ASSUME TreeInv, parent' = parent, name' = name, slug' = slug, used' = used,
         NEW fs, NEW c, c = None \/ Tree!Exists(c),
         home' = [f \in Feed |-> IF f \in fs THEN c ELSE home[f]]
  PROVE  TreeTyped' /\ Tree!KeysHold'
BY DEF TreeInv, TreeTyped, Tree!KeysHold, Tree!Exists, Tree!IsParent

(***************************************************************************)
(* The steps of a request.                                                 *)
(***************************************************************************)
LEMMA TreeNamed ==
  ASSUME TreeInv, NEW r \in Requester, UNCHANGED Tree!tree,
         NEW row, row.kind = req[r].kind, row.path = req[r].path, row \in ReqRow,
         req' = [req EXCEPT ![r] = row]
  PROVE  TreeInv'
<1>1. ReqFits(row)
  BY DEF TreeInv, ReqTyped, ReqFits
<1> QED BY <1>1, TreeKept, ReqMoves DEF TreeInv

LEMMA TreeName ==
  ASSUME TreeInv, NEW r \in Requester, Tree!CheckName(r)
  PROVE  TreeInv'
<1>1. CASE Tree!Refused(r)
  BY <1>1, ReqRefused
<1>2. CASE ~Tree!Refused(r)
  <2>1. PICK s \in Slug : /\ UNCHANGED Tree!tree
                          /\ req' = [req EXCEPT ![r].step = "apart", ![r].slug = s]
    BY <1>2 DEF Tree!CheckName
  <2>2. PICK row : row = [req[r] EXCEPT !.step = "apart", !.slug = s]
    OBVIOUS
  <2>3. row \in ReqRow /\ row.kind = req[r].kind /\ row.path = req[r].path
    BY <2>2 DEF TreeInv, ReqTyped, ReqFits, ReqRow, StepNames
  <2>4. req' = [req EXCEPT ![r] = row]
    BY <2>1, <2>2
  <2> QED BY <2>1, <2>3, <2>4, TreeNamed
<1> QED BY <1>1, <1>2

LEMMA TreeChecks ==
  ASSUME TreeInv, NEW r \in Requester,
         \/ Tree!CheckCreate(r) \/ Tree!CheckUpdate(r)
         \/ Tree!CheckDelete(r) \/ Tree!CountChildren(r) \/ Tree!CheckPlace(r)
  PROVE  TreeInv'
<1>1. Tree!Refused(r) \/ \E step \in StepNames : Tree!Goes(r, step)
  <2>1. {"checked", "counted"} \subseteq StepNames
    BY DEF StepNames
  <2>2. CASE Tree!CheckCreate(r)
    BY <2>1, <2>2 DEF Tree!CheckCreate
  <2>4. CASE Tree!CheckUpdate(r)
    BY <2>1, <2>4 DEF Tree!CheckUpdate
  <2>5. CASE Tree!CheckDelete(r) \/ Tree!CountChildren(r) \/ Tree!CheckPlace(r)
    BY <2>1, <2>5 DEF Tree!CheckDelete, Tree!CountChildren, Tree!CheckPlace
  <2> QED BY <2>2, <2>4, <2>5
<1> QED BY <1>1, ReqRefused, ReqGoes

LEMMA TreeSubmit ==
  ASSUME TreeInv, NEW r \in Requester, NEW request \in Tree!Requests, Tree!Submit(r, request)
  PROVE  TreeInv'
<1>1. request.kind \in Kinds /\ req' = [req EXCEPT ![r] = request] /\ UNCHANGED Tree!tree
  BY DEF Tree!Submit
<1>2. Tree!AnyName \in Name
  BY TreeConstants DEF TreeInv
<1>3. ReqFits(request)
  <2>1. PICK any \in Name : any = Tree!AnyName
    BY <1>2
  <2> DEFINE Row(kind, c, to, n, fs, path) ==
               [kind |-> kind, step |-> "asked", cat |-> c, to |-> to, name |-> n,
                slug |-> None, feed |-> fs, path |-> path, made |-> <<>>]
  <2>2. \E kind \in {"create", "update", "delete", "place", "unsubscribe", "import"},
           c \in Category \cup {None}, to \in Category \cup {Root}, n \in Name,
           fs \in SUBSET Feed, path \in {<<>>} \cup Name \X Name :
          /\ request = Row(kind, c, to, n, fs, path)
          /\ kind = "import" => path \in Name \X Name
    BY <2>1 DEF Tree!Requests, Tree!Asked
  <2>3. PICK kind \in {"create", "update", "delete", "place", "unsubscribe", "import"},
             c \in Category \cup {None}, to \in Category \cup {Root}, n \in Name,
             fs \in SUBSET Feed, path \in {<<>>} \cup Name \X Name :
          /\ request = Row(kind, c, to, n, fs, path)
          /\ kind = "import" => path \in Name \X Name
    BY <2>2
  <2>4. request.kind = kind /\ request.path = path
    BY <2>3
  <2>5. kind \in Kinds
    BY <1>1, <2>4
  <2>6. request \in ReqRow
    BY <2>3, <2>5 DEF ReqRow, StepNames, MadeOnes
  <2> QED BY <2>3, <2>4, <2>6 DEF ReqFits
<1>4. ReqTyped'
  BY <1>1, <1>3, ReqMoves DEF TreeInv
<1> QED BY <1>1, <1>4, TreeKept DEF TreeInv

LEMMA TreeInsert ==
  ASSUME TreeInv, NEW r \in Requester, NEW c \in Category, Tree!Insert(r, c)
  PROVE  TreeInv'
<1>1. ReqTyped'
  BY ReqEnds DEF Tree!Insert
<1>2. req[r].name \in Name /\ req[r].slug \in Slug \cup {None}
  BY DEF TreeInv, ReqTyped, ReqFits, ReqRow
<1>3. PICK n \in Name, s \in Slug \cup {None} : n = req[r].name /\ s = req[r].slug
  BY <1>2
<1>4. PICK to : to = req[r].to
  OBVIOUS
<1>5. CASE UNCHANGED Tree!tree
  BY <1>1, <1>5, TreeKept DEF TreeInv
<1>6. CASE ~UNCHANGED Tree!tree
  <2>1. /\ c \notin used /\ Tree!IsParent(to) /\ ~Tree!SlugTaken(to, s, None)
        /\ parent' = [parent EXCEPT ![c] = to] /\ name' = [name EXCEPT ![c] = n]
        /\ slug' = [slug EXCEPT ![c] = s] /\ used' = used \cup {c} /\ home' = home
    BY <1>3, <1>4, <1>6, Zenon DEF Tree!Insert, Tree!Fresh
  <2> QED BY <1>1, <2>1, RowInserted DEF TreeInv
<1> QED BY <1>5, <1>6

LEMMA TreeUpdate ==
  ASSUME TreeInv, NEW r \in Requester, Tree!Update(r)
  PROVE  TreeInv'
<1>1. ReqTyped' /\ home' = home /\ used' = used
  BY ReqEnds DEF Tree!Update
<1>2. req[r].name \in Name /\ req[r].slug \in Slug \cup {None}
  BY DEF TreeInv, ReqTyped, ReqFits, ReqRow
<1>3. PICK n \in Name, s \in Slug \cup {None} : n = req[r].name /\ s = req[r].slug
  BY <1>2
<1>4. PICK to : to = req[r].to
  OBVIOUS
<1>5. PICK c : c = req[r].cat
  OBVIOUS
<1>6. CASE UNCHANGED <<parent, name, slug>>
  <2>1. UNCHANGED Tree!tree
    BY <1>1, <1>6 DEF Tree!tree
  <2> QED BY <1>1, <2>1, TreeKept DEF TreeInv
<1>7. CASE ~UNCHANGED <<parent, name, slug>>
  <2>1. /\ Tree!Exists(c) /\ Tree!IsParent(to) /\ ~Tree!SlugTaken(to, s, c)
        /\ parent' = [parent EXCEPT ![c] = to] /\ name' = [name EXCEPT ![c] = n]
        /\ slug' = [slug EXCEPT ![c] = s]
    BY <1>3, <1>4, <1>5, <1>7, Zenon DEF Tree!Update
  <2> QED BY <1>1, <2>1, Moved DEF TreeInv
<1> QED BY <1>6, <1>7

LEMMA TreeFeeds ==
  ASSUME TreeInv, NEW r \in Requester,
         Tree!Delete(r) \/ Tree!Place(r) \/ Tree!Unsubscribe(r) \/ Tree!InsertFeed(r)
  PROVE  TreeInv'
<1>1. CASE Tree!Delete(r)
  BY <1>1, Removed, ReqEnds DEF Tree!Delete, TreeInv
<1>2. CASE Tree!Place(r)
  <2>1. CASE Tree!Exists(req[r].cat)
    BY <1>2, <2>1, Housed, ReqEnds DEF Tree!Place, TreeInv
  <2>2. CASE ~Tree!Exists(req[r].cat)
    <3>1. UNCHANGED Tree!tree
      BY <1>2, <2>2 DEF Tree!Place, Tree!tree
    <3> QED BY <1>2, <3>1, TreeKept, ReqEnds DEF Tree!Place, TreeInv
  <2> QED BY <2>1, <2>2
<1>3. CASE Tree!Unsubscribe(r)
  BY <1>3, Housed, ReqEnds DEF Tree!Unsubscribe, TreeInv
<1>4. CASE Tree!InsertFeed(r)
  <2> DEFINE ok == Tree!Exists(req[r].cat) /\ \A f \in req[r].feed : home[f] = None
  <2>1. CASE ok
    BY <1>4, <2>1, Housed, ReqEnds DEF Tree!InsertFeed, TreeInv
  <2>2. CASE ~ok
    <3>1. Tree!Goes(r, "undo")
      BY <1>4, <2>2 DEF Tree!InsertFeed, Tree!Goes, Tree!tree
    <3>2. "undo" \in StepNames
      BY DEF StepNames
    <3> QED BY <3>1, <3>2, ReqGoes
  <2> QED BY <2>1, <2>2
<1> QED BY <1>1, <1>2, <1>3, <1>4

\* What a plan makes of its request.
LEMMA PlanGoes ==
  ASSUME TreeInv, NEW r \in Requester, Tree!Plan(r), ~Tree!Ends(r)
  PROVE  \/ \E d \in Category : req' = [req EXCEPT ![r].step = "made", ![r].cat = d]
         \/ \E p \in Category \cup {Root}, s \in Slug :
              req' = [req EXCEPT ![r].step = "checked", ![r].to = p, ![r].slug = s]
<1> USE DEF Tree!Plan, Tree!Named
<1>1. CASE \E c, d \in Category : req' = [req EXCEPT ![r].step = "made", ![r].cat = d]
  BY <1>1
<1>2. CASE ~\E c, d \in Category : req' = [req EXCEPT ![r].step = "made", ![r].cat = d]
  BY <1>2
<1> QED BY <1>1, <1>2

LEMMA TreePlan ==
  ASSUME TreeInv, NEW r \in Requester, Tree!Plan(r)
  PROVE  TreeInv'
<1>1. UNCHANGED Tree!tree
  BY DEF Tree!Plan
<1>2. CASE Tree!Ends(r)
  BY <1>1, <1>2, ReqEnds, TreeKept DEF TreeInv
<1>3. ASSUME NEW d \in Category, req' = [req EXCEPT ![r].step = "made", ![r].cat = d]
      PROVE  TreeInv'
  <2>1. PICK row : row = [req[r] EXCEPT !.step = "made", !.cat = d]
    OBVIOUS
  <2>2. row \in ReqRow /\ row.kind = req[r].kind /\ row.path = req[r].path
    BY <2>1 DEF TreeInv, ReqTyped, ReqFits, ReqRow, StepNames
  <2>3. req' = [req EXCEPT ![r] = row]
    BY <1>3, <2>1
  <2> QED BY <1>1, <2>2, <2>3, TreeNamed
<1>4. ASSUME NEW p \in Category \cup {Root}, NEW s \in Slug,
             req' = [req EXCEPT ![r].step = "checked", ![r].to = p, ![r].slug = s]
      PROVE  TreeInv'
  <2>1. PICK row : row = [req[r] EXCEPT !.step = "checked", !.to = p, !.slug = s]
    OBVIOUS
  <2>2. row \in ReqRow /\ row.kind = req[r].kind /\ row.path = req[r].path
    BY <2>1 DEF TreeInv, ReqTyped, ReqFits, ReqRow, StepNames
  <2>3. req' = [req EXCEPT ![r] = row]
    BY <1>4, <2>1
  <2> QED BY <1>1, <2>2, <2>3, TreeNamed
<1> QED BY <1>2, <1>3, <1>4, PlanGoes

\* The two categories of a path, of which none is there.
LEMMA BothInserted ==
  ASSUME TreeInv, NEW c \in Category, NEW d \in Category, c \notin used, d \notin used, c # d,
         NEW n \in Name, NEW m \in Name, NEW s \in Slug \cup {None}, NEW z \in Slug,
         ~Tree!SlugTaken(Root, s, None),
         parent' = [parent EXCEPT ![c] = Root, ![d] = c],
         name' = [name EXCEPT ![c] = n, ![d] = m],
         slug' = [slug EXCEPT ![c] = s, ![d] = z],
         used' = used \cup {c, d}, home' = home
  PROVE  TreeTyped' /\ Tree!KeysHold'
<1>1. /\ parent[c] = None /\ parent[d] = None
      /\ Root \notin Category /\ None \notin Category /\ Root # None
  BY TreeConstants DEF TreeInv, TreeTyped
<1>2. \A e \in Category : parent[e] = Root => slug[e] # s
  BY <1>1 DEF Tree!SlugTaken, Tree!Siblings
<1>3. TreeTyped'
  BY <1>1 DEF TreeInv, TreeTyped
<1>4. /\ \A e \in Category \ {c, d} : parent'[e] = parent[e] /\ slug'[e] = slug[e]
      /\ parent'[c] = Root /\ parent'[d] = c /\ slug'[c] = s /\ slug'[d] = z
  BY DEF TreeInv, TreeTyped
<1>5. \A e \in Category : parent[e] # c /\ parent[e] # d
  BY <1>1 DEF TreeInv, Tree!KeysHold, Tree!Exists, Tree!IsParent
<1>6. \A e \in Category : parent'[e] # None => parent'[e] = Root \/ (parent'[e] \in Category
                                                           /\ parent'[parent'[e]] # None)
  <2> SUFFICES ASSUME NEW e \in Category, parent'[e] # None
               PROVE  parent'[e] = Root \/ (parent'[e] \in Category
                                           /\ parent'[parent'[e]] # None)
    OBVIOUS
  <2>1. CASE e \in {c, d}
    BY <1>1, <1>4, <2>1
  <2>2. CASE e \notin {c, d}
    <3>1. parent'[e] = parent[e]
      BY <1>4, <2>2
    <3>2. parent[e] = Root \/ (parent[e] \in Category /\ parent[parent[e]] # None)
      BY <3>1 DEF TreeInv, Tree!KeysHold, Tree!Exists, Tree!IsParent
    <3>3. parent[e] # c /\ parent[e] # d
      BY <1>5
    <3> QED BY <1>4, <3>1, <3>2, <3>3
  <2> QED BY <2>1, <2>2
<1>7. ASSUME NEW f \in Feed, home'[f] # None
      PROVE  home'[f] \in Category /\ parent'[home'[f]] # None
  <2>1. home'[f] \in Category /\ parent[home'[f]] # None
    BY <1>7 DEF TreeInv, Tree!KeysHold, Tree!Exists
  <2> QED BY <1>1, <1>4, <2>1
<1>8. Differ(parent', slug')
  <2>1. PICK up \in [Category -> Category \cup {Root, None}] : up = [parent EXCEPT ![c] = Root]
    BY <1>1 DEF TreeInv, TreeTyped
  <2>2. PICK lab \in [Category -> Slug \cup {None}] : lab = [slug EXCEPT ![c] = s]
    BY DEF TreeInv, TreeTyped
  <2>3. Differ(up, lab)
    BY <1>2, <2>1, <2>2, KeysDiffer, DifferPut DEF TreeInv, TreeTyped
  <2>4. \A e \in Category \ {d} : up[e] # c
    BY <1>1, <1>5, <2>1 DEF TreeInv, TreeTyped
  <2>5. parent' = [up EXCEPT ![d] = c] /\ slug' = [lab EXCEPT ![d] = z]
    BY <2>1, <2>2
  <2>6. \A e \in Category \ {d} : up[e] = c => lab[e] # z
    BY <2>4
  <2>7. Differ([up EXCEPT ![d] = c], [lab EXCEPT ![d] = z])
    BY <2>3, <2>6, DifferPut
  <2> QED BY <2>5, <2>7
<1> QED BY <1>3, <1>6, <1>7, <1>8 DEF Tree!KeysHold, Tree!Exists, Tree!IsParent, Differ

LEMMA TreeInsertMany ==
  ASSUME TreeInv, NEW r \in Requester, NEW c \in Category, NEW d \in Category,
         Tree!InsertMany(r, c, d)
  PROVE  TreeInv'
<1>1. ReqFits(req[r]) /\ req[r].kind = "import" /\ home' = home
  BY DEF TreeInv, ReqTyped, Tree!InsertMany, Tree!Is
<1>2. PICK n \in Name, m \in Name, s \in Slug \cup {None} :
        n = req[r].path[1] /\ m = req[r].path[2] /\ s = req[r].slug
  BY <1>1 DEF ReqFits, ReqRow
<1>3. PICK to : to = req[r].to
  OBVIOUS
<1>4. PICK both : both = (to = Root)
  OBVIOUS
<1>5. CASE Tree!Ends(r)
  <2>1. UNCHANGED Tree!tree
    <3>1. Tree!Idle.step = "idle"
      BY DEF Tree!Idle
    <3>2. req'[r].step = "idle"
      BY <1>5, <3>1 DEF Tree!Ends, TreeInv, ReqTyped
    <3>3. ~(\E made : req' = [req EXCEPT ![r].step = "made", ![r].cat = d, ![r].made = made])
      BY <1>1, <3>2 DEF TreeInv, ReqTyped, ReqFits, ReqRow
    <3> QED BY <1>1, <3>3, Zenon DEF Tree!InsertMany, Tree!tree
  <2> QED BY <1>5, <2>1, ReqEnds, TreeKept DEF TreeInv
<1>6. CASE ~Tree!Ends(r)
  <2>1. /\ Tree!IsParent(to) /\ ~Tree!SlugTaken(to, s, None)
        /\ c \notin used /\ d \notin used /\ (c = d) = ~both
        /\ parent' = IF both THEN [parent EXCEPT ![c] = Root, ![d] = c]
                     ELSE [parent EXCEPT ![c] = to]
        /\ name' = IF both THEN [name EXCEPT ![c] = n, ![d] = m] ELSE [name EXCEPT ![c] = m]
        /\ slug' = IF both THEN [slug EXCEPT ![c] = s, ![d] = Slugs[m][1]]
                   ELSE [slug EXCEPT ![c] = s]
        /\ used' = used \cup {c, d}
        /\ req' = [req EXCEPT ![r].step = "made", ![r].cat = d,
                              ![r].made = IF both THEN <<d, c>> ELSE <<c>>]
    BY <1>2, <1>3, <1>4, <1>6, Zenon DEF Tree!InsertMany, Tree!Fresh
  <2>2. PICK made \in MadeOnes : made = IF both THEN <<d, c>> ELSE <<c>>
    BY DEF MadeOnes
  <2>3. PICK row : row = [req[r] EXCEPT !.step = "made", !.cat = d, !.made = made]
    OBVIOUS
  <2>4. ReqFits(row)
    BY <1>1, <2>3 DEF ReqFits, ReqRow, StepNames
  <2>5. req' = [req EXCEPT ![r] = row]
    BY <2>1, <2>2, <2>3
  <2>6. ReqTyped'
    BY <2>4, <2>5, ReqMoves DEF TreeInv
  <2>7. TreeTyped' /\ Tree!KeysHold'
    <3>1. CASE both
      <4>1. PICK z \in Slug : z = Slugs[m][1]
        BY TreeConstants DEF TreeInv
      <4>2. /\ parent' = [parent EXCEPT ![c] = Root, ![d] = c]
            /\ name' = [name EXCEPT ![c] = n, ![d] = m]
            /\ slug' = [slug EXCEPT ![c] = s, ![d] = z]
            /\ c # d /\ ~Tree!SlugTaken(Root, s, None) /\ home' = home
        BY <1>1, <1>4, <2>1, <3>1, <4>1
      <4>3. c \notin used /\ d \notin used /\ used' = used \cup {c, d}
        BY <2>1
      <4> QED BY <4>1, <4>2, <4>3, BothInserted
    <3>2. CASE ~both
      <4>1. c = d /\ used \cup {c, d} = used \cup {c}
        BY <1>4, <2>1, <3>2
      <4> QED BY <1>1, <2>1, <3>2, <4>1, RowInserted
    <3> QED BY <3>1, <3>2
  <2> QED BY <2>6, <2>7 DEF TreeInv
<1> QED BY <1>5, <1>6

LEMMA TreeUndo ==
  ASSUME TreeInv, NEW r \in Requester, Tree!Undo(r)
  PROVE  TreeInv'
<1>1. CASE Tree!Refused(r)
  BY <1>1, ReqRefused
<1>2. CASE ~Tree!Refused(r)
  <2>1. PICK made : made = req[r].made
    OBVIOUS
  <2>2. /\ made # <<>> /\ Tree!Remove(made[1])
        /\ req' = [req EXCEPT ![r].made =
                         IF made \in Category \X Category THEN <<made[2]>> ELSE <<>>]
    BY <1>2, <2>1, Zenon DEF Tree!Undo
  <2>3. ReqFits(req[r])
    BY DEF TreeInv, ReqTyped
  <2>4. PICK left \in MadeOnes :
          left = IF made \in Category \X Category THEN <<made[2]>> ELSE <<>>
    BY DEF MadeOnes
  <2>5. PICK row : row = [req[r] EXCEPT !.made = left]
    OBVIOUS
  <2>6. ReqFits(row) /\ req' = [req EXCEPT ![r] = row]
    BY <2>2, <2>3, <2>4, <2>5 DEF ReqFits, ReqRow
  <2>7. ReqTyped'
    BY <2>6, ReqMoves DEF TreeInv
  <2> QED BY <2>2, <2>7, Removed DEF TreeInv
<1> QED BY <1>1, <1>2

LEMMA TreeBegins ==
  ASSUME Tree!CategoriesAssumption, Tree!Init
  PROVE  TreeInv
<1>1. Tree!AnyName \in Name /\ ReqFits(Tree!Idle)
  BY TreeConstants
<1>2. PICK idle : idle = Tree!Idle /\ ReqFits(idle)
  BY <1>1
<1>6. PICK any \in Name : any = Tree!AnyName
  BY <1>1
<1>3. ReqTyped
  BY <1>2 DEF Tree!Init, ReqTyped, ReqFits
<1>4. TreeTyped
  BY <1>6 DEF Tree!Init, TreeTyped
<1>5. Tree!KeysHold
  BY DEF Tree!Init, Tree!KeysHold, Tree!Exists
<1> QED BY <1>3, <1>4, <1>5 DEF TreeInv

LEMMA TreeStep ==
  ASSUME TreeInv, NEW r \in Requester, Tree!Step(r)
  PROVE  TreeInv'
<1>1. ASSUME NEW request \in Tree!Requests, Tree!Submit(r, request)
      PROVE  TreeInv'
  BY <1>1, TreeSubmit
<1>2. ASSUME NEW c \in Category, NEW d \in Category,
             Tree!Insert(r, c) \/ Tree!InsertMany(r, c, d)
      PROVE  TreeInv'
  BY <1>2, TreeInsert, TreeInsertMany
<1>3. CASE \/ Tree!CheckCreate(r) \/ Tree!CheckUpdate(r)
           \/ Tree!CheckDelete(r) \/ Tree!CountChildren(r) \/ Tree!CheckPlace(r)
  BY <1>3, TreeChecks
<1>4. CASE Tree!CheckName(r) \/ Tree!Plan(r)
  BY <1>4, TreeName, TreePlan
<1>5. CASE Tree!Delete(r) \/ Tree!Place(r) \/ Tree!Unsubscribe(r) \/ Tree!InsertFeed(r)
  BY <1>5, TreeFeeds
<1>6. CASE Tree!Update(r) \/ Tree!Undo(r)
  BY <1>6, TreeUpdate, TreeUndo
<1> QED BY <1>1, <1>2, <1>3, <1>4, <1>5, <1>6, Zenon DEF Tree!Step

\* What others have written under each request.
UnderTyped == under \in [Requester -> SUBSET Tree!Writes]

UnderNow(r) ==
  under' = [q \in Requester |->
            IF req'[q].step \in {"idle", "asked"} THEN {}
            ELSE under[q] \cup IF q = r THEN {} ELSE Tree!Written]

LEMMA TreeMoves ==
  ASSUME TreeInv, UnderTyped, [Tree!Next]_Tree!vars
  PROVE  TreeInv' /\ UnderTyped'
<1>1. CASE UNCHANGED Tree!vars
  BY <1>1, TreeKept DEF Tree!vars, Tree!tree, TreeInv, ReqTyped, ReqFits, UnderTyped
<1>2. CASE Tree!Next
  <2>1. PICK r \in Requester : Tree!Step(r) /\ UnderNow(r)
    BY <1>2, Zenon DEF Tree!Next, UnderNow
  <2>2. Tree!Written \subseteq Tree!Writes
    BY DEF Tree!Written
  <2>3. UnderTyped'
    BY <2>1, <2>2 DEF UnderNow, UnderTyped
  <2> QED BY <2>1, <2>3, TreeStep
<1> QED BY <1>1, <1>2

LEMMA UnderBegins ==
  ASSUME Tree!Init
  PROVE  UnderTyped
BY DEF Tree!Init, UnderTyped

\* The rows of categories and feeds, and what requests have read of them, have their types.
THEOREM TreeTypes == Tree!CategoriesAssumption => (Tree!Spec => []Tree!TypeOK)
<1>1. TreeInv /\ UnderTyped => Tree!TypeOK
  BY DEF TreeInv, TreeTyped, ReqTyped, ReqRow, StepNames, MadeOnes, UnderTyped, Tree!TypeOK
<1>2. Tree!CategoriesAssumption /\ Tree!Init => TreeInv /\ UnderTyped
  BY TreeBegins, UnderBegins
<1>3. TreeInv /\ UnderTyped /\ [Tree!Next]_Tree!vars => TreeInv' /\ UnderTyped'
  BY TreeMoves
<1> SUFFICES ASSUME Tree!CategoriesAssumption
             PROVE  Tree!Spec => []Tree!TypeOK
  OBVIOUS
<1> QED BY <1>1, <1>2, <1>3, PTL DEF Tree!Spec

\* However requests overlap, and each checks before it writes: the parent of a category is there,
\* as is the category of a feed, and siblings differ by slug (category.service.ts, the import, and
\* the keys of the tables).
THEOREM KeysAreKept == Tree!CategoriesAssumption => (Tree!Spec => []Tree!KeysHold)
<1>1. TreeInv => Tree!KeysHold
  BY DEF TreeInv
<1>2. Tree!CategoriesAssumption /\ Tree!Init => TreeInv /\ UnderTyped
  BY TreeBegins, UnderBegins
<1>3. TreeInv /\ UnderTyped /\ [Tree!Next]_Tree!vars => TreeInv' /\ UnderTyped'
  BY TreeMoves
<1> SUFFICES ASSUME Tree!CategoriesAssumption
             PROVE  Tree!Spec => []Tree!KeysHold
  OBVIOUS
<1> QED BY <1>1, <1>2, <1>3, PTL DEF Tree!Spec

(***************************************************************************)
(* Categories: only a request that another has overtaken does harm.        *)
(***************************************************************************)
\* What a step of a request does to the tree.
Rests == parent' = parent /\ name' = name /\ home' = home /\ used' = used

Inserts(r) == \E c \in Category :
  /\ req[r].kind = "create" /\ req[r].step = "apart"
  /\ c \notin used /\ Tree!IsParent(req[r].to)
  /\ parent' = [parent EXCEPT ![c] = req[r].to] /\ name' = [name EXCEPT ![c] = req[r].name]
  /\ home' = home /\ used' = used \cup {c}

Moves(r) ==
  /\ req[r].kind = "update" /\ req[r].step = "apart"
  /\ Tree!Exists(req[r].cat) /\ Tree!IsParent(req[r].to)
  /\ parent' = [parent EXCEPT ![req[r].cat] = req[r].to]
  /\ name' = [name EXCEPT ![req[r].cat] = req[r].name]
  /\ home' = home /\ used' = used

\* The categories that an import has made.
Made(made, c) == made = <<c>> \/ \E d \in Category : made = <<c, d>> \/ made = <<d, c>>

Removes(r) == \E c \in Category :
  /\ \/ req[r].kind = "delete" /\ req[r].step = "checked" /\ c = req[r].cat
     \/ req[r].kind = "import" /\ req[r].step = "undo" /\ Made(req[r].made, c)
  /\ Tree!Exists(c) /\ \A d \in Category : parent[d] # c
  /\ parent' = [parent EXCEPT ![c] = None] /\ \A d \in Category \ {c} : name'[d] = name[d]
  /\ home' = [f \in Feed |-> IF home[f] = c THEN None ELSE home[f]] /\ used' = used

Houses(r) ==
  /\ parent' = parent /\ name' = name /\ used' = used
  /\ \A f \in Feed : \/ home'[f] # None \/ home'[f] = home[f]
                     \/ Tree!Unsubscribe(r) /\ f \in req[r].feed

InsertsBoth(r) == \E c, d \in Category :
  /\ req[r].kind = "import" /\ req[r].step = "checked" /\ req[r].to = Root
  /\ c \notin used /\ d \notin used /\ c # d
  /\ parent' = [parent EXCEPT ![c] = Root, ![d] = c]
  /\ name' = [name EXCEPT ![c] = req[r].path[1], ![d] = req[r].path[2]]
  /\ home' = home /\ used' = used \cup {c, d}
  /\ \A e \in Category : Made(req'[r].made, e) => e \in {c, d}

InsertsOne(r) == \E c \in Category :
  /\ req[r].kind = "import" /\ req[r].step = "checked" /\ req[r].to # Root
  /\ c \notin used /\ Tree!IsParent(req[r].to)
  /\ parent' = [parent EXCEPT ![c] = req[r].to] /\ name' = [name EXCEPT ![c] = req[r].path[2]]
  /\ home' = home /\ used' = used \cup {c} /\ \A e \in Category : Made(req'[r].made, e) => e = c

Changes(r) ==
  \/ Rests
  \/ /\ req'[r] # req[r]
     /\ \/ Inserts(r) \/ Moves(r) \/ Removes(r) \/ Houses(r) \/ InsertsBoth(r) \/ InsertsOne(r)

LEMMA EndsIdle ==
  ASSUME TreeInv, NEW r \in Requester, Tree!Ends(r)
  PROVE  req'[r].kind = "none" /\ req'[r].step = "idle"
<1>1. PICK idle : idle = Tree!Idle
  OBVIOUS
<1>2. idle.kind = "none" /\ idle.step = "idle"
  BY <1>1 DEF Tree!Idle
<1> QED BY <1>1, <1>2 DEF TreeInv, ReqTyped, Tree!Ends

LEMMA EndsDiffers ==
  ASSUME TreeInv, NEW r \in Requester, Tree!Ends(r), req[r].kind # "none"
  PROVE  req'[r] # req[r]
BY EndsIdle

LEMMA RemoveRemoves ==
  ASSUME TreeInv, NEW c, Tree!Remove(c)
  PROVE  \/ Rests
         \/ /\ c \in Category /\ Tree!Exists(c) /\ \A d \in Category : parent[d] # c
            /\ parent' = [parent EXCEPT ![c] = None]
            /\ \A d \in Category \ {c} : name'[d] = name[d]
            /\ home' = [f \in Feed |-> IF home[f] = c THEN None ELSE home[f]] /\ used' = used
<1>1. CASE Tree!Exists(c) /\ Tree!MayRemove(c)
  <2>1. c \in Category /\ \A d \in Category : parent[d] # c
    BY <1>1 DEF Tree!Exists, Tree!MayRemove, Tree!Children
  <2>2. /\ parent' = [parent EXCEPT ![c] = None] /\ name' = [name EXCEPT ![c] = Tree!AnyName]
        /\ home' = [f \in Feed |-> IF home[f] = c THEN None ELSE home[f]] /\ used' = used
    BY <1>1, Zenon DEF Tree!Remove, Tree!Left
  <2>3. \A d \in Category \ {c} : name'[d] = name[d]
    BY <2>2 DEF TreeInv, TreeTyped
  <2> QED BY <1>1, <2>1, <2>2, <2>3
<1>2. CASE ~(Tree!Exists(c) /\ Tree!MayRemove(c))
  BY <1>2, Zenon DEF Tree!Remove, Tree!tree, Rests
<1> QED BY <1>1, <1>2

LEMMA DeleteChanges ==
  ASSUME TreeInv, NEW r \in Requester, Tree!Delete(r)
  PROVE  Changes(r)
<1>1. /\ req[r].kind = "delete" /\ req[r].step = "checked" /\ Tree!Ends(r)
      /\ Tree!Remove(req[r].cat)
  BY DEF Tree!Delete, Tree!Is
<1>2. req'[r] # req[r]
  BY <1>1, EndsDiffers
<1>3. PICK c : c = req[r].cat
  OBVIOUS
<1>4. Rests \/ Removes(r)
  BY <1>1, <1>3, RemoveRemoves DEF Removes
<1> QED BY <1>2, <1>4 DEF Changes

LEMMA UndoChanges ==
  ASSUME TreeInv, NEW r \in Requester, Tree!Undo(r)
  PROVE  Changes(r) /\ \A c \in Category : Made(req'[r].made, c) => Made(req[r].made, c)
<1>1. req[r].kind = "import" /\ req[r].step = "undo" /\ ReqFits(req[r])
  BY DEF Tree!Undo, Tree!Is, TreeInv, ReqTyped
<1>2. PICK made \in MadeOnes : made = req[r].made
  BY <1>1 DEF ReqFits, ReqRow
<1>3. CASE made = <<>>
  <2>1. Rests /\ Tree!Ends(r)
    BY <1>2, <1>3, Zenon DEF Tree!Undo, Tree!Refused, Rests, Tree!tree
  <2>2. PICK idle : idle = Tree!Idle
    OBVIOUS
  <2>3. idle.made = <<>>
    BY <2>2 DEF Tree!Idle
  <2>4. req'[r].made = <<>>
    BY <2>1, <2>2, <2>3 DEF Tree!Ends, TreeInv, ReqTyped
  <2>5. \A c \in Category : ~Made(<<>>, c)
    BY DEF Made
  <2> QED BY <2>1, <2>4, <2>5 DEF Changes
<1>4. CASE made # <<>>
  <2>1. PICK left : left = IF made \in Category \X Category THEN <<made[2]>> ELSE <<>>
    OBVIOUS
  <2>2. Tree!Remove(made[1]) /\ req' = [req EXCEPT ![r].made = left]
    BY <1>2, <1>4, <2>1, Zenon DEF Tree!Undo
  <2>3. made[1] \in Category /\ Made(made, made[1]) /\ left # made
    BY <1>4, <2>1 DEF MadeOnes, Made
  <2>4. \A c \in Category : Made(left, c) => Made(made, c)
    BY <1>4, <2>1 DEF MadeOnes, Made
  <2>5. req'[r].made = left
    BY <1>1, <2>2 DEF TreeInv, ReqTyped, ReqFits, ReqRow
  <2>6. PICK c \in Category : c = made[1]
    BY <2>3
  <2>7. Rests \/ Removes(r)
    BY <1>1, <1>2, <2>2, <2>3, <2>6, RemoveRemoves DEF Removes
  <2> QED BY <1>2, <2>3, <2>4, <2>5, <2>7 DEF Changes
<1> QED BY <1>3, <1>4

LEMMA InsertChanges ==
  ASSUME TreeInv, NEW r \in Requester, NEW c \in Category, Tree!Insert(r, c)
  PROVE  Changes(r)
<1>1. CASE UNCHANGED Tree!tree
  BY <1>1 DEF Tree!tree, Rests, Changes
<1>2. CASE ~UNCHANGED Tree!tree
  <2>1. req'[r] # req[r] /\ req[r].kind = "create" /\ req[r].step = "apart"
    BY EndsDiffers DEF Tree!Insert, Tree!Is
  <2>2. PICK to, n : to = req[r].to /\ n = req[r].name
    OBVIOUS
  <2>3. /\ c \notin used /\ Tree!IsParent(to) /\ parent' = [parent EXCEPT ![c] = to]
        /\ name' = [name EXCEPT ![c] = n] /\ home' = home /\ used' = used \cup {c}
    BY <1>2, <2>2, Zenon DEF Tree!Insert, Tree!Fresh
  <2> QED BY <2>1, <2>2, <2>3 DEF Changes, Inserts
<1> QED BY <1>1, <1>2

LEMMA UpdateChanges ==
  ASSUME TreeInv, NEW r \in Requester, Tree!Update(r)
  PROVE  Changes(r)
<1>0. home' = home /\ used' = used
  BY DEF Tree!Update
<1>1. CASE UNCHANGED <<parent, name, slug>>
  BY <1>0, <1>1 DEF Rests, Changes
<1>2. CASE ~UNCHANGED <<parent, name, slug>>
  <2>1. req'[r] # req[r] /\ req[r].kind = "update" /\ req[r].step = "apart"
    BY EndsDiffers DEF Tree!Update, Tree!Is
  <2>2. PICK c, to, n : c = req[r].cat /\ to = req[r].to /\ n = req[r].name
    OBVIOUS
  <2>3. /\ Tree!Exists(c) /\ Tree!IsParent(to) /\ parent' = [parent EXCEPT ![c] = to]
        /\ name' = [name EXCEPT ![c] = n]
    BY <1>2, <2>2, Zenon DEF Tree!Update
  <2> QED BY <1>0, <2>1, <2>2, <2>3 DEF Changes, Moves
<1> QED BY <1>1, <1>2

LEMMA HousesChanges ==
  ASSUME TreeInv, NEW r \in Requester,
         Tree!Place(r) \/ Tree!Unsubscribe(r) \/ Tree!InsertFeed(r)
  PROVE  Changes(r)
<1>1. None \notin Category
  BY TreeConstants DEF TreeInv
<1>2. CASE Tree!Place(r)
  <2>1. req'[r] # req[r]
    BY <1>2, EndsDiffers DEF Tree!Place, Tree!Is
  <2>2. Houses(r)
    BY <1>1, <1>2 DEF Tree!Place, Houses, TreeInv, TreeTyped, Tree!Exists
  <2> QED BY <2>1, <2>2 DEF Changes
<1>3. CASE Tree!Unsubscribe(r)
  <2>1. req'[r] # req[r]
    BY <1>3, EndsDiffers DEF Tree!Unsubscribe, Tree!Is
  <2>2. PICK fs : fs = req[r].feed
    OBVIOUS
  <2>3. /\ parent' = parent /\ name' = name /\ used' = used
        /\ home' = [f \in Feed |-> IF f \in fs THEN None ELSE home[f]]
    BY <1>3, <2>2 DEF Tree!Unsubscribe
  <2>4. \A f \in Feed : home'[f] = home[f] \/ f \in req[r].feed
    BY <2>2, <2>3
  <2> QED BY <1>3, <2>1, <2>3, <2>4 DEF Changes, Houses
<1>4. CASE Tree!InsertFeed(r)
  <2>1. req'[r] # req[r]
    <3>1. CASE Tree!Ends(r)
      BY <1>4, <3>1, EndsDiffers DEF Tree!InsertFeed, Tree!Is
    <3>2. CASE ~Tree!Ends(r)
      BY <1>4, <3>2 DEF Tree!InsertFeed, Tree!Is, TreeInv, ReqTyped, ReqFits, ReqRow
    <3> QED BY <3>1, <3>2
  <2>2. Houses(r)
    BY <1>1, <1>4 DEF Tree!InsertFeed, Houses, TreeInv, TreeTyped, Tree!Exists
  <2> QED BY <2>1, <2>2 DEF Changes
<1> QED BY <1>2, <1>3, <1>4

LEMMA ManyChanges ==
  ASSUME TreeInv, NEW r \in Requester, NEW c \in Category, NEW d \in Category,
         Tree!InsertMany(r, c, d)
  PROVE  \/ Rests /\ Tree!Ends(r)
         \/ /\ InsertsBoth(r) \/ InsertsOne(r)
            /\ req'[r] # req[r] /\ req'[r].kind = "import" /\ req'[r].step = "made"
<1>1. /\ ReqFits(req[r]) /\ req[r].kind = "import" /\ req[r].step = "checked" /\ home' = home
  BY DEF TreeInv, ReqTyped, Tree!InsertMany, Tree!Is
<1>2. PICK n, m, to : n = req[r].path[1] /\ m = req[r].path[2] /\ to = req[r].to
  OBVIOUS
<1>3. PICK both : both = (to = Root)
  OBVIOUS
<1>4. PICK made : made = IF both THEN <<d, c>> ELSE <<c>>
  OBVIOUS
<1>5. CASE Rests /\ Tree!Ends(r)
  BY <1>5
<1>6. CASE ~(Rests /\ Tree!Ends(r))
  <2>1. /\ Tree!IsParent(to) /\ c \notin used /\ d \notin used /\ (c = d) = ~both
        /\ parent' = IF both THEN [parent EXCEPT ![c] = Root, ![d] = c]
                     ELSE [parent EXCEPT ![c] = to]
        /\ name' = IF both THEN [name EXCEPT ![c] = n, ![d] = m] ELSE [name EXCEPT ![c] = m]
        /\ used' = used \cup {c, d}
        /\ req' = [req EXCEPT ![r].step = "made", ![r].cat = d, ![r].made = made]
    BY <1>1, <1>2, <1>3, <1>4, <1>6, Zenon DEF Tree!InsertMany, Tree!Fresh, Rests
  <2>2. req'[r].kind = "import" /\ req'[r].step = "made" /\ req'[r].made = made
    BY <1>1, <2>1 DEF TreeInv, ReqTyped, ReqFits, ReqRow
  <2>3. CASE both
    <3>1. \A e \in Category : Made(<<d, c>>, e) => e \in {c, d}
      BY DEF Made
    <3> QED BY <1>1, <1>2, <1>3, <1>4, <2>1, <2>2, <2>3, <3>1 DEF InsertsBoth
  <2>4. CASE ~both
    <3>1. \A e \in Category : Made(<<c>>, e) => e = c
      BY DEF Made
    <3>2. used \cup {c, d} = used \cup {c}
      BY <2>1, <2>4
    <3>3. /\ parent' = [parent EXCEPT ![c] = req[r].to] /\ name' = [name EXCEPT ![c] = m]
          /\ made = <<c>> /\ req[r].to # Root /\ Tree!IsParent(req[r].to)
      BY <1>2, <1>3, <1>4, <2>1, <2>4
    <3>4. InsertsOne(r)
      BY <1>1, <1>2, <2>1, <2>2, <3>1, <3>2, <3>3 DEF InsertsOne
    <3>5. req'[r] # req[r]
      BY <1>1, <2>2
    <3> QED BY <2>2, <3>4, <3>5
  <2> QED BY <2>3, <2>4
<1> QED BY <1>5, <1>6

LEMMA StepChanges ==
  ASSUME TreeInv, NEW r \in Requester, Tree!Step(r)
  PROVE  Changes(r)
<1>1. ASSUME NEW request, Tree!Submit(r, request)
      PROVE  Rests
  BY <1>1 DEF Tree!Submit, Tree!tree, Rests
<1>2. CASE \/ Tree!CheckCreate(r) \/ Tree!CheckName(r) \/ Tree!CheckUpdate(r)
           \/ Tree!CheckDelete(r) \/ Tree!CountChildren(r) \/ Tree!CheckPlace(r)
           \/ Tree!Plan(r)
  <2>1. UNCHANGED Tree!tree
    BY <1>2 DEF Tree!CheckCreate, Tree!CheckName, Tree!CheckUpdate, Tree!CheckDelete,
                Tree!CountChildren, Tree!CheckPlace, Tree!Plan, Tree!Goes, Tree!Refused
  <2> QED BY <2>1 DEF Tree!tree, Rests, Changes
<1>3. CASE Tree!Place(r) \/ Tree!Unsubscribe(r) \/ Tree!InsertFeed(r)
  BY <1>3, HousesChanges
<1>4. ASSUME NEW c \in Category, NEW d \in Category, Tree!Insert(r, c) \/ Tree!InsertMany(r, c, d)
      PROVE  Changes(r)
  BY <1>4, InsertChanges, ManyChanges DEF Changes
<1>5. CASE Tree!Update(r) \/ Tree!Delete(r) \/ Tree!Undo(r)
  BY <1>5, UpdateChanges, DeleteChanges, UndoChanges
<1> QED BY <1>1, <1>2, <1>3, <1>4, <1>5, Zenon DEF Tree!Step, Changes

(***************************************************************************)
(* What a request has found out is still so, unless it was overtaken.      *)
(***************************************************************************)
\* The categories on the way up from a category.
Ups(up, c) ==
  {p \in Category \cup {Root} : \A S \in SUBSET (Category \cup {Root, None}) :
     up[c] \in S /\ (\A d \in S \cap Category : up[d] \in S) => p \in S}

\* A child of p other than but has the name.
Has(up, nm, p, n, but) == \E c \in Category \ {but} : up[c] # None /\ up[c] = p /\ nm[c] = n

Asks(r) ==
  /\ req[r].kind = "create" => req[r].cat = None
  /\ req[r].kind = "import" /\ req[r].step = "asked" => req[r].made = <<>>

Outside(r) ==
  req[r].kind = "update" /\ req[r].step \in {"checked", "apart"} /\ "move" \notin under[r] =>
    /\ req[r].to # req[r].cat /\ req[r].cat \in Category /\ req[r].to \in used \cup {Root}
    /\ req[r].to # Root => req[r].cat \notin Ups(parent, req[r].to)

Apart(r) ==
  /\ req[r].kind \in {"create", "update"} /\ req[r].step = "apart" /\ "name" \notin under[r] =>
       ~Has(parent, name, req[r].to, req[r].name, req[r].cat)
  /\ req[r].kind = "import" /\ req[r].step = "checked" /\ "name" \notin under[r] =>
       ~Has(parent, name, req[r].to,
            IF req[r].to = Root THEN req[r].path[1] ELSE req[r].path[2], None)

Empty(r) ==
  /\ req[r].kind = "delete" /\ req[r].step \in {"counted", "checked"} /\ "place" \notin under[r] =>
       \A f \in Feed : home[f] # None => home[f] # req[r].cat
  /\ req[r].kind = "import" /\ req[r].step \in {"made", "undo"} /\ "place" \notin under[r] =>
       \A f \in Feed : home[f] # None => ~Made(req[r].made, home[f])

Reads(r) == Asks(r) /\ Outside(r) /\ Apart(r) /\ Empty(r)

ReadInv == TreeInv /\ UnderTyped /\ \A r \in Requester : Reads(r)

\* Identifiers are not used again: where no category is moved, the way up only gets shorter.
LEMMA UsedOnce ==
  ASSUME TreeInv, NEW r \in Requester, Changes(r)
  PROVE  used \subseteq used' /\ \A c \in used : parent[c] = None => parent'[c] = None
<1> USE DEF TreeInv, TreeTyped
<1>1. CASE Rests \/ Houses(r)
  BY <1>1 DEF Rests, Houses
<1>2. CASE Inserts(r) \/ InsertsOne(r)
  BY <1>2 DEF Inserts, InsertsOne
<1>3. CASE Moves(r)
  BY <1>3 DEF Moves, Tree!Exists
<1>4. CASE Removes(r)
  BY <1>4 DEF Removes
<1>5. CASE InsertsBoth(r)
  BY <1>5 DEF InsertsBoth
<1> QED BY <1>1, <1>2, <1>3, <1>4, <1>5 DEF Changes

LEMMA UpsShorter ==
  ASSUME TreeInv, \A c \in used : parent[c] = None => parent'[c] = None,
         \A c \in Category : parent[c] # None => parent'[c] \in {None, parent[c]},
         NEW to \in used, NEW c \in Category, c \notin Ups(parent, to)
  PROVE  c \notin Ups(parent', to)
<1>1. /\ parent \in [Category -> Category \cup {Root, None}] /\ used \subseteq Category
      /\ \A d \in Category : parent[d] # None => d \in used
      /\ Root \notin Category /\ None \notin Category /\ Root # None
  BY TreeConstants DEF TreeInv, TreeTyped
<1>2. PICK S \in SUBSET (Category \cup {Root, None}) :
        parent[to] \in S /\ (\A d \in S \cap Category : parent[d] \in S) /\ c \notin S
  BY Zenon DEF Ups
<1> DEFINE T == (S \cap (used \cup {Root})) \cup {None}
<1>3. \A d \in used : parent[d] \in S => parent'[d] \in T
  <2> SUFFICES ASSUME NEW d \in used, parent[d] \in S
               PROVE  parent'[d] \in T
    OBVIOUS
  <2>1. CASE parent[d] = None
    BY <2>1
  <2>2. CASE parent[d] # None
    <3>1. parent[d] = Root \/ parent[d] \in used
      BY <1>1, <2>2 DEF TreeInv, Tree!KeysHold, Tree!Exists, Tree!IsParent
    <3>2. parent'[d] \in {None, parent[d]}
      BY <1>1, <2>2
    <3> QED BY <3>1, <3>2
  <2> QED BY <2>1, <2>2
<1>4. parent'[to] \in T
  BY <1>2, <1>3
<1>5. \A d \in T \cap Category : parent'[d] \in T
  BY <1>1, <1>2, <1>3
<1>6. T \in SUBSET (Category \cup {Root, None}) /\ c \notin T
  BY <1>1, <1>2
<1> HIDE DEF T
<1> QED BY <1>4, <1>5, <1>6, Zenon DEF Ups

LEMMA WrittenSays ==
  /\ "move" \notin Tree!Written =>
       \A c \in Category : parent[c] # None => parent'[c] \in {None, parent[c]}
  /\ "name" \notin Tree!Written =>
       \A c \in Category : parent'[c] # None => parent'[c] = parent[c] /\ name'[c] = name[c]
  /\ "place" \notin Tree!Written => \A f \in Feed : home'[f] \in {None, home[f]}
BY DEF Tree!Written, Tree!Writes, Tree!Exists

LEMMA OnlyOwn ==
  ASSUME TreeInv, NEW r \in Requester, Tree!Step(r), NEW q \in Requester, q # r
  PROVE  req'[q] = req[q]
<1> USE DEF TreeInv, ReqTyped, Tree!Goes, Tree!Refused, Tree!Ends
<1>1. ASSUME NEW request, Tree!Submit(r, request)
      PROVE  req'[q] = req[q]
  BY <1>1 DEF Tree!Submit
<1>2. CASE Tree!CheckCreate(r) \/ Tree!CheckName(r) \/ Tree!CheckUpdate(r)
  BY <1>2 DEF Tree!CheckCreate, Tree!CheckName, Tree!CheckUpdate
<1>3. CASE Tree!CheckDelete(r) \/ Tree!CountChildren(r) \/ Tree!CheckPlace(r)
  BY <1>3 DEF Tree!CheckDelete, Tree!CountChildren, Tree!CheckPlace
<1>4. ASSUME NEW c, NEW d, Tree!Insert(r, c) \/ Tree!InsertMany(r, c, d)
      PROVE  req'[q] = req[q]
  BY <1>4 DEF Tree!Insert, Tree!InsertMany
<1>5. CASE Tree!Update(r) \/ Tree!Delete(r) \/ Tree!Place(r) \/ Tree!Unsubscribe(r)
  BY <1>5 DEF Tree!Update, Tree!Delete, Tree!Place, Tree!Unsubscribe
<1>6. CASE Tree!Plan(r) \/ Tree!InsertFeed(r) \/ Tree!Undo(r)
  BY <1>6 DEF Tree!Plan, Tree!InsertFeed, Tree!Undo
<1> QED BY <1>1, <1>2, <1>3, <1>4, <1>5, <1>6, Zenon DEF Tree!Step

LEMMA OthersRead ==
  ASSUME ReadInv, TreeInv', NEW r \in Requester, Tree!Step(r), UnderNow(r),
         NEW q \in Requester, q # r
  PROVE  Reads(q)'
<1>0. TreeInv /\ UnderTyped /\ Reads(q) /\ req'[q] = req[q]
  BY OnlyOwn DEF ReadInv
<1>1. PICK row : row = req[q]
  OBVIOUS
<1>2. Asks(q)'
  BY <1>0 DEF Reads, Asks
<1>3. CASE row.step \in {"idle", "asked"}
  BY <1>0, <1>1, <1>2, <1>3 DEF Reads, Outside, Apart, Empty
<1>4. CASE row.step \notin {"idle", "asked"}
  <2>1. \A w : w \notin under'[q] => w \notin under[q] /\ w \notin Tree!Written
    BY <1>0, <1>1, <1>4 DEF UnderNow, UnderTyped
  <2>2. used \subseteq used' /\ \A c \in used : parent[c] = None => parent'[c] = None
    BY <1>0, StepChanges, UsedOnce
  <2>3. Outside(q)'
    <3> SUFFICES ASSUME row.kind = "update", row.step \in {"checked", "apart"},
                        "move" \notin under'[q]
                 PROVE  /\ row.to # row.cat /\ row.cat \in Category
                        /\ row.to \in used' \cup {Root}
                        /\ row.to # Root => row.cat \notin Ups(parent', row.to)
      BY <1>0, <1>1 DEF Outside
    <3>1. /\ row.to # row.cat /\ row.cat \in Category /\ row.to \in used \cup {Root}
          /\ row.to # Root => row.cat \notin Ups(parent, row.to)
      BY <1>0, <1>1, <2>1 DEF Reads, Outside
    <3>2. \A c \in Category : parent[c] # None => parent'[c] \in {None, parent[c]}
      BY <2>1, WrittenSays
    <3>3. row.to # Root => row.cat \notin Ups(parent', row.to)
      BY <1>0, <2>2, <3>1, <3>2, UpsShorter
    <3> QED BY <2>2, <3>1, <3>3
  <2>4. Apart(q)'
    <3>1. ASSUME NEW p, NEW n, NEW but, "name" \notin under'[q],
                 ~Has(parent, name, p, n, but)
          PROVE  ~Has(parent', name', p, n, but)
      BY <2>1, <3>1, WrittenSays DEF Has
    <3> QED BY <1>0, <1>1, <2>1, <3>1 DEF Reads, Apart
  <2>5. Empty(q)'
    <3>1. "place" \notin under'[q] => \A f \in Feed : home'[f] \in {None, home[f]}
      BY <2>1, WrittenSays
    <3> QED BY <1>0, <1>1, <2>1, <3>1 DEF Reads, Empty
  <2> QED BY <1>2, <2>3, <2>4, <2>5 DEF Reads
<1> QED BY <1>3, <1>4

LEMMA EndsReads ==
  ASSUME TreeInv, NEW r \in Requester, Tree!Ends(r)
  PROVE  Reads(r)'
<1>1. req'[r].kind = "none"
  BY EndsIdle
<1> QED BY <1>1 DEF Reads, Asks, Outside, Apart, Empty

LEMMA SubmitReads ==
  ASSUME TreeInv, NEW r \in Requester, NEW request \in Tree!Requests, Tree!Submit(r, request)
  PROVE  Reads(r)'
<1>1. req'[r] = request
  BY DEF Tree!Submit, TreeInv, ReqTyped
<1>2. /\ request.step = "asked" /\ request.made = <<>>
      /\ request.kind = "create" => request.cat = None
  BY DEF Tree!Requests, Tree!Asked
<1> QED BY <1>1, <1>2 DEF Reads, Asks, Outside, Apart, Empty

\* A check that a request passes, where it changes nothing but its step and its slug.
Passes(r, step) ==
  /\ UNCHANGED Tree!tree
  /\ req'[r].kind = req[r].kind /\ req'[r].step = step /\ req'[r].cat = req[r].cat
  /\ req'[r].to = req[r].to /\ req'[r].name = req[r].name /\ req'[r].path = req[r].path
  /\ req'[r].made = req[r].made

LEMMA GoesPasses ==
  ASSUME TreeInv, NEW r \in Requester, NEW step, Tree!Goes(r, step)
  PROVE  Passes(r, step)
BY DEF Passes, TreeInv, ReqTyped, ReqFits, ReqRow, Tree!Goes

LEMMA OwnUnder ==
  ASSUME TreeInv, UnderTyped, NEW r \in Requester, UnderNow(r)
  PROVE  under'[r] = {} \/ under'[r] = under[r]
BY DEF UnderNow, UnderTyped

LEMMA CheckReads ==
  ASSUME ReadInv, NEW r \in Requester, UnderNow(r),
         \/ Tree!CheckCreate(r) \/ Tree!CheckName(r) \/ Tree!CheckUpdate(r)
         \/ Tree!CheckDelete(r) \/ Tree!CountChildren(r) \/ Tree!CheckPlace(r)
  PROVE  Reads(r)'
<1>0. TreeInv /\ UnderTyped /\ Reads(r)
  BY DEF ReadInv
<1>1. CASE Tree!Ends(r)
  BY <1>0, <1>1, EndsReads
<1>2. CASE ~Tree!Ends(r)
  <2>1. CASE Tree!CheckCreate(r)
    <3>1. Passes(r, "checked") /\ req[r].kind = "create"
      BY <1>0, <1>2, <2>1, GoesPasses DEF Tree!CheckCreate, Tree!Is, Tree!Refused
    <3> QED BY <1>0, <3>1 DEF Passes, Reads, Asks, Outside, Apart, Empty
  <2>2. CASE Tree!CheckPlace(r)
    <3>1. Passes(r, "checked") /\ req[r].kind = "place"
      BY <1>0, <1>2, <2>2, GoesPasses DEF Tree!CheckPlace, Tree!Is, Tree!Refused
    <3> QED BY <1>0, <3>1 DEF Passes, Reads, Asks, Outside, Apart, Empty
  <2>3. CASE Tree!CheckDelete(r)
    <3>1. /\ Passes(r, "counted") /\ req[r].kind = "delete"
          /\ \A f \in Feed : home[f] # req[r].cat
      BY <1>0, <1>2, <2>3, GoesPasses
         DEF Tree!CheckDelete, Tree!Is, Tree!Refused, Tree!FeedsIn
    <3> QED BY <1>0, <3>1 DEF Passes, Tree!tree, Reads, Asks, Outside, Apart, Empty
  <2>4. CASE Tree!CountChildren(r)
    <3>1. Passes(r, "checked") /\ req[r].kind = "delete" /\ req[r].step = "counted"
      BY <1>0, <1>2, <2>4, GoesPasses DEF Tree!CountChildren, Tree!Is, Tree!Refused
    <3>2. under'[r] = under[r]
      BY <1>0, <3>1 DEF Passes, UnderNow, UnderTyped
    <3> QED BY <1>0, <3>1, <3>2 DEF Passes, Tree!tree, Reads, Asks, Outside, Apart, Empty
  <2>5. CASE Tree!CheckUpdate(r)
    <3>1. PICK c, to : c = req[r].cat /\ to = req[r].to
      OBVIOUS
    <3>2. /\ Passes(r, "checked") /\ req[r].kind = "update" /\ Tree!Exists(c)
          /\ to # c /\ Tree!IsParent(to) /\ (to # Root => c \notin Tree!Above(to))
      BY <1>0, <1>2, <2>5, <3>1, GoesPasses DEF Tree!CheckUpdate, Tree!Is, Tree!Refused
    <3>3. c \in Category /\ to \in used \cup {Root} /\ (to # Root => c \notin Ups(parent, to))
      BY <1>0, <3>2
         DEF Tree!Exists, Tree!IsParent, TreeInv, TreeTyped, Tree!Above, Ups
    <3>4. /\ req'[r].to # req'[r].cat /\ req'[r].cat \in Category
          /\ req'[r].to \in used' \cup {Root}
          /\ req'[r].to # Root => req'[r].cat \notin Ups(parent', req'[r].to)
      BY <3>1, <3>2, <3>3 DEF Passes, Tree!tree
    <3> QED BY <1>0, <3>2, <3>4 DEF Passes, Reads, Asks, Outside, Apart, Empty
  <2>6. CASE Tree!CheckName(r)
    <3>1. /\ req[r].kind \in {"create", "update"} /\ req[r].step = "checked"
          /\ ~Tree!NameTaken(req[r].to, req[r].name, req[r].cat)
          /\ \E s \in Slug : req' = [req EXCEPT ![r].step = "apart", ![r].slug = s]
          /\ UNCHANGED Tree!tree
      BY <1>2, <2>6 DEF Tree!CheckName, Tree!Refused
    <3>2. Passes(r, "apart")
      BY <1>0, <3>1 DEF Passes, TreeInv, ReqTyped, ReqFits, ReqRow
    <3>3. ~Has(parent, name, req[r].to, req[r].name, req[r].cat)
      BY <3>1 DEF Has, Tree!NameTaken, Tree!Siblings
    <3>4. under'[r] = under[r]
      BY <1>0, <3>2 DEF Passes, UnderNow, UnderTyped
    <3> QED BY <1>0, <3>1, <3>2, <3>3, <3>4
            DEF Passes, Tree!tree, Reads, Asks, Outside, Apart, Empty
  <2> QED BY <2>1, <2>2, <2>3, <2>4, <2>5, <2>6
<1> QED BY <1>1, <1>2

LEMMA PlanReads ==
  ASSUME ReadInv, NEW r \in Requester, Tree!Plan(r)
  PROVE  Reads(r)'
<1>0. TreeInv /\ Reads(r)
  BY DEF ReadInv
<1>1. /\ req[r].kind = "import" /\ req[r].step = "asked" /\ UNCHANGED Tree!tree
      /\ req[r].made = <<>>
  BY <1>0 DEF Tree!Plan, Tree!Is, Reads, Asks
<1>2. CASE Tree!Ends(r)
  BY <1>0, <1>2, EndsReads
<1>3. ASSUME NEW d, req' = [req EXCEPT ![r].step = "made", ![r].cat = d]
      PROVE  Reads(r)'
  <2>1. req'[r].kind = "import" /\ req'[r].step = "made" /\ req'[r].made = <<>>
    BY <1>0, <1>1, <1>3 DEF TreeInv, ReqTyped, ReqFits, ReqRow
  <2>2. \A c : ~Made(<<>>, c)
    BY DEF Made
  <2> QED BY <2>1, <2>2 DEF Reads, Asks, Outside, Apart, Empty
<1>4. ASSUME NEW p, NEW s, req' = [req EXCEPT ![r].step = "checked", ![r].to = p, ![r].slug = s],
             ~Has(parent, name, p, IF p = Root THEN req[r].path[1] ELSE req[r].path[2], None)
      PROVE  Reads(r)'
  <2>1. /\ req'[r].kind = "import" /\ req'[r].step = "checked" /\ req'[r].to = p
        /\ req'[r].path = req[r].path
    BY <1>0, <1>1, <1>4 DEF TreeInv, ReqTyped, ReqFits, ReqRow
  <2> QED BY <1>1, <1>4, <2>1 DEF Reads, Asks, Outside, Apart, Empty, Tree!tree
<1>5. CASE ~Tree!Ends(r)
  <2>1. PICK path, n, m : path = req[r].path /\ n = path[1] /\ m = path[2]
    OBVIOUS
  <2>2. \/ \E d : req' = [req EXCEPT ![r].step = "made", ![r].cat = d]
        \/ \E c \in Category, s \in Slug :
             /\ Tree!Named(c, m) = {}
             /\ req' = [req EXCEPT ![r].step = "checked", ![r].to = c, ![r].slug = s]
        \/ \E s \in Slug :
             /\ Tree!Named(Root, n) = {}
             /\ req' = [req EXCEPT ![r].step = "checked", ![r].to = Root, ![r].slug = s]
    <3>1. Tree!Named(Root, n) \subseteq Category
      BY DEF Tree!Named
    <3> QED BY <1>5, <2>1, <3>1, Zenon DEF Tree!Plan
  <2>3. \A p, k : Tree!Named(p, k) = {} => ~Has(parent, name, p, k, None)
    BY DEF Tree!Named, Has
  <2>4. Root \notin Category
    BY <1>0, TreeConstants DEF TreeInv
  <2> QED BY <1>3, <1>4, <2>1, <2>2, <2>3, <2>4
<1> QED BY <1>2, <1>5

LEMMA WriteReads ==
  ASSUME ReadInv, NEW r \in Requester, UnderNow(r),
         \/ Tree!Update(r) \/ Tree!Delete(r) \/ Tree!Place(r) \/ Tree!Unsubscribe(r)
         \/ Tree!InsertFeed(r) \/ Tree!Undo(r)
         \/ \E c, d \in Category : Tree!Insert(r, c) \/ Tree!InsertMany(r, c, d)
  PROVE  Reads(r)'
<1>0. TreeInv /\ UnderTyped /\ Reads(r)
  BY DEF ReadInv
<1>1. CASE Tree!Ends(r)
  BY <1>0, <1>1, EndsReads
<1>2. CASE ~Tree!Ends(r)
  <2>1. ASSUME NEW c \in Category, NEW d \in Category, Tree!InsertMany(r, c, d)
        PROVE  Reads(r)'
    <3>1. /\ InsertsBoth(r) \/ InsertsOne(r)
          /\ req'[r].kind = "import" /\ req'[r].step = "made"
      BY <1>0, <1>2, <2>1, ManyChanges
    <3>2. \A f \in Feed : home[f] # None => home[f] \in Category /\ home[f] \in used
      BY <1>0 DEF TreeInv, TreeTyped, Tree!KeysHold, Tree!Exists
    <3>3. \A f \in Feed : home'[f] # None => ~Made(req'[r].made, home'[f])
      BY <3>1, <3>2 DEF InsertsBoth, InsertsOne
    <3> QED BY <3>1, <3>3 DEF Reads, Asks, Outside, Apart, Empty
  <2>2. CASE Tree!InsertFeed(r)
    <3>1. req[r].kind = "import" /\ req[r].step = "made" /\ Tree!Goes(r, "undo")
      BY <1>2, <2>2 DEF Tree!InsertFeed, Tree!Is, Tree!Goes, Tree!tree
    <3>2. Passes(r, "undo")
      BY <1>0, <3>1, GoesPasses
    <3>3. under'[r] = under[r]
      BY <1>0, <3>2 DEF Passes, UnderNow, UnderTyped
    <3> QED BY <1>0, <3>1, <3>2, <3>3 DEF Passes, Tree!tree, Reads, Asks, Outside, Apart, Empty
  <2>3. CASE Tree!Undo(r)
    <3>1. /\ req[r].kind = "import" /\ req[r].step = "undo"
          /\ \E left : req' = [req EXCEPT ![r].made = left]
      BY <1>2, <2>3, Zenon DEF Tree!Undo, Tree!Is, Tree!Refused
    <3>2. req'[r].kind = "import" /\ req'[r].step = "undo"
      BY <1>0, <3>1 DEF TreeInv, ReqTyped, ReqFits, ReqRow
    <3>3. under'[r] = under[r]
      BY <1>0, <3>2 DEF UnderNow, UnderTyped
    <3>4. \A c \in Category : Made(req'[r].made, c) => Made(req[r].made, c)
      BY <1>0, <2>3, UndoChanges
    <3>5. \A f \in Feed : home'[f] # None => home'[f] = home[f] /\ home[f] \in Category
      <4>1. \E c : Tree!Remove(c)
        BY <1>2, <2>3 DEF Tree!Undo, Tree!Refused
      <4>2. home' = home \/ \E c : home' = [f \in Feed |-> IF home[f] = c THEN None ELSE home[f]]
        BY <4>1 DEF Tree!Remove, Tree!Left, Tree!tree
      <4> QED BY <1>0, <4>2 DEF TreeInv, TreeTyped
    <3> QED BY <1>0, <3>1, <3>2, <3>3, <3>4, <3>5 DEF Reads, Asks, Outside, Apart, Empty
  <2>4. CASE \/ Tree!Update(r) \/ Tree!Delete(r) \/ Tree!Place(r) \/ Tree!Unsubscribe(r)
             \/ \E c \in Category : Tree!Insert(r, c)
    BY <1>2, <2>4
       DEF Tree!Update, Tree!Delete, Tree!Place, Tree!Unsubscribe, Tree!Insert
  <2> QED BY <2>1, <2>2, <2>3, <2>4
<1> QED BY <1>1, <1>2

LEMMA ReadsBegin ==
  ASSUME Tree!CategoriesAssumption, Tree!Init
  PROVE  ReadInv
<1>1. TreeInv /\ UnderTyped
  BY TreeBegins, UnderBegins
<1>2. PICK idle : idle = Tree!Idle
  OBVIOUS
<1>3. idle.kind = "none"
  BY <1>2 DEF Tree!Idle
<1>4. \A r \in Requester : req[r].kind = "none"
  BY <1>2, <1>3 DEF Tree!Init
<1> QED BY <1>1, <1>4 DEF ReadInv, Reads, Asks, Outside, Apart, Empty

LEMMA ReadsStep ==
  ASSUME ReadInv, [Tree!Next]_Tree!vars
  PROVE  ReadInv'
<1>1. TreeInv' /\ UnderTyped'
  BY TreeMoves DEF ReadInv
<1>2. CASE UNCHANGED Tree!vars
  BY <1>1, <1>2 DEF ReadInv, Reads, Asks, Outside, Apart, Empty, Tree!vars
<1>3. CASE Tree!Next
  <2>1. PICK r \in Requester : Tree!Step(r) /\ UnderNow(r)
    BY <1>3, Zenon DEF Tree!Next, UnderNow
  <2>2. ASSUME NEW q \in Requester, q # r
        PROVE  Reads(q)'
    BY <1>1, <2>1, <2>2, OthersRead
  <2>3. Reads(r)'
    <3>1. ASSUME NEW request \in Tree!Requests, Tree!Submit(r, request)
          PROVE  Reads(r)'
      BY <3>1, SubmitReads DEF ReadInv
    <3>2. CASE \/ Tree!CheckCreate(r) \/ Tree!CheckName(r) \/ Tree!CheckUpdate(r)
               \/ Tree!CheckDelete(r) \/ Tree!CountChildren(r) \/ Tree!CheckPlace(r)
      BY <2>1, <3>2, CheckReads
    <3>3. CASE Tree!Plan(r)
      BY <3>3, PlanReads
    <3>4. CASE \/ Tree!Update(r) \/ Tree!Delete(r) \/ Tree!Place(r) \/ Tree!Unsubscribe(r)
               \/ Tree!InsertFeed(r) \/ Tree!Undo(r)
      BY <2>1, <3>4, WriteReads
    <3>5. ASSUME NEW c \in Category, NEW d \in Category,
                 Tree!Insert(r, c) \/ Tree!InsertMany(r, c, d)
          PROVE  Reads(r)'
      BY <2>1, <3>5, WriteReads
    <3> QED BY <2>1, <3>1, <3>2, <3>3, <3>4, <3>5, Zenon DEF Tree!Step
  <2> QED BY <1>1, <2>2, <2>3 DEF ReadInv
<1> QED BY <1>2, <1>3

(***************************************************************************)
(* Following parents comes to an end.                                      *)
(***************************************************************************)
NoLoop(up) == \A S \in SUBSET Category : (\A c \in S : up[c] \in S) => S = {}

LEMMA NoLoopAdded ==
  ASSUME NEW up \in [Category -> Category \cup {Root, None}], NoLoop(up),
         NEW c \in Category, \A d \in Category : up[d] # c, NEW to, to # c
  PROVE  NoLoop([up EXCEPT ![c] = to])
<1> DEFINE new == [up EXCEPT ![c] = to]
<1> SUFFICES ASSUME NEW S \in SUBSET Category, \A d \in S : new[d] \in S
             PROVE  S = {}
  BY Zenon DEF NoLoop
<1>1. \A d \in Category \ {c} : new[d] = up[d]
  OBVIOUS
<1>2. \A d \in S \ {c} : up[d] \in S \ {c}
  BY <1>1
<1>3. S \ {c} = {}
  BY <1>2, Zenon DEF NoLoop
<1>4. c \notin S
  <2> SUFFICES ASSUME c \in S
               PROVE  FALSE
    OBVIOUS
  <2>1. to \in S
    OBVIOUS
  <2> QED BY <2>1, <1>3
<1> QED BY <1>3, <1>4

LEMMA NoLoopRemoved ==
  ASSUME NEW up \in [Category -> Category \cup {Root, None}], NoLoop(up), NEW c \in Category,
         None \notin Category
  PROVE  NoLoop([up EXCEPT ![c] = None])
<1> DEFINE new == [up EXCEPT ![c] = None]
<1> SUFFICES ASSUME NEW S \in SUBSET Category, \A d \in S : new[d] \in S
             PROVE  S = {}
  BY Zenon DEF NoLoop
<1>1. c \notin S
  BY DEF new
<1>2. \A d \in S : up[d] \in S
  BY <1>1
<1> QED BY <1>2, Zenon DEF NoLoop

\* The ancestors of where a category goes do not have it among them.
LEMMA NoLoopMoved ==
  ASSUME TreeInv, NoLoop(parent), NEW c \in Category, NEW to \in Category \cup {Root}, to # c,
         to # Root => c \notin Ups(parent, to)
  PROVE  NoLoop([parent EXCEPT ![c] = to])
<1> DEFINE new == [parent EXCEPT ![c] = to]
<1> SUFFICES ASSUME NEW S \in SUBSET Category, \A d \in S : new[d] \in S
             PROVE  S = {}
  BY Zenon DEF NoLoop
<1>0. /\ parent \in [Category -> Category \cup {Root, None}] /\ Root \notin Category
      /\ None \notin Category
  BY TreeConstants DEF TreeInv, TreeTyped
<1>1. /\ \A d \in Category \ {c} : new[d] = parent[d]
      /\ new[c] = to
  BY <1>0
<1>2. CASE c \notin S
  <2>1. \A d \in S : parent[d] \in S
    BY <1>1, <1>2
  <2> QED BY <2>1, Zenon DEF NoLoop
<1>3. CASE c \in S
  <2>1. to \in S /\ to # Root
    BY <1>0, <1>1, <1>3
  <2> DEFINE A == Ups(parent, to)
             T == S \cap ({to} \cup A)
  <2>2. c \notin T
    BY <2>1
  <2>3. ASSUME NEW d \in T
        PROVE  parent[d] \in T
    <3>1. d \in S /\ d # c /\ parent[d] \in S
      BY <1>1, <2>2, <2>3
    <3>2. parent[d] \in Category
      BY <3>1
    <3>3. parent[d] \in A
      <4>1. CASE d = to
        BY <3>2, <4>1, Zenon DEF Ups
      <4>2. CASE d # to
        <5>1. d \in A /\ d \in Category
          BY <2>3, <3>1, <4>2
        <5>2. ASSUME NEW B \in SUBSET (Category \cup {Root, None}), parent[to] \in B,
                     \A e \in B \cap Category : parent[e] \in B
              PROVE  parent[d] \in B
          <6>1. d \in B
            BY <5>1, <5>2, Zenon DEF Ups
          <6>2. d \in B \cap Category
            BY <5>1, <6>1
          <6> QED BY <5>2, <6>2
        <5> QED BY <3>2, <5>2, Zenon DEF Ups
      <4> QED BY <4>1, <4>2
    <3> QED BY <3>1, <3>3
  <2>4. T = {}
    <3>1. T \in SUBSET Category
      OBVIOUS
    <3> QED BY <2>3, <3>1, Zenon DEF NoLoop
  <2> QED BY <2>1, <2>4
<1> QED BY <1>2, <1>3

\* Categories that the tree does not show would have their parents among themselves.
AllShownIn(up) ==
  \A c \in Category : up[c] # None =>
    \A S \in SUBSET Category : (\A d \in Category : up[d] \in S \cup {Root} => d \in S) => c \in S

LEMMA ShownWithoutLoop ==
  ASSUME NEW up, Root \notin Category, None \notin Category,
         \A c \in Category : up[c] # None =>
           up[c] = Root \/ (up[c] \in Category /\ up[up[c]] # None)
  PROVE  AllShownIn(up) <=> NoLoop(up)
<1>1. ASSUME NoLoop(up), NEW S \in SUBSET Category,
             \A d \in Category : up[d] \in S \cup {Root} => d \in S,
             NEW c \in Category, up[c] # None
      PROVE  c \in S
  <2> DEFINE T == {d \in Category : up[d] # None /\ d \notin S}
  <2>1. \A d \in T : up[d] \in T
    BY <1>1
  <2>2. T \in SUBSET Category
    OBVIOUS
  <2>3. T = {}
    BY <1>1, <2>1, <2>2, Zenon DEF NoLoop
  <2> QED BY <1>1, <2>3
<1>2. ASSUME AllShownIn(up), NEW S \in SUBSET Category, \A c \in S : up[c] \in S
      PROVE  S = {}
  <2> SUFFICES ASSUME NEW c \in S
               PROVE  FALSE
    OBVIOUS
  <2> DEFINE T == Category \ S
  <2>1. \A d \in Category : up[d] \in T \cup {Root} => d \in T
    BY <1>2
  <2>2. c \in Category /\ up[c] # None
    BY <1>2
  <2>3. T \in SUBSET Category
    OBVIOUS
  <2> HIDE DEF T
  <2>4. c \in T
    BY <1>2, <2>1, <2>2, <2>3, Zenon DEF AllShownIn
  <2> QED BY <2>4 DEF T
<1>3. NoLoop(up) => AllShownIn(up)
  BY <1>1 DEF AllShownIn
<1> QED BY <1>2, <1>3 DEF NoLoop

LEMMA LoopsByMoves ==
  ASSUME ReadInv, NEW r \in Requester, Changes(r), NoLoop(parent)
  PROVE  NoLoop(parent') \/ Tree!Overtaken({"update"}, "move")
<1>0. /\ TreeInv /\ Reads(r) /\ parent \in [Category -> Category \cup {Root, None}]
      /\ Root \notin Category /\ None \notin Category
      /\ \A c \in Category : c \notin used => /\ parent[c] = None
                                             /\ \A d \in Category : parent[d] # c
  BY TreeConstants DEF ReadInv, TreeInv, TreeTyped, Tree!KeysHold, Tree!Exists, Tree!IsParent
<1>1. CASE Rests \/ Houses(r)
  BY <1>1 DEF Rests, Houses
<1>2. ASSUME NEW c \in Category, NEW to, c \notin used, Tree!IsParent(to),
             parent' = [parent EXCEPT ![c] = to]
      PROVE  NoLoop(parent')
  <2>1. to # c
    BY <1>0, <1>2 DEF Tree!IsParent, Tree!Exists
  <2> QED BY <1>0, <1>2, <2>1, NoLoopAdded
<1>3. CASE Inserts(r) \/ InsertsOne(r)
  BY <1>2, <1>3 DEF Inserts, InsertsOne
<1>4. CASE Moves(r) /\ req'[r] # req[r]
  <2>1. PICK c, to : c = req[r].cat /\ to = req[r].to
    OBVIOUS
  <2>2. CASE "move" \in under[r]
    BY <1>4, <2>2 DEF Moves, Tree!Overtaken
  <2>3. CASE "move" \notin under[r]
    <3>1. /\ to # c /\ c \in Category /\ (to # Root => c \notin Ups(parent, to))
          /\ Tree!IsParent(to) /\ parent' = [parent EXCEPT ![c] = to]
      BY <1>0, <1>4, <2>1, <2>3 DEF Moves, Reads, Outside
    <3>2. to \in Category \cup {Root}
      BY <3>1 DEF Tree!IsParent, Tree!Exists
    <3> QED BY <1>0, <3>1, <3>2, NoLoopMoved
  <2> QED BY <2>2, <2>3
<1>5. CASE Removes(r)
  <2>1. PICK c \in Category : parent' = [parent EXCEPT ![c] = None]
    BY <1>5 DEF Removes
  <2>2. NoLoop([parent EXCEPT ![c] = None])
    BY <1>0, NoLoopRemoved
  <2> QED BY <2>1, <2>2
<1>6. CASE InsertsBoth(r)
  <2>1. PICK c \in Category, d \in Category :
          c \notin used /\ d \notin used /\ c # d /\ parent' = [parent EXCEPT ![c] = Root, ![d] = c]
    BY <1>6 DEF InsertsBoth
  <2>2. PICK up \in [Category -> Category \cup {Root, None}] : up = [parent EXCEPT ![c] = Root]
    BY <1>0
  <2>3. NoLoop(up)
    BY <1>0, <2>1, <2>2, NoLoopAdded
  <2>4. \A e \in Category : up[e] # d
    BY <1>0, <2>1, <2>2
  <2>5. parent' = [up EXCEPT ![d] = c]
    BY <2>1, <2>2
  <2>6. NoLoop([up EXCEPT ![d] = c])
    BY <2>1, <2>3, <2>4, NoLoopAdded
  <2> QED BY <2>5, <2>6
<1> QED BY <1>1, <1>3, <1>4, <1>5, <1>6 DEF Changes

LEMMA NamesByWrites ==
  ASSUME ReadInv, NEW r \in Requester, Changes(r), Tree!NamesApart
  PROVE  Tree!NamesApart' \/ Tree!Overtaken({"create", "update", "import"}, "name")
<1>0. /\ TreeInv /\ Reads(r) /\ parent \in [Category -> Category \cup {Root, None}]
      /\ name \in [Category -> Name] /\ Root \notin Category /\ None \notin Category
      /\ \A c \in Category : c \notin used => /\ parent[c] = None
                                             /\ \A d \in Category : parent[d] # c
  BY TreeConstants DEF ReadInv, TreeInv, TreeTyped, Tree!KeysHold, Tree!Exists, Tree!IsParent
<1>1. Tree!NamesApart <=> Differ(parent, name)
  BY DEF Tree!NamesApart, Tree!Exists, Differ
<1>2. Tree!NamesApart' <=> Differ(parent', name')
  BY DEF Tree!NamesApart, Tree!Exists, Differ
<1>3. CASE Rests \/ Houses(r)
  BY <1>1, <1>2, <1>3 DEF Rests, Houses
<1>4. CASE Removes(r)
  BY <1>0, <1>1, <1>2, <1>4 DEF Removes, Differ
<1>5. CASE "name" \in under[r] /\ req'[r] # req[r]
            /\ (Inserts(r) \/ Moves(r) \/ InsertsBoth(r) \/ InsertsOne(r))
  BY <1>5 DEF Tree!Overtaken, Inserts, Moves, InsertsBoth, InsertsOne
<1>6. ASSUME NEW c \in Category, NEW to, NEW n, NEW but, but \in {None, c}, to # None,
             ~Has(parent, name, to, n, but),
             parent' = [parent EXCEPT ![c] = to], name' = [name EXCEPT ![c] = n]
      PROVE  Differ(parent', name')
  <2>1. \A d \in Category \ {c} : parent[d] = to => name[d] # n
    BY <1>0, <1>6 DEF Has
  <2> QED BY <1>0, <1>1, <1>6, <2>1, DifferPut
<1>7. \A p : Tree!IsParent(p) => p # None
  BY <1>0 DEF Tree!IsParent, Tree!Exists, TreeInv, Tree!CategoriesAssumption
<1>8. CASE "name" \notin under[r] /\ (Inserts(r) \/ Moves(r) \/ InsertsOne(r))
  <2>1. CASE Inserts(r)
    <3>1. ~Has(parent, name, req[r].to, req[r].name, None)
      BY <1>0, <1>8, <2>1 DEF Inserts, Reads, Asks, Apart
    <3> QED BY <1>2, <1>6, <1>7, <2>1, <3>1 DEF Inserts
  <2>2. CASE Moves(r)
    <3>1. req[r].cat \in Category
      BY <2>2 DEF Moves, Tree!Exists
    <3> QED BY <1>0, <1>2, <1>6, <1>7, <1>8, <2>2, <3>1 DEF Moves, Reads, Apart
  <2>3. CASE InsertsOne(r)
    <3>1. ~Has(parent, name, req[r].to, req[r].path[2], None)
      BY <1>0, <1>8, <2>3 DEF InsertsOne, Reads, Apart
    <3> QED BY <1>2, <1>6, <1>7, <2>3, <3>1 DEF InsertsOne
  <2> QED BY <1>8, <2>1, <2>2, <2>3
<1>9. CASE "name" \notin under[r] /\ InsertsBoth(r)
  <2>1. PICK n, k : n = req[r].path[1] /\ k = req[r].path[2]
    OBVIOUS
  <2>2. PICK c \in Category, d \in Category :
          /\ c \notin used /\ d \notin used /\ c # d
          /\ parent' = [parent EXCEPT ![c] = Root, ![d] = c]
          /\ name' = [name EXCEPT ![c] = n, ![d] = k]
    BY <1>9, <2>1 DEF InsertsBoth
  <2>3. ~Has(parent, name, Root, n, None)
    BY <1>0, <1>9, <2>1 DEF InsertsBoth, Reads, Apart
  <2>4. n \in Name
    BY <1>0, <1>9, <2>1 DEF InsertsBoth, TreeInv, ReqTyped, ReqFits
  <2>5. PICK up \in [Category -> Category \cup {Root, None}] : up = [parent EXCEPT ![c] = Root]
    BY <1>0
  <2>6. PICK lab \in [Category -> Name] : lab = [name EXCEPT ![c] = n]
    BY <1>0, <2>4
  <2>7. \A e \in Category \ {c} : parent[e] = Root => name[e] # n
    BY <1>0, <2>3 DEF Has, TreeInv, Tree!CategoriesAssumption
  <2>8. Differ(up, lab)
    BY <1>0, <1>1, <2>5, <2>6, <2>7, DifferPut
  <2>9. \A e \in Category \ {d} : up[e] = c => lab[e] # k
    BY <1>0, <2>2, <2>5
  <2>10. Differ([up EXCEPT ![d] = c], [lab EXCEPT ![d] = k])
    BY <2>8, <2>9, DifferPut
  <2>11. parent' = [up EXCEPT ![d] = c] /\ name' = [lab EXCEPT ![d] = k]
    BY <2>2, <2>5, <2>6
  <2> QED BY <1>2, <2>10, <2>11
<1> QED BY <1>3, <1>4, <1>5, <1>8, <1>9 DEF Changes

LEMMA FeedsByPlaces ==
  ASSUME ReadInv, NEW r \in Requester, Changes(r)
  PROVE  Tree!FeedsKept
<1>0. TreeInv /\ Reads(r) /\ None \notin Category /\ home \in [Feed -> Category \cup {None}]
  BY TreeConstants DEF ReadInv, TreeInv, TreeTyped
<1> SUFFICES ASSUME NEW f \in Feed, home[f] # None, home'[f] = None
             PROVE  \/ Tree!Overtaken({"delete", "import"}, "place")
                    \/ \E q \in Requester : Tree!Unsubscribe(q) /\ f \in req[q].feed
  BY DEF Tree!FeedsKept, Tree!FeedsStay
<1>1. CASE Houses(r)
  BY <1>1 DEF Houses
<1>2. CASE Removes(r) /\ req'[r] # req[r]
  <2>1. PICK c \in Category :
          /\ \/ req[r].kind = "delete" /\ req[r].step = "checked" /\ c = req[r].cat
             \/ req[r].kind = "import" /\ req[r].step = "undo" /\ Made(req[r].made, c)
          /\ home' = [g \in Feed |-> IF home[g] = c THEN None ELSE home[g]]
    BY <1>2 DEF Removes
  <2>2. home[f] = c
    BY <2>1
  <2>3. "place" \in under[r]
    BY <1>0, <2>1, <2>2 DEF Reads, Empty
  <2> QED BY <1>2, <2>1, <2>3 DEF Tree!Overtaken
<1> QED BY <1>1, <1>2 DEF Changes, Rests, Inserts, Moves, InsertsBoth, InsertsOne

\* Whatever is created, moved, renamed, deleted and imported, however requests overlap: no category
\* falls out of the tree and of exports but by a move that another move has overtaken (isDescendant
\* saw the tree before), no two siblings get one name but by a write that another has overtaken
\* (uniqueSlugForParent saw the siblings before), and no feed goes with a category but one that a
\* feed was placed in after its feeds were counted. One request at a time is overtaken by none.
THEOREM NothingDisappears ==
  Tree!CategoriesAssumption => (Tree!Spec => [][Tree!TreeKept]_Tree!vars)
<1>1. ReadInv /\ [Tree!Next]_Tree!vars => [Tree!TreeKept]_Tree!vars
  <2> SUFFICES ASSUME ReadInv, Tree!Next
               PROVE  Tree!TreeKept
    OBVIOUS
  <2>1. PICK r \in Requester : Tree!Step(r)
    BY Zenon DEF Tree!Next
  <2>2. Changes(r) /\ TreeInv /\ TreeInv'
    BY <2>1, StepChanges, TreeStep DEF ReadInv
  <2>3. Tree!AllShown => NoLoop(parent)
    <3>1. Tree!AllShown => AllShownIn(parent)
      BY DEF Tree!AllShown, Tree!Shown, Tree!Exists, AllShownIn
    <3>2. Root \notin Category /\ None \notin Category
      BY <2>2, TreeConstants DEF TreeInv
    <3>3. \A c \in Category : parent[c] # None =>
            parent[c] = Root \/ (parent[c] \in Category /\ parent[parent[c]] # None)
      BY <2>2 DEF TreeInv, Tree!KeysHold, Tree!Exists, Tree!IsParent
    <3> QED BY <3>1, <3>2, <3>3, ShownWithoutLoop
  <2>4. NoLoop(parent') => Tree!AllShown'
    <3>1. AllShownIn(parent') => Tree!AllShown'
      BY DEF Tree!AllShown, Tree!Shown, Tree!Exists, AllShownIn
    <3>2. Root \notin Category /\ None \notin Category
      BY <2>2, TreeConstants DEF TreeInv
    <3>3. \A c \in Category : parent'[c] # None =>
            parent'[c] = Root \/ (parent'[c] \in Category /\ parent'[parent'[c]] # None)
      BY <2>2 DEF TreeInv, Tree!KeysHold, Tree!Exists, Tree!IsParent
    <3> QED BY <3>1, <3>2, <3>3, ShownWithoutLoop
  <2>7. Tree!ShownKept
    BY <2>2, <2>3, <2>4, LoopsByMoves DEF Tree!ShownKept
  <2>5. Tree!NamesKept
    BY <2>2, NamesByWrites DEF Tree!NamesKept
  <2>6. Tree!FeedsKept
    BY <2>2, FeedsByPlaces
  <2> QED BY <2>2, <2>5, <2>6, <2>7 DEF Tree!TreeKept, TreeInv
<1>2. Tree!CategoriesAssumption /\ Tree!Init => ReadInv
  BY ReadsBegin
<1>3. ReadInv /\ [Tree!Next]_Tree!vars => ReadInv'
  BY ReadsStep
<1> SUFFICES ASSUME Tree!CategoriesAssumption
             PROVE  Tree!Spec => [][Tree!TreeKept]_Tree!vars
  OBVIOUS
<1> QED BY <1>1, <1>2, <1>3, PTL DEF Tree!Spec

---------------------------------------------------------------------------

(***************************************************************************)
(* Migrations: each is applied once, and nobody comes up without them.     *)
(***************************************************************************)
CONSTANTS Migrators, Release, Initially, Guarded, Row, Drops, Adds, MaxCrash
VARIABLES ledger, guard, ran, rows, gone, pc, known, todo, before, crashes

Starts == INSTANCE Migrations WITH Process <- Migrators

GuardRow == [file : Starts!Hashes, ledger : Starts!Hashes]

MigTyped ==
  /\ Starts!Applied \subseteq Starts!Dates /\ \A d \in Starts!Applied : ledger[d] \in Starts!Hashes
  /\ DOMAIN guard \subseteq Starts!Applied /\ \A d \in DOMAIN guard : guard[d] \in GuardRow
  /\ IsFiniteSet(Starts!Applied) /\ rows \subseteq Row /\ gone \subseteq Row
  /\ pc \in [Migrators -> Starts!Steps] /\ todo \in [Migrators -> SUBSET Starts!Dates]
  /\ before \in [Migrators -> SUBSET Row] /\ DOMAIN known = Migrators
  /\ \A p \in Migrators : /\ DOMAIN known[p] \subseteq Starts!Applied
                          /\ \A d \in DOMAIN known[p] : known[p][d] \in Starts!Hashes

\* What was not there before the guard is in it.
Watched ==
  /\ DOMAIN Initially \subseteq Starts!Applied
  /\ \A d \in Starts!Applied : d \notin DOMAIN guard => d \in DOMAIN Initially
  /\ Guarded => DOMAIN guard = Starts!Applied

RanOnce ==
  /\ DOMAIN ran = Starts!Dates
  /\ \A d \in Starts!Dates : ran[d] = IF d \in Starts!Applied THEN 1 ELSE 0

\* What a process is about to do was not there at first, and what it is to enter is.
ToDo(p) ==
  /\ pc[p] = "baseline" => ~Guarded /\ todo[p] # {} /\ todo[p] \subseteq DOMAIN known[p]
  /\ pc[p] \in {"snapshot", "backup", "migrate"} =>
       todo[p] \subseteq Starts!Local(p) /\ todo[p] \cap DOMAIN Initially = {}

MigInv ==
  /\ Starts!MigrationsAssumption
  /\ MigTyped /\ Watched /\ RanOnce /\ \A p \in Migrators : ToDo(p)

(***************************************************************************)
(* Dates.                                                                  *)
(***************************************************************************)
LEMMA LeastDate ==
  ASSUME NEW T, T \subseteq Nat, T # {}
  PROVE  \E m \in T : \A k \in T : m <= k
<1>1. PICK R : R = OpToRel(<, Nat)
  OBVIOUS
<1>2. IsWellFoundedOn(R, Nat)
  BY <1>1, NatLessThanWellFounded
<1>3. PICK m \in T : \A k \in T : ~(<<k, m>> \in R)
  BY <1>2, WFMin
<1>4. ASSUME NEW k \in T
      PROVE  m <= k
  <2>1. m \in Nat /\ k \in Nat
    OBVIOUS
  <2>2. CASE k < m
    <3>1. <<k, m>> \in R
      BY <1>1, <2>1, <2>2 DEF OpToRel
    <3> QED BY <1>3, <3>1
  <2>3. CASE ~(k < m)
    BY <2>1, <2>3
  <2> QED BY <2>2, <2>3
<1> QED BY <1>4

\* A finite set of dates has a last one.
LEMMA LastDate ==
  ASSUME NEW T, T \subseteq Nat, T # {}, IsFiniteSet(T)
  PROVE  \E m \in T : \A k \in T : k <= m
<1> DEFINE Bad == {S \in SUBSET T : S # {} /\ ~\E m \in S : \A k \in S : k <= m}
<1>1. PICK R : R = StrictSubsetOrdering(T)
  OBVIOUS
<1>2. IsWellFoundedOn(R, SUBSET T)
  BY <1>1, FS_StrictSubsetOrderingWellFounded, FS_FiniteSubsetsOfFinite
<1>3. Bad = {}
  <2> SUFFICES ASSUME Bad # {}
               PROVE  FALSE
    OBVIOUS
  <2>1. PICK S \in Bad : \A B \in Bad : ~(<<B, S>> \in R)
    BY <1>2, WFMin
  <2>2. PICK x \in S : TRUE
    OBVIOUS
  <2>3. S \ {x} \notin Bad
    <3>1. S \ {x} \in SUBSET T /\ S \in SUBSET T /\ S \ {x} \subseteq S /\ S \ {x} # S
      BY <2>2
    <3>2. <<S \ {x}, S>> \in R
      BY <1>1, <3>1 DEF StrictSubsetOrdering
    <3> QED BY <2>1, <3>2
  <2>4. CASE S \ {x} = {}
    BY <2>1, <2>2, <2>4
  <2>5. CASE S \ {x} # {}
    <3>1. PICK m \in S \ {x} : \A k \in S \ {x} : k <= m
      BY <2>1, <2>3, <2>5
    <3>2. CASE x <= m
      BY <2>1, <2>2, <3>1, <3>2
    <3>3. CASE ~(x <= m)
      BY <2>1, <2>2, <3>1, <3>3
    <3> QED BY <3>2, <3>3
  <2> QED BY <2>4, <2>5
<1> QED BY <1>3

LEMMA DatesAre ==
  ASSUME Starts!MigrationsAssumption
  PROVE  /\ Starts!Dates \subseteq Nat
         /\ \A S \in SUBSET Starts!Dates : S # {} => Starts!Min(S) \in S
<1>1. Starts!Dates \subseteq Nat
  BY DEF Starts!MigrationsAssumption, Starts!Dates
<1>2. ASSUME NEW S \in SUBSET Starts!Dates, S # {}
      PROVE  Starts!Min(S) \in S
  <2>1. S \subseteq Nat
    BY <1>1
  <2>2. \E m \in S : \A k \in S : m <= k
    BY <1>2, <2>1, LeastDate
  <2> QED BY <2>2, Zenon DEF Starts!Min
<1> QED BY <1>1, <1>2

LEMMA LatestIsLast ==
  ASSUME NEW S, S \subseteq Nat, S # {}, IsFiniteSet(S)
  PROVE  Starts!Max(S) \in S /\ \A e \in S : e <= Starts!Max(S)
<1>1. \E m \in S : \A k \in S : m >= k
  <2>1. PICK m \in S : \A k \in S : k <= m
    BY LastDate
  <2>2. \A k \in S : m >= k
    BY <2>1
  <2> QED BY <2>2
<1>2. Starts!Max(S) \in S /\ \A e \in S : Starts!Max(S) >= e
  BY <1>1, Zenon DEF Starts!Max
<1> QED BY <1>2

(***************************************************************************)
(* The steps.                                                              *)
(***************************************************************************)
\* What leaves the ledger and the guard alone.
LEMMA NothingApplied ==
  ASSUME MigInv, UNCHANGED <<ledger, guard, ran>>
  PROVE  Watched' /\ RanOnce' /\ Starts!Applied' = Starts!Applied
BY DEF MigInv, Watched, RanOnce, Starts!Applied

LEMMA OthersToDo ==
  ASSUME MigInv, NEW p \in Migrators, NEW q \in Migrators, q # p,
         pc'[q] = pc[q], todo'[q] = todo[q], known'[q] = known[q]
  PROVE  ToDo(q)'
BY Zenon DEF MigInv, ToDo

LEMMA MigStart ==
  ASSUME MigInv, NEW p \in Migrators, Starts!Start(p)
  PROVE  MigInv'
<1> USE DEF Starts!Start
<1>1. Watched' /\ RanOnce' /\ Starts!Applied' = Starts!Applied
  BY NothingApplied
<1>2. MigTyped'
  BY <1>1 DEF MigInv, MigTyped, Starts!Go, Starts!Steps, Starts!Applied
<1>3. ASSUME NEW q \in Migrators
      PROVE  ToDo(q)'
  <2>1. CASE q = p
    BY <2>1 DEF MigInv, MigTyped, ToDo, Starts!Go
  <2>2. CASE q # p
    <3>1. pc'[q] = pc[q] /\ todo'[q] = todo[q] /\ known'[q] = known[q]
      BY <2>2 DEF MigInv, MigTyped, Starts!Go
    <3> QED BY <2>2, <3>1, OthersToDo
  <2> QED BY <2>1, <2>2
<1> QED BY <1>1, <1>2, <1>3 DEF MigInv

LEMMA MigCheck ==
  ASSUME MigInv, NEW p \in Migrators, Starts!Check(p)
  PROVE  MigInv'
<1> USE DEF Starts!Check
<1>1. Watched' /\ RanOnce' /\ Starts!Applied' = Starts!Applied
  BY NothingApplied
<1>2. DOMAIN known[p] \subseteq Starts!Applied /\ Starts!Applied \subseteq Starts!Dates
  BY DEF MigInv, MigTyped
<1>3. MigTyped' /\ ToDo(p)'
  <2>1. CASE DOMAIN guard = {} /\ DOMAIN known[p] # {}
    <3>1. pc' = [pc EXCEPT ![p] = "baseline"] /\ todo' = [todo EXCEPT ![p] = DOMAIN known[p]]
      BY <2>1 DEF Starts!Go
    <3>2. MigTyped'
      BY <1>1, <1>2, <3>1 DEF MigInv, MigTyped, Starts!Steps, Starts!Applied
    <3>3. pc'[p] = "baseline" /\ todo'[p] = DOMAIN known[p] /\ known' = known
      BY <3>1 DEF MigInv, MigTyped
    <3>4. ~Guarded
      BY <1>2, <2>1 DEF MigInv, Watched
    <3> QED BY <2>1, <3>2, <3>3, <3>4 DEF ToDo
  <2>2. CASE ~(DOMAIN guard = {} /\ DOMAIN known[p] # {})
    <3>1. PICK k \in {"failed", "checked"} : pc' = [pc EXCEPT ![p] = k] /\ todo' = todo
      BY <2>2, Zenon DEF Starts!Go
    <3>2. MigTyped'
      BY <1>1, <3>1 DEF MigInv, MigTyped, Starts!Steps, Starts!Applied
    <3>3. pc'[p] = k
      BY <3>1 DEF MigInv, MigTyped
    <3> QED BY <3>2, <3>3 DEF ToDo
  <2> QED BY <2>1, <2>2
<1>4. ASSUME NEW q \in Migrators, q # p
      PROVE  ToDo(q)'
  <2>1. pc'[q] = pc[q] /\ todo'[q] = todo[q] /\ known'[q] = known[q]
    BY <1>4 DEF MigInv, MigTyped, Starts!Go
  <2> QED BY <1>4, <2>1, OthersToDo
<1> QED BY <1>1, <1>3, <1>4 DEF MigInv

\* What a step of a baseline does.
LEMMA EntersOne ==
  ASSUME MigInv, NEW p \in Migrators, Starts!Baseline(p)
  PROVE  \E d \in todo[p] :
           /\ d \in DOMAIN known[p] /\ d \in Starts!Applied
           /\ \/ pc' = [pc EXCEPT ![p] = "failed"] /\ UNCHANGED <<guard, todo>>
              \/ /\ d \in Starts!Local(p) /\ d \notin DOMAIN guard
                 /\ guard' = [e \in DOMAIN guard \cup {d} |->
                               IF e = d THEN Starts!Tracked(p, d) ELSE guard[e]]
                 /\ todo' = [todo EXCEPT ![p] = @ \ {d}]
                 /\ pc' = [pc EXCEPT ![p] = IF todo[p] = {d} THEN "checked" ELSE "baseline"]
<1>1. todo[p] # {} /\ todo[p] \subseteq DOMAIN known[p] /\ todo[p] \in SUBSET Starts!Dates
  BY DEF MigInv, MigTyped, ToDo, Starts!Baseline, Starts!At
<1>2. Starts!Min(todo[p]) \in todo[p]
  BY <1>1, DatesAre DEF MigInv
<1>3. PICK d : d = Starts!Min(todo[p])
  OBVIOUS
<1>4. d \in todo[p] /\ d \in DOMAIN known[p] /\ d \in Starts!Applied
  BY <1>1, <1>2, <1>3 DEF MigInv, MigTyped
<1>5. \/ pc' = [pc EXCEPT ![p] = "failed"] /\ UNCHANGED <<guard, todo>>
      \/ /\ d \in Starts!Local(p) /\ d \notin DOMAIN guard
         /\ guard' = [e \in DOMAIN guard \cup {d} |->
                       IF e = d THEN Starts!Tracked(p, d) ELSE guard[e]]
         /\ todo' = [todo EXCEPT ![p] = @ \ {d}]
         /\ pc' = [pc EXCEPT ![p] = IF todo[p] = {d} THEN "checked" ELSE "baseline"]
  BY <1>3, Zenon DEF Starts!Baseline, Starts!Go
<1> QED BY <1>4, <1>5

LEMMA MigBaseline ==
  ASSUME MigInv, NEW p \in Migrators, Starts!Baseline(p)
  PROVE  MigInv'
<1>1. UNCHANGED <<ledger, ran, rows, gone, known, before, crashes>> /\ pc[p] = "baseline"
  BY DEF Starts!Baseline, Starts!At
<1>2. PICK d \in todo[p] :
           /\ d \in DOMAIN known[p] /\ d \in Starts!Applied
           /\ \/ pc' = [pc EXCEPT ![p] = "failed"] /\ UNCHANGED <<guard, todo>>
              \/ /\ d \in Starts!Local(p) /\ d \notin DOMAIN guard
                 /\ guard' = [e \in DOMAIN guard \cup {d} |->
                               IF e = d THEN Starts!Tracked(p, d) ELSE guard[e]]
                 /\ todo' = [todo EXCEPT ![p] = @ \ {d}]
                 /\ pc' = [pc EXCEPT ![p] = IF todo[p] = {d} THEN "checked" ELSE "baseline"]
  BY EntersOne
<1>3. Starts!Applied' = Starts!Applied /\ RanOnce'
  BY <1>1 DEF MigInv, RanOnce, Starts!Applied
<1>4. MigTyped' /\ Watched' /\ ToDo(p)'
  <2>1. CASE pc' = [pc EXCEPT ![p] = "failed"] /\ UNCHANGED <<guard, todo>>
    <3>1. MigTyped'
      BY <1>1, <1>3, <2>1 DEF MigInv, MigTyped, Starts!Steps, Starts!Applied
    <3>2. pc'[p] = "failed"
      BY <2>1 DEF MigInv, MigTyped
    <3> QED BY <1>1, <1>3, <2>1, <3>1, <3>2 DEF MigInv, Watched, ToDo
  <2>2. CASE /\ d \in Starts!Local(p) /\ d \notin DOMAIN guard
             /\ guard' = [e \in DOMAIN guard \cup {d} |->
                           IF e = d THEN Starts!Tracked(p, d) ELSE guard[e]]
             /\ todo' = [todo EXCEPT ![p] = @ \ {d}]
             /\ pc' = [pc EXCEPT ![p] = IF todo[p] = {d} THEN "checked" ELSE "baseline"]
    <3>1. PICK k \in {"checked", "baseline"} :
            pc' = [pc EXCEPT ![p] = k] /\ (k = "baseline" => todo[p] # {d})
      <4>1. CASE todo[p] = {d}
        BY <2>2, <4>1
      <4>2. CASE todo[p] # {d}
        BY <2>2, <4>2
      <4> QED BY <4>1, <4>2
    <3>2. Starts!Tracked(p, d) \in GuardRow
      <4>1. known[p][d] \in Starts!Hashes
        BY <1>2 DEF MigInv, MigTyped
      <4>2. Release[p][d] \in Starts!Hashes
        BY <2>2 DEF Starts!Hashes, Starts!Local
      <4> QED BY <4>1, <4>2 DEF Starts!Tracked, GuardRow
    <3>3. /\ DOMAIN guard' = DOMAIN guard \cup {d}
          /\ \A e \in DOMAIN guard' : guard'[e] \in GuardRow
      BY <2>2, <3>2 DEF MigInv, MigTyped
    <3>4. MigTyped'
      BY <1>1, <1>2, <1>3, <2>2, <3>1, <3>3
         DEF MigInv, MigTyped, Starts!Steps, Starts!Applied, GuardRow, Starts!Hashes
    <3>5. ~Guarded /\ todo[p] \subseteq DOMAIN known[p]
      BY <1>1 DEF MigInv, ToDo
    <3>6. Watched'
      BY <1>3, <3>3, <3>5 DEF MigInv, Watched
    <3>7. pc'[p] = k /\ todo'[p] = todo[p] \ {d}
      BY <2>2, <3>1 DEF MigInv, MigTyped
    <3>8. ToDo(p)'
      BY <1>1, <3>1, <3>5, <3>7 DEF ToDo
    <3> QED BY <3>4, <3>6, <3>8
  <2> QED BY <1>2, <2>1, <2>2
<1>5. ASSUME NEW q \in Migrators, q # p
      PROVE  ToDo(q)'
  <2>1. pc'[q] = pc[q] /\ todo'[q] = todo[q] /\ known'[q] = known[q]
    BY <1>1, <1>2, <1>5 DEF MigInv, MigTyped
  <2> QED BY <1>5, <2>1, OthersToDo
<1> QED BY <1>3, <1>4, <1>5 DEF MigInv

\* What is pending is later than all that is applied.
LEMMA PendingIsLater ==
  ASSUME MigInv, NEW p \in Migrators
  PROVE  /\ Starts!Pending(p) \subseteq Starts!Local(p) /\ Starts!Pending(p) \subseteq Starts!Dates
         /\ Starts!Pending(p) \cap Starts!Applied = {}
<1>1. Starts!Pending(p) \subseteq Starts!Local(p) /\ Starts!Local(p) \subseteq Starts!Dates
  BY DEF Starts!Pending, Starts!Local, Starts!Dates
<1>2. ASSUME NEW d \in Starts!Pending(p), d \in Starts!Applied
      PROVE  FALSE
  <2>1. /\ Starts!Applied \subseteq Nat /\ Starts!Applied # {} /\ IsFiniteSet(Starts!Applied)
    BY <1>2, DatesAre DEF MigInv, MigTyped
  <2>2. d <= Starts!Max(Starts!Applied) /\ Starts!Max(Starts!Applied) \in Nat /\ d \in Nat
    BY <1>2, <2>1, LatestIsLast
  <2>3. d > Starts!Max(Starts!Applied)
    BY <1>2, <2>1 DEF Starts!Pending
  <2> QED BY <2>2, <2>3
<1> QED BY <1>1, <1>2

LEMMA MigSelect ==
  ASSUME MigInv, NEW p \in Migrators, Starts!Select(p)
  PROVE  MigInv'
<1> USE DEF Starts!Select
<1>1. Watched' /\ RanOnce' /\ Starts!Applied' = Starts!Applied
  BY NothingApplied
<1>2. PICK P : P = Starts!Pending(p)
  OBVIOUS
<1>3. /\ P \subseteq Starts!Local(p) /\ P \subseteq Starts!Dates
      /\ P \cap DOMAIN Initially = {}
  BY <1>2, PendingIsLater DEF MigInv, Watched
<1>4. PICK k \in {"up", "snapshot"} : pc' = [pc EXCEPT ![p] = k]
  BY Zenon DEF Starts!Go
<1>5. todo' = [todo EXCEPT ![p] = P]
  BY <1>2
<1>6. MigTyped'
  BY <1>1, <1>3, <1>4, <1>5 DEF MigInv, MigTyped, Starts!Steps, Starts!Applied
<1>7. pc'[p] = k /\ todo'[p] = P
  BY <1>4, <1>5 DEF MigInv, MigTyped
<1>8. ToDo(p)'
  BY <1>3, <1>7 DEF ToDo, Starts!Local
<1>9. ASSUME NEW q \in Migrators, q # p
      PROVE  ToDo(q)'
  <2>1. pc'[q] = pc[q] /\ todo'[q] = todo[q] /\ known'[q] = known[q]
    BY <1>4, <1>5, <1>9 DEF MigInv, MigTyped
  <2> QED BY <1>9, <2>1, OthersToDo
<1> QED BY <1>1, <1>6, <1>8, <1>9 DEF MigInv

\* A process goes on with what it has.
LEMMA MigGoesOn ==
  ASSUME MigInv, NEW p \in Migrators, UNCHANGED <<ledger, guard, ran, rows, gone>>,
         NEW k \in Starts!Steps, pc' = [pc EXCEPT ![p] = k],
         k \in {"snapshot", "backup", "migrate"} => pc[p] \in {"snapshot", "backup", "migrate"},
         k # "baseline",
         \/ UNCHANGED <<known, todo>>
         \/ k = "off" /\ known' = [known EXCEPT ![p] = <<>>] /\ todo' = [todo EXCEPT ![p] = {}],
         before' \in [Migrators -> SUBSET Row]
  PROVE  MigInv'
<1>1. Watched' /\ RanOnce' /\ Starts!Applied' = Starts!Applied
  BY NothingApplied
<1>2. /\ todo' \in [Migrators -> SUBSET Starts!Dates] /\ DOMAIN known' = Migrators
      /\ \A q \in Migrators : /\ DOMAIN known'[q] \subseteq Starts!Applied
                              /\ \A d \in DOMAIN known'[q] : known'[q][d] \in Starts!Hashes
  BY DEF MigInv, MigTyped
<1>3. MigTyped'
  BY <1>1, <1>2 DEF MigInv, MigTyped, Starts!Steps, Starts!Applied
<1>4. ASSUME NEW q \in Migrators
      PROVE  ToDo(q)'
  <2>1. CASE q # p
    <3>1. pc'[q] = pc[q] /\ todo'[q] = todo[q] /\ known'[q] = known[q]
      BY <2>1 DEF MigInv, MigTyped
    <3> QED BY <2>1, <3>1, OthersToDo
  <2>2. CASE q = p
    <3>1. pc'[p] = k
      BY DEF MigInv, MigTyped
    <3>2. k \in {"snapshot", "backup", "migrate"} => todo'[p] = todo[p]
      OBVIOUS
    <3> QED BY <2>2, <3>1, <3>2 DEF MigInv, ToDo, Starts!Local
  <2> QED BY <2>1, <2>2
<1> QED BY <1>1, <1>3, <1>4 DEF MigInv

\* What it means that the transaction of a process commits.
LEMMA Commits ==
  ASSUME MigInv, NEW p \in Migrators, Starts!Migrate(p),
         ~(Starts!Twice(p) \/ Starts!Loses(p, Starts!Over(rows, todo[p])))
  PROVE  /\ pc' = [pc EXCEPT ![p] = "up"] /\ rows' = Starts!Over(rows, todo[p])
         /\ ledger' = [d \in todo[p] \cup Starts!Applied |->
                        IF d \in todo[p] THEN Release[p][d] ELSE ledger[d]]
         /\ guard' = [d \in todo[p] \cup DOMAIN guard |->
                       IF d \in todo[p] THEN [file |-> Release[p][d], ledger |-> Release[p][d]]
                       ELSE guard[d]]
         /\ ran' = [d \in Starts!Dates |-> IF d \in todo[p] THEN ran[d] + 1 ELSE ran[d]]
         /\ todo[p] \subseteq Starts!Local(p) /\ todo[p] \subseteq Starts!Dates
         /\ todo[p] \cap DOMAIN Initially = {} /\ todo[p] \cap Starts!Applied = {}
         /\ IsFiniteSet(todo[p])
<1>1. todo[p] \subseteq Starts!Local(p) /\ todo[p] \cap DOMAIN Initially = {}
  BY DEF MigInv, ToDo, Starts!Migrate, Starts!At
<1>2. todo[p] \cap DOMAIN guard = {}
  BY DEF Starts!Twice
<1>3. todo[p] \cap Starts!Applied = {} /\ todo[p] \subseteq Starts!Dates
  BY <1>1, <1>2 DEF MigInv, MigTyped, Watched
<1>4. IsFiniteSet(todo[p])
  <2>1. IsFiniteSet(Starts!Local(p))
    BY Zenon DEF MigInv, Starts!MigrationsAssumption, Starts!Local, IsFiniteSet, Starts!IsFiniteSet
  <2> QED BY <1>1, <2>1, FS_Subset
<1> QED BY <1>1, <1>3, <1>4, Zenon DEF Starts!Migrate, Starts!Go, Starts!Recorded

LEMMA MigMigrate ==
  ASSUME MigInv, NEW p \in Migrators, Starts!Migrate(p)
  PROVE  MigInv'
<1>0. /\ UNCHANGED <<gone, known, todo, before, crashes>> /\ pc[p] = "migrate"
  BY DEF Starts!Migrate, Starts!At
<1>1. CASE Starts!Twice(p) \/ Starts!Loses(p, Starts!Over(rows, todo[p]))
  <2>1. pc' = [pc EXCEPT ![p] = "failed"] /\ UNCHANGED <<ledger, guard, ran, rows>>
    BY <1>1, Zenon DEF Starts!Migrate, Starts!Go
  <2>2. before' \in [Migrators -> SUBSET Row] /\ "failed" \in Starts!Steps
    BY <1>0 DEF MigInv, MigTyped, Starts!Steps
  <2> QED BY <1>0, <2>1, <2>2, MigGoesOn
<1>2. CASE ~(Starts!Twice(p) \/ Starts!Loses(p, Starts!Over(rows, todo[p])))
  <2>1. PICK T : T = todo[p]
    OBVIOUS
  <2>2. /\ pc' = [pc EXCEPT ![p] = "up"] /\ rows' = Starts!Over(rows, T)
        /\ ledger' = [d \in T \cup Starts!Applied |->
                       IF d \in T THEN Release[p][d] ELSE ledger[d]]
        /\ guard' = [d \in T \cup DOMAIN guard |->
                      IF d \in T THEN [file |-> Release[p][d], ledger |-> Release[p][d]]
                      ELSE guard[d]]
        /\ ran' = [d \in Starts!Dates |-> IF d \in T THEN ran[d] + 1 ELSE ran[d]]
        /\ T \subseteq Starts!Local(p) /\ T \subseteq Starts!Dates
        /\ T \cap DOMAIN Initially = {} /\ T \cap Starts!Applied = {}
        /\ IsFiniteSet(T)
    BY <1>2, <2>1, Commits
  <2>3. Starts!Applied' = T \cup Starts!Applied /\ DOMAIN guard' = T \cup DOMAIN guard
    BY <2>2 DEF Starts!Applied
  <2>4. \A d \in T : Release[p][d] \in Starts!Hashes
    BY <2>2 DEF Starts!Hashes, Starts!Local
  <2>5. \A d \in Starts!Applied' : ledger'[d] \in Starts!Hashes
    BY <2>2, <2>3, <2>4 DEF MigInv, MigTyped
  <2>6. \A d \in DOMAIN guard' : guard'[d] \in GuardRow
    BY <2>2, <2>3, <2>4 DEF MigInv, MigTyped, GuardRow
  <2>7. rows' \subseteq Row
    <3>1. \A d \in T : Adds[d] \subseteq Row
      BY <2>2 DEF MigInv, Starts!MigrationsAssumption, Starts!Local
    <3> QED BY <2>2, <3>1 DEF MigInv, MigTyped, Starts!Over
  <2>8. IsFiniteSet(Starts!Applied')
    BY <2>2, <2>3, FS_Union DEF MigInv, MigTyped
  <2>9. MigTyped'
    BY <1>0, <2>2, <2>3, <2>5, <2>6, <2>7, <2>8
       DEF MigInv, MigTyped, Starts!Steps, Starts!Hashes, Starts!Dates, GuardRow
  <2>10. Watched'
    BY <2>2, <2>3 DEF MigInv, Watched
  <2>11. RanOnce'
    <3>1. DOMAIN ran' = Starts!Dates
      BY <2>2
    <3>2. ASSUME NEW d \in Starts!Dates
          PROVE  ran'[d] = IF d \in Starts!Applied' THEN 1 ELSE 0
      BY <2>2, <2>3, <3>2 DEF MigInv, RanOnce
    <3> QED BY <3>1, <3>2 DEF RanOnce, Starts!Dates
  <2>12. ASSUME NEW q \in Migrators
         PROVE  ToDo(q)'
    <3>1. CASE q = p
      <4>1. pc'[p] = "up"
        BY <2>2 DEF MigInv, MigTyped
      <4> QED BY <3>1, <4>1 DEF ToDo
    <3>2. CASE q # p
      <4>1. pc'[q] = pc[q] /\ todo'[q] = todo[q] /\ known'[q] = known[q]
        BY <1>0, <2>2, <3>2 DEF MigInv, MigTyped
      <4> QED BY <3>2, <4>1, OthersToDo
    <3> QED BY <3>1, <3>2
  <2> QED BY <2>9, <2>10, <2>11, <2>12 DEF MigInv
<1> QED BY <1>1, <1>2

LEMMA MigElse ==
  ASSUME MigInv, NEW p \in Migrators,
         Starts!Snapshot(p) \/ Starts!Backup(p) \/ Starts!Restart(p) \/ Starts!Crash(p)
  PROVE  MigInv'
<1>0. /\ {"backup", "migrate", "off", "failed"} \subseteq Starts!Steps
      /\ before \in [Migrators -> SUBSET Row] /\ rows \in SUBSET Row
  BY DEF MigInv, MigTyped, Starts!Steps
<1>1. CASE Starts!Snapshot(p)
  <2>1. PICK k \in {"migrate", "backup"} : pc' = [pc EXCEPT ![p] = k]
    BY <1>1, Zenon DEF Starts!Snapshot, Starts!Go
  <2>2. before' \in [Migrators -> SUBSET Row]
    BY <1>0, <1>1 DEF Starts!Snapshot
  <2> QED BY <1>0, <1>1, <2>1, <2>2, MigGoesOn DEF Starts!Snapshot, Starts!At
<1>2. CASE Starts!Backup(p)
  BY <1>0, <1>2, MigGoesOn DEF Starts!Backup, Starts!At, Starts!Go
<1>3. CASE Starts!Restart(p)
  <2>1. before' \in [Migrators -> SUBSET Row]
    BY <1>0, <1>3 DEF Starts!Restart
  <2> QED BY <1>0, <1>3, <2>1, MigGoesOn DEF Starts!Restart, Starts!Go
<1>4. CASE Starts!Crash(p)
  BY <1>0, <1>4, MigGoesOn DEF Starts!Crash, Starts!Go
<1> QED BY <1>1, <1>2, <1>3, <1>4

LEMMA MigRows ==
  ASSUME MigInv, UNCHANGED <<ledger, guard, ran, pc, known, todo, before>>,
         rows' \subseteq Row, gone' \subseteq Row
  PROVE  MigInv'
<1>1. Watched' /\ RanOnce' /\ Starts!Applied' = Starts!Applied
  BY NothingApplied
<1>2. MigTyped'
  BY <1>1 DEF MigInv, MigTyped, Starts!Applied
<1>3. \A q \in Migrators : ToDo(q)'
  BY DEF MigInv, ToDo
<1> QED BY <1>1, <1>2, <1>3 DEF MigInv

LEMMA MigStep ==
  ASSUME MigInv, [Starts!Next]_(Starts!vars)
  PROVE  MigInv'
<1>0. rows \subseteq Row /\ gone \subseteq Row
  BY DEF MigInv, MigTyped
<1>1. CASE \E p \in Migrators : \/ Starts!Start(p) \/ Starts!Check(p) \/ Starts!Baseline(p)
                                \/ Starts!Select(p) \/ Starts!Snapshot(p) \/ Starts!Backup(p)
                                \/ Starts!Migrate(p) \/ Starts!Restart(p) \/ Starts!Crash(p)
  BY <1>1, MigStart, MigCheck, MigBaseline, MigSelect, MigMigrate, MigElse
<1>2. CASE \E r \in Row : Starts!Insert(r) \/ Starts!Delete(r)
  <2>1. PICK r \in Row : Starts!Insert(r) \/ Starts!Delete(r)
    BY <1>2
  <2>2. /\ UNCHANGED <<ledger, guard, ran, pc, known, todo, before>>
        /\ rows' \subseteq Row /\ gone' \subseteq Row
    BY <1>0, <2>1 DEF Starts!Insert, Starts!Delete
  <2> QED BY <2>2, MigRows
<1>3. CASE UNCHANGED Starts!vars
  BY <1>0, <1>3, MigRows DEF Starts!vars
<1> QED BY <1>1, <1>2, <1>3 DEF Starts!Next

LEMMA MigInit ==
  ASSUME Starts!MigrationsAssumption, Starts!Init
  PROVE  MigInv
<1> USE DEF Starts!Init, Starts!Applied
<1>1. DOMAIN Initially \subseteq Starts!Dates
      /\ \A d \in DOMAIN Initially : Initially[d] \in Starts!Hashes
  BY DEF Starts!Dates, Starts!Hashes
<1>2. DOMAIN guard \subseteq DOMAIN Initially /\ (Guarded => DOMAIN guard = DOMAIN Initially)
  OBVIOUS
<1>3. \A d \in DOMAIN guard : guard[d] \in GuardRow
  BY <1>1 DEF GuardRow
<1>4. /\ \A p \in Migrators : DOMAIN known[p] = {}
      /\ IsFiniteSet(Starts!Applied) /\ DOMAIN known = Migrators
  <2>1. IsFiniteSet(Starts!Applied)
    BY Zenon DEF Starts!MigrationsAssumption, IsFiniteSet, Starts!IsFiniteSet
  <2> QED BY <2>1
<1>8. MigTyped
  BY <1>1, <1>2, <1>3, <1>4 DEF MigTyped, Starts!Steps
<1>5. Watched
  BY <1>2 DEF Watched
<1>6. RanOnce
  BY DEF RanOnce
<1>7. \A p \in Migrators : ToDo(p)
  BY DEF ToDo
<1> QED BY <1>8, <1>5, <1>6, <1>7 DEF MigInv

\* However many processes apply migrations at a time, from whatever releases, and wherever they
\* die, the statements of a migration are committed at most once, exactly when the ledger says
\* so, and the guard of a database that has had one knows it.
THEOREM AppliedOnce ==
  ASSUME Starts!MigrationsAssumption
  PROVE  Starts!Spec => [](Starts!TypeOK /\ Starts!AppliedOnce)
<1>1. Starts!Init => MigInv
  BY MigInit
<1>2. MigInv /\ [Starts!Next]_(Starts!vars) => MigInv'
  BY MigStep
<1>3. MigInv => Starts!TypeOK
  BY DEF MigInv, MigTyped, Starts!TypeOK, GuardRow
<1>4. MigInv => Starts!AppliedOnce
  BY DEF MigInv, MigTyped, Watched, RanOnce, Starts!AppliedOnce
<1> QED BY <1>1, <1>2, <1>3, <1>4, PTL DEF Starts!Spec

(***************************************************************************)
(* Nobody comes up without them.                                           *)
(***************************************************************************)
\* The releases that start hold the same migrations; of what had been applied at first their
\* files may differ.
OneHistory ==
  \A p, q \in Migrators :
    /\ Starts!Local(p) = Starts!Local(q)
    /\ \A d \in Starts!Local(p) \ DOMAIN Initially : Release[p][d] = Release[q][d]

\* What was applied at first was applied in the order of the dates.
InOrder ==
  \A p \in Migrators : \A d \in Starts!Local(p), e \in DOMAIN Initially :
    d < e => d \in DOMAIN Initially

Matches(p, d) == d \in Starts!Local(p) /\ guard[d].file = Release[p][d]

Agreed(p) == DOMAIN guard = Starts!Applied /\ \A d \in Starts!Applied : Matches(p, d)

\* What a process has found out, and what it has entered itself.
Seen(p) ==
  /\ pc[p] = "started" => DOMAIN Initially \subseteq DOMAIN known[p]
  /\ pc[p] = "baseline" =>
       /\ DOMAIN known[p] = DOMAIN Initially
       /\ \A d \in DOMAIN Initially \ todo[p] : d \in DOMAIN guard /\ Matches(p, d)
  /\ pc[p] \in {"checked", "snapshot", "backup", "migrate"} => Agreed(p)
  /\ pc[p] \in {"snapshot", "backup", "migrate"} =>
       Starts!Local(p) \subseteq Starts!Applied \cup todo[p]

LaterOnes == \A d \in DOMAIN guard \ DOMAIN Initially : \A p \in Migrators : Matches(p, d)

Downward ==
  \A p \in Migrators : \A d \in Starts!Local(p), e \in Starts!Applied :
    d < e => d \in Starts!Applied

UpInv ==
  /\ MigInv /\ OneHistory /\ InOrder
  /\ LaterOnes /\ Downward /\ \A p \in Migrators : Seen(p)

\* What leaves the ledger and the guard alone, and what a process has read and is to do.
LEMMA NothingSeen ==
  ASSUME UpInv, UNCHANGED <<ledger, guard>>
  PROVE  /\ LaterOnes' /\ Downward'
         /\ \A q \in Migrators :
              pc'[q] = pc[q] /\ todo'[q] = todo[q] /\ known'[q] = known[q] => Seen(q)'
<1>1. LaterOnes' /\ Downward'
  BY DEF UpInv, LaterOnes, Downward, Matches, Starts!Local, Starts!Applied
<1>2. ASSUME NEW q \in Migrators,
             pc'[q] = pc[q], todo'[q] = todo[q], known'[q] = known[q]
      PROVE  Seen(q)'
  BY <1>2, Zenon DEF UpInv, Seen, Agreed, Matches, Starts!Local, Starts!Applied
<1> QED BY <1>1, <1>2

LEMMA UpStart ==
  ASSUME UpInv, NEW p \in Migrators, Starts!Start(p)
  PROVE  UpInv'
<1> USE DEF Starts!Start
<1>1. MigInv'
  BY MigStart DEF UpInv
<1>2. LaterOnes' /\ Downward'
  BY NothingSeen
<1>3. ASSUME NEW q \in Migrators
      PROVE  Seen(q)'
  <2>1. CASE q = p
    <3>1. pc'[p] = "started" /\ known'[p] = ledger
      BY DEF UpInv, MigInv, MigTyped, Starts!Go
    <3>2. DOMAIN Initially \subseteq DOMAIN ledger
      BY DEF UpInv, MigInv, Watched, Starts!Applied
    <3> QED BY <2>1, <3>1, <3>2 DEF Seen
  <2>2. CASE q # p
    <3>1. pc'[q] = pc[q] /\ todo'[q] = todo[q] /\ known'[q] = known[q]
      BY <2>2 DEF UpInv, MigInv, MigTyped, Starts!Go
    <3> QED BY <3>1, NothingSeen
  <2> QED BY <2>1, <2>2
<1> QED BY <1>1, <1>2, <1>3 DEF UpInv, OneHistory, InOrder, Starts!Local

LEMMA UpCheck ==
  ASSUME UpInv, NEW p \in Migrators, Starts!Check(p)
  PROVE  UpInv'
<1> USE DEF Starts!Check
<1>1. MigInv'
  BY MigCheck DEF UpInv
<1>2. LaterOnes' /\ Downward'
  BY NothingSeen
<1>3. /\ pc[p] = "started" /\ DOMAIN Initially \subseteq DOMAIN known[p]
      /\ DOMAIN known[p] \subseteq Starts!Applied
  BY DEF UpInv, Seen, MigInv, MigTyped, Starts!At
<1>4. Seen(p)'
  <2>1. CASE DOMAIN guard = {} /\ DOMAIN known[p] # {}
    <3>1. pc'[p] = "baseline" /\ todo'[p] = DOMAIN known[p] /\ known'[p] = known[p]
      BY <2>1 DEF UpInv, MigInv, MigTyped, Starts!Go
    <3>2. DOMAIN known[p] = DOMAIN Initially
      BY <1>3, <2>1 DEF UpInv, MigInv, Watched
    <3> QED BY <3>1, <3>2 DEF Seen
  <2>2. CASE ~(DOMAIN guard = {} /\ DOMAIN known[p] # {}) /\ Starts!Refused(p)
    <3>1. pc'[p] = "failed"
      BY <2>2 DEF UpInv, MigInv, MigTyped, Starts!Go
    <3> QED BY <3>1 DEF Seen
  <2>3. CASE ~(DOMAIN guard = {} /\ DOMAIN known[p] # {}) /\ ~Starts!Refused(p)
    <3>1. pc'[p] = "checked"
      BY <2>3 DEF UpInv, MigInv, MigTyped, Starts!Go
    <3>2. /\ DOMAIN guard = DOMAIN known[p]
          /\ \A d \in DOMAIN known[p] : Matches(p, d)
      BY <2>3 DEF Starts!Refused, Matches
    <3>3. DOMAIN guard = Starts!Applied
      BY <1>3, <3>2 DEF UpInv, MigInv, MigTyped, Watched
    <3>4. Agreed(p)
      BY <3>2, <3>3 DEF Agreed
    <3>5. Agreed(p)'
      BY <3>4 DEF Agreed, Matches, Starts!Applied, Starts!Local
    <3> QED BY <3>1, <3>5 DEF Seen
  <2> QED BY <2>1, <2>2, <2>3
<1>5. ASSUME NEW q \in Migrators, q # p
      PROVE  Seen(q)'
  <2>1. pc'[q] = pc[q] /\ todo'[q] = todo[q] /\ known'[q] = known[q]
    BY <1>5 DEF UpInv, MigInv, MigTyped, Starts!Go
  <2> QED BY <2>1, NothingSeen
<1> QED BY <1>1, <1>2, <1>4, <1>5 DEF UpInv, OneHistory, InOrder, Starts!Local

LEMMA UpBaseline ==
  ASSUME UpInv, NEW p \in Migrators, Starts!Baseline(p)
  PROVE  UpInv'
<1>1. MigInv'
  BY MigBaseline DEF UpInv
<1>2. UNCHANGED <<ledger, ran, rows, gone, known, before, crashes>> /\ pc[p] = "baseline"
  BY DEF Starts!Baseline, Starts!At
<1>3. /\ DOMAIN known[p] = DOMAIN Initially
      /\ \A e \in DOMAIN Initially \ todo[p] : e \in DOMAIN guard /\ Matches(p, e)
  BY <1>2 DEF UpInv, Seen
<1>4. PICK d \in todo[p] :
           /\ d \in DOMAIN known[p] /\ d \in Starts!Applied
           /\ \/ pc' = [pc EXCEPT ![p] = "failed"] /\ UNCHANGED <<guard, todo>>
              \/ /\ d \in Starts!Local(p) /\ d \notin DOMAIN guard
                 /\ guard' = [e \in DOMAIN guard \cup {d} |->
                               IF e = d THEN Starts!Tracked(p, d) ELSE guard[e]]
                 /\ todo' = [todo EXCEPT ![p] = @ \ {d}]
                 /\ pc' = [pc EXCEPT ![p] = IF todo[p] = {d} THEN "checked" ELSE "baseline"]
  BY EntersOne DEF UpInv
<1>5. \A q \in Migrators \ {p} :
        pc'[q] = pc[q] /\ todo'[q] = todo[q] /\ known'[q] = known[q]
  BY <1>2, <1>4 DEF UpInv, MigInv, MigTyped
<1>6. CASE pc' = [pc EXCEPT ![p] = "failed"] /\ UNCHANGED <<guard, todo>>
  <2>1. pc'[p] = "failed"
    BY <1>6 DEF UpInv, MigInv, MigTyped
  <2>2. Seen(p)'
    BY <2>1 DEF Seen
  <2>3. LaterOnes' /\ Downward' /\ \A q \in Migrators \ {p} : Seen(q)'
    BY <1>2, <1>5, <1>6, NothingSeen
  <2> QED BY <1>1, <2>2, <2>3 DEF UpInv, OneHistory, InOrder, Starts!Local
<1>7. CASE /\ d \in Starts!Local(p) /\ d \notin DOMAIN guard
           /\ guard' = [e \in DOMAIN guard \cup {d} |->
                         IF e = d THEN Starts!Tracked(p, d) ELSE guard[e]]
           /\ todo' = [todo EXCEPT ![p] = @ \ {d}]
           /\ pc' = [pc EXCEPT ![p] = IF todo[p] = {d} THEN "checked" ELSE "baseline"]
  <2>1. /\ DOMAIN guard' = DOMAIN guard \cup {d} /\ guard'[d].file = Release[p][d]
        /\ \A e \in DOMAIN guard : guard'[e] = guard[e]
    BY <1>7 DEF Starts!Tracked
  <2>2. Starts!Applied' = Starts!Applied /\ d \in DOMAIN Initially
    BY <1>2, <1>3, <1>4 DEF Starts!Applied
  <2>3. LaterOnes'
    <3>1. \A e \in DOMAIN guard' \ DOMAIN Initially : e \in DOMAIN guard /\ guard'[e] = guard[e]
      BY <2>1, <2>2
    <3> QED BY <3>1 DEF UpInv, LaterOnes, Matches, Starts!Local
  <2>4. Downward'
    BY <2>2 DEF UpInv, Downward, Starts!Local
  <2>5. todo'[p] = todo[p] \ {d} /\ pc'[p] = IF todo[p] = {d} THEN "checked" ELSE "baseline"
    BY <1>7 DEF UpInv, MigInv, MigTyped
  <2>6. \A e \in DOMAIN Initially \ todo'[p] :
          e \in DOMAIN guard' /\ e \in Starts!Local(p) /\ guard'[e].file = Release[p][e]
    BY <1>3, <1>7, <2>1, <2>5 DEF Matches
  <2>7. Seen(p)'
    <3>1. CASE todo[p] = {d}
      <4>1. pc'[p] = "checked" /\ todo'[p] = {}
        BY <2>5, <3>1
      <4>2. DOMAIN Initially \subseteq DOMAIN guard'
        BY <2>6, <4>1
      <4>3. DOMAIN guard' = Starts!Applied'
        BY <1>1, <4>2 DEF MigInv, MigTyped, Watched
      <4>4. ASSUME NEW e \in Starts!Applied'
            PROVE  e \in Starts!Local(p) /\ guard'[e].file = Release[p][e]
        <5>1. CASE e \in DOMAIN Initially
          BY <2>6, <4>1, <5>1
        <5>2. CASE e \notin DOMAIN Initially
          BY <2>3, <4>3, <5>2 DEF LaterOnes, Matches, Starts!Local
        <5> QED BY <5>1, <5>2
      <4>5. Agreed(p)'
        BY <4>3, <4>4 DEF Agreed, Matches, Starts!Local
      <4> QED BY <4>1, <4>5 DEF Seen
    <3>2. CASE todo[p] # {d}
      <4>1. pc'[p] = "baseline" /\ DOMAIN known'[p] = DOMAIN Initially
        BY <1>2, <1>3, <2>5, <3>2
      <4> QED BY <2>6, <4>1 DEF Seen, Matches, Starts!Local
    <3> QED BY <3>1, <3>2
  <2>8. ASSUME NEW q \in Migrators \ {p}
        PROVE  Seen(q)'
    <3>1. pc'[q] = pc[q] /\ todo'[q] = todo[q] /\ known'[q] = known[q]
      BY <1>5
    <3>2. ~Agreed(q)
      BY <1>4, <1>7 DEF Agreed
    <3>3. pc[q] \notin {"checked", "snapshot", "backup", "migrate"}
      BY <3>2 DEF UpInv, Seen
    <3>4. pc[q] = "baseline" =>
            /\ DOMAIN known[q] = DOMAIN Initially
            /\ \A e \in DOMAIN Initially \ todo[q] : e \in DOMAIN guard' /\ Matches(q, e)'
      BY <2>1 DEF UpInv, Seen, Matches, Starts!Local
    <3> QED BY <3>1, <3>3, <3>4 DEF UpInv, Seen
  <2> QED BY <1>1, <2>3, <2>4, <2>7, <2>8 DEF UpInv, OneHistory, InOrder, Starts!Local
<1> QED BY <1>4, <1>6, <1>7

\* What is not pending has been applied.
LEMMA PendingIsAll ==
  ASSUME UpInv, NEW p \in Migrators
  PROVE  Starts!Local(p) \subseteq Starts!Applied \cup Starts!Pending(p)
<1> SUFFICES ASSUME NEW d \in Starts!Local(p), d \notin Starts!Pending(p)
             PROVE  d \in Starts!Applied
  OBVIOUS
<1>1. Starts!Applied # {} /\ ~(d > Starts!Max(Starts!Applied))
  BY DEF Starts!Pending
<1>2. Starts!Applied \subseteq Nat /\ IsFiniteSet(Starts!Applied) /\ d \in Nat
  BY DatesAre DEF UpInv, MigInv, MigTyped, Starts!Dates, Starts!Local
<1>3. PICK m : m = Starts!Max(Starts!Applied)
  OBVIOUS
<1>4. m \in Starts!Applied /\ m \in Nat
  BY <1>1, <1>2, <1>3, LatestIsLast
<1>5. d = m \/ d < m
  BY <1>1, <1>2, <1>3, <1>4
<1> QED BY <1>4, <1>5 DEF UpInv, Downward

LEMMA UpSelect ==
  ASSUME UpInv, NEW p \in Migrators, Starts!Select(p)
  PROVE  UpInv'
<1> USE DEF Starts!Select
<1>1. MigInv'
  BY MigSelect DEF UpInv
<1>2. LaterOnes' /\ Downward'
  BY NothingSeen
<1>3. PICK P : P = Starts!Pending(p)
  OBVIOUS
<1>4. PICK k \in {"up", "snapshot"} : pc' = [pc EXCEPT ![p] = k]
  BY Zenon DEF Starts!Go
<1>5. pc[p] = "checked" /\ pc'[p] = k /\ todo'[p] = P
  BY <1>3, <1>4 DEF UpInv, MigInv, MigTyped, Starts!At
<1>6. Starts!Local(p) \subseteq Starts!Applied \cup P
  BY <1>3, PendingIsAll
<1>7. Agreed(p)' /\ Starts!Applied' = Starts!Applied
  BY <1>5 DEF UpInv, Seen, Agreed, Matches, Starts!Applied, Starts!Local
<1>8. Seen(p)'
  BY <1>5, <1>6, <1>7 DEF Seen, Starts!Local
<1>9. ASSUME NEW q \in Migrators, q # p
      PROVE  Seen(q)'
  <2>1. pc'[q] = pc[q] /\ todo'[q] = todo[q] /\ known'[q] = known[q]
    BY <1>4, <1>9 DEF UpInv, MigInv, MigTyped
  <2> QED BY <2>1, NothingSeen
<1> QED BY <1>1, <1>2, <1>8, <1>9 DEF UpInv, OneHistory, InOrder, Starts!Local

LEMMA UpGoesOn ==
  ASSUME UpInv, NEW p \in Migrators, UNCHANGED <<ledger, guard>>, MigInv',
         NEW k, pc' = [pc EXCEPT ![p] = k],
         \/ k \in {"off", "failed"}
         \/ /\ {k, pc[p]} \subseteq {"snapshot", "backup", "migrate"} /\ UNCHANGED <<known, todo>>,
         \/ UNCHANGED <<known, todo>>
         \/ known' = [known EXCEPT ![p] = <<>>] /\ todo' = [todo EXCEPT ![p] = {}]
  PROVE  UpInv'
<1>1. LaterOnes' /\ Downward'
  BY NothingSeen
<1>2. pc'[p] = k
  BY DEF UpInv, MigInv, MigTyped
<1>3. Seen(p)'
  <2>1. CASE k \in {"off", "failed"}
    BY <1>2, <2>1 DEF Seen
  <2>2. CASE /\ {k, pc[p]} \subseteq {"snapshot", "backup", "migrate"}
             /\ UNCHANGED <<known, todo>>
    <3>1. Agreed(p) /\ Starts!Local(p) \subseteq Starts!Applied \cup todo[p]
      BY <2>2 DEF UpInv, Seen
    <3>2. Agreed(p)' /\ Starts!Local(p)' \subseteq Starts!Applied' \cup todo'[p]
      BY <2>2, <3>1 DEF Agreed, Matches, Starts!Applied, Starts!Local
    <3>3. k # "started" /\ k # "baseline"
      BY <2>2
    <3> QED BY <1>2, <3>2, <3>3 DEF Seen
  <2> QED BY <2>1, <2>2
<1>4. ASSUME NEW q \in Migrators, q # p
      PROVE  Seen(q)'
  <2>1. pc'[q] = pc[q] /\ todo'[q] = todo[q] /\ known'[q] = known[q]
    BY <1>4 DEF UpInv, MigInv, MigTyped
  <2> QED BY <2>1, NothingSeen
<1> QED BY <1>1, <1>3, <1>4 DEF UpInv, OneHistory, InOrder, Starts!Local

LEMMA UpMigrate ==
  ASSUME UpInv, NEW p \in Migrators, Starts!Migrate(p)
  PROVE  /\ UpInv'
         /\ pc'[p] = "up" => /\ Starts!Applied' = Starts!Local(p)
                             /\ \A d \in DOMAIN guard' : guard'[d].file = Release[p][d]
<1>0. UNCHANGED <<gone, known, todo, before, crashes>> /\ pc[p] = "migrate"
  BY DEF Starts!Migrate, Starts!At
<1>1. MigInv' /\ MigInv
  BY MigMigrate DEF UpInv
<1>2. CASE Starts!Twice(p) \/ Starts!Loses(p, Starts!Over(rows, todo[p]))
  <2>1. pc' = [pc EXCEPT ![p] = "failed"] /\ UNCHANGED <<ledger, guard, ran, rows>>
    BY <1>2, Zenon DEF Starts!Migrate, Starts!Go
  <2>2. pc'[p] = "failed"
    BY <1>1, <2>1 DEF MigInv, MigTyped
  <2>3. UpInv'
    BY <1>0, <1>1, <2>1, UpGoesOn
  <2> QED BY <2>2, <2>3
<1>3. CASE ~(Starts!Twice(p) \/ Starts!Loses(p, Starts!Over(rows, todo[p])))
  <2>0. /\ pc' = [pc EXCEPT ![p] = "up"]
        /\ ledger' = [d \in todo[p] \cup Starts!Applied |->
                       IF d \in todo[p] THEN Release[p][d] ELSE ledger[d]]
        /\ guard' = [d \in todo[p] \cup DOMAIN guard |->
                      IF d \in todo[p] THEN [file |-> Release[p][d], ledger |-> Release[p][d]]
                      ELSE guard[d]]
        /\ todo[p] \subseteq Starts!Local(p) /\ todo[p] \cap DOMAIN Initially = {}
        /\ todo[p] \cap Starts!Applied = {}
    BY <1>1, <1>3, Commits, Zenon
  <2>1. PICK T : T = todo[p]
    OBVIOUS
  <2>2. /\ pc' = [pc EXCEPT ![p] = "up"]
        /\ ledger' = [d \in T \cup Starts!Applied |->
                       IF d \in T THEN Release[p][d] ELSE ledger[d]]
        /\ guard' = [d \in T \cup DOMAIN guard |->
                      IF d \in T THEN [file |-> Release[p][d], ledger |-> Release[p][d]]
                      ELSE guard[d]]
        /\ T \subseteq Starts!Local(p) /\ T \cap DOMAIN Initially = {}
        /\ T \cap Starts!Applied = {}
    BY <2>0, <2>1, Zenon
  <2>3. /\ Starts!Applied' = T \cup Starts!Applied /\ DOMAIN guard' = T \cup DOMAIN guard
        /\ \A d \in T : guard'[d].file = Release[p][d]
    BY <2>2 DEF Starts!Applied
  <2>4. \A d \in DOMAIN guard : d \notin T /\ guard'[d] = guard[d]
    BY <1>1, <2>2 DEF MigInv, MigTyped
  <2>5. Agreed(p) /\ Starts!Local(p) \subseteq Starts!Applied \cup T
    BY <1>0, <2>1 DEF UpInv, Seen
  <2>6. \A q \in Migrators : Starts!Local(q) = Starts!Local(p)
    BY DEF UpInv, OneHistory
  <2>7. \A q \in Migrators : \A d \in T : Release[q][d] = Release[p][d]
    BY <2>2 DEF UpInv, OneHistory
  <2>8. \A q \in Migrators : \A d \in T : Matches(q, d)'
    BY <2>2, <2>3, <2>6, <2>7 DEF Matches, Starts!Local
  <2>9. \A q \in Migrators : \A d \in DOMAIN guard : Matches(q, d) => Matches(q, d)'
    BY <2>4 DEF Matches, Starts!Local
  <2>10. LaterOnes'
    BY <2>3, <2>8, <2>9 DEF UpInv, LaterOnes
  <2>11. Downward'
    BY <2>3, <2>5, <2>6 DEF Downward, Starts!Local
  <2>12. \A q \in Migrators : Agreed(q) => Agreed(q)'
    BY <2>3, <2>8, <2>9 DEF Agreed
  <2>13. pc'[p] = "up" /\ \A q \in Migrators \ {p} : pc'[q] = pc[q]
    BY <1>1, <2>2 DEF MigInv, MigTyped
  <2>14. ASSUME NEW q \in Migrators \ {p}
         PROVE  Seen(q)'
    <3>1. Seen(q) /\ pc'[q] = pc[q] /\ todo' = todo /\ known' = known
      BY <1>0, <2>13 DEF UpInv
    <3>2. pc[q] = "baseline" =>
            \A d \in DOMAIN Initially \ todo[q] : d \in DOMAIN guard' /\ Matches(q, d)'
      BY <2>3, <2>9, <3>1 DEF Seen
    <3>3. pc[q] \in {"checked", "snapshot", "backup", "migrate"} => Agreed(q)'
      BY <2>12, <3>1 DEF Seen
    <3>4. pc[q] \in {"snapshot", "backup", "migrate"} =>
            Starts!Local(q)' \subseteq Starts!Applied' \cup todo[q]
      BY <2>3, <3>1 DEF Seen, Starts!Local
    <3> QED BY <3>1, <3>2, <3>3, <3>4 DEF Seen
  <2>15. Seen(p)'
    BY <2>13 DEF Seen
  <2>16. UpInv'
    BY <1>1, <2>10, <2>11, <2>14, <2>15 DEF UpInv, OneHistory, InOrder, Starts!Local
  <2>17. Starts!Applied' = Starts!Local(p)
    BY <2>2, <2>3, <2>5 DEF Agreed, Matches
  <2>18. \A d \in DOMAIN guard' : guard'[d].file = Release[p][d]
    BY <2>3, <2>4, <2>5 DEF Agreed, Matches
  <2> QED BY <2>16, <2>17, <2>18
<1> QED BY <1>2, <1>3

LEMMA UpElse ==
  ASSUME UpInv, NEW p \in Migrators,
         Starts!Snapshot(p) \/ Starts!Backup(p) \/ Starts!Restart(p) \/ Starts!Crash(p)
  PROVE  UpInv'
<1>0. MigInv' /\ MigInv
  BY MigElse DEF UpInv
<1>1. CASE Starts!Snapshot(p)
  <2>1. PICK k \in {"migrate", "backup"} : pc' = [pc EXCEPT ![p] = k]
    BY <1>1, Zenon DEF Starts!Snapshot, Starts!Go
  <2> QED BY <1>0, <1>1, <2>1, UpGoesOn DEF Starts!Snapshot, Starts!At
<1>2. CASE Starts!Backup(p)
  BY <1>0, <1>2, UpGoesOn DEF Starts!Backup, Starts!At, Starts!Go
<1>3. CASE Starts!Restart(p)
  BY <1>0, <1>3, UpGoesOn DEF Starts!Restart, Starts!Go
<1>4. CASE Starts!Crash(p)
  BY <1>0, <1>4, UpGoesOn DEF Starts!Crash, Starts!Go
<1> QED BY <1>1, <1>2, <1>3, <1>4

\* The steps that do not concern the ledger, the guard or any process.
LEMMA UpRows ==
  ASSUME UpInv, UNCHANGED <<ledger, guard, pc, known, todo>>, MigInv'
  PROVE  UpInv'
<1>1. LaterOnes' /\ Downward' /\ \A q \in Migrators : Seen(q)'
  BY NothingSeen
<1> QED BY <1>1 DEF UpInv, OneHistory, InOrder, Starts!Local

LEMMA UpStep ==
  ASSUME UpInv, [Starts!Next]_(Starts!vars)
  PROVE  UpInv'
<1>0. MigInv'
  BY MigStep DEF UpInv
<1>1. CASE \E p \in Migrators : \/ Starts!Start(p) \/ Starts!Check(p) \/ Starts!Baseline(p)
                                \/ Starts!Select(p) \/ Starts!Snapshot(p) \/ Starts!Backup(p)
                                \/ Starts!Migrate(p) \/ Starts!Restart(p) \/ Starts!Crash(p)
  BY <1>1, UpStart, UpCheck, UpBaseline, UpSelect, UpMigrate, UpElse
<1>2. CASE \E r \in Row : Starts!Insert(r) \/ Starts!Delete(r)
  BY <1>0, <1>2, UpRows DEF Starts!Insert, Starts!Delete
<1>3. CASE UNCHANGED Starts!vars
  BY <1>0, <1>3, UpRows DEF Starts!vars
<1> QED BY <1>1, <1>2, <1>3 DEF Starts!Next

\* Who comes up has nothing to do, or has committed.
LEMMA ComesUpBy ==
  ASSUME MigInv, [Starts!Next]_(Starts!vars), NEW p \in Migrators, pc[p] # "up", pc'[p] = "up"
  PROVE  \/ Starts!Select(p) /\ Starts!Pending(p) = {}
         \/ /\ Starts!Migrate(p) /\ pc[p] = "migrate"
            /\ ~(Starts!Twice(p) \/ Starts!Loses(p, Starts!Over(rows, todo[p])))
<1> USE DEF MigInv, MigTyped
<1>1. ASSUME NEW q \in Migrators, NEW k, pc' = [pc EXCEPT ![q] = k]
      PROVE  q = p /\ k = "up"
  BY <1>1
<1>2. ASSUME NEW q \in Migrators,
             \/ Starts!Start(q) \/ Starts!Backup(q) \/ Starts!Restart(q) \/ Starts!Crash(q)
      PROVE  FALSE
  <2>1. PICK k \in {"started", "migrate", "off", "failed"} : pc' = [pc EXCEPT ![q] = k]
    BY <1>2, Zenon DEF Starts!Start, Starts!Backup, Starts!Restart, Starts!Crash, Starts!Go
  <2> QED BY <1>1, <2>1
<1>3. ASSUME NEW q \in Migrators, Starts!Check(q) \/ Starts!Snapshot(q)
      PROVE  FALSE
  <2>1. PICK k \in {"baseline", "failed", "checked", "migrate", "backup"} :
          pc' = [pc EXCEPT ![q] = k]
    BY <1>3, Zenon DEF Starts!Check, Starts!Snapshot, Starts!Go
  <2> QED BY <1>1, <2>1
<1>4. ASSUME NEW q \in Migrators, Starts!Baseline(q)
      PROVE  FALSE
  <2>1. PICK k \in {"baseline", "failed", "checked"} : pc' = [pc EXCEPT ![q] = k]
    <3>1. PICK k : /\ pc' = [pc EXCEPT ![q] = k]
                   /\ k = "failed" \/ \E d : k = IF todo[q] = {d} THEN "checked" ELSE "baseline"
      BY <1>4, EntersOne
    <3> QED BY <3>1
  <2> QED BY <1>1, <2>1
<1>5. ASSUME NEW q \in Migrators, Starts!Select(q)
      PROVE  Starts!Select(p) /\ Starts!Pending(p) = {}
  <2>1. PICK k : /\ pc' = [pc EXCEPT ![q] = k]
                 /\ k = IF Starts!Pending(q) = {} THEN "up" ELSE "snapshot"
    BY <1>5, Zenon DEF Starts!Select, Starts!Go
  <2>2. q = p /\ k = "up"
    BY <1>1, <2>1
  <2> QED BY <1>5, <2>1, <2>2
<1>6. ASSUME NEW q \in Migrators, Starts!Migrate(q)
      PROVE  /\ Starts!Migrate(p) /\ pc[p] = "migrate"
             /\ ~(Starts!Twice(p) \/ Starts!Loses(p, Starts!Over(rows, todo[p])))
  <2>1. PICK k \in {"failed", "up"} : pc' = [pc EXCEPT ![q] = k]
    BY <1>6, Zenon DEF Starts!Migrate, Starts!Go
  <2>2. q = p /\ k = "up"
    BY <1>1, <2>1
  <2>3. Starts!Migrate(p) /\ pc[p] = "migrate"
    BY <1>6, <2>2 DEF Starts!Migrate, Starts!At
  <2>4. ASSUME Starts!Twice(p) \/ Starts!Loses(p, Starts!Over(rows, todo[p]))
        PROVE  FALSE
    <3>1. pc' = [pc EXCEPT ![p] = "failed"]
      BY <2>3, <2>4, Zenon DEF Starts!Migrate, Starts!Go
    <3> QED BY <1>1, <3>1
  <2> QED BY <2>3, <2>4
<1>7. ASSUME UNCHANGED pc
      PROVE  FALSE
  BY <1>7
<1> QED BY <1>2, <1>3, <1>4, <1>5, <1>6, <1>7
        DEF Starts!Next, Starts!vars, Starts!Insert, Starts!Delete

LEMMA UpIsRight ==
  ASSUME UpInv, [Starts!Next]_(Starts!vars)
  PROVE  Starts!UpMatches
<1> SUFFICES ASSUME NEW p \in Migrators, pc[p] # "up", pc'[p] = "up"
             PROVE  /\ DOMAIN ledger' = Starts!Local(p)
                    /\ \A d \in DOMAIN guard' : guard'[d].file = Release[p][d]
  BY Zenon DEF Starts!UpMatches
<1>1. CASE Starts!Select(p) /\ Starts!Pending(p) = {}
  <2>1. ledger' = ledger /\ guard' = guard /\ pc[p] = "checked"
    BY <1>1 DEF Starts!Select, Starts!At
  <2>2. Agreed(p)
    BY <2>1 DEF UpInv, Seen
  <2>3. Starts!Local(p) \subseteq Starts!Applied
    BY <1>1, PendingIsAll
  <2>4. Starts!Applied = Starts!Local(p) /\ \A d \in DOMAIN guard : guard[d].file = Release[p][d]
    BY <2>2, <2>3 DEF Agreed, Matches
  <2> QED BY <2>1, <2>4 DEF Starts!Applied
<1>2. CASE Starts!Migrate(p)
  BY <1>2, UpMigrate DEF Starts!Applied
<1> QED BY <1>1, <1>2, ComesUpBy DEF UpInv

\* When the releases that start at a time hold the same migrations, a process comes up only on a
\* database that has exactly those of its release, each from the file that its release has,
\* whoever else applies them and dies.
THEOREM UpOnItsRelease ==
  ASSUME Starts!MigrationsAssumption, OneHistory, InOrder
  PROVE  Starts!Spec => [][Starts!UpMatches]_(Starts!vars)
<1>1. Starts!Init => UpInv
  <2> SUFFICES ASSUME Starts!Init
               PROVE  UpInv
    OBVIOUS
  <2>1. MigInv
    BY MigInit
  <2>2. Starts!Applied = DOMAIN Initially /\ \A p \in Migrators : pc[p] = "off"
    BY DEF Starts!Init, Starts!Applied
  <2>3. DOMAIN guard \subseteq DOMAIN Initially
    BY DEF Starts!Init
  <2>4. LaterOnes /\ Downward /\ \A p \in Migrators : Seen(p)
    BY <2>2, <2>3 DEF InOrder, LaterOnes, Downward, Seen
  <2> QED BY <2>1, <2>4 DEF UpInv
<1>2. UpInv /\ [Starts!Next]_(Starts!vars) => UpInv'
  BY UpStep
<1>3. UpInv /\ [Starts!Next]_(Starts!vars) => Starts!UpMatches
  BY UpIsRight
<1> QED BY <1>1, <1>2, <1>3, PTL DEF Starts!Spec

\* A migration that is committed keeps every protected row that was there when its process
\* began, whatever the worker of the release before writes in between.
THEOREM ProtectedRowsKept ==
  ASSUME Starts!MigrationsAssumption
  PROVE  Starts!Spec => [][Starts!KnownRowsKept]_(Starts!vars)
<1>1. Starts!Init => MigInv
  BY MigInit
<1>2. MigInv /\ [Starts!Next]_(Starts!vars) => MigInv'
  BY MigStep
<1>3. MigInv /\ [Starts!Next]_(Starts!vars) => Starts!KnownRowsKept
  <2> SUFFICES ASSUME MigInv, [Starts!Next]_(Starts!vars),
                      NEW p \in Migrators, pc[p] = "migrate", pc'[p] = "up"
               PROVE  before[p] \subseteq rows'
    BY Zenon DEF Starts!KnownRowsKept
  <2>1. /\ Starts!Migrate(p)
        /\ ~(Starts!Twice(p) \/ Starts!Loses(p, Starts!Over(rows, todo[p])))
    BY ComesUpBy DEF Starts!Select, Starts!At
  <2>2. rows' = Starts!Over(rows, todo[p])
    BY <2>1, Commits
  <2> QED BY <2>1, <2>2 DEF Starts!Loses
<1> QED BY <1>1, <1>2, <1>3, PTL DEF Starts!Spec
=============================================================================

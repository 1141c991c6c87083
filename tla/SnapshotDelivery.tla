-------------------------- MODULE SnapshotDelivery --------------------------
(***************************************************************************)
(* How parsed snapshots become the articles of one feed: the rows of       *)
(* feed_snapshot_deliveries, the articles, and processDelivery in one or   *)
(* more worker processes (FEED_PIPELINE_MODE=v2).                          *)
(*                                                                         *)
(* A delivery is claimed under a lease, its snapshot is compared with the  *)
(* articles that exist, and the difference is written by a transaction     *)
(* that checks the lease and the feed's source again.  Then the delivery   *)
(* is finished, and only then are caches and clients told.  Each of these  *)
(* is one SQLite transaction, so one action.                               *)
(*                                                                         *)
(* Between the claim and the finish a process waits for nothing, so its    *)
(* own parser and enrichment cannot come in between (Free); those of       *)
(* another process, the API, a stall and a crash can.                      *)
(*                                                                         *)
(* The runtime gives every process the worker id 'durable-delivery', so    *)
(* lease_owner says no more than status = 'running' and is left out.       *)
(* There is no clock: a lease that no live process works under lapses at   *)
(* some time, and so does the delay of a retry.                            *)
(***************************************************************************)
EXTENDS Integers

CONSTANTS
  Process,     \* worker processes that run the delivery loop
  Source,      \* publishers' feeds the user's feed may follow
  Guid,        \* item ids
  Snapshots,   \* number of snapshots, in the order in which they are parsed
  SourceOf,    \* the source of each snapshot
  ItemsOf,     \* the guids a snapshot lists, each with content of its own
  None,        \* SQL NULL
  MaxAttempts, \* feed_snapshot_deliveries.max_attempts
  MaxFaults    \* bound on stalls, crashes and database errors

Snapshot == 1..Snapshots

ParametersAssumption ==
  /\ Snapshots \in Nat /\ MaxAttempts \in Nat \ {0} /\ MaxFaults \in Nat
  /\ SourceOf \in [Snapshot -> Source] /\ ItemsOf \in [Snapshot -> SUBSET Guid]
  /\ None \notin Source

VARIABLES
  feed,     \* feeds: sourceId, pendingSourceId, and how often the source changed
  delivery, \* feed_snapshot_deliveries, by snapshot
  article,  \* articles, by guid
  news,     \* whether clients were told of an article, since it was stored
  work,     \* where processDelivery stands in each process
  stalled,  \* processes that do not run for now
  parsed,   \* the snapshots parsed so far
  now,      \* a count of the moments that delivery times are compared by
  faults    \* stalls, crashes and errors so far, for the bound

vars == <<feed, delivery, article, news, work, stalled, parsed, now, faults>>

Page == 0   \* the content that enrichment took from the publisher's page
Open == {"pending", "running"}
Absent == [present |-> FALSE, content |-> Page, full |-> FALSE]
Idle == [step |-> "idle", snap |-> 0, attempts |-> 0, epoch |-> 0,
         base |-> [g \in Guid |-> Absent], inserted |-> {}]

Article == [present : BOOLEAN, content : Snapshot \cup {Page}, full : BOOLEAN]
Delivery == [status : {"absent", "completed", "dead"} \cup Open, attempts : 0..MaxAttempts,
             due : Nat, waiting : BOOLEAN, lapsed : BOOLEAN]
Work == [step : {"idle", "claimed", "loaded", "stored", "replaced", "committed"},
         snap : Snapshot \cup {0}, attempts : 0..MaxAttempts, epoch : Nat,
         base : [Guid -> Article], inserted : SUBSET Guid]

TypeOK ==
  /\ feed \in [source : Source \cup {None}, pending : Source \cup {None}, epoch : Nat]
  /\ delivery \in [Snapshot -> Delivery]
  /\ article \in [Guid -> Article]
  /\ news \in [Guid -> {"none", "owed", "told", "again"}]
  /\ work \in [Process -> Work]
  /\ \A p \in Process : work[p].step # "idle" => work[p].snap \in Snapshot
  /\ stalled \subseteq Process
  /\ parsed \in 0..Snapshots /\ now \in Nat /\ faults \in 0..MaxFaults

\* A feed that has just been created: it waits for the first snapshot.
Init ==
  /\ \E source \in Source : feed = [source |-> None, pending |-> source, epoch |-> 0]
  /\ delivery = [s \in Snapshot |-> [status |-> "absent", attempts |-> 0, due |-> 0,
                                     waiting |-> FALSE, lapsed |-> FALSE]]
  /\ article = [g \in Guid |-> Absent]
  /\ news = [g \in Guid |-> "none"]
  /\ work = [p \in Process |-> Idle]
  /\ stalled = {} /\ parsed = 0 /\ now = 0 /\ faults = 0

Free(p) == p \notin stalled /\ work[p].step \in {"idle", "committed"}
At(p, step) == p \notin stalled /\ work[p].step = step

(***************************************************************************)
(* What happens around the deliveries.                                     *)
(***************************************************************************)
\* requestReplacement and cancelReplacement: another source is to be followed
\* once a snapshot of it has been parsed.
RequestReplacement(source) ==
  /\ feed.source \notin {None, source}
  /\ feed' = [feed EXCEPT !.pending = source]
  /\ UNCHANGED <<delivery, article, news, work, stalled, parsed, now, faults>>

CancelReplacement ==
  /\ feed.source # None /\ feed.pending # None
  /\ feed' = [feed EXCEPT !.pending = None]
  /\ UNCHANGED <<delivery, article, news, work, stalled, parsed, now, faults>>

\* markSnapshotParseSucceeded: the feed moves to the source it waits for, giving
\* up the articles of the old one, and gets a delivery if it follows the source.
Parse(p) ==
  LET s == parsed + 1
      moves == feed.pending = SourceOf[s]
      follows == moves \/ feed.source = SourceOf[s] IN
  /\ Free(p) /\ parsed < Snapshots
  /\ parsed' = s /\ now' = now + 1
  /\ feed' = IF moves THEN [source |-> SourceOf[s], pending |-> None, epoch |-> feed.epoch + 1]
             ELSE feed
  /\ IF moves
     THEN article' = [g \in Guid |-> Absent] /\ news' = [g \in Guid |-> "none"]
     ELSE UNCHANGED <<article, news>>
  /\ delivery' = IF follows
                 THEN [delivery EXCEPT ![s].status = "pending", ![s].due = now]
                 ELSE delivery
  /\ UNCHANGED <<work, stalled, faults>>

\* replaceArticleEnrichedContent: the page's content in place of the feed's.
Enrich(p, g) ==
  /\ Free(p) /\ article[g].present /\ ~article[g].full
  /\ article' = [article EXCEPT ![g] = [present |-> TRUE, content |-> Page, full |-> TRUE]]
  /\ UNCHANGED <<feed, delivery, news, work, stalled, parsed, now, faults>>

(***************************************************************************)
(* The delivery loop.                                                      *)
(***************************************************************************)
\* claimNextDelivery first gives up what is out of attempts, whoever had it.
Exhausted(s) ==
  delivery[s].status = "running" /\ delivery[s].lapsed /\ delivery[s].attempts >= MaxAttempts

\* Mutant of Swept: nothing is given up.
SweptNothing == delivery

Swept == [s \in Snapshot |-> IF Exhausted(s) THEN [delivery[s] EXCEPT !.status = "dead"]
                            ELSE delivery[s]]

Eligible(s) ==
  /\ delivery[s].attempts < MaxAttempts
  /\ \/ delivery[s].status = "pending" /\ ~delivery[s].waiting
     \/ delivery[s].status = "running" /\ delivery[s].lapsed

\* Mutant of Candidate: the claim takes the newest delivery first.
CandidateNewest(s) == Eligible(s) /\ \A r \in Snapshot : Eligible(r) => r <= s

\* The eligible delivery that has been available for longest.
Candidate(s) ==
  Eligible(s) /\ \A r \in Snapshot : Eligible(r) /\ r # s => delivery[s].due < delivery[r].due

Claim(p, s) ==
  /\ At(p, "idle") /\ Candidate(s)
  /\ delivery' = [Swept EXCEPT ![s].status = "running", ![s].lapsed = FALSE,
                               ![s].attempts = @ + 1]
  /\ work' = [work EXCEPT ![p] = [Idle EXCEPT !.step = "claimed", !.snap = s,
                                              !.attempts = delivery[s].attempts + 1]]
  /\ UNCHANGED <<feed, article, news, stalled, parsed, now, faults>>

ClaimNothing(p) ==
  /\ At(p, "idle") /\ \A s \in Snapshot : ~Eligible(s)
  /\ delivery' = Swept
  /\ UNCHANGED <<feed, article, news, work, stalled, parsed, now, faults>>

\* findDeliveryContext and findByFeedGuids: the rows that the snapshot's items
\* will be compared with.
Load(p) ==
  /\ At(p, "claimed")
  /\ work' = [work EXCEPT ![p].step = "loaded", ![p].epoch = feed.epoch,
                ![p].base = [g \in Guid |-> IF g \in ItemsOf[work[p].snap]
                                            THEN article[g] ELSE Absent]]
  /\ UNCHANGED <<feed, delivery, article, news, stalled, parsed, now, faults>>

\* assertCurrentSnapshotDelivery, inside the transaction that writes.
Leased(s) == delivery[s].status = "running" /\ ~delivery[s].lapsed
\* Mutant of SourceCurrent: the source is not looked at again.
SourceCurrentTrusted(s) == TRUE

SourceCurrent(s) == SourceOf[s] = feed.source

\* Mutant of Update: an enriched article is updated like any other.
UpdateEnriched(p, g) ==
  LET base == work[p].base[g] IN
  base.present /\ base.content # work[p].snap

\* An article that was there is updated if its content differs and it is still
\* the feed's; one that was not is inserted.
Update(p, g) ==
  LET base == work[p].base[g] IN
  base.present /\ base.content # work[p].snap /\ ~base.full
Insert(p, g) == g \in ItemsOf[work[p].snap] /\ ~work[p].base[g].present

\* persistSyncResults: an insert that meets an existing row does nothing, an
\* update finds its row by id, which is gone once the feed has moved.  The media
\* of such an update have no article to belong to: with media, the transaction
\* fails on the foreign key, which is one of Fail's errors.
Stored(p, g) ==
  LET s == work[p].snap IN
  IF Insert(p, g) /\ ~article[g].present
  THEN [present |-> TRUE, content |-> s, full |-> FALSE]
  ELSE IF Update(p, g) /\ article[g].present /\ work[p].epoch = feed.epoch
       THEN [article[g] EXCEPT !.content = s] ELSE article[g]

Inserted(p) == {g \in Guid : Insert(p, g) /\ ~article[g].present}

Store(p) ==
  LET s == work[p].snap IN
  /\ At(p, "loaded") /\ Leased(s) /\ SourceCurrent(s)
  /\ article' = [g \in Guid |-> Stored(p, g)]
  /\ news' = [g \in Guid |-> IF g \in Inserted(p) THEN "owed" ELSE news[g]]
  /\ work' = [work EXCEPT ![p].step = "stored", ![p].inserted = Inserted(p),
                          ![p].epoch = feed.epoch]
  /\ UNCHANGED <<feed, delivery, stalled, parsed, now, faults>>

\* SnapshotDeliveryRejectedError.
RejectLease(p) ==
  /\ At(p, "loaded") /\ ~Leased(work[p].snap)
  /\ work' = [work EXCEPT ![p] = Idle]
  /\ UNCHANGED <<feed, delivery, article, news, stalled, parsed, now, faults>>

RejectSource(p) ==
  /\ At(p, "loaded") /\ Leased(work[p].snap) /\ ~SourceCurrent(work[p].snap)
  /\ work' = [work EXCEPT ![p].step = "replaced"]
  /\ UNCHANGED <<feed, delivery, article, news, stalled, parsed, now, faults>>

\* finishDelivery, which a delivery that is not running refuses.
Finish(p) ==
  LET s == work[p].snap
      running == delivery[s].status = "running" IN
  /\ At(p, "stored") \/ At(p, "replaced")
  /\ delivery' = IF running THEN [delivery EXCEPT ![s].status = "completed"] ELSE delivery
  /\ work' = [work EXCEPT ![p] = IF running /\ work[p].step = "stored"
                                 THEN [@ EXCEPT !.step = "committed"] ELSE Idle]
  /\ UNCHANGED <<feed, article, news, stalled, parsed, now, faults>>

\* Mutant of Announced: the articles that were updated are announced as new, too.
AnnouncedAll(p) ==
  {g \in ItemsOf[work[p].snap] : work[p].epoch = feed.epoch /\ article[g].present}

\* The articles an articles.new event names that are still there.
Announced(p) == {g \in work[p].inserted : work[p].epoch = feed.epoch}

\* afterCommit: caches are invalidated and clients told, once or never.
Announce(p) ==
  /\ At(p, "committed")
  /\ news' = [g \in Guid |-> IF g \notin Announced(p) THEN news[g]
                             ELSE IF news[g] = "owed" THEN "told" ELSE "again"]
  /\ work' = [work EXCEPT ![p] = Idle]
  /\ UNCHANGED <<feed, delivery, article, stalled, parsed, now, faults>>

(***************************************************************************)
(* What goes wrong.                                                        *)
(***************************************************************************)
Fault == faults < MaxFaults /\ faults' = faults + 1

\* An error while the delivery is processed (of the database, or of a key that is
\* gone, see Stored): it is due again after a delay, or given up, by the attempts
\* it had when it was claimed.
Fail(p) ==
  LET s == work[p].snap
      dead == work[p].attempts >= MaxAttempts IN
  /\ Fault
  /\ At(p, "claimed") \/ At(p, "loaded") \/ At(p, "stored")
  /\ delivery' = IF delivery[s].status # "running" THEN delivery
                 ELSE [delivery EXCEPT ![s].status = IF dead THEN "dead" ELSE "pending",
                                       ![s].lapsed = FALSE, ![s].waiting = ~dead]
  /\ work' = [work EXCEPT ![p] = Idle]
  /\ UNCHANGED <<feed, article, news, stalled, parsed, now>>

\* The process dies and is started again, an error ends its drain, or the
\* callback after the commit throws.
Crash(p) ==
  /\ Fault /\ work[p].step # "idle"
  /\ work' = [work EXCEPT ![p] = Idle]
  /\ stalled' = stalled \ {p}
  /\ UNCHANGED <<feed, delivery, article, news, parsed, now>>

Stall(p) ==
  /\ Fault /\ p \notin stalled /\ work[p].step # "idle"
  /\ stalled' = stalled \cup {p}
  /\ UNCHANGED <<feed, delivery, article, news, work, parsed, now>>

Resume(p) ==
  /\ p \in stalled /\ stalled' = stalled \ {p}
  /\ UNCHANGED <<feed, delivery, article, news, work, parsed, now, faults>>

\* leaseExpiresAt passes, sixty seconds after a claim that nobody works on.
Lapse(s) ==
  /\ delivery[s].status = "running" /\ ~delivery[s].lapsed
  /\ \A p \in Process : work[p].snap = s => p \in stalled
  /\ delivery' = [delivery EXCEPT ![s].lapsed = TRUE]
  /\ UNCHANGED <<feed, article, news, work, stalled, parsed, now, faults>>

\* availableAt passes, 60 to 1800 seconds after a failure.
DelayPasses(s) ==
  /\ delivery[s].waiting
  /\ delivery' = [delivery EXCEPT ![s].waiting = FALSE, ![s].due = now]
  /\ now' = now + 1
  /\ UNCHANGED <<feed, article, news, work, stalled, parsed, faults>>

Deliver(p) ==
  \/ \E s \in Snapshot : Claim(p, s)
  \/ ClaimNothing(p) \/ Load(p) \/ Store(p) \/ RejectLease(p) \/ RejectSource(p)
  \/ Finish(p) \/ Announce(p) \/ Resume(p)

Pass == \E s \in Snapshot : Lapse(s) \/ DelayPasses(s)

Next ==
  \/ \E source \in Source : RequestReplacement(source)
  \/ CancelReplacement
  \/ \E p \in Process : Parse(p) \/ (\E g \in Guid : Enrich(p, g)) \/ Deliver(p)
                        \/ Fail(p) \/ Crash(p) \/ Stall(p)
  \/ Pass

Spec == Init /\ [][Next]_vars

(***************************************************************************)
(* Properties.                                                             *)
(***************************************************************************)
\* Whatever was in flight when the feed moved to another source: each of its
\* articles comes from a snapshot of the source it follows, or from a page.
ArticlesOfSource ==
  \A g \in Guid : article[g].present /\ article[g].content # Page =>
                   SourceOf[article[g].content] = feed.source

\* As long as nothing fails, an article never goes back to the content of an
\* earlier snapshot: deliveries are carried out in the order of their snapshots.
NeverGoesBack ==
  \A g \in Guid :
   /\ faults = 0 /\ feed'.epoch = feed.epoch
   /\ article[g].present /\ article[g].content # Page
   => article'[g].content = Page \/ article'[g].content >= article[g].content

\* An article that holds the page's content keeps it until the feed moves.
EnrichedKept ==
  \A g \in Guid : article[g].full /\ feed'.epoch = feed.epoch
                => article'[g] = article[g]

\* Clients are told of a stored article at most once, whatever is repeated.
ToldOnce == \A g \in Guid : news[g] # "again"

\* As long as nothing fails, clients have been told of every article once all
\* work is done.
Told ==
  faults = 0 /\ (\A p \in Process : work[p] = Idle) =>
    \A g \in Guid : article[g].present => news[g] = "told"

\* What the code does not keep: a process writes articles only under a claim of
\* its own, not under the lease of the process that has reclaimed the delivery.
WritesUnderOwnClaim ==
  \A p \in Process : Store(p) => work[p].attempts = delivery[work[p].snap].attempts
=============================================================================

---------------------------- MODULE Replacement -----------------------------
(***************************************************************************)
(* Sources of a user's feeds (durable-feed-facade.service.ts,              *)
(* durable-feed-discovery.ts, feed.service.ts): a new feed, the            *)
(* replacement of a feed's source, its cancellation, and the choice of a   *)
(* feed that a website advertises, against the jobs that fetch the sources *)
(* (durable-feed-worker.ts, feed-ingestion.repository.ts).                 *)
(*                                                                         *)
(* A call is a check and a transaction; a worker is at one of its          *)
(* transactions.  Requests have one item, which the module keeps by its    *)
(* feed and source.  How jobs are claimed is in FetchJobs, how items end   *)
(* and what a 304 does is in RefreshRequests.                              *)
(***************************************************************************)
EXTENDS Naturals, FiniteSets

CONSTANTS
  Feed, Source, Op,
  Site,         \* sources that are websites
  Offers,       \* the feeds that they advertise
  Held,         \* feeds that exist at first, each with a source of its own
  Own,          \* feed |-> that source
  Recurring,    \* sources that are fetched unasked, when they are due
  MaxCalls, MaxFaults, \* bounds
  None

ReplacementAssumption ==
  /\ Recurring \subseteq Source /\ Site \subseteq Source /\ Offers \subseteq Source
  /\ Held \subseteq Feed
  /\ Own \in [Held -> Source] /\ None \notin Source \cup Feed
  /\ MaxCalls \in Nat /\ MaxFaults \in Nat
  /\ \A f, g \in Held : Own[f] = Own[g] => f = g

VARIABLES
  feed,    \* feed |-> its row, and whether it has articles of its source
  want,    \* history: feed |-> the sources that it was last asked to get, and staged for
  source,  \* source |-> its state
  snap,    \* sources with a retained, parsed snapshot
  job,     \* source |-> where its job is
  end,     \* source |-> what a worker that has finished its job has yet to do
  seen,    \* source |-> the feeds of the items that a discovery has read
  item,    \* kind, feed and source |-> the item's status
  cand,    \* feed and source |-> the candidate's status
  due,     \* feed |-> sources of snapshots to deliver
  op,      \* call |-> what it has checked
  calls, faults

vars == <<feed, want, source, snap, job, end, seen, item, cand, due, op, calls, faults>>

Kind == {"create", "replacement", "discovery"}
NoFeed == [on |-> FALSE, url |-> None, src |-> None, pend |-> None, status |-> "idle",
           arts |-> FALSE]
NoEnd == [at |-> "none", status |-> "none", again |-> FALSE]
Idle == [kind |-> None, f |-> None, s |-> None, src |-> None]
NoWant == [asked |-> None, staged |-> None]
Attached == {"pending", "failed"}
Waiting == {"pending", "replacement_pending"}

TypeOK ==
  /\ feed \in [Feed -> [on : BOOLEAN, url : Source \cup {None}, src : Source \cup {None},
                        pend : Source \cup {None}, arts : BOOLEAN,
                        status : Waiting \cup {"idle", "discovery_required", "backoff", "paused"}]]
  /\ want \in [Feed -> [asked : Source \cup {None}, staged : Source \cup {None}]]
  /\ source \in [Source -> {"active", "backoff", "paused"}]
  /\ snap \subseteq Source /\ seen \in [Source -> SUBSET Feed] /\ due \in [Feed -> SUBSET Source]
  /\ job \in [Source -> {"none", "queued", "running", "parsed", "html", "offered", "failing"}]
  /\ end \in [Source -> [at : {"none", "unsaid", "said"}, again : BOOLEAN,
                         status : {"none", "discovery_required", "backoff", "paused"}]]
  /\ item \in [Kind \X Feed \X Source -> {"none", "over"} \cup Attached]
  /\ cand \in [Feed \X Source -> {"none", "pending", "ignored", "selected"}]
  /\ \A o \in Op : op[o].kind \in Kind \cup {None}

Init ==
  /\ feed = [f \in Feed |-> IF f \in Held THEN [NoFeed EXCEPT !.on = TRUE, !.url = Own[f],
                                                   !.src = Own[f], !.arts = TRUE] ELSE NoFeed]
  /\ want = [f \in Feed |-> NoWant] /\ source = [s \in Source |-> "active"] /\ snap = {}
  /\ job = [s \in Source |-> "none"] /\ end = [s \in Source |-> NoEnd]
  /\ seen = [s \in Source |-> {}] /\ item = [i \in Kind \X Feed \X Source |-> "none"]
  /\ cand = [c \in Feed \X Source |-> "none"]
  /\ due = [f \in Feed |-> {}] /\ op = [o \in Op |-> Idle] /\ calls = 0 /\ faults = 0

On == {f \in Feed : feed[f].on}
Pending(s) == {f \in On : feed[f].pend = s}
Subscribed(s) == {f \in On : s \in {feed[f].src, feed[f].pend}}

\* No other feed of the user has the source, or waits for it.
Available(f, s) == \A g \in On \ {f} : s \notin {feed[g].url, feed[g].pend}

(***************************************************************************)
(* The calls.                                                              *)
(***************************************************************************)
Check(o, kind, f, s) ==
  /\ op[o] = Idle /\ calls < MaxCalls /\ calls' = calls + 1
  /\ op' = [op EXCEPT ![o] = [kind |-> kind, f |-> f, s |-> s, src |-> feed[f].src]]
  /\ UNCHANGED <<feed, want, source, snap, job, end, seen, item, cand, due, faults>>

AskCreate(o, f, s) == f \notin On /\ Available(f, s) /\ Check(o, "create", f, s)
AskReplace(o, f, s) ==
  f \in On /\ s # feed[f].src /\ Available(f, s) /\ Check(o, "replacement", f, s)
AskSelect(o, f, s) ==
  f \in On /\ cand[<<f, s>>] = "pending" /\ Available(f, s) /\ Check(o, "discovery", f, s)

Refused(o) ==
  /\ op' = [op EXCEPT ![o] = Idle]
  /\ UNCHANGED <<feed, want, source, snap, job, end, seen, item, cand, due, calls, faults>>

\* enqueueOrAttachDurableJob.
Queued(s) == [job EXCEPT ![s] = IF @ = "none" THEN "queued" ELSE @]
Staged(kind, f, s) == [item EXCEPT ![<<kind, f, s>>] = "pending"]
Wanted(f, s) == [want EXCEPT ![f] = [asked |-> s, staged |-> s]]

\* createPendingFeed, after its check; only the URL is kept unique.  A snapshot is fresh a day.
Create(o) ==
  /\ op[o].kind = "create"
  /\ LET f == op[o].f
         s == op[o].s
     IN \E fresh \in BOOLEAN :
        LET reuse == fresh /\ s \in snap /\ source[s] = "active"
        IN
        IF f \in On \/ \E g \in On : feed[g].url = s THEN Refused(o)
        ELSE /\ feed' = [feed EXCEPT ![f] = [NoFeed EXCEPT !.on = TRUE, !.url = s,
                           !.src = IF reuse THEN s ELSE None, !.pend = IF reuse THEN None ELSE s,
                           !.status = IF reuse THEN "idle" ELSE "pending"]]
             /\ due' = IF reuse THEN [due EXCEPT ![f] = @ \cup {s}] ELSE due
             /\ job' = IF reuse THEN job ELSE Queued(s)
             /\ item' = IF reuse THEN item ELSE Staged("create", f, s)
             /\ want' = Wanted(f, s) /\ op' = [op EXCEPT ![o] = Idle]
             /\ UNCHANGED <<source, snap, end, seen, cand, calls, faults>>

\* queueDurableRefresh: the request there is, which stages nothing, or a new one, which is
\* prepared for.
Again(o) ==
  /\ want' = [want EXCEPT ![op[o].f].asked = op[o].s] /\ op' = [op EXCEPT ![o] = Idle]
  /\ UNCHANGED <<feed, source, snap, job, end, seen, item, cand, due, calls, faults>>

Stage(o, status) ==
  LET f == op[o].f
      s == op[o].s
  IN /\ feed' = [feed EXCEPT ![f].pend = s, ![f].status = status]
     /\ job' = Queued(s) /\ item' = Staged(op[o].kind, f, s)
     /\ want' = Wanted(f, s) /\ op' = [op EXCEPT ![o] = Idle]
     /\ UNCHANGED <<source, snap, end, seen, due, calls, faults>>

\* requestReplacement.
Replace(o) ==
  /\ op[o].kind = "replacement"
  /\ IF item[<<"replacement", op[o].f, op[o].s>>] = "pending" THEN Again(o)
     ELSE IF ~Available(op[o].f, op[o].s) THEN Refused(o)
     ELSE Stage(o, "replacement_pending") /\ UNCHANGED cand

\* selectDiscoveryCandidate.
Chosen(f, s) == [c \in Feed \X Source |->
  IF c = <<f, s>> THEN "selected" ELSE IF c[1] = f /\ cand[c] # "none" THEN "ignored" ELSE cand[c]]

Select(o) ==
  /\ op[o].kind = "discovery"
  /\ IF item[<<"discovery", op[o].f, op[o].s>>] # "none" THEN Again(o)
     ELSE IF ~Available(op[o].f, op[o].s) THEN Refused(o)
     ELSE /\ Stage(o, IF op[o].src = None THEN "pending" ELSE "replacement_pending")
          /\ cand' = Chosen(op[o].f, op[o].s)

CancelledCreate(f) == <<"create", f, feed[f].pend>>

\* cancelReplacement.
Cancelled(f) == <<"replacement", f, feed[f].pend>>
Cancel(f) ==
  /\ f \in On /\ feed[f].src # None /\ feed[f].pend # None
  /\ feed' = [feed EXCEPT ![f].pend = None, ![f].status = "idle"]
  /\ item' = [item EXCEPT ![Cancelled(f)] = IF @ = "pending" THEN "over" ELSE @]
  /\ want' = [want EXCEPT ![f] = NoWant]
  /\ UNCHANGED <<source, snap, job, end, seen, cand, due, op, calls, faults>>

(***************************************************************************)
(* The jobs.                                                               *)
(***************************************************************************)
At(s, from, to) == job[s] = from /\ job' = [job EXCEPT ![s] = to]

\* enqueueDueSources takes paused sources too, when their week is over.
Schedule(s) ==
  /\ s \in Recurring /\ Subscribed(s) # {} /\ At(s, "none", "queued")
  /\ UNCHANGED <<feed, want, source, snap, end, seen, item, cand, due, op, calls, faults>>

\* The items of the job of s, which may have failed before it is over.
Over(s) == [i \in DOMAIN item |-> IF i[3] = s /\ item[i] \in Attached THEN "over" ELSE item[i]]

\* A job whose source no feed has or waits for is not fetched.
Retire(s) ==
  /\ Subscribed(s) = {} /\ At(s, "queued", "none") /\ item' = Over(s)
  /\ UNCHANGED <<feed, want, source, snap, end, seen, cand, due, op, calls, faults>>

\* The backoff of a failure is longer than what its worker has yet to do.
Claim(s) ==
  /\ Subscribed(s) # {} /\ end[s] = NoEnd /\ At(s, "queued", "running")
  /\ UNCHANGED <<feed, want, source, snap, end, seen, item, cand, due, op, calls, faults>>

\* markSnapshotParseSucceeded: its feeds are given their source, without their old articles.
\* A URL that another feed has fails the transaction.
Clash(s) == \E f \in Pending(s), g \in On : f # g /\ (feed[g].url = s \/ g \in Pending(s))
ActivatedByItem(s) == [f \in Feed |-> IF \E k \in Kind : item[<<k, f, s>>] = "pending"
  THEN [feed[f] EXCEPT !.src = s, !.pend = None, !.url = s, !.status = "idle", !.arts = FALSE]
  ELSE feed[f]]

Activated(s) == [f \in Feed |-> IF f \in Pending(s)
  THEN [feed[f] EXCEPT !.src = s, !.pend = None, !.url = s, !.status = "idle", !.arts = FALSE]
  ELSE feed[f]]

Parse(s) ==
  /\ s \notin Site /\ ~Clash(s) /\ At(s, "running", "parsed")
  /\ feed' = Activated(s) /\ snap' = snap \cup {s}
  /\ due' = [f \in Feed |-> IF f \in Subscribed(s) THEN due[f] \cup {s} ELSE due[f]]
  /\ UNCHANGED <<want, source, end, seen, item, cand, op, calls, faults>>

ParseFails(s) ==
  /\ s \notin Site /\ Clash(s) /\ At(s, "running", "failing")
  /\ UNCHANGED <<feed, want, source, snap, end, seen, item, cand, due, op, calls, faults>>

Finish(s) ==
  /\ At(s, "parsed", "none") /\ source' = [source EXCEPT ![s] = "active"] /\ item' = Over(s)
  /\ UNCHANGED <<feed, want, snap, end, seen, cand, due, op, calls, faults>>

\* handleDiscovery reads the items of the job, and then offers candidates to their feeds.
ReadItems(s) ==
  /\ s \in Site /\ At(s, "running", "html")
  /\ seen' = [seen EXCEPT ![s] = {f \in On : \E k \in Kind : item[<<k, f, s>>] \in Attached}]
  /\ UNCHANGED <<feed, want, source, snap, end, item, cand, due, op, calls, faults>>

Offer(s) ==
  /\ At(s, "html", "offered") /\ seen' = [seen EXCEPT ![s] = {}]
  /\ cand' = [c \in Feed \X Source |->
                IF c[1] \in seen[s] /\ c[2] \in Offers THEN "pending" ELSE cand[c]]
  /\ feed' = [f \in Feed |-> IF f \in seen[s] THEN [feed[f] EXCEPT !.status = "discovery_required"]
                             ELSE feed[f]]
  /\ UNCHANGED <<want, source, snap, end, item, due, op, calls, faults>>

\* finishFetchJob: the job is over, with its items, or it is queued again.
Ended(s, state, status, again) ==
  /\ source' = [source EXCEPT ![s] = state]
  /\ job' = [job EXCEPT ![s] = IF again THEN "queued" ELSE "none"]
  /\ item' = IF again THEN item ELSE Over(s)
  /\ end' = [end EXCEPT ![s] = [at |-> "unsaid", status |-> status, again |-> again]]
  /\ UNCHANGED <<feed, want, snap, seen, cand, due, op, calls, faults>>

Close(s) == job[s] = "offered" /\ Ended(s, "paused", "discovery_required", FALSE)

\* The fetch, or the storing of what it brought, fails: failClaim.
Refuse(s) ==
  /\ job[s] \in {"running", "failing"}
  /\ \E status \in {"backoff", "paused"}, again \in BOOLEAN : Ended(s, status, status, again)

TellBySource(s) ==
  /\ end[s].at = "unsaid" /\ end' = [end EXCEPT ![s].at = "said"]
  /\ feed' = [f \in Feed |-> IF f \in On /\ feed[f].src = s
                             THEN [feed[f] EXCEPT !.status = end[s].status] ELSE feed[f]]
  /\ UNCHANGED <<want, source, snap, job, seen, item, cand, due, op, calls, faults>>

\* updatePendingFeedFailure.
Tell(s) ==
  /\ end[s].at = "unsaid" /\ end' = [end EXCEPT ![s].at = "said"]
  /\ feed' = [f \in Feed |-> IF f \in Pending(s) THEN [feed[f] EXCEPT !.status = end[s].status]
                             ELSE feed[f]]
  /\ UNCHANGED <<want, source, snap, job, seen, item, cand, due, op, calls, faults>>

\* failRefreshItemsForJob: the items of the job that was finished.
FailItems(s) ==
  /\ end[s].at = "said" /\ end' = [end EXCEPT ![s] = NoEnd]
  /\ item' = [i \in DOMAIN item |-> IF i[3] = s /\ end[s].again /\ item[i] = "pending" THEN "failed"
                                   ELSE item[i]]
  /\ UNCHANGED <<feed, want, source, snap, job, seen, cand, due, op, calls, faults>>

\* The worker dies: what it had not finished is queued again, what it had is not taken up.
\* (A job with a parsed snapshot goes on from there.)
Crash(s) ==
  /\ faults < MaxFaults /\ faults' = faults + 1
  /\ job[s] \in {"running", "html", "offered", "failing"} \/ end[s] # NoEnd
  /\ job' = [job EXCEPT ![s] = IF @ \in {"none", "queued"} THEN @ ELSE "queued"]
  /\ end' = [end EXCEPT ![s] = NoEnd] /\ seen' = [seen EXCEPT ![s] = {}]
  /\ UNCHANGED <<feed, want, source, snap, item, cand, due, op, calls>>

\* A delivery is written when the feed still has its source; it may also fail for good.
Deliver(f, s) ==
  /\ s \in due[f] /\ due' = [due EXCEPT ![f] = @ \ {s}]
  /\ feed' = IF feed[f].src = s THEN [feed EXCEPT ![f].arts = TRUE] ELSE feed
  /\ UNCHANGED <<want, source, snap, job, end, seen, item, cand, op, calls, faults>>

\* A day later: cleanupDurableDiscoveryCandidates.
Expire(f) ==
  /\ \E s \in Source : cand[<<f, s>>] # "none"
  /\ cand' = [c \in Feed \X Source |-> IF c[1] = f THEN "none" ELSE cand[c]]
  /\ UNCHANGED <<feed, want, source, snap, job, end, seen, item, due, op, calls, faults>>

Next ==
  \/ \E o \in Op, f \in Feed, s \in Source :
       AskCreate(o, f, s) \/ AskReplace(o, f, s) \/ AskSelect(o, f, s)
  \/ \E o \in Op : Create(o) \/ Replace(o) \/ Select(o)
  \/ \E f \in Feed : Cancel(f) \/ Expire(f) \/ \E s \in Source : Deliver(f, s)
  \/ \E s \in Source :
       \/ Schedule(s) \/ Retire(s) \/ Claim(s) \/ Parse(s) \/ ParseFails(s) \/ Finish(s)
       \/ ReadItems(s) \/ Offer(s) \/ Close(s) \/ Tell(s) \/ Refuse(s) \/ FailItems(s) \/ Crash(s)

Spec == Init /\ [][Next]_vars

\* What a job does of itself.
Works(s) ==
  \/ Claim(s) \/ Parse(s) \/ ParseFails(s) \/ Finish(s) \/ ReadItems(s) \/ Offer(s) \/ Close(s)
  \/ Tell(s) \/ FailItems(s) \/ (job[s] = "failing" /\ Refuse(s))

(***************************************************************************)
(* What the client is shown (durable-feed-lifecycle.ts, feed-lifecycle.ts).*)
(***************************************************************************)
Lifecycle(f) ==
  IF feed[f].pend # None THEN feed[f].status
  ELSE IF feed[f].src # None THEN source[feed[f].src] ELSE feed[f].status

\* It waits for a validation.
Waits(f) == f \in On /\ Lifecycle(f) \in Waiting

Choices(f) == {s \in Source : cand[<<f, s>>] = "pending"}
CanCancel(f) == feed[f].src # None /\ feed[f].pend # None

(***************************************************************************)
(* Properties.                                                             *)
(***************************************************************************)
\* A feed is given no other source than the one that was staged for it last, whatever jobs of
\* sources that were staged before, or given up, end after that.
Given(f) == feed[f].on /\ feed'[f].src # feed[f].src
OnlyAsked == \A f \in Feed : Given(f) => feed'[f].src = want[f].staged

\* A feed is given no other source than the one that its user asked for last (the code does
\* not keep it: a source that an earlier request still waits for is not staged again).
LastAsked == \A f \in Feed : Given(f) => feed'[f].src = want[f].asked

\* Of the candidates of a feed one is chosen, whoever chooses at a time.
OneSelected == \A f \in Feed : Cardinality({s \in Source : cand[<<f, s>>] = "selected"}) <= 1

\* A replacement that is given up leaves no item of the source that its feed was waiting for
\* ("terminalizes cancellation without stopping shared work and permits immediate retry"); the
\* items of sources staged before it are left as they are.
CancelEnds ==
  \A f \in Feed :
   /\ feed[f].pend \notin {None, feed[f].src}
   /\ feed'[f].pend = None /\ feed'[f].src = feed[f].src
   => \A k \in Kind : item'[<<k, f, feed[f].pend>>] # "pending"

\* No two feeds of the user are to get one source ("rejects duplicate pending targets").
OneFeedPerSource ==
  \A f, g \in On : f # g /\ feed[f].pend # None => feed[f].pend \notin {feed[g].url, feed[g].pend}

\* A feed that had articles has articles ("activation replaces them atomically").
NeverEmptied == \A f \in Feed : feed[f].arts => feed'[f].arts

\* A feed that is to be chosen for has something to choose, or a replacement to give up
\* ("Select a discovered feed before refreshing.").
NoDeadEnd == \A f \in On : Lifecycle(f) = "discovery_required" => Choices(f) # {} \/ CanCancel(f)
=============================================================================

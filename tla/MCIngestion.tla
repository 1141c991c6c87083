---------------------------- MODULE MCIngestion -----------------------------
(***************************************************************************)
(* Instances of the v2 pipeline's components beside the queue, on small    *)
(* tables. They are composed as alternatives: each behaviour is one of an  *)
(* instance, chosen by part, and leaves the variables of the other         *)
(* components alone. What they have in common is in each of the modules.   *)
(***************************************************************************)
EXTENDS Integers, Sequences, TLC

CONSTANTS
  None, a, b, g1, g2, p1, p2, f1, f2, o1, o2, s1, s2, s3, s4, h1, j1, j2

VARIABLES
  part, \* which of the parts the behaviour is one of
  feed, delivery, article, news, work, stalled, parsed, now, faults, want, source, snap, job,
  end, seen, item, cand, due, op, calls, task, origin, claim

\* All the ways in which a fetch may fail.
AllKinds == {"gone", "denied", "limited", "unavailable", "status", "network", "dns", "tls",
             "oversize", "invalid_feed", "unsupported_feed"}

\* SnapshotDelivery without faults: the feed moves from a to b and back; the second snapshot of
\* each source has an item more than the first.
Order == INSTANCE SnapshotDelivery WITH
  Process <- {p1}, Source <- {a, b}, Guid <- {g1, g2}, Snapshots <- 4,
  SourceOf <- <<a, a, b, a>>, ItemsOf <- <<{g1}, {g1, g2}, {g1}, {g1, g2}>>, MaxAttempts <- 2,
  MaxFaults <- 0
\* Two processes over three snapshots, with a stall, a crash or an error.
Fence == INSTANCE SnapshotDelivery WITH
  Process <- {p1, p2}, Source <- {a, b}, Guid <- {g1, g2}, Snapshots <- 3,
  SourceOf <- <<a, b, a>>, ItemsOf <- <<{g1}, {g1, g2}, {g1}>>, MaxAttempts <- 2, MaxFaults <- 1
\* Two feeds with sources of their own, two calls, a crash.
Staged == INSTANCE Replacement WITH
  Feed <- {f1, f2}, Source <- {s1, s2, s3, s4}, Op <- {o1, o2}, Site <- {}, Offers <- {},
  Held <- {f1, f2}, Own <- [f \in {f1, f2} |-> IF f = f1 THEN s1 ELSE s2], Recurring <- {},
  MaxCalls <- 2, MaxFaults <- 1
\* One feed, whose user asks for one source, for another and for the first again, or gives up.
Back == INSTANCE Replacement WITH
  Feed <- {f1}, Source <- {s1, s2, s3}, Op <- {o1, o2}, Site <- {}, Offers <- {}, Held <- {f1},
  Own <- [f \in {f1} |-> s1], Recurring <- {}, MaxCalls <- 3, MaxFaults <- 1
\* A feed of a website with two feeds to choose from.
Chosen == INSTANCE Replacement WITH
  Feed <- {f1}, Source <- {s1, s2, s3}, Op <- {o1, o2}, Site <- {s2}, Offers <- {s1, s3},
  Held <- {}, Own <- [f \in {} |-> s1], Recurring <- {}, MaxCalls <- 2, MaxFaults <- 0
\* Cleanup: one feed and two jobs, cleanups at any moment, one row of a kind at a time.
Kept == INSTANCE Cleanup WITH
  Feed <- {h1}, Job <- {j1, j2}, Retention <- 2, Batch <- 1, MaxAttempts <- 2, MaxFaults <- 1,
  Prompt <- FALSE
\* Two feeds of one source, the second of which may be served from what the first has fetched.
Reused == INSTANCE Cleanup WITH
  Feed <- {h1, f1}, Job <- {j1}, Retention <- 2, Batch <- 1, MaxAttempts <- 2, MaxFaults <- 1,
  Prompt <- FALSE
\* One source that fails in every way, with every kind of Retry-After.
Alone == INSTANCE FeedHealth WITH
  Source <- {s1}, Kinds <- AllKinds, Headers <- {-1, 0, 60, 1000000, 31622401}, MaxFailures <- 9
\* Two sources of an origin, whose claims read and write its row in any order.
Pair == INSTANCE FeedHealth WITH
  Source <- {s1, s2}, Kinds <- {"network"}, Headers <- {-1}, MaxFailures <- 9

ASSUME
  /\ Order!ParametersAssumption
  /\ Fence!ParametersAssumption
  /\ Staged!ReplacementAssumption
  /\ Back!ReplacementAssumption
  /\ Chosen!ReplacementAssumption
  /\ Kept!CleanupAssumption
  /\ Reused!CleanupAssumption
  /\ Alone!HealthAssumption
  /\ Pair!HealthAssumption

\* What a component has no variable for stays unused in its parts.
BesideSnapshotDelivery == <<
  want, source, snap, job, end, seen, item, cand, due, op, calls, task, origin, claim>>
BesideReplacement == <<
  delivery, article, news, work, stalled, parsed, now, task, origin, claim>>
BesideCleanup == <<
  article, news, work, stalled, parsed, now, want, source, end, seen, cand, due, op, calls,
  origin, claim>>
BesideFeedHealth == <<
  feed, delivery, article, news, work, stalled, parsed, now, faults, want, snap, job, end, seen,
  item, cand, due, op, calls, task>>

NoSnapshotDeliveryBeside ==
  /\ want = None /\ source = None /\ snap = None /\ job = None /\ end = None /\ seen = None
  /\ item = None /\ cand = None /\ due = None /\ op = None /\ calls = None /\ task = None
  /\ origin = None /\ claim = None
NoReplacementBeside ==
  /\ delivery = None /\ article = None /\ news = None /\ work = None /\ stalled = None
  /\ parsed = None /\ now = None /\ task = None /\ origin = None /\ claim = None
NoCleanupBeside ==
  /\ article = None /\ news = None /\ work = None /\ stalled = None /\ parsed = None
  /\ now = None /\ want = None /\ source = None /\ end = None /\ seen = None /\ cand = None
  /\ due = None /\ op = None /\ calls = None /\ origin = None /\ claim = None
NoFeedHealthBeside ==
  /\ feed = None /\ delivery = None /\ article = None /\ news = None /\ work = None
  /\ stalled = None /\ parsed = None /\ now = None /\ faults = None /\ want = None /\ snap = None
  /\ job = None /\ end = None /\ seen = None /\ item = None /\ cand = None /\ due = None
  /\ op = None /\ calls = None /\ task = None

Init ==
  \/ part = "order" /\ Order!Init /\ NoSnapshotDeliveryBeside
  \/ part = "fence" /\ Fence!Init /\ NoSnapshotDeliveryBeside
  \/ part = "staged" /\ Staged!Init /\ NoReplacementBeside
  \/ part = "back" /\ Back!Init /\ NoReplacementBeside
  \/ part = "chosen" /\ Chosen!Init /\ NoReplacementBeside
  \/ part = "kept" /\ Kept!Init /\ NoCleanupBeside
  \/ part = "reused" /\ Reused!Init /\ NoCleanupBeside
  \/ part = "alone" /\ Alone!Init /\ NoFeedHealthBeside
  \/ part = "pair" /\ Pair!Init /\ NoFeedHealthBeside

Next ==
  /\ UNCHANGED part
  /\ \/ part = "order" /\ Order!Next /\ UNCHANGED BesideSnapshotDelivery
     \/ part = "fence" /\ Fence!Next /\ UNCHANGED BesideSnapshotDelivery
     \/ part = "staged" /\ Staged!Next /\ UNCHANGED BesideReplacement
     \/ part = "back" /\ Back!Next /\ UNCHANGED BesideReplacement
     \/ part = "chosen" /\ Chosen!Next /\ UNCHANGED BesideReplacement
     \/ part = "kept" /\ Kept!Next /\ UNCHANGED BesideCleanup
     \/ part = "reused" /\ Reused!Next /\ UNCHANGED BesideCleanup
     \/ part = "alone" /\ Alone!Next /\ UNCHANGED BesideFeedHealth
     \/ part = "pair" /\ Pair!Next /\ UNCHANGED BesideFeedHealth

vars == <<
  part, feed, delivery, article, news, work, stalled, parsed, now, faults, want, source, snap,
  job, end, seen, item, cand, due, op, calls, task, origin, claim>>
Spec == Init /\ [][Next]_vars

-----------------------------------------------------------------------------
\* The tables keep their types.
TypesHold ==
  /\ part = "order" => Order!TypeOK
  /\ part = "fence" => Fence!TypeOK
  /\ part = "staged" => Staged!TypeOK
  /\ part = "back" => Back!TypeOK
  /\ part = "chosen" => Chosen!TypeOK
  /\ part = "kept" => Kept!TypeOK
  /\ part = "reused" => Reused!TypeOK
  /\ part = "alone" => Alone!TypeOK
  /\ part = "pair" => Pair!TypeOK

\* An article has come from the source that its feed follows, and its readers are told of it
\* once: at most, and if nothing fails, at least.
ArticlesOfSource ==
  /\ part = "order" => Order!ArticlesOfSource /\ Order!Told
  /\ part = "fence" => Fence!ArticlesOfSource /\ Fence!ToldOnce

\* No article goes back to what an earlier snapshot had, or from its page to what the feed has.
NeverGoesBack ==
  [][part = "order" => Order!NeverGoesBack /\ Order!EnrichedKept]_vars

\* A feed is only given the source that was staged for it last, also when its user goes back to a
\* source that an earlier request still waits for (which stages nothing); a replacement that is
\* given up leaves no item of the source that the feed was waiting for; of two feeds that are
\* replaced at a time no two wait for one source, and of a website's feeds one is chosen.
OnlyAsked ==
  [][/\ part = "staged" => Staged!OnlyAsked /\ Staged!CancelEnds /\ Staged!OneFeedPerSource'
     /\ part = "back" => Back!OnlyAsked /\ Back!CancelEnds
     /\ part = "chosen" => Chosen!OnlyAsked /\ Chosen!OneSelected']_vars

\* Whatever fails, and whatever a publisher asks for, a source and its origin are left alone for a
\* time between bounds, for a week once the source has failed for long or is paused, and for no
\* shorter time when the same fails again; only a fetch that succeeds ends that.
BackoffHolds ==
  [][/\ part = "alone" => /\ Alone!WaitsBounded' /\ Alone!LongFailureRests'
                         /\ Alone!ClosedIsHealthy'
                         /\ Alone!OnlySuccessForgives /\ Alone!WaitsGrow
     /\ part = "pair" => /\ Pair!WaitsBounded' /\ Pair!LongFailureRests' /\ Pair!ClosedIsHealthy'
                        /\ Pair!OnlySuccessForgives /\ Pair!WaitsGrow]_vars

\* The cleanup deletes nothing that is still being worked on.
ActiveKept ==
  [][/\ part = "kept" => Kept!ActiveKept
     /\ part = "reused" => Reused!ActiveKept /\ Reused!RetainedHasJob']_vars
=============================================================================

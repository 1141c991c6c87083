--------------------------- MODULE FeedSync_proofs ---------------------------
(***************************************************************************)
(* The locks of the legacy synchronisation, for any feeds, processes,      *)
(* kinds of jobs and times to live.                                        *)
(*                                                                         *)
(* One sync of a feed at a time: a job between taking the lock of its feed *)
(* and its end owns it, and it has lost no more of its time to live than   *)
(* heartbeats have come late (Guarding).                                   *)
(*                                                                         *)
(* One request to a publisher per cooldown: the lock of the URL lives at   *)
(* least as long as the cooldown lasts (Cooling), and a job that is about  *)
(* to ask has it, in an ended cooldown, or the text of a preview (Covered).*)
(* That text serves one feed, so the URL must not be shared.               *)
(*                                                                         *)
(* After them, about Worker, the process that these syncs run in, with     *)
(* either pipeline: LoopsTypes, and ShutdownsAreQuiet, which rests on that *)
(* nothing is started once a signal has come (LoopsInv).                   *)
(*                                                                         *)
(* Last, about ImportQuota, the other thing that Redis limits: that no     *)
(* slot is lost and that the cap is kept, under the conditions that the    *)
(* code needs for each (a Redis that answers; a day without failures).     *)
(***************************************************************************)
EXTENDS FeedSync, Sequences, FiniteSetTheorems, TLAPS

Status == {"idle", "syncing", "error"}
RowRow == [status : Status, due : 0..MaxDue, age : 0..Stale + 1, recent : 0..Cooldown]
JobSteps == {"idle", "found", "guarded", "ready", "begun", "fetched", "failed"}

\* A lock that has run out is gone.
Good(lock) == lock \in Lock /\ (lock.ttl = 0 <=> lock = Free)

\* A job syncs the feed's own URL; a preview has no feed and only fetches.
Right(s) == /\ job[s].feed # None => job[s].url = UrlOf[job[s].feed]
            /\ job[s].feed = None => job[s].step \in {"idle", "begun"}
            /\ job[s].step # "idle" => job[s].url # None

IInv ==
  /\ FeedSyncAssumption /\ TypeOK
  /\ \A u \in Url : Good(urlLock[u])
  /\ \A s \in Slot : Right(s)

\* From its lock to its end.
LockedSteps == {"guarded", "ready", "begun", "fetched", "failed"}
Guards(s) == job[s].feed # None /\ job[s].step \in LockedSteps =>
  feedLock[job[s].feed].owner = s /\ feedLock[job[s].feed].ttl + stalls >= Cooldown
Guarding == \A s \in Slot : Guards(s)

\* Heartbeats are never late by the whole time to live.
Punctual == MaxStalls < Cooldown

GInv == IInv /\ (Punctual => Guarding)

\* Nobody subscribes twice to one publisher.
NotShared == \A f, g \in Feed : UrlOf[f] = UrlOf[g] => f = g

Cooling == \A u \in Url : urlLock[u].ttl + since[u] >= Cooldown

\* The job has the lock of its URL, unused.
Holds(s) == LET u == job[s].url IN
  urlLock[u].owner = s /\ urlLock[u].ttl = Cooldown /\ since[u] = Cooldown
Covers(s) == job[s].step \in {"ready", "begun"} =>
  Holds(s) \/ (job[s].feed # None /\ prefetched[job[s].url] > 0)
Covered == \A s \in Slot : Covers(s)

CInv == GInv /\ Cooling /\ Covered /\ tooSoon = {}

(***************************************************************************)
(* Rows.                                                                   *)
(***************************************************************************)
LEMMA Constant ==
  ASSUME FeedSyncAssumption
  PROVE  /\ Cooldown \in Nat /\ Cooldown >= 1 /\ Stale \in Nat /\ Poll \in Nat /\ Poll >= 1
         /\ MaxRetry \in Nat /\ MaxRetry >= 1 /\ MaxDue \in Nat
         /\ Poll <= MaxDue /\ MaxRetry <= MaxDue
         /\ MaxAsks \in Nat /\ MaxCrashes \in Nat /\ MaxStalls \in Nat
         /\ None \notin Process /\ None \notin Feed /\ None \notin Url
         /\ None \notin Slot /\ \A p \in Process : p \notin Slot
         /\ \A f \in Feed : UrlOf[f] \in Url
BY DEF FeedSyncAssumption, MaxDue, Slot

LEMMA SlotParts ==
  ASSUME NEW s \in Slot
  PROVE  s[1] \in Process /\ s[2] \in Kinds /\ s = <<s[1], s[2]>>
BY DEF Slot

LEMMA Locks ==
  ASSUME FeedSyncAssumption, NEW k, Good(k)
  PROVE  /\ Good(Free) /\ Good(CoolingDown) /\ CoolingDown.ttl = Cooldown
         /\ \A s \in Slot : /\ Good([owner |-> s, ttl |-> Cooldown])
                            /\ [owner |-> s, ttl |-> Cooldown].owner = s
                            /\ [owner |-> s, ttl |-> Cooldown].ttl = Cooldown
         /\ k.owner \in Owner /\ k.ttl \in 0..Cooldown
         /\ \A p \in Process : k.owner \in Slot =>
              Good([k EXCEPT !.owner = p]) /\ [k EXCEPT !.owner = p].ttl = k.ttl
         /\ k.ttl = 0 => k.owner = None
<1> USE Constant
<1>1. Free.ttl = 0 /\ Free.owner = None /\ Free \in Lock /\ None \in Owner
  BY DEF Free, Lock, Owner
<1>2. CoolingDown \in Lock /\ CoolingDown.ttl = Cooldown /\ CoolingDown # Free
  BY <1>1 DEF CoolingDown, Lock
<1>3. ASSUME NEW s \in Slot
      PROVE  /\ Good([owner |-> s, ttl |-> Cooldown])
             /\ [owner |-> s, ttl |-> Cooldown].owner = s
             /\ [owner |-> s, ttl |-> Cooldown].ttl = Cooldown
  BY <1>1 DEF Lock, Good, Owner
<1>4. k \in Lock /\ (k.ttl = 0 <=> k = Free)
  BY DEF Good
<1>5. k.owner \in Owner /\ k.ttl \in 0..Cooldown
  BY <1>4 DEF Lock
<1>6. ASSUME NEW p \in Process, k.owner \in Slot
      PROVE  Good([k EXCEPT !.owner = p]) /\ [k EXCEPT !.owner = p].ttl = k.ttl
  <2>1. k # Free
    BY <1>1, <1>6
  <2>2. PICK l : l = [k EXCEPT !.owner = p]
    OBVIOUS
  <2>3. l \in Lock /\ l.ttl = k.ttl
    BY <1>4, <2>2 DEF Lock, Owner
  <2>4. l # Free
    BY <1>1, <1>4, <2>1, <2>3
  <2> QED BY <1>4, <2>1, <2>2, <2>3, <2>4 DEF Good
<1> QED BY <1>1, <1>2, <1>3, <1>4, <1>5, <1>6 DEF Good

\* The process dies.
LEMMA OrphanedLock ==
  ASSUME FeedSyncAssumption, NEW k, Good(k), NEW p \in Process
  PROVE  /\ Good(Orphaned(k, p)) /\ Orphaned(k, p).ttl = k.ttl
         /\ \A s \in Slot : s[1] # p /\ k.owner = s => Orphaned(k, p) = k
<1> USE Constant
<1>1. k \in Lock /\ (k.ttl = 0 <=> k = Free) /\ Free.ttl = 0 /\ Free.owner = None
  BY DEF Good, Free
<1>2. CASE k.owner = p \/ (k.owner \in Slot /\ k.owner[1] = p)
  <2>1. PICK l : l = [k EXCEPT !.owner = None]
    OBVIOUS
  <2>2. l \in Lock /\ l.ttl = k.ttl
    BY <1>1, <2>1 DEF Lock, Owner
  <2>3. k # Free
    BY <1>1, <1>2
  <2>4. Orphaned(k, p) = l
    BY <1>2, <2>1 DEF Orphaned
  <2> QED BY <1>1, <1>2, <2>2, <2>3, <2>4 DEF Good
<1>3. CASE ~(k.owner = p \/ (k.owner \in Slot /\ k.owner[1] = p))
  BY <1>3 DEF Orphaned
<1> QED BY <1>2, <1>3

\* A tick passes.
LEMMA PassedLock ==
  ASSUME FeedSyncAssumption, NEW k, Good(k), NEW stalled \in BOOLEAN
  PROVE  /\ Good(Passes(k, stalled)) /\ Passes(k, stalled).ttl + 1 >= k.ttl
         /\ k.owner # None /\ ~stalled =>
              Passes(k, stalled).owner = k.owner /\ Passes(k, stalled).ttl = Cooldown
         /\ k.owner # None /\ k.ttl >= 2 =>
              Passes(k, stalled).owner = k.owner
<1> USE Constant
<1>1. k \in Lock /\ k.ttl \in 0..Cooldown /\ Free \in Lock /\ Free.ttl = 0 /\ Good(Free)
  BY Locks DEF Good
<1>2. CASE Beats(k) /\ ~stalled
  <2>1. PICK l : l = [k EXCEPT !.ttl = Cooldown]
    OBVIOUS
  <2>2. l \in Lock /\ l.ttl = Cooldown /\ l.owner = k.owner
    BY <1>1, <2>1 DEF Lock
  <2>3. Passes(k, stalled) = l
    BY <1>2, <2>1 DEF Passes
  <2> QED BY <1>1, <2>2, <2>3 DEF Good
<1>3. CASE ~(Beats(k) /\ ~stalled) /\ k.ttl <= 1
  <2>1. Passes(k, stalled) = Free
    BY <1>3 DEF Passes
  <2> QED BY <1>1, <1>3, <2>1 DEF Beats
<1>4. CASE ~(Beats(k) /\ ~stalled) /\ ~(k.ttl <= 1)
  <2>1. PICK n : n = k.ttl - 1
    OBVIOUS
  <2>2. PICK l : l = [k EXCEPT !.ttl = n]
    OBVIOUS
  <2>3. n \in 0..Cooldown /\ n >= 1 /\ n + 1 = k.ttl
    BY <1>1, <1>4, <2>1
  <2>4. l \in Lock /\ l.ttl = n /\ l.owner = k.owner
    BY <1>1, <2>2, <2>3 DEF Lock
  <2>5. Passes(k, stalled) = l
    BY <1>4, <2>1, <2>2 DEF Passes
  <2> QED BY <1>1, <1>4, <2>3, <2>4, <2>5 DEF Good, Beats
<1> QED BY <1>2, <1>3, <1>4

(***************************************************************************)
(* Jobs.                                                                   *)
(***************************************************************************)
\* What is left to show of a step.
Kept ==
  /\ row \in [Feed -> RowRow]
  /\ feedLock \in [Feed -> Lock] /\ \A f \in Feed : Good(feedLock[f])
  /\ urlLock \in [Url -> Lock] /\ \A u \in Url : Good(urlLock[u])
  /\ prefetched \in [Url -> 0..Cooldown] /\ delayed \in [Feed -> 0..Cooldown + 1]
  /\ job \in [Slot -> Job] /\ \A s \in Slot : job[s].step = "idle" <=> job[s] = Idle
  /\ asks \in 0..MaxAsks /\ crashes \in 0..MaxCrashes /\ stalls \in 0..MaxStalls
  /\ since \in [Url -> 0..Cooldown] /\ tooSoon \subseteq Url /\ asked \subseteq Feed
  /\ \A s \in Slot : Right(s)

LEMMA KeptIsIInv == ASSUME FeedSyncAssumption, Kept' PROVE IInv'
BY DEF Kept, IInv, TypeOK, RowRow, Status, Good

LEMMA Typed == ASSUME IInv PROVE Kept /\ FeedSyncAssumption
BY DEF Kept, IInv, TypeOK, RowRow, Status, Good

LEMMA IdleJob ==
  /\ Idle \in Job /\ Idle.step = "idle" /\ Idle.feed = None /\ Idle.url = None
BY DEF Idle, Job

LEMMA Initially == ASSUME FeedSyncAssumption, Init PROVE GInv
<1> USE Constant
<1>1. Good(Free)
  BY DEF Good, Free, Lock, Owner
<1>2. row \in [Feed -> RowRow]
  <2>1. PICK r : r = [status |-> "idle", due |-> 0, age |-> 0, recent |-> 0]
    OBVIOUS
  <2>2. r \in RowRow
    BY <2>1 DEF RowRow, Status
  <2> QED BY <2>1, <2>2 DEF Init
<1>3. /\ feedLock \in [Feed -> Lock] /\ \A f \in Feed : Good(feedLock[f])
      /\ urlLock \in [Url -> Lock] /\ \A u \in Url : Good(urlLock[u])
  BY <1>1 DEF Init, Good
<1>4. /\ job \in [Slot -> Job] /\ \A s \in Slot : job[s] = Idle
  BY IdleJob DEF Init
<1>5. /\ prefetched \in [Url -> 0..Cooldown] /\ delayed \in [Feed -> 0..Cooldown + 1]
      /\ asks \in 0..MaxAsks /\ crashes \in 0..MaxCrashes /\ stalls \in 0..MaxStalls
      /\ since \in [Url -> 0..Cooldown] /\ tooSoon \subseteq Url /\ asked \subseteq Feed
  BY DEF Init
<1>6. IInv
  BY <1>2, <1>3, <1>4, <1>5, IdleJob DEF IInv, TypeOK, RowRow, Status, Good, Right
<1>7. Guarding
  BY <1>4, IdleJob DEF Guarding, Guards
<1> QED BY <1>6, <1>7 DEF GInv

\* A job comes to a step, at a feed and its URL.
Moved(s, feed, url, step) ==
  /\ job' \in [Slot -> Job] /\ \A t \in Slot : job'[t].step = "idle" <=> job'[t] = Idle
  /\ \A t \in Slot : t # s => job'[t] = job[t]
  /\ \A t \in Slot : Right(t)'
  /\ job'[s].feed = feed /\ job'[s].url = url /\ job'[s].step = step

LEMMA Moves ==
  ASSUME IInv, NEW s \in Slot, NEW k \in Job, k.step = "idle" <=> k = Idle,
         k.feed # None => k.url = UrlOf[k.feed], k.feed = None => k.step \in {"idle", "begun"},
         k.step # "idle" => k.url # None,
         job' = [job EXCEPT ![s] = k]
  PROVE  Moved(s, k.feed, k.url, k.step)
<1>1. Kept
  BY Typed
<1>2. job' \in [Slot -> Job] /\ job'[s] = k /\ \A t \in Slot : t # s => job'[t] = job[t]
  BY <1>1 DEF Kept
<1>3. \A t \in Slot : job'[t].step = "idle" <=> job'[t] = Idle
  BY <1>1, <1>2 DEF Kept
<1>4. \A t \in Slot : Right(t)'
  BY <1>1, <1>2 DEF Kept, Right
<1> QED BY <1>2, <1>3, <1>4 DEF Moved

LEMMA GoesOn ==
  ASSUME IInv, NEW s \in Slot, NEW step \in JobSteps \ {"idle"}, job[s].feed # None,
         Goes(s, step)
  PROVE  Moved(s, job[s].feed, job[s].url, step)
<1>1. PICK j : j = job[s]
  OBVIOUS
<1>2. PICK k : k = [j EXCEPT !.step = step]
  OBVIOUS
<1>3. j \in Job /\ j.url = UrlOf[j.feed] /\ j.feed # None /\ j.url # None
  BY <1>1, Typed, Constant DEF Kept, Right, Job
<1>4. k \in Job /\ k.step = step /\ k.feed = j.feed /\ k.url = j.url
  BY <1>2, <1>3 DEF Job, JobSteps
<1>5. job' = [job EXCEPT ![s] = k]
  BY <1>1, <1>2 DEF Goes
<1>6. k.step # "idle" /\ k # Idle
  BY <1>4, IdleJob
<1>7. Moved(s, k.feed, k.url, k.step)
  BY <1>3, <1>4, <1>5, <1>6, Moves
<1> QED BY <1>1, <1>4, <1>7

LEMMA EndsNow ==
  ASSUME IInv, NEW s \in Slot, Ends(s)
  PROVE  Moved(s, None, None, "idle")
<1>1. PICK k : k = Idle
  OBVIOUS
<1>2. k \in Job /\ k.step = "idle" /\ k.feed = None /\ k.url = None
  BY <1>1, IdleJob
<1>3. job' = [job EXCEPT ![s] = k]
  BY <1>1 DEF Ends
<1>4. Moved(s, k.feed, k.url, k.step)
  BY <1>1, <1>2, <1>3, Moves
<1> QED BY <1>2, <1>4

LEMMA ComesTo ==
  ASSUME IInv, NEW s \in Slot, NEW f \in Feed,
         job' = [job EXCEPT ![s] = [Idle EXCEPT !.feed = f, !.url = UrlOf[f], !.step = "found"]]
  PROVE  Moved(s, f, UrlOf[f], "found")
<1>1. FeedSyncAssumption
  BY Typed
<1>2. PICK k : k = [Idle EXCEPT !.feed = f, !.url = UrlOf[f], !.step = "found"]
  OBVIOUS
<1>3. k \in Job /\ k.step = "found" /\ k.feed = f /\ k.url = UrlOf[f]
  BY <1>1, <1>2, Constant DEF Idle, Job
<1>4. job' = [job EXCEPT ![s] = k]
  BY <1>2
<1>5. k # Idle /\ k.feed # None /\ k.url # None
  BY <1>1, <1>3, IdleJob, Constant
<1>6. Moved(s, k.feed, k.url, k.step)
  BY <1>3, <1>4, <1>5, Moves
<1> QED BY <1>3, <1>6

\* What a step of one job leaves alone: the other jobs and their locks.
Leaves(s) ==
  /\ \A t \in Slot : t # s => job'[t] = job[t]
  /\ \A f \in Feed : feedLock[f].owner \in Slot \ {s} => feedLock'[f] = feedLock[f]
  /\ \A u \in Url : urlLock[u].owner \in Slot \ {s} => urlLock'[u] = urlLock[u]
  /\ \A u \in Url : urlLock'[u].ttl >= urlLock[u].ttl
  /\ UNCHANGED stalls

LEMMA GuardsKept ==
  ASSUME GInv, IInv', NEW s \in Slot, Leaves(s), Punctual => Guards(s)'
  PROVE  GInv'
<1>1. ASSUME NEW t \in Slot, t # s, Punctual PROVE Guards(t)'
  <2>1. job'[t] = job[t] /\ stalls' = stalls
    BY <1>1 DEF Leaves
  <2> SUFFICES ASSUME job[t].feed # None, job[t].step \in LockedSteps
               PROVE  /\ feedLock'[job[t].feed].owner = t
                      /\ feedLock'[job[t].feed].ttl + stalls >= Cooldown
    BY <2>1 DEF Guards
  <2>2. /\ feedLock[job[t].feed].owner = t
        /\ feedLock[job[t].feed].ttl + stalls >= Cooldown
    BY <1>1 DEF GInv, Guarding, Guards
  <2>3. job[t].feed \in Feed
    BY Typed DEF GInv, Kept, Job
  <2>4. feedLock'[job[t].feed] = feedLock[job[t].feed]
    BY <1>1, <2>2, <2>3 DEF Leaves
  <2> QED BY <2>2, <2>4
<1> QED BY <1>1 DEF GInv, Guarding

\* The job keeps its lock, or needs none.
LEMMA GuardsStay ==
  ASSUME GInv, NEW s \in Slot, NEW step, Moved(s, job[s].feed, job[s].url, step),
         job[s].step \in LockedSteps, UNCHANGED <<feedLock, stalls>>
  PROVE  Punctual => Guards(s)'
BY DEF GInv, Guarding, Guards, Moved

(***************************************************************************)
(* What the steps do.                                                      *)
(***************************************************************************)
\* A job of the worker, of a user or of the sorted set comes to a feed.
LEMMA ComingDoes ==
  ASSUME IInv, NEW p \in Process, NEW f \in Feed,
         \/ "scheduled" \in Kinds /\ FindDue(p, f)
         \/ "manual" \in Kinds /\ Manual(p, f)
         \/ "delayed" \in Kinds /\ PopDelayed(p, f)
  PROVE  /\ IInv' /\ UNCHANGED <<feedLock, urlLock, prefetched, stalls, since, tooSoon>>
         /\ \E s \in Slot : Moved(s, f, UrlOf[f], "found")
<1> USE Typed, Constant
<1>1. UNCHANGED <<row, feedLock, urlLock, prefetched, crashes, stalls, since, tooSoon, asked>>
  BY DEF FindDue, Manual, PopDelayed, locks, bounds
<1>2. PICK s \in Slot :
        job' = [job EXCEPT ![s] = [Idle EXCEPT !.feed = f, !.url = UrlOf[f], !.step = "found"]]
  BY DEF FindDue, Manual, PopDelayed, Slot
<1>3. Moved(s, f, UrlOf[f], "found")
  BY <1>2, ComesTo
<1>4. asks' \in 0..MaxAsks
  BY DEF FindDue, Manual, PopDelayed, bounds, Kept
<1>5. delayed' \in [Feed -> 0..Cooldown + 1]
  BY DEF FindDue, Manual, PopDelayed, Kept
<1>6. Kept'
  BY <1>1, <1>3, <1>4, <1>5 DEF Kept, Moved
<1> QED BY <1>1, <1>3, <1>6, KeptIsIInv

\* A lock that has run out belongs to nobody.
LEMMA LockTaken ==
  ASSUME IInv, NEW s \in Slot, NEW u \in Url, urlLock[u].ttl = 0,
         urlLock' = [urlLock EXCEPT ![u] = [owner |-> s, ttl |-> Cooldown]]
  PROVE  /\ urlLock' \in [Url -> Lock] /\ \A v \in Url : Good(urlLock'[v])
         /\ urlLock'[u].owner = s /\ urlLock'[u].ttl = Cooldown
         /\ \A v \in Url : /\ urlLock[v].owner \in Slot \ {s} => urlLock'[v] = urlLock[v]
                           /\ urlLock'[v].ttl >= urlLock[v].ttl
<1> USE Typed, Constant
<1>1. Good(urlLock[u]) /\ urlLock[u].owner = None
  <2>1. Good(urlLock[u])
    BY DEF Kept
  <2> QED BY <2>1, Locks
<1>2. PICK k : k = [owner |-> s, ttl |-> Cooldown]
  OBVIOUS
<1>3. Good(k) /\ k.owner = s /\ k.ttl = Cooldown /\ k \in Lock
  BY <1>1, <1>2, Locks DEF Good
<1>4. urlLock'[u] = k /\ \A v \in Url : v # u => urlLock'[v] = urlLock[v]
  BY <1>2 DEF Kept
<1>5. urlLock' \in [Url -> Lock] /\ \A v \in Url : Good(urlLock'[v])
  BY <1>2, <1>3, <1>4 DEF Kept
<1>6. \A v \in Url : urlLock[v].ttl \in Nat
  BY DEF Kept, Lock
<1> QED BY <1>1, <1>3, <1>4, <1>5, <1>6

LEMMA PreviewDoes ==
  ASSUME GInv, NEW p \in Process, NEW u \in Url, "preview" \in Kinds, Preview(p, u)
  PROVE  /\ GInv' /\ UNCHANGED <<prefetched, since, tooSoon>>
         /\ \E s \in Slot : /\ Moved(s, None, u, "begun") /\ Leaves(s) /\ urlLock[u].ttl = 0
                            /\ urlLock'[u].owner = s /\ urlLock'[u].ttl = Cooldown
<1>1. IInv /\ Kept /\ FeedSyncAssumption
  BY Typed DEF GInv
<1> USE <1>1, Constant
<1>2. PICK s \in Slot : s = <<p, "preview">>
  BY DEF Slot
<1>3. /\ UNCHANGED <<row, feedLock, prefetched, delayed, crashes, stalls, since, tooSoon, asked>>
      /\ asks' \in 0..MaxAsks /\ urlLock[u].ttl = 0
      /\ urlLock' = [urlLock EXCEPT ![u] = [owner |-> s, ttl |-> Cooldown]]
  BY <1>2 DEF Preview, Kept
<1>4. PICK k : k = [Idle EXCEPT !.url = u, !.step = "begun"]
  OBVIOUS
<1>5. k \in Job /\ k.step = "begun" /\ k.feed = None /\ k.url = u /\ k # Idle /\ u # None
  BY <1>4 DEF Idle, Job
<1>6. job' = [job EXCEPT ![s] = k]
  BY <1>2, <1>4 DEF Preview
<1>7. Moved(s, k.feed, k.url, k.step)
  BY <1>5, <1>6, Moves
<1>8. Moved(s, None, u, "begun")
  BY <1>5, <1>7
<1>9. /\ urlLock' \in [Url -> Lock] /\ \A v \in Url : Good(urlLock'[v])
      /\ urlLock'[u].owner = s /\ urlLock'[u].ttl = Cooldown
      /\ \A v \in Url : /\ urlLock[v].owner \in Slot \ {s} => urlLock'[v] = urlLock[v]
                        /\ urlLock'[v].ttl >= urlLock[v].ttl
  BY <1>3, LockTaken
<1>10. Leaves(s)
  BY <1>3, <1>8, <1>9 DEF Leaves, Moved
<1>11. IInv'
  <2>1. Kept'
    BY <1>3, <1>8, <1>9 DEF Kept, Moved
  <2> QED BY <2>1, KeptIsIInv
<1>12. Guards(s)'
  BY <1>8 DEF Guards, Moved
<1> QED BY <1>3, <1>8, <1>9, <1>10, <1>11, <1>12, GuardsKept

LEMMA PutOffDoes ==
  ASSUME IInv, NEW s \in Slot, job[s].feed \in Feed, PutOff(s)
  PROVE  /\ Moved(s, None, None, "idle") /\ delayed' \in [Feed -> 0..Cooldown + 1]
         /\ asked' \subseteq Feed
<1> USE Typed, Constant
<1>1. Moved(s, None, None, "idle")
  BY EndsNow DEF PutOff
<1>2. job[s].url \in Url
  <2>1. job[s].url = UrlOf[job[s].feed]
    BY DEF Kept, Right
  <2> QED BY <2>1
<1>3. PICK left \in 0..Cooldown : left = urlLock[job[s].url].ttl
  BY <1>2 DEF Kept, Lock
<1>4. 1 + (IF left > 0 THEN left ELSE Cooldown) \in 0..Cooldown + 1
  OBVIOUS
<1>5. delayed' \in [Feed -> 0..Cooldown + 1]
  BY <1>3, <1>4 DEF PutOff, Kept
<1>6. asked' \subseteq Feed
  BY DEF PutOff, Kept
<1> QED BY <1>1, <1>5, <1>6

LEMMA FeedAt ==
  ASSUME IInv, NEW s \in Slot,
         job[s].feed # None \/ job[s].step \in JobSteps \ {"idle", "begun"}
  PROVE  /\ job[s].feed \in Feed /\ job[s].url \in Url /\ job[s].url = UrlOf[job[s].feed]
         /\ job[s].feed # None
BY Typed, Constant DEF Kept, Right, Job

LEMMA LockFeedDoes ==
  ASSUME GInv, NEW s \in Slot, LockFeed(s)
  PROVE  /\ GInv' /\ Leaves(s) /\ UNCHANGED <<urlLock, prefetched, since, tooSoon>>
         /\ Moved(s, None, None, "idle") \/ Moved(s, job[s].feed, job[s].url, "guarded")
<1>1. IInv /\ Kept /\ FeedSyncAssumption
  BY Typed DEF GInv
<1> USE <1>1, Constant
<1>2. /\ UNCHANGED <<row, urlLock, prefetched, asks, crashes, stalls, since, tooSoon>>
      /\ job[s].step = "found"
  BY DEF LockFeed, bounds
<1>3. PICK f \in Feed : f = job[s].feed
  BY <1>2, FeedAt DEF JobSteps
<1>4. Good(feedLock[f]) /\ stalls \in 0..MaxStalls /\ f # None
  BY DEF Kept
<1>5. \A u \in Url : urlLock'[u].ttl >= urlLock[u].ttl
  BY <1>2 DEF Kept, Lock
<1>6. CASE /\ feedLock[f].ttl = 0 /\ Goes(s, "guarded") /\ UNCHANGED <<delayed, asked>>
           /\ feedLock' = [feedLock EXCEPT ![f] = [owner |-> s, ttl |-> Cooldown]]
  <2>1. Moved(s, job[s].feed, job[s].url, "guarded")
    BY <1>3, <1>4, <1>6, GoesOn DEF JobSteps
  <2>2. PICK k : k = [owner |-> s, ttl |-> Cooldown]
    OBVIOUS
  <2>3. Good(k) /\ k \in Lock /\ k.owner = s /\ k.ttl = Cooldown
    BY <1>4, <2>2, Locks DEF Good
  <2>4. feedLock[f].owner = None
    BY <1>4, <1>6, Locks
  <2>5. feedLock'[f] = k /\ \A g \in Feed : g # f => feedLock'[g] = feedLock[g]
    BY <1>6, <2>2 DEF Kept
  <2>6. feedLock' \in [Feed -> Lock] /\ \A g \in Feed : Good(feedLock'[g])
    BY <1>6, <2>2, <2>3, <2>5 DEF Kept
  <2>7. Kept'
    BY <1>2, <1>6, <2>1, <2>6 DEF Kept, Moved
  <2>8. Leaves(s)
    BY <1>2, <1>5, <2>1, <2>4, <2>5 DEF Leaves, Moved
  <2>9. Guards(s)'
    BY <1>2, <1>3, <1>4, <2>1, <2>3, <2>5 DEF Guards, Moved
  <2> QED BY <1>2, <2>1, <2>7, <2>8, <2>9, KeptIsIInv, GuardsKept
<1>7. CASE PutOff(s) /\ UNCHANGED feedLock
  <2>1. /\ Moved(s, None, None, "idle") /\ delayed' \in [Feed -> 0..Cooldown + 1]
        /\ asked' \subseteq Feed
    BY <1>3, <1>7, PutOffDoes
  <2>2. Kept'
    BY <1>2, <1>7, <2>1 DEF Kept, Moved
  <2>3. Leaves(s) /\ Guards(s)'
    BY <1>2, <1>5, <1>7, <2>1 DEF Leaves, Guards, Moved
  <2> QED BY <1>2, <2>1, <2>2, <2>3, KeptIsIInv, GuardsKept
<1> QED BY <1>3, <1>6, <1>7 DEF LockFeed

LEMMA FeedUnlocked ==
  ASSUME IInv, NEW s \in Slot, NEW f \in Feed, Unlocked(f, s)
  PROVE  /\ feedLock' \in [Feed -> Lock] /\ \A g \in Feed : Good(feedLock'[g])
         /\ \A g \in Feed : feedLock[g].owner \in Slot \ {s} => feedLock'[g] = feedLock[g]
<1> USE Typed
<1>1. PICK k : k = Free
  OBVIOUS
<1>2. Good(k) /\ k \in Lock
  <2>1. Good(feedLock[f])
    BY DEF Kept
  <2> QED BY <1>1, <2>1, Locks DEF Good
<1>3. feedLock' = IF feedLock[f].owner = s THEN [feedLock EXCEPT ![f] = k] ELSE feedLock
  BY <1>1 DEF Unlocked, Owns
<1> QED BY <1>2, <1>3 DEF Kept

LEMMA UrlReleased ==
  ASSUME IInv, NEW s \in Slot, NEW u \in Url,
         urlLock' = IF Owns(urlLock[u], s) THEN [urlLock EXCEPT ![u] = CoolingDown] ELSE urlLock
  PROVE  /\ urlLock' \in [Url -> Lock] /\ \A v \in Url : Good(urlLock'[v])
         /\ \A v \in Url : /\ urlLock[v].owner \in Slot \ {s} => urlLock'[v] = urlLock[v]
                           /\ urlLock'[v].ttl >= urlLock[v].ttl
<1> USE Typed, Constant
<1>1. PICK k : k = CoolingDown
  OBVIOUS
<1>2. Good(k) /\ k \in Lock /\ k.ttl = Cooldown
  <2>1. Good(urlLock[u])
    BY DEF Kept
  <2> QED BY <1>1, <2>1, Locks DEF Good
<1>3. urlLock' = IF urlLock[u].owner = s THEN [urlLock EXCEPT ![u] = k] ELSE urlLock
  BY <1>1 DEF Owns
<1>4. \A v \in Url : urlLock[v].ttl \in 0..Cooldown
  BY DEF Kept, Lock
<1> QED BY <1>2, <1>3, <1>4 DEF Kept

LEMMA LockUrlDoes ==
  ASSUME GInv, NEW s \in Slot, LockUrl(s)
  PROVE  /\ GInv' /\ Leaves(s) /\ UNCHANGED <<prefetched, since, tooSoon>>
         /\ \/ Moved(s, None, None, "idle")
            \/ /\ Moved(s, job[s].feed, job[s].url, "ready") /\ job[s].feed # None
               /\ \/ prefetched[job[s].url] > 0
                  \/ /\ urlLock[job[s].url].ttl = 0
                     /\ urlLock'[job[s].url].owner = s /\ urlLock'[job[s].url].ttl = Cooldown
<1>1. IInv /\ Kept /\ FeedSyncAssumption
  BY Typed DEF GInv
<1> USE <1>1, Constant
<1>2. /\ UNCHANGED <<row, prefetched, asks, crashes, stalls, since, tooSoon>>
      /\ job[s].step = "guarded"
  BY DEF LockUrl, bounds
<1>3. PICK f \in Feed, u \in Url : f = job[s].feed /\ u = job[s].url
  BY <1>2, FeedAt DEF JobSteps
<1>4. f # None /\ "ready" \in JobSteps \ {"idle"}
  BY DEF JobSteps
<1>5. \A v \in Url : urlLock[v].ttl \in 0..Cooldown
  BY DEF Kept, Lock
<1>6. CASE /\ prefetched[u] > 0 /\ Goes(s, "ready")
           /\ UNCHANGED <<feedLock, urlLock, delayed, asked>>
  <2>1. Moved(s, job[s].feed, job[s].url, "ready")
    BY <1>3, <1>4, <1>6, GoesOn
  <2>2. Kept'
    BY <1>2, <1>6, <2>1 DEF Kept, Moved
  <2>3. Leaves(s)
    BY <1>2, <1>5, <1>6, <2>1 DEF Leaves, Moved
  <2>4. Punctual => Guards(s)'
    BY <1>2, <1>6, <2>1, GuardsStay DEF LockedSteps
  <2> QED BY <1>2, <1>3, <1>4, <1>6, <2>1, <2>2, <2>3, <2>4, KeptIsIInv, GuardsKept
<1>7. CASE /\ urlLock[u].ttl = 0 /\ Goes(s, "ready") /\ UNCHANGED <<feedLock, delayed, asked>>
           /\ urlLock' = [urlLock EXCEPT ![u] = [owner |-> s, ttl |-> Cooldown]]
  <2>1. Moved(s, job[s].feed, job[s].url, "ready")
    BY <1>3, <1>4, <1>7, GoesOn
  <2>2. /\ urlLock' \in [Url -> Lock] /\ \A v \in Url : Good(urlLock'[v])
        /\ urlLock'[u].owner = s /\ urlLock'[u].ttl = Cooldown
        /\ \A v \in Url : /\ urlLock[v].owner \in Slot \ {s} => urlLock'[v] = urlLock[v]
                          /\ urlLock'[v].ttl >= urlLock[v].ttl
    BY <1>7, LockTaken
  <2>3. Kept'
    BY <1>2, <1>7, <2>1, <2>2 DEF Kept, Moved
  <2>4. Leaves(s)
    BY <1>2, <1>7, <2>1, <2>2 DEF Leaves, Moved
  <2>5. Punctual => Guards(s)'
    BY <1>2, <1>7, <2>1, GuardsStay DEF LockedSteps
  <2> QED BY <1>2, <1>3, <1>4, <1>7, <2>1, <2>2, <2>3, <2>4, <2>5, KeptIsIInv, GuardsKept
<1>8. CASE Unlocked(f, s) /\ PutOff(s) /\ UNCHANGED urlLock
  <2>1. /\ Moved(s, None, None, "idle") /\ delayed' \in [Feed -> 0..Cooldown + 1]
        /\ asked' \subseteq Feed
    BY <1>3, <1>8, PutOffDoes
  <2>2. /\ feedLock' \in [Feed -> Lock] /\ \A g \in Feed : Good(feedLock'[g])
        /\ \A g \in Feed : feedLock[g].owner \in Slot \ {s} => feedLock'[g] = feedLock[g]
    BY <1>8, FeedUnlocked
  <2>3. Kept'
    BY <1>2, <1>8, <2>1, <2>2 DEF Kept, Moved
  <2>4. Leaves(s) /\ Guards(s)'
    BY <1>2, <1>5, <1>8, <2>1, <2>2 DEF Leaves, Guards, Moved
  <2> QED BY <1>2, <2>1, <2>3, <2>4, KeptIsIInv, GuardsKept
<1> QED BY <1>3, <1>6, <1>7, <1>8 DEF LockUrl, Available, locks

\* The heartbeats of a job that threw go on in the name of its process.
LEMMA LeakDoes ==
  ASSUME GInv, NEW s \in Slot, Leak(s)
  PROVE  /\ GInv' /\ Leaves(s) /\ UNCHANGED <<prefetched, since, tooSoon>>
         /\ Moved(s, None, None, "idle")
<1>1. IInv /\ Kept /\ FeedSyncAssumption
  BY Typed DEF GInv
<1> USE <1>1, Constant
<1>2. /\ UNCHANGED <<row, prefetched, asks, crashes, stalls, since, tooSoon, asked>>
      /\ job[s].step = "ready" /\ Ends(s)
  BY DEF Leak, bounds
<1>3. PICK f \in Feed, u \in Url : f = job[s].feed /\ u = job[s].url
  BY <1>2, FeedAt DEF JobSteps
<1>4. Moved(s, None, None, "idle")
  BY <1>2, EndsNow
<1>5. PICK p \in Process : p = s[1]
  BY SlotParts
<1>6. /\ feedLock' \in [Feed -> Lock] /\ \A g \in Feed : Good(feedLock'[g])
      /\ \A g \in Feed : feedLock[g].owner \in Slot \ {s} => feedLock'[g] = feedLock[g]
  <2>1. PICK k : k = feedLock[f]
    OBVIOUS
  <2>2. PICK l : l = [k EXCEPT !.owner = p]
    OBVIOUS
  <2>3. Good(k)
    BY <2>1 DEF Kept
  <2>4. k.owner = s => Good(l) /\ l \in Lock
    BY <2>2, <2>3, Locks DEF Good
  <2>5. feedLock' = IF k.owner = s THEN [feedLock EXCEPT ![f] = l] ELSE feedLock
    BY <1>3, <1>5, <2>1, <2>2 DEF Leak, Owns
  <2> QED BY <2>1, <2>4, <2>5 DEF Kept
<1>7. /\ urlLock' \in [Url -> Lock] /\ \A v \in Url : Good(urlLock'[v])
      /\ \A v \in Url : /\ urlLock[v].owner \in Slot \ {s} => urlLock'[v] = urlLock[v]
                        /\ urlLock'[v].ttl >= urlLock[v].ttl
  <2>1. PICK k : k = urlLock[u]
    OBVIOUS
  <2>2. PICK l : l = [k EXCEPT !.owner = p]
    OBVIOUS
  <2>3. Good(k)
    BY <2>1 DEF Kept
  <2>4. k.owner = s => Good(l) /\ l \in Lock /\ l.ttl = k.ttl
    BY <2>2, <2>3, Locks DEF Good
  <2>5. urlLock' = IF k.owner = s THEN [urlLock EXCEPT ![u] = l] ELSE urlLock
    BY <1>3, <1>5, <2>1, <2>2 DEF Leak, Owns
  <2>6. \A v \in Url : urlLock[v].ttl \in 0..Cooldown
    BY DEF Kept, Lock
  <2> QED BY <2>1, <2>4, <2>5, <2>6 DEF Kept
<1>8. delayed' \in [Feed -> 0..Cooldown + 1]
  <2>1. delayed' = IF s[2] = "delayed" THEN [delayed EXCEPT ![f] = 0] ELSE delayed
    BY <1>3 DEF Leak
  <2>2. delayed \in [Feed -> 0..Cooldown + 1] /\ 0 \in 0..Cooldown + 1
    BY DEF Kept
  <2> QED BY <2>1, <2>2
<1>9. Kept'
  BY <1>2, <1>4, <1>6, <1>7, <1>8 DEF Kept, Moved
<1>10. Leaves(s) /\ Guards(s)'
  BY <1>2, <1>4, <1>6, <1>7 DEF Leaves, Guards, Moved
<1> QED BY <1>2, <1>4, <1>9, <1>10, KeptIsIInv, GuardsKept

LEMMA BeginDoes ==
  ASSUME GInv, NEW s \in Slot, Begin(s)
  PROVE  /\ GInv' /\ Leaves(s) /\ UNCHANGED <<urlLock, prefetched, since, tooSoon>>
         /\ job[s].step = "ready" /\ Moved(s, job[s].feed, job[s].url, "begun")
<1>1. IInv /\ Kept /\ FeedSyncAssumption
  BY Typed DEF GInv
<1> USE <1>1, Constant
<1>2. /\ UNCHANGED <<feedLock, urlLock, prefetched, delayed, asks, crashes, stalls, since,
                     tooSoon, asked>>
      /\ job[s].step = "ready" /\ Goes(s, "begun")
  BY DEF Begin, bounds, locks
<1>3. PICK f \in Feed : f = job[s].feed /\ f # None
  BY <1>2, FeedAt DEF JobSteps
<1>4. Moved(s, job[s].feed, job[s].url, "begun")
  BY <1>2, <1>3, GoesOn DEF JobSteps
<1>5. row' \in [Feed -> RowRow]
  <2>1. PICK r : r = row[f]
    OBVIOUS
  <2>2. PICK k : k = [r EXCEPT !.status = "syncing", !.age = 0]
    OBVIOUS
  <2>3. r \in RowRow /\ "syncing" \in Status /\ 0 \in 0..Stale + 1
    BY <2>1 DEF Kept, Status
  <2>4. k \in RowRow
    BY <2>2, <2>3 DEF RowRow
  <2>5. row' = [row EXCEPT ![f] = k]
    BY <1>3, <2>1, <2>2 DEF Begin
  <2> QED BY <2>4, <2>5 DEF Kept
<1>6. Kept'
  BY <1>2, <1>4, <1>5 DEF Kept, Moved
<1>7. Leaves(s)
  BY <1>2, <1>4 DEF Leaves, Moved, Kept, Lock
<1>8. Punctual => Guards(s)'
  BY <1>2, <1>4, GuardsStay DEF LockedSteps
<1> QED BY <1>2, <1>4, <1>6, <1>7, <1>8, KeptIsIInv, GuardsKept

LEMMA RequestsDoes ==
  ASSUME IInv, NEW u \in Url, Requests(u)
  PROVE  /\ since' \in [Url -> 0..Cooldown] /\ tooSoon' \subseteq Url
         /\ since'[u] = 0 /\ \A v \in Url : v # u => since'[v] = since[v]
         /\ since[u] = Cooldown => tooSoon' = tooSoon
<1> USE Typed, Constant
<1>1. since \in [Url -> 0..Cooldown] /\ tooSoon \subseteq Url /\ 0 \in 0..Cooldown
  BY DEF Kept
<1>2. since' = [since EXCEPT ![u] = 0]
  BY DEF Requests
<1>3. tooSoon' = IF since[u] < Cooldown THEN tooSoon \cup {u} ELSE tooSoon
  BY DEF Requests
<1> QED BY <1>1, <1>2, <1>3

LEMMA FetchDoes ==
  ASSUME GInv, NEW s \in Slot, Fetch(s)
  PROVE  /\ GInv' /\ Leaves(s) /\ UNCHANGED urlLock
         /\ job[s].step = "begun" /\ job[s].feed \in Feed /\ job[s].url \in Url
         /\ job[s].url = UrlOf[job[s].feed]
         /\ \E step \in {"fetched", "failed"} : Moved(s, job[s].feed, job[s].url, step)
         /\ \/ /\ prefetched[job[s].url] > 0 /\ UNCHANGED <<since, tooSoon>>
               /\ \A v \in Url : v # job[s].url => prefetched'[v] = prefetched[v]
            \/ /\ prefetched[job[s].url] = 0 /\ Requests(job[s].url) /\ UNCHANGED prefetched
<1>1. IInv /\ Kept /\ FeedSyncAssumption
  BY Typed DEF GInv
<1> USE <1>1, Constant
<1>2. /\ UNCHANGED <<row, feedLock, urlLock, delayed, asks, crashes, stalls>>
      /\ job[s].step = "begun" /\ job[s].feed # None
  BY DEF Fetch, bounds, locks
<1>3. PICK f \in Feed, u \in Url : f = job[s].feed /\ u = job[s].url /\ u = UrlOf[f]
  BY <1>2, FeedAt
<1>4. PICK step \in {"fetched", "failed"} : Goes(s, step)
  BY DEF Fetch
<1>5. Moved(s, job[s].feed, job[s].url, step)
  BY <1>2, <1>4, GoesOn DEF JobSteps
<1>6. asked' \subseteq Feed
  BY DEF Fetch, Kept
<1>7. CASE /\ prefetched[u] > 0 /\ prefetched' = [prefetched EXCEPT ![u] = 0]
           /\ UNCHANGED <<since, tooSoon>>
  <2>1. /\ prefetched' \in [Url -> 0..Cooldown]
        /\ \A v \in Url : v # u => prefetched'[v] = prefetched[v]
    BY <1>7 DEF Kept
  <2>2. Kept'
    BY <1>2, <1>5, <1>6, <1>7, <2>1 DEF Kept, Moved
  <2>3. Leaves(s)
    BY <1>2, <1>5 DEF Leaves, Moved, Kept, Lock
  <2>4. Punctual => Guards(s)'
    BY <1>2, <1>5, GuardsStay DEF LockedSteps
  <2> QED BY <1>2, <1>3, <1>5, <1>7, <2>1, <2>2, <2>3, <2>4, KeptIsIInv, GuardsKept
<1>8. CASE prefetched[u] = 0 /\ Requests(u) /\ UNCHANGED prefetched
  <2>1. since' \in [Url -> 0..Cooldown] /\ tooSoon' \subseteq Url
    BY <1>8, RequestsDoes
  <2>2. Kept'
    BY <1>2, <1>5, <1>6, <1>8, <2>1 DEF Kept, Moved
  <2>3. Leaves(s)
    BY <1>2, <1>5 DEF Leaves, Moved, Kept, Lock
  <2>4. Punctual => Guards(s)'
    BY <1>2, <1>5, GuardsStay DEF LockedSteps
  <2> QED BY <1>2, <1>3, <1>5, <1>8, <2>2, <2>3, <2>4, KeptIsIInv, GuardsKept
<1> QED BY <1>3, <1>7, <1>8 DEF Fetch

LEMMA FetchPreviewDoes ==
  ASSUME GInv, NEW s \in Slot, FetchPreview(s)
  PROVE  /\ GInv' /\ Leaves(s) /\ Moved(s, None, None, "idle")
         /\ job[s].step = "begun" /\ job[s].feed = None /\ job[s].url \in Url
         /\ Requests(job[s].url)
         /\ \A v \in Url : prefetched[v] > 0 => prefetched'[v] > 0
         /\ urlLock[job[s].url].owner = s => urlLock'[job[s].url].ttl = Cooldown
<1>1. IInv /\ Kept /\ FeedSyncAssumption
  BY Typed DEF GInv
<1> USE <1>1, Constant
<1>2. /\ UNCHANGED <<row, feedLock, delayed, asks, crashes, stalls, asked>>
      /\ job[s].step = "begun" /\ job[s].feed = None /\ Ends(s)
  BY DEF FetchPreview, bounds
<1>3. PICK u \in Url : u = job[s].url
  BY <1>2 DEF Kept, Right, Job
<1>4. Moved(s, None, None, "idle")
  BY <1>2, EndsNow
<1>5. Requests(u)
  BY <1>3 DEF FetchPreview
<1>6. since' \in [Url -> 0..Cooldown] /\ tooSoon' \subseteq Url
  BY <1>5, RequestsDoes
<1>7. /\ prefetched' \in [Url -> 0..Cooldown]
      /\ \A v \in Url : prefetched[v] > 0 => prefetched'[v] > 0
  <2>1. prefetched' = prefetched \/ prefetched' = [prefetched EXCEPT ![u] = Cooldown]
    BY <1>3 DEF FetchPreview
  <2>2. prefetched \in [Url -> 0..Cooldown] /\ Cooldown \in 0..Cooldown /\ Cooldown > 0
    BY DEF Kept
  <2> QED BY <2>1, <2>2
<1>8. urlLock' = IF Owns(urlLock[u], s) THEN [urlLock EXCEPT ![u] = CoolingDown] ELSE urlLock
  BY <1>3 DEF FetchPreview
<1>9. /\ urlLock' \in [Url -> Lock] /\ \A v \in Url : Good(urlLock'[v])
      /\ \A v \in Url : /\ urlLock[v].owner \in Slot \ {s} => urlLock'[v] = urlLock[v]
                        /\ urlLock'[v].ttl >= urlLock[v].ttl
  BY <1>8, UrlReleased
<1>10. urlLock[u].owner = s => urlLock'[u].ttl = Cooldown
  BY <1>8 DEF Owns, CoolingDown, Kept
<1>11. Kept'
  BY <1>2, <1>4, <1>6, <1>7, <1>9 DEF Kept, Moved
<1>12. Leaves(s) /\ Guards(s)'
  BY <1>2, <1>4, <1>9 DEF Leaves, Guards, Moved
<1> QED BY <1>2, <1>3, <1>4, <1>5, <1>7, <1>10, <1>11, <1>12, KeptIsIInv, GuardsKept

LEMMA PersistThrowsDoes ==
  ASSUME GInv, NEW s \in Slot, PersistThrows(s)
  PROVE  /\ GInv' /\ Leaves(s) /\ UNCHANGED <<urlLock, prefetched, since, tooSoon>>
         /\ Moved(s, job[s].feed, job[s].url, "failed")
<1>1. IInv /\ Kept /\ FeedSyncAssumption
  BY Typed DEF GInv
<1> USE <1>1, Constant
<1>2. /\ UNCHANGED <<row, feedLock, urlLock, prefetched, delayed, asks, crashes, stalls, since,
                     tooSoon, asked>>
      /\ job[s].step = "fetched" /\ Goes(s, "failed")
  BY DEF PersistThrows, bounds, locks
<1>3. Moved(s, job[s].feed, job[s].url, "failed")
  BY <1>2, FeedAt, GoesOn DEF JobSteps
<1>4. Kept'
  BY <1>2, <1>3 DEF Kept, Moved
<1>5. Leaves(s)
  BY <1>2, <1>3 DEF Leaves, Moved, Kept, Lock
<1>6. Punctual => Guards(s)'
  BY <1>2, <1>3, GuardsStay DEF LockedSteps
<1> QED BY <1>2, <1>3, <1>4, <1>5, <1>6, KeptIsIInv, GuardsKept

LEMMA FinishDoes ==
  ASSUME GInv, NEW s \in Slot, Finish(s)
  PROVE  /\ GInv' /\ Leaves(s) /\ UNCHANGED <<prefetched, since, tooSoon>>
         /\ Moved(s, None, None, "idle")
<1>1. IInv /\ Kept /\ FeedSyncAssumption
  BY Typed DEF GInv
<1> USE <1>1, Constant
<1>2. /\ UNCHANGED <<prefetched, asks, crashes, stalls, since, tooSoon, asked>>
      /\ job[s].step \in {"fetched", "failed"} /\ Ends(s)
  BY DEF Finish, Settled, bounds
<1>3. PICK f \in Feed, u \in Url : f = job[s].feed /\ u = job[s].url
  BY <1>2, FeedAt DEF JobSteps
<1>4. Moved(s, None, None, "idle")
  BY <1>2, EndsNow
<1>5. row' \in [Feed -> RowRow]
  <2>1. row \in [Feed -> RowRow] /\ {"idle", "error"} \subseteq Status /\ 0 \in 0..Stale + 1
        /\ Cooldown \in 0..Cooldown /\ Poll \in 0..MaxDue
    BY DEF Kept, Status
  <2>2. CASE row' = [row EXCEPT ![f] = [status |-> "idle", due |-> Poll, age |-> 0,
                                        recent |-> Cooldown]]
    <3>1. PICK k : k = [status |-> "idle", due |-> Poll, age |-> 0, recent |-> Cooldown]
      OBVIOUS
    <3>2. k \in RowRow
      BY <2>1, <3>1 DEF RowRow
    <3> QED BY <2>1, <2>2, <3>1, <3>2
  <2>3. ASSUME NEW due \in 1..MaxRetry,
               row' = [row EXCEPT ![f] = [@ EXCEPT !.status = "error", !.due = due, !.age = 0]]
        PROVE  row' \in [Feed -> RowRow]
    <3>1. PICK r : r = row[f]
      OBVIOUS
    <3>2. PICK k : k = [r EXCEPT !.status = "error", !.due = due, !.age = 0]
      OBVIOUS
    <3>3. r \in RowRow /\ due \in 0..MaxDue
      BY <2>1, <3>1
    <3>4. k \in RowRow
      BY <2>1, <3>2, <3>3 DEF RowRow
    <3>5. row' = [row EXCEPT ![f] = k]
      BY <2>3, <3>1, <3>2
    <3> QED BY <2>1, <3>4, <3>5
  <2>4. Settled(s)
    BY DEF Finish
  <2> QED BY <1>3, <2>1, <2>2, <2>3, <2>4 DEF Settled
<1>6. /\ feedLock' \in [Feed -> Lock] /\ \A g \in Feed : Good(feedLock'[g])
      /\ \A g \in Feed : feedLock[g].owner \in Slot \ {s} => feedLock'[g] = feedLock[g]
  BY <1>3, FeedUnlocked DEF Finish, Released
<1>7. urlLock' = IF Owns(urlLock[u], s) THEN [urlLock EXCEPT ![u] = CoolingDown] ELSE urlLock
  BY <1>3 DEF Finish, Released
<1>8. /\ urlLock' \in [Url -> Lock] /\ \A v \in Url : Good(urlLock'[v])
      /\ \A v \in Url : /\ urlLock[v].owner \in Slot \ {s} => urlLock'[v] = urlLock[v]
                        /\ urlLock'[v].ttl >= urlLock[v].ttl
  BY <1>7, UrlReleased
<1>9. delayed' \in [Feed -> 0..Cooldown + 1]
  <2>1. delayed' = IF s[2] = "delayed" THEN [delayed EXCEPT ![f] = 0] ELSE delayed
    BY <1>3 DEF Finish
  <2>2. delayed \in [Feed -> 0..Cooldown + 1] /\ 0 \in 0..Cooldown + 1
    BY DEF Kept
  <2> QED BY <2>1, <2>2
<1>10. Kept'
  BY <1>2, <1>4, <1>5, <1>6, <1>8, <1>9 DEF Kept, Moved
<1>11. Leaves(s) /\ Guards(s)'
  BY <1>2, <1>4, <1>6, <1>8 DEF Leaves, Guards, Moved
<1> QED BY <1>2, <1>4, <1>10, <1>11, KeptIsIInv, GuardsKept

LEMMA ResetStaleDoes ==
  ASSUME GInv, ResetStale
  PROVE  GInv' /\ UNCHANGED <<job, urlLock, prefetched, since, tooSoon>>
<1>1. IInv /\ Kept /\ FeedSyncAssumption
  BY Typed DEF GInv
<1> USE <1>1, Constant
<1>2. UNCHANGED <<feedLock, urlLock, prefetched, delayed, job, asks, crashes, stalls, since,
                  tooSoon, asked>>
  BY DEF ResetStale, bounds, locks
<1>3. ASSUME NEW f \in Feed
      PROVE  [row[f] EXCEPT !.status = "error", !.due = 0, !.age = 0] \in RowRow
  <2>1. PICK r : r = row[f]
    OBVIOUS
  <2>2. PICK k : k = [r EXCEPT !.status = "error", !.due = 0, !.age = 0]
    OBVIOUS
  <2>3. r \in RowRow /\ "error" \in Status /\ 0 \in 0..Stale + 1 /\ 0 \in 0..MaxDue
    BY <2>1 DEF Kept, Status
  <2>4. k \in RowRow
    BY <2>2, <2>3 DEF RowRow
  <2> QED BY <2>1, <2>2, <2>4
<1>4. row' \in [Feed -> RowRow]
  BY <1>3 DEF ResetStale, Kept
<1>5. Kept'
  BY <1>2, <1>4 DEF Kept, Right
<1>6. Guarding => Guarding'
  BY <1>2 DEF Guarding, Guards
<1> QED BY <1>2, <1>5, <1>6, KeptIsIInv DEF GInv

\* Each lock is renewed, or a tick older.
LEMMA TickDoes ==
  ASSUME GInv, NEW stalled \in BOOLEAN, Tick(stalled)
  PROVE  /\ GInv' /\ UNCHANGED <<job, tooSoon>>
         /\ \A s \in Slot : job[s].step \notin Brief
         /\ \A u \in Url : /\ urlLock'[u].ttl + 1 >= urlLock[u].ttl
                           /\ since'[u] = IF since[u] < Cooldown THEN since[u] + 1 ELSE since[u]
<1>1. IInv /\ Kept /\ FeedSyncAssumption
  BY Typed DEF GInv
<1> USE <1>1, Constant
<1>2. UNCHANGED <<job, asks, crashes, tooSoon, asked>> /\ \A s \in Slot : job[s].step \notin Brief
  BY DEF Tick
<1>3. stalls' \in 0..MaxStalls /\ (stalled => stalls < MaxStalls /\ stalls' = stalls + 1)
      /\ (~stalled => stalls' = stalls)
  <2>1. stalls \in 0..MaxStalls
    BY DEF Kept
  <2>2. (stalled => stalls < MaxStalls) /\ stalls' = IF stalled THEN stalls + 1 ELSE stalls
    BY DEF Tick
  <2> QED BY <2>1, <2>2
<1>4. ASSUME NEW f \in Feed
      PROVE  /\ feedLock'[f] \in Lock /\ Good(feedLock'[f])
             /\ feedLock'[f].ttl + 1 >= feedLock[f].ttl
             /\ feedLock[f].owner # None /\ ~stalled =>
                  feedLock'[f].owner = feedLock[f].owner /\ feedLock'[f].ttl = Cooldown
             /\ feedLock[f].owner # None /\ feedLock[f].ttl >= 2 =>
                  feedLock'[f].owner = feedLock[f].owner
  <2>1. PICK k : k = feedLock[f]
    OBVIOUS
  <2>2. Good(k)
    BY <2>1 DEF Kept
  <2>3. feedLock'[f] = Passes(k, stalled)
    BY <2>1 DEF Tick
  <2> QED BY <2>1, <2>2, <2>3, PassedLock DEF Good
<1>5. ASSUME NEW u \in Url
      PROVE  /\ urlLock'[u] \in Lock /\ Good(urlLock'[u])
             /\ urlLock'[u].ttl + 1 >= urlLock[u].ttl
  <2>1. PICK k : k = urlLock[u]
    OBVIOUS
  <2>2. Good(k)
    BY <2>1 DEF Kept
  <2>3. urlLock'[u] = Passes(k, stalled)
    BY <2>1 DEF Tick
  <2> QED BY <2>1, <2>2, <2>3, PassedLock DEF Good
<1>6. feedLock' \in [Feed -> Lock] /\ urlLock' \in [Url -> Lock]
  BY <1>4, <1>5 DEF Tick
<1>7. row' \in [Feed -> RowRow]
  <2>1. ASSUME NEW f \in Feed PROVE row'[f] \in RowRow
    <3>1. PICK r : r = row[f]
      OBVIOUS
    <3>2. r \in RowRow
      BY <3>1 DEF Kept
    <3>3. r.due \in 0..MaxDue /\ r.recent \in 0..Cooldown /\ r.age \in 0..Stale + 1
      BY <3>2 DEF RowRow
    <3>4. PICK due \in 0..MaxDue : due = Less(r.due)
      BY <3>3 DEF Less
    <3>5. PICK recent \in 0..Cooldown : recent = Less(r.recent)
      BY <3>3 DEF Less
    <3>6. PICK age \in 0..Stale + 1 : age = IF r.age > Stale THEN r.age ELSE r.age + 1
      BY <3>3
    <3>7. row'[f] = [r EXCEPT !.due = due, !.recent = recent, !.age = age]
      BY <3>1, <3>4, <3>5, <3>6 DEF Tick
    <3> QED BY <3>2, <3>7 DEF RowRow
  <2> QED BY <2>1 DEF Tick
<1>8. prefetched' \in [Url -> 0..Cooldown]
  <2>1. ASSUME NEW u \in Url PROVE Less(prefetched[u]) \in 0..Cooldown
    <3>1. PICK n \in 0..Cooldown : n = prefetched[u]
      BY DEF Kept
    <3> QED BY <3>1 DEF Less
  <2> QED BY <2>1 DEF Tick
<1>9. delayed' \in [Feed -> 0..Cooldown + 1]
  <2>1. delayed \in [Feed -> 0..Cooldown + 1]
    BY DEF Kept
  <2>2. delayed' = [f \in Feed |-> IF delayed[f] > 1 THEN delayed[f] - 1 ELSE delayed[f]]
    BY DEF Tick
  <2>3. ASSUME NEW f \in Feed
        PROVE  (IF delayed[f] > 1 THEN delayed[f] - 1 ELSE delayed[f]) \in 0..Cooldown + 1
    <3>1. PICK n \in 0..Cooldown + 1 : n = delayed[f]
      BY <2>1
    <3> QED BY <3>1
  <2> QED BY <2>2, <2>3
<1>10. /\ since' \in [Url -> 0..Cooldown]
       /\ \A u \in Url : since'[u] = IF since[u] < Cooldown THEN since[u] + 1 ELSE since[u]
  <2>1. since \in [Url -> 0..Cooldown]
    BY DEF Kept
  <2>2. since' = [u \in Url |-> IF since[u] < Cooldown THEN since[u] + 1 ELSE since[u]]
    BY DEF Tick
  <2>3. \A u \in Url : (IF since[u] < Cooldown THEN since[u] + 1 ELSE since[u]) \in 0..Cooldown
    BY <2>1
  <2> QED BY <2>2, <2>3
<1>11. Kept'
  BY <1>2, <1>3, <1>4, <1>5, <1>6, <1>7, <1>8, <1>9, <1>10 DEF Kept, Right
<1>12. ASSUME Punctual, NEW s \in Slot PROVE Guards(s)'
  <2> SUFFICES ASSUME job[s].feed # None, job[s].step \in LockedSteps
               PROVE  /\ feedLock'[job[s].feed].owner = s
                      /\ feedLock'[job[s].feed].ttl + stalls' >= Cooldown
    BY <1>2 DEF Guards
  <2>1. PICK f \in Feed : f = job[s].feed
    BY FeedAt
  <2>2. feedLock[f].owner = s /\ feedLock[f].ttl + stalls >= Cooldown
    BY <1>12, <2>1 DEF GInv, Guarding, Guards
  <2>3. feedLock[f].owner # None
    BY <2>2
  <2>4. /\ feedLock[f].ttl \in Nat /\ feedLock'[f].ttl \in Nat /\ stalls \in Nat
        /\ stalls <= MaxStalls
    BY <1>6 DEF Kept, Lock
  <2>5. CASE stalled
    <3>1. feedLock[f].ttl >= 2
      BY <1>3, <1>12, <2>2, <2>4, <2>5 DEF Punctual
    <3> QED BY <1>3, <1>4, <2>1, <2>2, <2>3, <2>4, <2>5, <3>1
  <2>6. CASE ~stalled
    BY <1>3, <1>4, <2>1, <2>2, <2>3, <2>4, <2>6
  <2> QED BY <2>5, <2>6
<1> QED BY <1>2, <1>5, <1>10, <1>11, <1>12, KeptIsIInv DEF GInv, Guarding

LEMMA CrashDoes ==
  ASSUME GInv, NEW p \in Process, Crash(p)
  PROVE  /\ GInv' /\ UNCHANGED <<prefetched, since, tooSoon>>
         /\ \A s \in Slot : job'[s] = Idle \/ (s[1] # p /\ job'[s] = job[s])
         /\ \A u \in Url : /\ urlLock'[u].ttl = urlLock[u].ttl
                           /\ \A s \in Slot : s[1] # p /\ urlLock[u].owner = s =>
                                urlLock'[u] = urlLock[u]
<1>1. IInv /\ Kept /\ FeedSyncAssumption
  BY Typed DEF GInv
<1> USE <1>1, Constant
<1>2. /\ UNCHANGED <<row, prefetched, delayed, asks, stalls, since, tooSoon, asked>>
      /\ crashes' \in 0..MaxCrashes
  BY DEF Crash, Kept
<1>3. /\ job' \in [Slot -> Job]
      /\ \A s \in Slot : job'[s] = Idle \/ (s[1] # p /\ job'[s] = job[s])
  BY IdleJob DEF Crash, Kept
<1>4. \A s \in Slot : (job'[s].step = "idle" <=> job'[s] = Idle) /\ Right(s)'
  BY <1>3, IdleJob DEF Kept, Right
<1>5. ASSUME NEW f \in Feed
      PROVE  /\ feedLock'[f] \in Lock /\ Good(feedLock'[f])
             /\ \A s \in Slot : s[1] # p /\ feedLock[f].owner = s => feedLock'[f] = feedLock[f]
  <2>1. PICK k : k = feedLock[f]
    OBVIOUS
  <2>2. Good(k)
    BY <2>1 DEF Kept
  <2>3. feedLock'[f] = Orphaned(k, p)
    BY <2>1 DEF Crash
  <2> QED BY <2>1, <2>2, <2>3, OrphanedLock DEF Good
<1>6. ASSUME NEW u \in Url
      PROVE  /\ urlLock'[u] \in Lock /\ Good(urlLock'[u]) /\ urlLock'[u].ttl = urlLock[u].ttl
             /\ \A s \in Slot : s[1] # p /\ urlLock[u].owner = s => urlLock'[u] = urlLock[u]
  <2>1. PICK k : k = urlLock[u]
    OBVIOUS
  <2>2. Good(k)
    BY <2>1 DEF Kept
  <2>3. urlLock'[u] = Orphaned(k, p)
    BY <2>1 DEF Crash
  <2> QED BY <2>1, <2>2, <2>3, OrphanedLock DEF Good
<1>7. feedLock' \in [Feed -> Lock] /\ urlLock' \in [Url -> Lock]
  BY <1>5, <1>6 DEF Crash
<1>8. Kept'
  BY <1>2, <1>3, <1>4, <1>5, <1>6, <1>7 DEF Kept
<1>9. ASSUME Punctual, NEW s \in Slot PROVE Guards(s)'
  <2>1. CASE job'[s] = Idle
    BY <2>1, IdleJob DEF Guards
  <2>2. CASE s[1] # p /\ job'[s] = job[s]
    <3> SUFFICES ASSUME job[s].feed # None, job[s].step \in LockedSteps
                 PROVE  /\ feedLock'[job[s].feed].owner = s
                        /\ feedLock'[job[s].feed].ttl + stalls >= Cooldown
      BY <1>2, <2>2 DEF Guards
    <3>1. PICK f \in Feed : f = job[s].feed
      BY FeedAt
    <3>2. feedLock[f].owner = s /\ feedLock[f].ttl + stalls >= Cooldown
      BY <1>9, <3>1 DEF GInv, Guarding, Guards
    <3> QED BY <1>5, <2>2, <3>1, <3>2
  <2> QED BY <1>3, <2>1, <2>2
<1> QED BY <1>2, <1>3, <1>6, <1>8, <1>9, KeptIsIInv DEF GInv, Guarding

LEMMA StutterDoes == ASSUME GInv, UNCHANGED vars PROVE GInv'
<1>1. Kept /\ FeedSyncAssumption
  BY Typed DEF GInv
<1>2. Kept'
  BY <1>1 DEF vars, bounds, locks, Kept, Right
<1>3. Guarding => Guarding'
  BY DEF vars, bounds, locks, Guarding, Guards
<1> QED BY <1>1, <1>2, <1>3, KeptIsIInv DEF GInv

(***************************************************************************)
(* One sync of a feed.                                                     *)
(***************************************************************************)
LEMMA ComingGuards ==
  ASSUME GInv, NEW p \in Process, NEW f \in Feed,
         \/ "scheduled" \in Kinds /\ FindDue(p, f)
         \/ "manual" \in Kinds /\ Manual(p, f)
         \/ "delayed" \in Kinds /\ PopDelayed(p, f)
  PROVE  GInv'
<1>1. IInv
  BY DEF GInv
<1>2. IInv' /\ UNCHANGED <<feedLock, urlLock, prefetched, stalls, since, tooSoon>>
  BY <1>1, ComingDoes
<1>3. PICK s \in Slot : Moved(s, f, UrlOf[f], "found")
  BY <1>1, ComingDoes
<1>4. Guards(s)'
  BY <1>3 DEF Guards, Moved, LockedSteps
<1>5. Leaves(s)
  BY <1>1, <1>2, <1>3, Typed DEF Leaves, Moved, Kept, Lock
<1> QED BY <1>2, <1>4, <1>5, GuardsKept

LEMMA StepGInv == ASSUME GInv, [Next]_vars PROVE GInv'
<1>1. ASSUME NEW p \in Process, NEW f \in Feed,
             \/ "scheduled" \in Kinds /\ FindDue(p, f)
             \/ "manual" \in Kinds /\ Manual(p, f)
             \/ "delayed" \in Kinds /\ PopDelayed(p, f)
      PROVE  GInv'
  BY <1>1, ComingGuards
<1>2. ASSUME NEW p \in Process, NEW u \in Url, "preview" \in Kinds, Preview(p, u) PROVE GInv'
  BY <1>2, PreviewDoes
<1>3. ASSUME NEW s \in Slot, JobStep(s) PROVE GInv'
  BY <1>3, LockFeedDoes, LockUrlDoes, LeakDoes, BeginDoes, FetchDoes, FetchPreviewDoes,
     PersistThrowsDoes, FinishDoes DEF JobStep
<1>4. CASE ResetStale
  BY <1>4, ResetStaleDoes
<1>5. ASSUME NEW stalled \in BOOLEAN, Tick(stalled) PROVE GInv'
  BY <1>5, TickDoes
<1>6. ASSUME NEW p \in Process, Crash(p) PROVE GInv'
  BY <1>6, CrashDoes
<1> QED BY <1>1, <1>2, <1>3, <1>4, <1>5, <1>6, StutterDoes DEF Next

\* Rows, locks, jobs and the sorted set keep their types; a lock of a feed that has run out is
\* gone, and nothing is left of a job that has ended.
THEOREM TypesKept == ASSUME FeedSyncAssumption PROVE Spec => []TypeOK
<1>1. GInv => TypeOK
  BY DEF GInv, IInv
<1> QED BY <1>1, Initially, StepGInv, PTL DEF Spec

\* Two jobs never sync one feed at a time, whichever process they run in, however they came to it
\* and whichever of them dies, leaks its locks or loses a beat: as long as the beats that come late
\* are fewer than a lock lives (acquireFeedSyncGuards).
THEOREM OneSync ==
  ASSUME FeedSyncAssumption, Punctual PROVE Spec => []OneSyncPerFeed
<1>1. GInv => OneSyncPerFeed
  <2> SUFFICES ASSUME GInv, NEW s \in Slot, NEW t \in Slot, Working(s), Working(t),
                      job[s].feed = job[t].feed
               PROVE  s = t
    BY DEF OneSyncPerFeed
  <2>1. feedLock[job[s].feed].owner = s /\ feedLock[job[t].feed].owner = t
    BY DEF GInv, Guarding, Guards, Working, LockedSteps
  <2> QED BY <2>1
<1> QED BY <1>1, Initially, StepGInv, PTL DEF Spec

(***************************************************************************)
(* One request per cooldown.                                               *)
(***************************************************************************)
LEMMA OneFeedAt ==
  ASSUME GInv, Punctual, NotShared, NEW s \in Slot, NEW t \in Slot,
         job[s].feed # None, job[t].feed # None, job[s].url = job[t].url,
         job[s].step \in LockedSteps, job[t].step \in LockedSteps
  PROVE  s = t
<1>1. IInv
  BY DEF GInv
<1>2. /\ job[s].feed \in Feed /\ job[t].feed \in Feed
      /\ job[s].url = UrlOf[job[s].feed] /\ job[t].url = UrlOf[job[t].feed]
  BY <1>1, FeedAt
<1>3. job[s].feed = job[t].feed
  BY <1>2 DEF NotShared
<1>4. feedLock[job[s].feed].owner = s /\ feedLock[job[t].feed].owner = t
  BY DEF GInv, Guarding, Guards
<1> QED BY <1>3, <1>4

\* A step of one job that leaves the others what they rely on.
LEMMA CoversKept ==
  ASSUME CInv, GInv', NEW s \in Slot, Leaves(s), Covers(s)', tooSoon' = {},
         \A u \in Url : since'[u] = since[u] \/ (since'[u] = 0 /\ urlLock'[u].ttl = Cooldown),
         \A t \in Slot : t # s /\ job[t].step \in {"ready", "begun"} =>
           /\ Holds(t) => since'[job[t].url] = since[job[t].url]
           /\ job[t].feed # None /\ prefetched[job[t].url] > 0 => prefetched'[job[t].url] > 0
  PROVE  CInv'
<1>1. GInv /\ IInv /\ Kept /\ FeedSyncAssumption /\ urlLock' \in [Url -> Lock]
  BY Typed DEF CInv, GInv, IInv, TypeOK
<1>2. ASSUME NEW t \in Slot, t # s PROVE Covers(t)'
  <2>1. job'[t] = job[t]
    BY <1>2 DEF Leaves
  <2> SUFFICES ASSUME job[t].step \in {"ready", "begun"}
               PROVE  Holds(t)' \/ (job[t].feed # None /\ prefetched'[job[t].url] > 0)
    BY <2>1 DEF Covers
  <2>2. job[t].url \in Url
    BY <1>1 DEF Kept, Right, Job
  <2>3. Holds(t) \/ (job[t].feed # None /\ prefetched[job[t].url] > 0)
    BY DEF CInv, Covered, Covers
  <2>4. CASE Holds(t)
    <3>1. urlLock'[job[t].url] = urlLock[job[t].url]
      BY <1>2, <2>2, <2>4 DEF Leaves, Holds
    <3> QED BY <1>2, <2>1, <2>4, <3>1 DEF Holds
  <2>5. CASE job[t].feed # None /\ prefetched[job[t].url] > 0
    BY <1>2, <2>5
  <2> QED BY <2>3, <2>4, <2>5
<1>3. Covered'
  BY <1>2 DEF Covered
<1>4. ASSUME NEW u \in Url PROVE urlLock'[u].ttl + since'[u] >= Cooldown
  <2>1. /\ urlLock[u].ttl + since[u] >= Cooldown /\ urlLock'[u].ttl >= urlLock[u].ttl
        /\ urlLock[u].ttl \in Nat /\ urlLock'[u].ttl \in Nat /\ since[u] \in Nat
        /\ Cooldown \in Nat
    BY <1>1, Constant DEF CInv, Cooling, Leaves, Kept, Lock
  <2> QED BY <2>1
<1> QED BY <1>3, <1>4 DEF CInv, Cooling

LEMMA StepCInv == ASSUME Punctual, NotShared, CInv, [Next]_vars PROVE CInv'
<1>1. /\ GInv /\ IInv /\ Kept /\ FeedSyncAssumption /\ GInv' /\ IInv'
      /\ tooSoon = {} /\ Covered /\ Cooling
  BY StepGInv, Typed DEF CInv, GInv
<1> USE <1>1, Constant
<1>2. ASSUME NEW u \in Url
      PROVE  /\ urlLock[u].ttl \in 0..Cooldown /\ since[u] \in 0..Cooldown
             /\ urlLock[u].ttl + since[u] >= Cooldown
             /\ urlLock'[u].ttl \in 0..Cooldown
  BY DEF Kept, Cooling, Lock, IInv, TypeOK
<1>3. ASSUME NEW p \in Process, NEW f \in Feed,
             \/ "scheduled" \in Kinds /\ FindDue(p, f)
             \/ "manual" \in Kinds /\ Manual(p, f)
             \/ "delayed" \in Kinds /\ PopDelayed(p, f)
      PROVE  CInv'
  <2>1. UNCHANGED <<feedLock, urlLock, prefetched, stalls, since, tooSoon>>
    BY <1>3, ComingDoes
  <2>2. PICK s \in Slot : Moved(s, f, UrlOf[f], "found")
    BY <1>3, ComingDoes
  <2>3. Covers(s)'
    BY <2>2 DEF Covers, Moved
  <2>4. Leaves(s)
    BY <2>1, <2>2 DEF Leaves, Moved, Kept, Lock
  <2> QED BY <2>1, <2>3, <2>4, CoversKept
<1>4. ASSUME NEW p \in Process, NEW u \in Url, "preview" \in Kinds, Preview(p, u) PROVE CInv'
  <2>1. UNCHANGED <<prefetched, since, tooSoon>>
    BY <1>4, PreviewDoes
  <2>2. PICK s \in Slot : /\ Moved(s, None, u, "begun") /\ Leaves(s) /\ urlLock[u].ttl = 0
                          /\ urlLock'[u].owner = s /\ urlLock'[u].ttl = Cooldown
    BY <1>4, PreviewDoes
  <2>3. since[u] = Cooldown
    BY <1>2, <2>2
  <2>4. Covers(s)'
    BY <2>1, <2>2, <2>3 DEF Covers, Holds, Moved
  <2> QED BY <2>1, <2>2, <2>4, CoversKept
<1>5. ASSUME NEW s \in Slot, LockFeed(s) PROVE CInv'
  <2>1. /\ Leaves(s) /\ UNCHANGED <<urlLock, prefetched, since, tooSoon>>
        /\ Moved(s, None, None, "idle") \/ Moved(s, job[s].feed, job[s].url, "guarded")
    BY <1>5, LockFeedDoes
  <2>2. Covers(s)'
    BY <2>1 DEF Covers, Moved
  <2> QED BY <2>1, <2>2, CoversKept
<1>6. ASSUME NEW s \in Slot, LockUrl(s) PROVE CInv'
  <2>1. /\ Leaves(s) /\ UNCHANGED <<prefetched, since, tooSoon>>
        /\ \/ Moved(s, None, None, "idle")
           \/ /\ Moved(s, job[s].feed, job[s].url, "ready") /\ job[s].feed # None
              /\ \/ prefetched[job[s].url] > 0
                 \/ /\ urlLock[job[s].url].ttl = 0
                    /\ urlLock'[job[s].url].owner = s /\ urlLock'[job[s].url].ttl = Cooldown
    BY <1>6, LockUrlDoes
  <2>2. CASE Moved(s, None, None, "idle")
    <3>1. Covers(s)'
      BY <2>2 DEF Covers, Moved
    <3> QED BY <2>1, <3>1, CoversKept
  <2>3. CASE /\ Moved(s, job[s].feed, job[s].url, "ready") /\ job[s].feed # None
             /\ prefetched[job[s].url] > 0
    <3>1. Covers(s)'
      BY <2>1, <2>3 DEF Covers, Moved
    <3> QED BY <2>1, <3>1, CoversKept
  <2>4. CASE /\ Moved(s, job[s].feed, job[s].url, "ready") /\ job[s].feed # None
             /\ urlLock[job[s].url].ttl = 0
             /\ urlLock'[job[s].url].owner = s /\ urlLock'[job[s].url].ttl = Cooldown
    <3>1. PICK u \in Url : u = job[s].url
      BY <2>4, FeedAt
    <3>2. since[u] = Cooldown
      BY <1>2, <2>4, <3>1
    <3>3. Covers(s)'
      BY <2>1, <2>4, <3>1, <3>2 DEF Covers, Holds, Moved
    <3> QED BY <2>1, <3>3, CoversKept
  <2> QED BY <2>1, <2>2, <2>3, <2>4
<1>7. ASSUME NEW s \in Slot, Leak(s) \/ Finish(s) PROVE CInv'
  <2>1. Leaves(s) /\ UNCHANGED <<prefetched, since, tooSoon>> /\ Moved(s, None, None, "idle")
    BY <1>7, LeakDoes, FinishDoes
  <2>2. Covers(s)'
    BY <2>1 DEF Covers, Moved
  <2> QED BY <2>1, <2>2, CoversKept
<1>8. ASSUME NEW s \in Slot, Begin(s) PROVE CInv'
  <2>1. /\ Leaves(s) /\ UNCHANGED <<urlLock, prefetched, since, tooSoon>>
        /\ job[s].step = "ready" /\ Moved(s, job[s].feed, job[s].url, "begun")
    BY <1>8, BeginDoes
  <2>2. Holds(s) \/ (job[s].feed # None /\ prefetched[job[s].url] > 0)
    BY <2>1 DEF Covered, Covers
  <2>3. Covers(s)'
    BY <2>1, <2>2 DEF Covers, Holds, Moved
  <2> QED BY <2>1, <2>3, CoversKept
\* The text of a preview is used up by the only job of the feed; without it, the job has the lock.
<1>9. ASSUME NEW s \in Slot, Fetch(s) PROVE CInv'
  <2>1. /\ Leaves(s) /\ UNCHANGED urlLock /\ job[s].step = "begun" /\ job[s].feed \in Feed
        /\ job[s].url \in Url
    BY <1>9, FetchDoes
  <2>2. PICK u \in Url : u = job[s].url
    BY <2>1
  <2>3. PICK step \in {"fetched", "failed"} : Moved(s, job[s].feed, job[s].url, step)
    BY <1>9, FetchDoes
  <2>4. Covers(s)'
    BY <2>3 DEF Covers, Moved
  <2>5. CASE /\ prefetched[u] > 0 /\ UNCHANGED <<since, tooSoon>>
             /\ \A v \in Url : v # u => prefetched'[v] = prefetched[v]
    <3>1. ASSUME NEW t \in Slot, t # s, job[t].step \in {"ready", "begun"},
                 job[t].feed # None, prefetched[job[t].url] > 0
          PROVE  prefetched'[job[t].url] > 0
      <4>1. job[t].url \in Url /\ job[t].url # u
        BY <2>1, <2>2, <3>1, OneFeedAt, FeedAt DEF LockedSteps
      <4> QED BY <2>5, <3>1, <4>1
    <3> QED BY <2>1, <2>4, <2>5, <3>1, CoversKept
  <2>6. CASE prefetched[u] = 0 /\ Requests(u) /\ UNCHANGED prefetched
    <3>1. Holds(s)
      BY <2>1, <2>2, <2>6 DEF Covered, Covers
    <3>2. /\ tooSoon' = {} /\ since'[u] = 0 /\ urlLock'[u].ttl = Cooldown
          /\ \A v \in Url : v # u => since'[v] = since[v]
      BY <2>1, <2>2, <2>6, <3>1, RequestsDoes DEF Holds
    <3>3. ASSUME NEW t \in Slot, t # s, job[t].step \in {"ready", "begun"}
          PROVE  job[t].url \in Url /\ job[t].url # u
      <4>1. job[t].url \in Url
        BY <3>3 DEF Kept, Right, Job
      <4>2. Holds(t) \/ prefetched[job[t].url] > 0
        BY <3>3 DEF Covered, Covers
      <4> QED BY <2>2, <2>6, <3>1, <3>3, <4>1, <4>2 DEF Holds
    <3>4. \A v \in Url : since'[v] = since[v] \/ (since'[v] = 0 /\ urlLock'[v].ttl = Cooldown)
      BY <3>2
    <3>5. ASSUME NEW t \in Slot, t # s, job[t].step \in {"ready", "begun"}
          PROVE  /\ since'[job[t].url] = since[job[t].url]
                 /\ prefetched'[job[t].url] = prefetched[job[t].url]
      BY <2>6, <3>2, <3>3, <3>5
    <3> QED BY <2>1, <2>4, <3>2, <3>4, <3>5, CoversKept
  <2> QED BY <1>9, <2>2, <2>5, <2>6, FetchDoes
<1>10. ASSUME NEW s \in Slot, FetchPreview(s) PROVE CInv'
  <2>1. /\ Leaves(s) /\ Moved(s, None, None, "idle") /\ job[s].step = "begun"
        /\ job[s].feed = None /\ job[s].url \in Url
        /\ \A v \in Url : prefetched[v] > 0 => prefetched'[v] > 0
    BY <1>10, FetchPreviewDoes
  <2>2. PICK u \in Url : u = job[s].url
    BY <2>1
  <2>3. Requests(u) /\ (urlLock[u].owner = s => urlLock'[u].ttl = Cooldown)
    BY <1>10, <2>2, FetchPreviewDoes
  <2>4. Holds(s)
    BY <2>1 DEF Covered, Covers
  <2>5. /\ tooSoon' = {} /\ since'[u] = 0 /\ urlLock'[u].ttl = Cooldown
        /\ \A v \in Url : v # u => since'[v] = since[v]
    BY <2>2, <2>3, <2>4, RequestsDoes DEF Holds
  <2>6. Covers(s)'
    BY <2>1 DEF Covers, Moved
  <2>7. \A v \in Url : since'[v] = since[v] \/ (since'[v] = 0 /\ urlLock'[v].ttl = Cooldown)
    BY <2>5
  <2>8. ASSUME NEW t \in Slot, t # s, job[t].step \in {"ready", "begun"}, Holds(t)
        PROVE  since'[job[t].url] = since[job[t].url]
    <3>1. job[t].url \in Url
      BY <2>8 DEF Kept, Right, Job
    <3>2. job[t].url # u
      BY <2>2, <2>4, <2>8 DEF Holds
    <3> QED BY <2>5, <3>1, <3>2
  <2>9. ASSUME NEW t \in Slot, job[t].step \in {"ready", "begun"}, prefetched[job[t].url] > 0
        PROVE  prefetched'[job[t].url] > 0
    <3>1. job[t].url \in Url
      BY <2>9 DEF Kept, Right, Job
    <3> QED BY <2>1, <2>9, <3>1
  <2> QED BY <2>1, <2>5, <2>6, <2>7, <2>8, <2>9, CoversKept
<1>11. CASE \E s \in Slot : JobStep(s)
  <2>1. ASSUME NEW s \in Slot, PersistThrows(s) PROVE CInv'
    <3>1. /\ Leaves(s) /\ UNCHANGED <<urlLock, prefetched, since, tooSoon>>
          /\ Moved(s, job[s].feed, job[s].url, "failed")
      BY <2>1, PersistThrowsDoes
    <3>2. Covers(s)'
      BY <3>1 DEF Covers, Moved
    <3> QED BY <3>1, <3>2, CoversKept
  <2> QED BY <1>5, <1>6, <1>7, <1>8, <1>9, <1>10, <1>11, <2>1 DEF JobStep
<1>12. ASSUME UNCHANGED <<job, urlLock, prefetched, since, tooSoon>> PROVE CInv'
  BY <1>12 DEF CInv, Cooling, Covered, Covers, Holds
\* A tick takes at most one from the lock, and adds one to the time since the request.
<1>13. ASSUME NEW stalled \in BOOLEAN, Tick(stalled) PROVE CInv'
  <2>1. /\ UNCHANGED <<job, tooSoon>> /\ \A s \in Slot : job[s].step \notin Brief
        /\ \A u \in Url : /\ urlLock'[u].ttl + 1 >= urlLock[u].ttl
                          /\ since'[u] = IF since[u] < Cooldown THEN since[u] + 1 ELSE since[u]
    BY <1>13, TickDoes
  <2>2. Covered'
    BY <2>1 DEF Covered, Covers, Brief
  <2>3. ASSUME NEW u \in Url PROVE urlLock'[u].ttl + since'[u] >= Cooldown
    BY <1>2, <2>1
  <2> QED BY <2>1, <2>2, <2>3 DEF CInv, Cooling
<1>14. ASSUME NEW p \in Process, Crash(p) PROVE CInv'
  <2>1. /\ UNCHANGED <<prefetched, since, tooSoon>>
        /\ \A s \in Slot : job'[s] = Idle \/ (s[1] # p /\ job'[s] = job[s])
        /\ \A u \in Url : /\ urlLock'[u].ttl = urlLock[u].ttl
                          /\ \A s \in Slot : s[1] # p /\ urlLock[u].owner = s =>
                               urlLock'[u] = urlLock[u]
    BY <1>14, CrashDoes
  <2>2. ASSUME NEW s \in Slot PROVE Covers(s)'
    <3>1. CASE job'[s] = Idle
      BY <3>1, IdleJob DEF Covers
    <3>2. CASE s[1] # p /\ job'[s] = job[s]
      <4> SUFFICES ASSUME job[s].step \in {"ready", "begun"}
                   PROVE  Holds(s)' \/ (job[s].feed # None /\ prefetched[job[s].url] > 0)
        BY <2>1, <3>2 DEF Covers
      <4>1. job[s].url \in Url
        BY DEF Kept, Right, Job
      <4>2. Holds(s) \/ (job[s].feed # None /\ prefetched[job[s].url] > 0)
        BY DEF Covered, Covers
      <4> QED BY <2>1, <3>2, <4>1, <4>2 DEF Holds
    <3> QED BY <2>1, <3>1, <3>2
  <2>3. Cooling'
    BY <2>1 DEF Cooling
  <2> QED BY <2>1, <2>2, <2>3 DEF CInv, Covered
<1>15. CASE ResetStale
  BY <1>12, <1>15, ResetStaleDoes
<1>16. CASE UNCHANGED vars
  BY <1>12, <1>16 DEF vars
<1> QED BY <1>3, <1>4, <1>11, <1>13, <1>14, <1>15, <1>16 DEF Next

\* A publisher is asked at most once in the cooldown, whoever asks, whoever of them dies or leaks
\* its locks, and whoever uses the text of a preview: as long as beats come in time and no two
\* subscriptions share a URL.  Shared URLs are where the code breaks its word: the text of one
\* preview lets two feeds past the lock, and the second of them asks (feed-fetch-guard.ts:98).
THEOREM OneRequest ==
  ASSUME FeedSyncAssumption, Punctual, NotShared PROVE Spec => []OneRequestPerCooldown
<1>1. ASSUME FeedSyncAssumption, Init PROVE CInv
  <2>1. GInv
    BY <1>1, Initially
  <2>2. /\ \A s \in Slot : job[s].step = "idle"
        /\ \A u \in Url : urlLock[u].ttl = 0 /\ since[u] = Cooldown
        /\ tooSoon = {} /\ Cooldown \in Nat
    BY <1>1, Constant DEF Init, Idle, Free
  <2> QED BY <2>1, <2>2 DEF CInv, Cooling, Covered, Covers
<1>2. CInv => OneRequestPerCooldown
  BY DEF CInv, OneRequestPerCooldown
<1> QED BY <1>1, <1>2, StepCInv, PTL DEF Spec

---------------------------------------------------------------------------

(***************************************************************************)
(* Worker: the loops of the worker process and its shutdown.               *)
(***************************************************************************)
CONSTANTS V2Mode, DrainPolls, MaxSignals
VARIABLES timers, bodies, aborted, shutdowns, disconnected, process

Loops == INSTANCE Worker WITH
  V2 <- V2Mode, Drain <- DrainPolls, Signals <- MaxSignals, running <- bodies,
  stopping <- aborted, down <- shutdowns, closed <- disconnected

\* The loops of the legacy pipeline begin with the queued syncs, for which the others make way; with
\* v2 enrichment begins beside the loops that the controller ends.
LEMMA Starts ==
  ASSUME V2Mode \in BOOLEAN
  PROVE  Loops!Begun[Len(Loops!Order)]
           = IF V2Mode THEN {"schedule", "fetch", "delivery", "cleanup",
                             "enrich", "sessions", "mutations"}
             ELSE {"queued", "sessions", "mutations"}
<1> DEFINE next(n, before) ==
             LET l == Loops!Order[n]
             IN IF Loops!AtOnce(l) /\ Loops!MakesWayFor(l) \cap before = {}
                THEN before \cup {l} ELSE before
           IsBegun(f) == f = [n \in 0..Len(Loops!Order) |->
                                IF n = 0 THEN Loops!Durable ELSE next(n, f[n - 1])]
<1>1. CASE V2Mode
  <2>1. PICK o : o = <<"enrich", "sessions", "mutations", "warmer">>
    OBVIOUS
  <2>2. Loops!Order = o /\ Len(o) = 4 /\ o[1] = "enrich" /\ o[2] = "sessions"
        /\ o[3] = "mutations" /\ o[4] = "warmer"
    BY <1>1, <2>1 DEF Loops!Order
  <2>3. PICK d : d = {"schedule", "fetch", "delivery", "cleanup"}
    OBVIOUS
  <2>4. Loops!Durable = d
    BY <1>1, <2>3 DEF Loops!Durable
  <2>5. /\ next(1, d) = d \cup {"enrich"}
        /\ next(2, d \cup {"enrich"}) = d \cup {"enrich", "sessions"}
        /\ next(3, d \cup {"enrich", "sessions"}) = d \cup {"enrich", "sessions", "mutations"}
        /\ next(4, d \cup {"enrich", "sessions", "mutations"})
             = d \cup {"enrich", "sessions", "mutations"}
    BY <2>2, <2>3 DEF Loops!AtOnce, Loops!MakesWayFor, Loops!Coordinated
  <2>6. PICK g : g = [n \in 0..4 |-> IF n = 0 THEN d ELSE IF n = 1 THEN d \cup {"enrich"}
                                     ELSE IF n = 2 THEN d \cup {"enrich", "sessions"}
                                     ELSE d \cup {"enrich", "sessions", "mutations"}]
    OBVIOUS
  <2>7. g[0] = d /\ g[1] = d \cup {"enrich"} /\ g[2] = d \cup {"enrich", "sessions"}
        /\ g[3] = d \cup {"enrich", "sessions", "mutations"}
        /\ g[4] = d \cup {"enrich", "sessions", "mutations"}
    BY <2>6
  <2> HIDE DEF next
  <2>8. IsBegun(g)
    BY <2>2, <2>4, <2>5, <2>6, <2>7
  <2>9. \A f : IsBegun(f) => f[4] = d \cup {"enrich", "sessions", "mutations"}
    <3>1. ASSUME NEW f, IsBegun(f)
          PROVE  f[4] = d \cup {"enrich", "sessions", "mutations"}
      <4>1. /\ f[0] = d
            /\ \A n \in {1, 2, 3, 4} : f[n] = next(n, f[n - 1])
        BY <2>2, <2>4, <3>1
      <4>2. f[1] = next(1, d) /\ f[2] = next(2, f[1]) /\ f[3] = next(3, f[2])
            /\ f[4] = next(4, f[3])
        BY <4>1
      <4>3. QED
        BY <2>5, <4>2
    <3>2. QED
      BY <3>1
  <2>10. Loops!Begun = CHOOSE f : IsBegun(f)
    BY Zenon DEF Loops!Begun, next
  <2>11. IsBegun(Loops!Begun)
    <3> HIDE DEF IsBegun
    <3>1. QED
      BY Zenon, <2>8, <2>10
  <2>12. QED
    BY <1>1, <2>2, <2>3, <2>9, <2>11
<1>2. CASE ~V2Mode
  <2>1. PICK o : o = <<"queued", "due", "enrich", "retention", "sessions", "mutations", "warmer">>
    OBVIOUS
  <2>2. Loops!Order = o /\ Len(o) = 7 /\ o[1] = "queued" /\ o[2] = "due" /\ o[3] = "enrich"
        /\ o[4] = "retention" /\ o[5] = "sessions" /\ o[6] = "mutations" /\ o[7] = "warmer"
    BY <1>2, <2>1 DEF Loops!Order
  <2>3. Loops!Durable = {}
    BY <1>2 DEF Loops!Durable
  <2>4. /\ next(1, {}) = {"queued"}
        /\ next(2, {"queued"}) = {"queued"} /\ next(3, {"queued"}) = {"queued"}
        /\ next(4, {"queued"}) = {"queued"} /\ next(5, {"queued"}) = {"queued", "sessions"}
        /\ next(6, {"queued", "sessions"}) = {"queued", "sessions", "mutations"}
        /\ next(7, {"queued", "sessions", "mutations"}) = {"queued", "sessions", "mutations"}
    BY <2>2 DEF Loops!AtOnce, Loops!MakesWayFor, Loops!Coordinated
  <2>5. PICK g : g = [n \in 0..7 |-> IF n = 0 THEN {} ELSE IF n <= 4 THEN {"queued"}
                                     ELSE IF n = 5 THEN {"queued", "sessions"}
                                     ELSE {"queued", "sessions", "mutations"}]
    OBVIOUS
  <2>6. /\ g[0] = {} /\ g[1] = {"queued"} /\ g[2] = {"queued"} /\ g[3] = {"queued"}
        /\ g[4] = {"queued"} /\ g[5] = {"queued", "sessions"}
        /\ g[6] = {"queued", "sessions", "mutations"}
        /\ g[7] = {"queued", "sessions", "mutations"}
    BY <2>5
  <2> HIDE DEF next
  <2>7. IsBegun(g)
    <3>1. \A n \in 1..7 : g[n] = next(n, g[n - 1])
      <4>1. /\ g[1] = next(1, g[0]) /\ g[2] = next(2, g[1]) /\ g[3] = next(3, g[2])
            /\ g[4] = next(4, g[3]) /\ g[5] = next(5, g[4]) /\ g[6] = next(6, g[5])
            /\ g[7] = next(7, g[6])
        BY <2>4, <2>6
      <4>2. ASSUME NEW n \in 1..7, NEW m, m = n - 1
            PROVE  g[n] = next(n, g[m])
        <5>1. \/ n = 1 /\ m = 0
              \/ n = 2 /\ m = 1
              \/ n = 3 /\ m = 2
              \/ n = 4 /\ m = 3
              \/ n = 5 /\ m = 4
              \/ n = 6 /\ m = 5
              \/ n = 7 /\ m = 6
          BY <4>2
        <5>2. QED
          BY Zenon, <4>1, <5>1
      <4>3. QED
        BY <4>2
    <3>2. g = [n \in 0..7 |-> IF n = 0 THEN {} ELSE next(n, g[n - 1])]
      BY <2>5, <3>1
    <3>3. QED
      BY <2>2, <2>3, <3>2
  <2>8. \A f : IsBegun(f) => f[7] = {"queued", "sessions", "mutations"}
    <3>1. ASSUME NEW f, IsBegun(f)
          PROVE  f[7] = {"queued", "sessions", "mutations"}
      <4>1. f = [n \in 0..7 |-> IF n = 0 THEN {} ELSE next(n, f[n - 1])]
        BY <2>2, <2>3, <3>1
      <4>2. /\ f[1] = next(1, f[0]) /\ f[0] = {} /\ f[2] = next(2, f[1])
            /\ f[3] = next(3, f[2]) /\ f[4] = next(4, f[3]) /\ f[5] = next(5, f[4])
            /\ f[6] = next(6, f[5]) /\ f[7] = next(7, f[6])
        BY <4>1
      <4>3. QED
        BY <2>4, <4>2
    <3>2. QED
      BY <3>1
  <2>9. Loops!Begun = CHOOSE f : IsBegun(f)
    BY Zenon DEF Loops!Begun, next
  <2>10. IsBegun(Loops!Begun)
    <3> HIDE DEF IsBegun
    <3>1. QED
      BY Zenon, <2>7, <2>9
  <2>11. QED
    BY <1>2, <2>2, <2>8, <2>10
<1>3. QED
  BY <1>1, <1>2

\* What a shutdown has done.
ShutdownRow == [step : {"durable", "drain", "closing"}, polls : 0..DrainPolls]

\* The inductive invariant: once a signal has come nothing is started any more, so what a shutdown
\* has waited for stays away.
LoopsInv ==
  /\ timers \subseteq Loops!Timed /\ bodies \subseteq Loops!Timed \cup Loops!Durable
  /\ aborted \in BOOLEAN /\ disconnected \in BOOLEAN /\ process \in {"up", "exited"}
  /\ shutdowns \in Seq(ShutdownRow) /\ Len(shutdowns) <= MaxSignals
  /\ Loops!NoneBeside
  /\ process = "exited" => bodies = {}
  /\ shutdowns # <<>> => timers = {} /\ aborted
  /\ \A i \in DOMAIN shutdowns : shutdowns[i].step # "durable" => bodies \cap Loops!Durable = {}
  /\ disconnected => /\ shutdowns # <<>> /\ bodies \cap Loops!Durable = {}
                     /\ \/ bodies \cap Loops!Coordinated = {}
                        \/ \E i \in DOMAIN shutdowns : shutdowns[i].polls = DrainPolls

\* No loop of one pipeline is one of the other.
LEMMA LoopNames ==
  ASSUME V2Mode \in BOOLEAN
  PROVE  /\ Loops!Timed = IF V2Mode THEN {"enrich", "sessions", "mutations", "warmer"}
                          ELSE {"queued", "due", "enrich", "retention", "sessions", "mutations",
                                "warmer"}
         /\ Loops!Durable \cap (Loops!Timed \cup Loops!Coordinated) = {}
<1>1. CASE V2Mode
  <2>1. Loops!Order = <<"enrich", "sessions", "mutations", "warmer">>
    BY <1>1 DEF Loops!Order
  <2>2. Loops!Timed = {"enrich", "sessions", "mutations", "warmer"}
    BY <2>1 DEF Loops!Timed
  <2>3. QED
    BY <1>1, <2>2 DEF Loops!Durable, Loops!Coordinated
<1>2. CASE ~V2Mode
  <2>1. Loops!Order = <<"queued", "due", "enrich", "retention", "sessions", "mutations", "warmer">>
    BY <1>2 DEF Loops!Order
  <2>2. Loops!Timed = {"queued", "due", "enrich", "retention", "sessions", "mutations", "warmer"}
    BY <2>1 DEF Loops!Timed
  <2>3. QED
    BY <1>2, <2>2 DEF Loops!Durable
<1>3. QED
  BY <1>1, <1>2

\* A process that is started.
LEMMA Started ==
  ASSUME Loops!WorkerAssumption, NEW begun, begun = Loops!Begun[Len(Loops!Order)]
  PROVE  /\ begun \subseteq Loops!Timed \cup Loops!Durable
         /\ "enrich" \in begun => begun \cap {"queued", "due"} = {}
BY Starts, LoopNames DEF Loops!WorkerAssumption, Loops!Durable

LEMMA LoopsInit == Loops!WorkerAssumption /\ Loops!Init => LoopsInv
<1> SUFFICES ASSUME Loops!WorkerAssumption, Loops!Init PROVE LoopsInv
  OBVIOUS
<1>1. /\ timers = Loops!Timed /\ bodies = Loops!Begun[Len(Loops!Order)] /\ aborted = FALSE
      /\ shutdowns = <<>> /\ disconnected = FALSE /\ process = "up"
  BY DEF Loops!Init
<1>2. PICK begun : begun = Loops!Begun[Len(Loops!Order)]
  OBVIOUS
<1>3. /\ begun \subseteq Loops!Timed \cup Loops!Durable /\ bodies = begun
      /\ "enrich" \in begun => begun \cap {"queued", "due"} = {}
  BY <1>1, <1>2, Started
<1>4. Len(shutdowns) = 0 /\ shutdowns \in Seq(ShutdownRow) /\ Len(shutdowns) <= MaxSignals
  BY <1>1 DEF Loops!WorkerAssumption
<1>5. \A i \in DOMAIN shutdowns : FALSE
  BY <1>1
<1>6. QED
  BY <1>1, <1>3, <1>4, <1>5 DEF LoopsInv, Loops!NoneBeside

LEMMA LoopsTyped == LoopsInv => Loops!TypeOK
BY Zenon DEF LoopsInv, Loops!TypeOK, ShutdownRow

\* A loop makes way for those that enrichment may not run beside, and they for it.
LEMMA LoopBegins ==
  ASSUME LoopsInv, NEW l, Loops!MakesWayFor(l) \cap bodies = {}, bodies' = bodies \cup {l}
  PROVE  Loops!NoneBeside'
<1>1. Loops!NoneBeside
  BY DEF LoopsInv
<1>2. CASE l = "enrich"
  BY <1>2 DEF Loops!NoneBeside, Loops!MakesWayFor
<1>3. CASE l \in {"queued", "due"}
  BY <1>1, <1>3 DEF Loops!NoneBeside, Loops!MakesWayFor
<1>4. CASE l \notin {"queued", "due", "enrich"}
  BY <1>1, <1>4 DEF Loops!NoneBeside
<1>5. QED
  BY <1>2, <1>3, <1>4

LEMMA LoopsStep ==
  ASSUME Loops!WorkerAssumption, LoopsInv, [Loops!Next]_Loops!vars
  PROVE  LoopsInv'
<1>0. V2Mode \in BOOLEAN /\ DrainPolls \in Nat /\ MaxSignals \in Nat
  BY DEF Loops!WorkerAssumption
<1>1. ASSUME NEW l \in Loops!Timed, Loops!Tick(l) PROVE LoopsInv'
  <2>1. /\ bodies' = bodies \cup {l} /\ process = "up" /\ l \in timers
        /\ Loops!MakesWayFor(l) \cap bodies = {}
        /\ UNCHANGED <<timers, aborted, shutdowns, disconnected, process>>
    BY <1>1 DEF Loops!Tick
  <2>2. Loops!NoneBeside'
    BY <2>1, LoopBegins
  <2>3. shutdowns = <<>> /\ \A i \in DOMAIN shutdowns : FALSE
    BY <2>1 DEF LoopsInv
  <2>4. ~disconnected
    BY <2>3 DEF LoopsInv
  <2>5. QED
    BY <1>1, <2>1, <2>2, <2>3, <2>4 DEF LoopsInv
<1>2. ASSUME NEW l \in Loops!Durable, Loops!DurableTick(l) PROVE LoopsInv'
  <2>1. /\ bodies' = bodies \cup {l} /\ process = "up" /\ ~aborted
        /\ UNCHANGED <<timers, aborted, shutdowns, disconnected, process>>
    BY <1>2 DEF Loops!DurableTick
  <2>2. l \notin {"queued", "due", "enrich"}
    BY <1>0, <1>2, LoopNames DEF Loops!Coordinated
  <2>3. Loops!NoneBeside'
    BY <2>1, <2>2 DEF LoopsInv, Loops!NoneBeside
  <2>4. shutdowns = <<>> /\ \A i \in DOMAIN shutdowns : FALSE
    BY <2>1 DEF LoopsInv
  <2>5. ~disconnected
    BY <2>4 DEF LoopsInv
  <2>6. QED
    BY <1>2, <2>1, <2>3, <2>4, <2>5 DEF LoopsInv
<1>3. ASSUME NEW l \in Loops!Timed \cup Loops!Durable, Loops!Ends(l) PROVE LoopsInv'
  <2>1. /\ bodies' = bodies \ {l}
        /\ UNCHANGED <<timers, aborted, shutdowns, disconnected, process>>
    BY <1>3 DEF Loops!Ends
  <2>2. Loops!NoneBeside'
    BY <2>1 DEF LoopsInv, Loops!NoneBeside
  <2>3. QED
    BY <2>1, <2>2 DEF LoopsInv
<1>4. CASE Loops!Signal
  <2>1. PICK d : d = [step |-> "durable", polls |-> 0]
    OBVIOUS
  <2>2. /\ Len(shutdowns) < MaxSignals /\ timers' = {} /\ aborted' = TRUE
        /\ shutdowns' = Append(shutdowns, d) /\ UNCHANGED <<bodies, disconnected, process>>
        /\ process = "up"
    BY <1>4, <2>1 DEF Loops!Signal
  <2>3. d \in ShutdownRow /\ d.step = "durable"
    BY <1>0, <2>1 DEF ShutdownRow
  <2>4. shutdowns \in Seq(ShutdownRow)
    BY DEF LoopsInv
  <2>5. /\ shutdowns' \in Seq(ShutdownRow) /\ Len(shutdowns') <= MaxSignals
        /\ shutdowns' # <<>>
        /\ \A i \in DOMAIN shutdowns' : i \in DOMAIN shutdowns \/ shutdowns'[i] = d
        /\ \A i \in DOMAIN shutdowns : i \in DOMAIN shutdowns' /\ shutdowns'[i] = shutdowns[i]
    BY <1>0, <2>2, <2>3, <2>4
  <2>6. \A i \in DOMAIN shutdowns' :
          shutdowns'[i].step # "durable" => bodies \cap Loops!Durable = {}
    BY <2>3, <2>5 DEF LoopsInv
  <2>7. disconnected =>
          /\ bodies \cap Loops!Durable = {}
          /\ \/ bodies \cap Loops!Coordinated = {}
             \/ \E i \in DOMAIN shutdowns' : shutdowns'[i].polls = DrainPolls
    BY <2>5 DEF LoopsInv
  <2>8. Loops!NoneBeside'
    BY <2>2 DEF LoopsInv, Loops!NoneBeside
  <2>9. process' # "exited"
    BY <2>2
  <2>10. QED
    BY <2>2, <2>5, <2>6, <2>7, <2>8, <2>9 DEF LoopsInv
<1>5. CASE Loops!Killed
  <2>1. /\ process' = "exited" /\ bodies' = {} /\ timers' = {}
        /\ UNCHANGED <<aborted, shutdowns, disconnected>>
    BY <1>5 DEF Loops!Killed
  <2>2. QED
    BY <2>1 DEF LoopsInv, Loops!NoneBeside
<1>6. CASE Loops!Restart
  <2>1. /\ timers' = Loops!Timed /\ bodies' = Loops!Begun[Len(Loops!Order)] /\ aborted' = FALSE
        /\ shutdowns' = <<>> /\ disconnected' = FALSE /\ process' = "up"
    BY <1>6 DEF Loops!Restart
  <2>2. PICK begun : begun = Loops!Begun[Len(Loops!Order)]
    OBVIOUS
  <2>3. /\ begun \subseteq Loops!Timed \cup Loops!Durable /\ bodies' = begun
        /\ "enrich" \in begun => begun \cap {"queued", "due"} = {}
    BY <2>1, <2>2, Started
  <2>4. /\ Len(shutdowns') = 0 /\ shutdowns' \in Seq(ShutdownRow) /\ Len(shutdowns') <= MaxSignals
        /\ \A i \in DOMAIN shutdowns' : FALSE
    BY <1>0, <2>1
  <2>5. QED
    BY <2>1, <2>3, <2>4 DEF LoopsInv, Loops!NoneBeside
<1>7. ASSUME NEW i \in DOMAIN shutdowns, Loops!Stops(i) PROVE LoopsInv'
  <2>1. shutdowns \in Seq(ShutdownRow) /\ shutdowns # <<>> /\ shutdowns[i] \in ShutdownRow
    BY DEF LoopsInv
  <2>2. shutdowns[i].polls \in 0..DrainPolls
    BY <2>1 DEF ShutdownRow
  <2>3. ASSUME NEW d \in ShutdownRow, shutdowns' = [shutdowns EXCEPT ![i] = d],
               d.step # "durable" => bodies \cap Loops!Durable = {},
               shutdowns[i].polls = DrainPolls => d.polls = DrainPolls,
               UNCHANGED <<timers, bodies, aborted, process>>,
               disconnected' \in BOOLEAN,
               \/ disconnected' = disconnected
               \/ /\ bodies \cap Loops!Durable = {}
                  /\ bodies \cap Loops!Coordinated = {} \/ d.polls = DrainPolls
        PROVE  LoopsInv'
    <3>1. /\ shutdowns' \in Seq(ShutdownRow) /\ Len(shutdowns') = Len(shutdowns)
          /\ DOMAIN shutdowns' = DOMAIN shutdowns /\ shutdowns' # <<>>
          /\ \A n \in DOMAIN shutdowns : shutdowns'[n] = IF n = i THEN d ELSE shutdowns[n]
      BY <2>1, <2>3
    <3>2. /\ \A n \in DOMAIN shutdowns' :
               shutdowns'[n].step # "durable" => bodies \cap Loops!Durable = {}
          /\ (\E n \in DOMAIN shutdowns : shutdowns[n].polls = DrainPolls)
               => \E n \in DOMAIN shutdowns' : shutdowns'[n].polls = DrainPolls
          /\ d.polls = DrainPolls
               => \E n \in DOMAIN shutdowns' : shutdowns'[n].polls = DrainPolls
      BY <2>3, <3>1 DEF LoopsInv
    <3>3. Loops!NoneBeside'
      BY <2>3 DEF LoopsInv, Loops!NoneBeside
    <3>4. disconnected' => /\ bodies \cap Loops!Durable = {}
                           /\ \/ bodies \cap Loops!Coordinated = {}
                              \/ \E n \in DOMAIN shutdowns' : shutdowns'[n].polls = DrainPolls
      BY <2>3, <3>2 DEF LoopsInv
    <3>5. QED
      BY <2>1, <2>3, <3>1, <3>2, <3>3, <3>4 DEF LoopsInv
  <2>4. CASE Loops!DurableStopped(i)
    <3>1. PICK d : d = [shutdowns[i] EXCEPT !.step = "drain"]
      OBVIOUS
    <3>2. /\ bodies \cap Loops!Durable = {} /\ shutdowns' = [shutdowns EXCEPT ![i] = d]
          /\ UNCHANGED <<timers, bodies, aborted, disconnected, process>>
      BY <2>4, <3>1 DEF Loops!DurableStopped
    <3>3. d \in ShutdownRow /\ d.polls = shutdowns[i].polls
      BY <2>1, <3>1 DEF ShutdownRow
    <3>4. disconnected \in BOOLEAN
      BY DEF LoopsInv
    <3>5. QED
      BY <2>3, <3>2, <3>3, <3>4
  <2>5. CASE Loops!Poll(i)
    <3>1. PICK d : d = [shutdowns[i] EXCEPT !.polls = @ + 1]
      OBVIOUS
    <3>2. /\ shutdowns[i].step = "drain" /\ shutdowns' = [shutdowns EXCEPT ![i] = d]
          /\ shutdowns[i].polls < DrainPolls
          /\ UNCHANGED <<timers, bodies, aborted, disconnected, process>>
      BY <2>5, <3>1 DEF Loops!Poll
    <3>3. d \in ShutdownRow /\ bodies \cap Loops!Durable = {} /\ disconnected \in BOOLEAN
      BY <1>0, <2>1, <2>2, <3>1, <3>2 DEF ShutdownRow, LoopsInv
    <3>4. shutdowns[i].polls # DrainPolls
      BY <1>0, <2>2, <3>2
    <3>5. QED
      BY <2>3, <3>2, <3>3, <3>4
  <2>6. CASE Loops!Close(i)
    <3>1. PICK d : d = [shutdowns[i] EXCEPT !.step = "closing"]
      OBVIOUS
    <3>2. /\ shutdowns[i].step = "drain" /\ shutdowns' = [shutdowns EXCEPT ![i] = d]
          /\ bodies \cap Loops!Coordinated = {} \/ shutdowns[i].polls = DrainPolls
          /\ disconnected' = TRUE /\ UNCHANGED <<timers, bodies, aborted, process>>
      BY <2>6, <3>1 DEF Loops!Close, Loops!Drained
    <3>3. d \in ShutdownRow /\ d.polls = shutdowns[i].polls /\ bodies \cap Loops!Durable = {}
      BY <2>1, <3>1, <3>2 DEF ShutdownRow, LoopsInv
    <3>4. QED
      BY <2>3, <3>2, <3>3
  <2>7. CASE Loops!Exit(i)
    <3>1. /\ process' = "exited" /\ bodies' = {} /\ timers' = {}
          /\ UNCHANGED <<aborted, shutdowns, disconnected>>
      BY <2>7 DEF Loops!Exit
    <3>2. QED
      BY <3>1 DEF LoopsInv, Loops!NoneBeside
  <2>8. QED
    BY <1>7, <2>4, <2>5, <2>6, <2>7 DEF Loops!Stops
<1>8. CASE UNCHANGED Loops!vars
  BY <1>8 DEF Loops!vars, LoopsInv, Loops!NoneBeside
<1>9. QED
  BY <1>1, <1>2, <1>3, <1>4, <1>5, <1>6, <1>7, <1>8 DEF Loops!Next

\* Worker: the loops, the shutdowns and the connections have their types.
THEOREM LoopsTypes ==
  ASSUME Loops!WorkerAssumption PROVE Loops!Spec => []Loops!TypeOK
<1>1. Loops!Init => LoopsInv
  BY LoopsInit
<1>2. LoopsInv /\ [Loops!Next]_Loops!vars => LoopsInv'
  BY LoopsStep
<1>3. QED
  BY <1>1, <1>2, LoopsTyped, PTL DEF Loops!Spec

\* Worker: with either pipeline, however long the drain and whatever signals come, enrichment
\* never runs beside a sync of the legacy pipeline, from the turn in which the loops are started
\* on; and Redis and the database are closed under a sync or an enrichment only after a shutdown
\* has waited for as long as it waits, under a loop of v2 never (startWorker, gracefulShutdown).
THEOREM ShutdownsAreQuiet ==
  ASSUME Loops!WorkerAssumption
  PROVE  Loops!Spec => [](Loops!NoneBeside /\ Loops!ClosedQuiet)
<1>1. Loops!Init => LoopsInv
  BY LoopsInit
<1>2. LoopsInv /\ [Loops!Next]_Loops!vars => LoopsInv'
  BY LoopsStep
<1>3. LoopsInv => Loops!NoneBeside /\ Loops!ClosedQuiet
  BY DEF LoopsInv, Loops!ClosedQuiet
<1>4. QED
  BY <1>1, <1>2, <1>3, PTL DEF Loops!Spec

---------------------------------------------------------------------------

(***************************************************************************)
(* ImportQuota: the daily cap on imports.                                  *)
(***************************************************************************)
CONSTANTS Imports, Limit, WindowMax, Days, MaxImports, MaxFails, MaxFaults
VARIABLES today, count, lasting, window, call, done, wronged, calls, fails, faults

Quota == INSTANCE ImportQuota WITH Calls <- Imports, MaxCalls <- MaxImports, day <- today

Places == {"idle", "asks", "imports", "full", "failed", "empties"}
CallRow == [at : Places, day : 0..Days]

Value(d) == IF count[d] = Quota!Gone THEN 0 ELSE count[d]

\* The imports that are about to take a slot, and those that have one of a day.
Waiting == {c \in Imports : call[c].at = "asks"}
Slots(d) == {c \in Imports : call[c].at \in {"imports", "full", "failed"} /\ call[c].day = d}
Running(d) == {c \in Imports : call[c].at = "imports" /\ call[c].day = d}
Turned == {c \in Imports : call[c].at = "full"}
Under == {c \in Imports : call[c].at # "idle"}

QuotaTyped ==
  /\ today \in 1..Days + 1 /\ count \in [Quota!Day -> Int] /\ done \in [Quota!Day -> Nat]
  /\ call \in [Imports -> CallRow]
  /\ \A c \in Imports : call[c].at \in {"idle", "asks"} <=> call[c].day = 0
  /\ calls \in 0..MaxImports /\ fails \in Nat /\ faults \in Nat

\* A counter counts no more than the imports that were asked for and are past asking: none gets
\* as far as Gone.
Bounded ==
  /\ IsFiniteSet(Under) /\ Cardinality(Waiting) <= calls
  /\ \A d \in Quota!Day : Value(d) + Cardinality(Waiting) <= calls

LEMMA SetMoves ==
  ASSUME NEW S, NEW T, NEW c, IsFiniteSet(S), \A x : x # c => (x \in S <=> x \in T)
  PROVE  /\ IsFiniteSet(T) /\ Cardinality(S) \in Nat /\ Cardinality(T) \in Nat
         /\ (c \in S <=> c \in T) => Cardinality(T) = Cardinality(S)
         /\ c \in S /\ c \notin T => Cardinality(T) = Cardinality(S) - 1
         /\ c \notin S /\ c \in T => Cardinality(T) = Cardinality(S) + 1
<1>1. CASE c \in S /\ c \notin T
  <2>1. T = S \ {c}
    BY <1>1
  <2>2. QED
    BY <1>1, <2>1, FS_RemoveElement, FS_CardinalityType
<1>2. CASE c \notin S /\ c \in T
  <2>1. T = S \cup {c}
    BY <1>2
  <2>2. QED
    BY <1>2, <2>1, FS_AddElement, FS_CardinalityType
<1>3. CASE c \in S <=> c \in T
  <2>1. T = S
    BY <1>3
  <2>2. QED
    BY <1>3, <2>1, FS_CardinalityType
<1>4. QED
  BY <1>1, <1>2, <1>3

\* The sets of imports are finite.
LEMMA ImportsAreFinite ==
  ASSUME IsFiniteSet(Under)
  PROVE  /\ IsFiniteSet(Waiting) /\ Cardinality(Waiting) \in Nat
         /\ IsFiniteSet(Turned) /\ Cardinality(Turned) \in Nat
         /\ \A d : /\ IsFiniteSet(Slots(d)) /\ Cardinality(Slots(d)) \in Nat
                   /\ IsFiniteSet(Running(d)) /\ Cardinality(Running(d)) \in Nat
<1>1. \A S : S \subseteq Under => IsFiniteSet(S) /\ Cardinality(S) \in Nat
  BY FS_Subset, FS_CardinalityType
<1>2. Waiting \subseteq Under /\ Turned \subseteq Under
  BY DEF Waiting, Turned, Under
<1>3. \A d : Slots(d) \subseteq Under /\ Running(d) \subseteq Under
  BY DEF Slots, Running, Under
<1>4. QED
  BY <1>1, <1>2, <1>3

\* What an import's step does to the sets it is in.
Change(S, T, before, after) ==
  /\ IsFiniteSet(T) /\ Cardinality(S) \in Nat /\ Cardinality(T) \in Nat
  /\ (before <=> after) => Cardinality(T) = Cardinality(S)
  /\ before /\ ~after => Cardinality(T) = Cardinality(S) - 1
  /\ ~before /\ after => Cardinality(T) = Cardinality(S) + 1

LEMMA CallMoves ==
  ASSUME QuotaTyped, IsFiniteSet(Under), NEW c \in Imports, NEW p, NEW e,
         call' = [call EXCEPT ![c] = [at |-> p, day |-> e]]
  PROVE  /\ IsFiniteSet(Under')
         /\ Change(Waiting, Waiting', call[c].at = "asks", p = "asks")
         /\ Change(Turned, Turned', call[c].at = "full", p = "full")
         /\ \A d : /\ Change(Slots(d), Slots(d)',
                             call[c].at \in {"imports", "full", "failed"} /\ call[c].day = d,
                             p \in {"imports", "full", "failed"} /\ e = d)
                   /\ Change(Running(d), Running(d)',
                             call[c].at = "imports" /\ call[c].day = d, p = "imports" /\ e = d)
<1>1. /\ \A b \in Imports : b # c => call'[b] = call[b]
      /\ call'[c].at = p /\ call'[c].day = e
  BY DEF QuotaTyped
<1>2. IsFiniteSet(Under')
  <2>1. \A x : x # c => (x \in Under <=> x \in Under')
    BY <1>1 DEF Under
  <2>2. QED
    BY <2>1, SetMoves
<1>3. Change(Waiting, Waiting', call[c].at = "asks", p = "asks")
  <2>1. /\ \A x : x # c => (x \in Waiting <=> x \in Waiting')
        /\ c \in Waiting <=> call[c].at = "asks"
        /\ c \in Waiting' <=> p = "asks"
    BY <1>1 DEF Waiting
  <2>2. IsFiniteSet(Waiting)
    BY ImportsAreFinite
  <2>3. QED
    BY <2>1, <2>2, SetMoves DEF Change
<1>4. Change(Turned, Turned', call[c].at = "full", p = "full")
  <2>1. /\ \A x : x # c => (x \in Turned <=> x \in Turned')
        /\ c \in Turned <=> call[c].at = "full"
        /\ c \in Turned' <=> p = "full"
    BY <1>1 DEF Turned
  <2>2. IsFiniteSet(Turned)
    BY ImportsAreFinite
  <2>3. QED
    BY <2>1, <2>2, SetMoves DEF Change
<1>5. ASSUME NEW d
      PROVE  /\ Change(Slots(d), Slots(d)',
                       call[c].at \in {"imports", "full", "failed"} /\ call[c].day = d,
                       p \in {"imports", "full", "failed"} /\ e = d)
             /\ Change(Running(d), Running(d)',
                       call[c].at = "imports" /\ call[c].day = d, p = "imports" /\ e = d)
  <2>1. /\ \A x : x # c => (x \in Slots(d) <=> x \in Slots(d)')
        /\ c \in Slots(d) <=> call[c].at \in {"imports", "full", "failed"} /\ call[c].day = d
        /\ c \in Slots(d)' <=> p \in {"imports", "full", "failed"} /\ e = d
    BY <1>1 DEF Slots
  <2>2. /\ \A x : x # c => (x \in Running(d) <=> x \in Running(d)')
        /\ c \in Running(d) <=> call[c].at = "imports" /\ call[c].day = d
        /\ c \in Running(d)' <=> p = "imports" /\ e = d
    BY <1>1 DEF Running
  <2>3. IsFiniteSet(Slots(d)) /\ IsFiniteSet(Running(d))
    BY ImportsAreFinite
  <2>4. Change(Slots(d), Slots(d)',
               call[c].at \in {"imports", "full", "failed"} /\ call[c].day = d,
               p \in {"imports", "full", "failed"} /\ e = d)
    BY <2>1, <2>3, SetMoves DEF Change
  <2>5. Change(Running(d), Running(d)',
               call[c].at = "imports" /\ call[c].day = d, p = "imports" /\ e = d)
    BY <2>2, <2>3, SetMoves DEF Change
  <2>6. QED
    BY <2>4, <2>5
<1>6. QED
  BY <1>2, <1>3, <1>4, <1>5

\* An import goes from one place to another.
Sends(c, p, e) == call' = [call EXCEPT ![c] = [at |-> p, day |-> e]]

\* One counter changes, by so much.
Counts(d, n) ==
  /\ count' \in [Quota!Day -> Int]
  /\ Value(d)' = n
  /\ \A b \in Quota!Day \ {d} : Value(b)' = Value(b) /\ count'[b] = count[b]

LEMMA Incremented ==
  ASSUME Quota!ImportQuotaAssumption, QuotaTyped, Bounded, NEW d \in Quota!Day,
         Quota!Incremented(d), Waiting # {}
  PROVE  Counts(d, Value(d) + 1) /\ count'[d] = Value(d) + 1 /\ Value(d) \in Int
<1>1. Value(d) \in Int /\ MaxImports \in Nat /\ Quota!Gone = MaxImports + 1
  BY DEF QuotaTyped, Value, Quota!ImportQuotaAssumption, Quota!Gone
<1>2. Cardinality(Waiting) \in Nat /\ Cardinality(Waiting) # 0
  BY ImportsAreFinite, FS_EmptySet DEF Bounded
<1>3. Value(d) + 1 # Quota!Gone
  <2>1. Value(d) + Cardinality(Waiting) <= calls /\ calls <= MaxImports /\ calls \in Nat
    BY DEF Bounded, QuotaTyped
  <2>2. QED
    BY <1>1, <1>2, <2>1
<1>4. count' = [count EXCEPT ![d] = Value(d) + 1]
  BY DEF Quota!Incremented, Quota!Value, Value
<1>5. QED
  BY <1>1, <1>3, <1>4 DEF QuotaTyped, Counts, Value

LEMMA Decremented ==
  ASSUME Quota!ImportQuotaAssumption, QuotaTyped, Bounded, NEW d \in Quota!Day,
         Quota!Decremented(d)
  PROVE  Counts(d, Value(d) - 1) /\ count'[d] = Value(d) - 1 /\ Value(d) \in Int
<1>1. Value(d) \in Int /\ MaxImports \in Nat /\ Quota!Gone = MaxImports + 1
  BY DEF QuotaTyped, Value, Quota!ImportQuotaAssumption, Quota!Gone
<1>2. Cardinality(Waiting) \in Nat
  BY ImportsAreFinite DEF Bounded
<1>3. Value(d) - 1 # Quota!Gone
  <2>1. Value(d) + Cardinality(Waiting) <= calls /\ calls <= MaxImports /\ calls \in Nat
    BY DEF Bounded, QuotaTyped
  <2>2. QED
    BY <1>1, <1>2, <2>1
<1>4. count' = [count EXCEPT ![d] = Value(d) - 1]
  BY DEF Quota!Decremented, Quota!Value, Value
<1>5. QED
  BY <1>1, <1>3, <1>4 DEF QuotaTyped, Counts, Value

\* The steps of an import, with what they do to the counters.
Reserving(c) ==
  /\ call[c].at = "asks" /\ today \in Quota!Day
  /\ Counts(today, Value(today) + 1) /\ Value(today) \in Int
  /\ LET n == Value(today) + 1 IN
       \/ n < 1 /\ Sends(c, "idle", 0)
       \/ n > Limit /\ Sends(c, "full", today)
       \/ n \in 1..Limit /\ Sends(c, "imports", today)
  /\ UNCHANGED <<today, done, calls, fails, faults>>

Releasing(c) ==
  /\ call[c].at \in {"full", "failed"} /\ today \in Quota!Day
  /\ Counts(today, Value(today) - 1) /\ Value(today) \in Int
  /\ \/ Value(today) - 1 <= 0 /\ Sends(c, "empties", today)
     \/ Value(today) - 1 > 0 /\ Sends(c, "idle", 0)
  /\ UNCHANGED <<today, done, calls, fails, faults>>

\* With a fault: the counter may have changed, and the import is over.
Failing(c) ==
  /\ faults < MaxFaults
  /\ \/ /\ call[c].at = "asks" /\ today \in Quota!Day
        /\ \/ Counts(today, Value(today) + 1)
           \/ UNCHANGED count
     \/ /\ call[c].at \in {"full", "failed"} /\ today \in Quota!Day
        /\ \/ Counts(today, Value(today) - 1)
           \/ UNCHANGED count
     \/ call[c].at # "idle" /\ UNCHANGED count
  /\ Sends(c, "idle", 0) /\ faults' = faults + 1 /\ UNCHANGED <<today, done, calls, fails>>

LEMMA Reserves ==
  ASSUME Quota!ImportQuotaAssumption, QuotaTyped, Bounded, NEW c \in Imports, Quota!Reserve(c)
  PROVE  Reserving(c)
<1>1. call[c].at = "asks" /\ today \in Quota!Day /\ Waiting # {}
  BY DEF Quota!Reserve, Waiting
<1>2. Counts(today, Value(today) + 1) /\ count'[today] = Value(today) + 1 /\ Value(today) \in Int
  BY <1>1, Incremented DEF Quota!Reserve
<1>3. Limit \in Nat
  BY DEF Quota!ImportQuotaAssumption
<1>4. PICK n \in Int : n = Value(today) + 1 /\ n = count'[today]
  BY <1>2
<1>5. (CASE n < 1 -> Quota!At(c, "idle", 0)
         [] Quota!Over(n) -> Quota!At(c, "full", today)
         [] OTHER -> Quota!At(c, "imports", today))
  BY <1>4 DEF Quota!Reserve
<1>6. \/ n < 1 /\ Sends(c, "idle", 0)
      \/ n > Limit /\ Sends(c, "full", today)
      \/ n \in 1..Limit /\ Sends(c, "imports", today)
  <2>1. CASE n < 1
    BY <1>3, <1>5, <2>1 DEF Sends, Quota!At, Quota!Over
  <2>2. CASE n > Limit
    BY <1>3, <1>5, <2>2 DEF Sends, Quota!At, Quota!Over
  <2>3. CASE n \in 1..Limit
    BY <1>3, <1>5, <2>3 DEF Sends, Quota!At, Quota!Over
  <2>4. QED
    BY <1>3, <2>1, <2>2, <2>3
<1>7. UNCHANGED <<today, done, calls, fails, faults>>
  BY DEF Quota!Reserve, Quota!bounds
<1>8. QED
  BY <1>1, <1>2, <1>4, <1>6, <1>7 DEF Reserving

LEMMA Releases ==
  ASSUME Quota!ImportQuotaAssumption, QuotaTyped, Bounded, NEW c \in Imports, Quota!Release(c)
  PROVE  Releasing(c)
<1>1. call[c].at \in {"full", "failed"} /\ today \in Quota!Day
  BY DEF Quota!Release
<1>2. Counts(today, Value(today) - 1) /\ count'[today] = Value(today) - 1 /\ Value(today) \in Int
  BY <1>1, Decremented DEF Quota!Release
<1>3. \/ Value(today) - 1 <= 0 /\ Sends(c, "empties", today)
      \/ Value(today) - 1 > 0 /\ Sends(c, "idle", 0)
  BY <1>2 DEF Quota!Release, Sends, Quota!At
<1>4. UNCHANGED <<today, done, calls, fails, faults>>
  BY DEF Quota!Release, Quota!bounds
<1>5. QED
  BY <1>1, <1>2, <1>3, <1>4 DEF Releasing

LEMMA Fails ==
  ASSUME Quota!ImportQuotaAssumption, QuotaTyped, Bounded, NEW c \in Imports,
         Quota!ReserveFails(c) \/ Quota!ReleaseFails(c) \/ Quota!Crash(c)
  PROVE  Failing(c)
<1>1. CASE Quota!ReserveFails(c)
  <2>1. call[c].at = "asks" /\ today \in Quota!Day /\ Waiting # {}
    BY <1>1 DEF Quota!ReserveFails, Waiting
  <2>2. Counts(today, Value(today) + 1) \/ UNCHANGED count
    BY <1>1, <2>1, Incremented DEF Quota!ReserveFails
  <2>3. QED
    BY <1>1, <2>1, <2>2 DEF Failing, Quota!ReserveFails, Quota!Fault, Quota!At, Sends
<1>2. CASE Quota!ReleaseFails(c)
  <2>1. call[c].at \in {"full", "failed"} /\ today \in Quota!Day
    BY <1>2 DEF Quota!ReleaseFails
  <2>2. Counts(today, Value(today) - 1) \/ UNCHANGED count
    BY <1>2, <2>1, Decremented DEF Quota!ReleaseFails
  <2>3. QED
    BY <1>2, <2>1, <2>2 DEF Failing, Quota!ReleaseFails, Quota!Fault, Quota!At, Sends
<1>3. CASE Quota!Crash(c)
  <2>1. call[c].at # "idle"
    <3>1. SUFFICES ASSUME call[c].at = "idle" PROVE FALSE
      OBVIOUS
    <3>2. call[c] \in CallRow /\ call[c].day = 0
      BY <3>1 DEF QuotaTyped
    <3>3. call[c] = Quota!Idle
      BY <3>1, <3>2 DEF CallRow, Quota!Idle
    <3>4. QED
      BY <1>3, <3>3 DEF Quota!Crash
  <2>2. QED
    BY <1>3, <2>1 DEF Failing, Quota!Crash, Quota!Fault, Quota!At, Sends
<1>4. QED
  BY <1>1, <1>2, <1>3

\* A counter goes, with its time to live or by a command.
LEMMA Emptied ==
  ASSUME QuotaTyped, MaxImports \in Nat, NEW d \in Quota!Day,
         count' = [count EXCEPT ![d] = Quota!Gone]
  PROVE  Counts(d, 0)
<1>1. Quota!Gone \in Int
  BY DEF Quota!Gone
<1>2. QED
  BY <1>1 DEF QuotaTyped, Counts, Value

LEMMA CallTyped ==
  ASSUME QuotaTyped, NEW c \in Imports, NEW p \in Places, NEW e \in 0..Days, Sends(c, p, e),
         p \in {"idle", "asks"} <=> e = 0
  PROVE  /\ call' \in [Imports -> CallRow]
         /\ \A b \in Imports : call'[b].at \in {"idle", "asks"} <=> call'[b].day = 0
BY DEF QuotaTyped, Sends, CallRow

QuotaInv == QuotaTyped /\ Bounded

LEMMA QuotaInit == ASSUME Quota!ImportQuotaAssumption PROVE Quota!Init => QuotaInv
<1> SUFFICES ASSUME Quota!Init PROVE QuotaInv
  OBVIOUS
<1>1. Days \in Nat \ {0} /\ MaxImports \in Nat /\ Quota!Gone \in Int
  BY DEF Quota!ImportQuotaAssumption, Quota!Gone
<1>2. call = [c \in Imports |-> [at |-> "idle", day |-> 0]]
  BY DEF Quota!Init, Quota!Idle
<1>3. QuotaTyped
  <2>1. call \in [Imports -> CallRow]
    BY <1>1, <1>2 DEF CallRow, Places
  <2>2. \A c \in Imports : call[c].at \in {"idle", "asks"} <=> call[c].day = 0
    BY <1>2
  <2>3. QED
    BY <1>1, <2>1, <2>2 DEF Quota!Init, QuotaTyped
<1>4. Under = {} /\ Waiting = {}
  BY <1>2 DEF Under, Waiting
<1>5. \A d \in Quota!Day : Value(d) = 0
  BY DEF Quota!Init, Value
<1>6. calls = 0
  BY DEF Quota!Init
<1>7. IsFiniteSet(Under) /\ Cardinality(Waiting) = 0
  BY <1>4, FS_EmptySet
<1>8. Bounded
  BY <1>5, <1>6, <1>7 DEF Bounded
<1>9. QED
  BY <1>3, <1>8 DEF QuotaInv

\* A step of an import that goes past asking: a counter grows for an import that asked.
Proceeds(c, p, e) ==
  /\ Sends(c, p, e) /\ p # "asks" /\ (p \in {"idle", "asks"} <=> e = 0)
  /\ count' \in [Quota!Day -> Int]
  /\ \A d \in Quota!Day : \/ Value(d)' <= Value(d) \/ Value(d)' = 0
                          \/ (Value(d)' = Value(d) + 1 /\ call[c].at = "asks")
  /\ UNCHANGED <<today, calls>>
  /\ done' \in [Quota!Day -> Nat] /\ fails' \in Nat /\ faults' \in Nat

LEMMA QuotaStep ==
  ASSUME Quota!ImportQuotaAssumption
  PROVE  QuotaInv /\ [Quota!Next]_Quota!vars => QuotaInv'
<1> SUFFICES ASSUME QuotaInv, [Quota!Next]_Quota!vars PROVE QuotaInv'
  OBVIOUS
<1>1. QuotaTyped /\ Bounded /\ IsFiniteSet(Under)
  BY DEF QuotaInv, Bounded
<1>2. /\ Days \in Nat \ {0} /\ MaxImports \in Nat /\ calls \in Nat /\ MaxFaults \in Nat
      /\ Quota!Day = 1..Days
  BY <1>1 DEF Quota!ImportQuotaAssumption, QuotaTyped, Quota!Day
<1>3. Cardinality(Waiting) \in Nat /\ \A d \in Quota!Day : Value(d) \in Int
  BY <1>1, ImportsAreFinite DEF QuotaTyped, Value
\* An import that goes on without a change of the counters but for the worse.
<1>4. ASSUME NEW c \in Imports, NEW p \in Places, NEW e \in 0..Days, Proceeds(c, p, e)
      PROVE  QuotaInv'
  <2> USE <1>4 DEF Proceeds
  <2>1. QuotaTyped'
    BY <1>1, <1>4, CallTyped DEF QuotaTyped
  <2>2. Change(Waiting, Waiting', call[c].at = "asks", p = "asks") /\ IsFiniteSet(Under')
    BY <1>1, <1>4, CallMoves DEF Sends
  <2>3. PICK m, n \in Nat : m = Cardinality(Waiting) /\ n = Cardinality(Waiting')
    BY <2>2 DEF Change
  <2>4. n <= m /\ (call[c].at = "asks" => n = m - 1)
    BY <1>4, <2>2, <2>3 DEF Change
  <2>5. m <= calls
    BY <1>1, <2>3 DEF Bounded
  <2>6. ASSUME NEW d \in Quota!Day PROVE Value(d)' + n <= calls
    <3>1. Value(d) \in Int /\ Value(d) + m <= calls
      BY <1>1, <1>3, <2>3 DEF Bounded
    <3>2. Value(d)' \in Int
      BY <2>1 DEF QuotaTyped, Value
    <3>3. CASE Value(d)' <= Value(d)
      BY <1>2, <2>4, <3>1, <3>2, <3>3
    <3>4. CASE Value(d)' = 0
      BY <1>2, <2>4, <2>5, <3>4
    <3>5. CASE Value(d)' = Value(d) + 1 /\ call[c].at = "asks"
      BY <1>2, <2>4, <3>1, <3>5
    <3>6. QED
      BY <1>4, <3>3, <3>4, <3>5
  <2>7. n <= calls
    BY <1>2, <2>4, <2>5
  <2>8. calls' = calls
    BY <1>4
  <2>9. Bounded'
    BY <2>2, <2>3, <2>6, <2>7, <2>8 DEF Bounded
  <2>10. QED
    BY <2>1, <2>9 DEF QuotaInv
<1>5. ASSUME NEW d \in Quota!Day, NEW n, Counts(d, n),
             n <= Value(d) \/ n = 0
      PROVE  \A b \in Quota!Day : Value(b)' <= Value(b) \/ Value(b)' = 0
  BY <1>3, <1>5 DEF Counts
<1>6. ASSUME count' = count
      PROVE  count' \in [Quota!Day -> Int] /\ \A b \in Quota!Day : Value(b)' <= Value(b)
  <2>1. \A b \in Quota!Day : Value(b)' = Value(b)
    BY <1>6 DEF Value
  <2>2. QED
    BY <1>1, <1>3, <1>6, <2>1 DEF QuotaTyped
<1>7. /\ done \in [Quota!Day -> Nat]
      /\ fails \in Nat /\ faults \in Nat
      /\ \A c \in Imports : call[c].day \in 0..Days
      /\ {"idle", "asks", "imports", "full", "failed", "empties"} \subseteq Places
      /\ 0 \in 0..Days /\ "idle" \in Places /\ "asks" \in Places
  BY <1>1, <1>2 DEF QuotaTyped, CallRow, Places
<1>8. ASSUME NEW c \in Imports, Quota!Ask(c) PROVE QuotaInv'
  <2>1. /\ call[c].at = "idle"
        /\ calls' = calls + 1 /\ calls < MaxImports
        /\ Sends(c, "asks", 0) \/ UNCHANGED call
        /\ UNCHANGED <<today, count, done, fails, faults>>
    BY <1>8 DEF Quota!Ask, Quota!At, Sends, Quota!Idle
  <2>2. \A d \in Quota!Day : Value(d)' = Value(d)
    BY <2>1 DEF Value
  <2>3. CASE UNCHANGED call
    <3>1. Waiting' = Waiting /\ Under' = Under
      BY <2>3 DEF Waiting, Under
    <3>2. Bounded'
      BY <1>1, <1>2, <1>3, <2>1, <2>2, <3>1 DEF Bounded
    <3>3. QED
      BY <1>1, <1>2, <2>1, <2>3, <3>2 DEF QuotaInv, QuotaTyped
  <2>4. CASE Sends(c, "asks", 0)
    <3>1. QuotaTyped'
      <4>1. /\ call' \in [Imports -> CallRow]
            /\ \A b \in Imports : call'[b].at \in {"idle", "asks"} <=> call'[b].day = 0
        <5>1. "asks" \in {"idle", "asks"} <=> 0 = 0
          OBVIOUS
        <5>2. QED
          BY Zenon, <1>1, <1>7, <2>4, <5>1, CallTyped
      <4>2. QED
        BY <1>1, <1>2, <2>1, <4>1 DEF QuotaTyped
    <3>2. Change(Waiting, Waiting', call[c].at = "asks", TRUE) /\ IsFiniteSet(Under')
      BY <1>1, <2>4, CallMoves DEF Sends
    <3>3. PICK m, n \in Nat : m = Cardinality(Waiting) /\ n = Cardinality(Waiting') /\ n = m + 1
      BY <2>1, <3>2 DEF Change
    <3>4. \A d \in Quota!Day : Value(d)' + n <= calls'
      <4>1. ASSUME NEW d \in Quota!Day PROVE Value(d)' + n <= calls'
        <5>1. Value(d) \in Int /\ Value(d) + m <= calls
          BY <1>1, <1>3, <3>3 DEF Bounded
        <5>2. Value(d)' = Value(d) /\ calls' = calls + 1
          BY <2>1, <2>2
        <5>3. QED
          BY <1>2, <3>3, <5>1, <5>2
      <4>2. QED
        BY <4>1
    <3>5. Bounded'
      BY <1>1, <1>2, <2>1, <3>2, <3>3, <3>4 DEF Bounded
    <3>6. QED
      BY <3>1, <3>5 DEF QuotaInv
  <2>5. QED
    BY <2>1, <2>3, <2>4
<1>9. ASSUME NEW c \in Imports, Quota!Reserve(c) PROVE QuotaInv'
  <2>1. Reserving(c)
    BY <1>1, <1>9, Reserves
  <2>2. PICK p \in {"idle", "full", "imports"}, e \in 0..Days :
          Sends(c, p, e) /\ (p = "idle" <=> e = 0)
    BY <1>2, <2>1 DEF Reserving
  <2>3. \A d \in Quota!Day : \/ Value(d)' <= Value(d) \/ Value(d)' = 0
                            \/ (Value(d)' = Value(d) + 1 /\ call[c].at = "asks")
    BY <1>3, <2>1 DEF Reserving, Counts
  <2>4. count' \in [Quota!Day -> Int] /\ UNCHANGED <<today, done, calls, fails, faults>>
    BY <2>1 DEF Reserving, Counts
  <2>5. p \in Places /\ p # "asks" /\ (p \in {"idle", "asks"} <=> e = 0)
    BY <2>2 DEF Places
  <2>6. Proceeds(c, p, e)
    BY <1>7, <2>2, <2>3, <2>4, <2>5 DEF Proceeds
  <2>7. QED
    BY Zenon, <1>4, <2>2, <2>5, <2>6
<1>10. ASSUME NEW c \in Imports, Quota!Release(c) PROVE QuotaInv'
  <2>1. Releasing(c)
    BY <1>1, <1>10, Releases
  <2>2. PICK p \in {"idle", "empties"}, e \in 0..Days :
          Sends(c, p, e) /\ (p = "idle" <=> e = 0)
    BY <1>2, <2>1 DEF Releasing
  <2>3. \A d \in Quota!Day : Value(d)' <= Value(d) \/ Value(d)' = 0
    BY <1>5, <2>1 DEF Releasing
  <2>4. count' \in [Quota!Day -> Int] /\ UNCHANGED <<today, done, calls, fails, faults>>
    BY <2>1 DEF Releasing, Counts
  <2>5. p \in Places /\ p # "asks" /\ (p \in {"idle", "asks"} <=> e = 0)
    BY <2>2 DEF Places
  <2>6. Proceeds(c, p, e)
    BY <1>7, <2>2, <2>3, <2>4, <2>5 DEF Proceeds
  <2>7. QED
    BY Zenon, <1>4, <2>2, <2>5, <2>6
<1>11. ASSUME NEW c \in Imports,
              Quota!ReserveFails(c) \/ Quota!ReleaseFails(c) \/ Quota!Crash(c)
       PROVE  QuotaInv'
  <2>1. Failing(c)
    BY <1>1, <1>11, Fails
  <2>2. /\ count' \in [Quota!Day -> Int]
        /\ \A d \in Quota!Day : \/ Value(d)' <= Value(d) \/ Value(d)' = 0
                                \/ (Value(d)' = Value(d) + 1 /\ call[c].at = "asks")
    <3>1. CASE UNCHANGED count
      BY <1>6, <3>1
    <3>2. CASE ~UNCHANGED count
      BY <1>3, <2>1, <3>2 DEF Failing, Counts
    <3>3. QED
      BY <3>1, <3>2
  <2>3. Sends(c, "idle", 0) /\ 0 \in 0..Days /\ faults' \in Nat
        /\ UNCHANGED <<today, done, calls, fails>>
    BY <1>2, <1>7, <2>1 DEF Failing
  <2>4. "idle" # "asks" /\ ("idle" \in {"idle", "asks"} <=> 0 = 0)
    OBVIOUS
  <2>5. Proceeds(c, "idle", 0)
    BY <1>7, <2>2, <2>3, <2>4 DEF Proceeds
  <2>6. QED
    BY Zenon, <1>4, <1>7, <2>5
<1>12. ASSUME NEW c \in Imports, Quota!Succeed(c) PROVE QuotaInv'
  <2>1. /\ call[c].at = "imports" /\ done' = [done EXCEPT ![call[c].day] = @ + 1]
        /\ Sends(c, "idle", 0)
        /\ UNCHANGED <<today, count, calls, fails, faults>>
    BY <1>12 DEF Quota!Succeed, Quota!At, Sends, Quota!bounds
  <2>2. done' \in [Quota!Day -> Nat]
    <3>1. call[c].day \in Quota!Day
      <4>1. call[c].day \in 0..Days /\ call[c].day # 0
        BY <1>1, <1>7, <2>1 DEF QuotaTyped
      <4>2. QED
        BY <1>2, <4>1
    <3>2. done[call[c].day] + 1 \in Nat
      BY <1>7, <3>1
    <3>3. QED
      BY <1>7, <2>1, <3>2
  <2>3. "idle" # "asks" /\ ("idle" \in {"idle", "asks"} <=> 0 = 0)
    OBVIOUS
  <2>4. count' \in [Quota!Day -> Int] /\ \A b \in Quota!Day : Value(b)' <= Value(b)
    BY <1>6, <2>1
  <2>5. Proceeds(c, "idle", 0)
    BY <1>7, <2>1, <2>2, <2>3, <2>4 DEF Proceeds
  <2>6. QED
    BY Zenon, <1>4, <1>7, <2>5
<1>13. ASSUME NEW c \in Imports, Quota!Fail(c) PROVE QuotaInv'
  <2>1. /\ call[c].at = "imports" /\ fails' = fails + 1
        /\ Sends(c, "failed", call[c].day)
        /\ UNCHANGED <<today, count, done, calls, faults>>
    BY <1>13 DEF Quota!Fail, Quota!At, Sends
  <2>2. call[c].day \in 0..Days /\ call[c].day # 0 /\ fails' \in Nat
    BY <1>1, <1>7, <2>1 DEF QuotaTyped
  <2>3. /\ "failed" \in Places /\ "failed" # "asks"
        /\ "failed" \in {"idle", "asks"} <=> call[c].day = 0
    BY <2>2 DEF Places
  <2>4. count' \in [Quota!Day -> Int] /\ \A b \in Quota!Day : Value(b)' <= Value(b)
    BY <1>6, <2>1
  <2>5. Proceeds(c, "failed", call[c].day)
    BY <1>7, <2>1, <2>2, <2>3, <2>4 DEF Proceeds
  <2>6. QED
    BY Zenon, <1>4, <1>7, <2>5, <2>2
<1>14. ASSUME NEW c \in Imports, Quota!Empty(c) PROVE QuotaInv'
  <2>1. /\ call[c].at = "empties" /\ count' = [count EXCEPT ![call[c].day] = Quota!Gone]
        /\ Sends(c, "idle", 0)
        /\ UNCHANGED <<today, done, calls, fails, faults>>
    BY <1>14 DEF Quota!Empty, Quota!At, Sends, Quota!bounds
  <2>2. call[c].day \in Quota!Day
    <3>1. call[c].day \in 0..Days /\ call[c].day # 0
      BY <1>1, <1>7, <2>1 DEF QuotaTyped
    <3>2. QED
      BY <1>2, <3>1
  <2>3. Counts(call[c].day, 0)
    BY <1>1, <1>2, <2>1, <2>2, Emptied
  <2>4. \A d \in Quota!Day : Value(d)' <= Value(d) \/ Value(d)' = 0
    BY <1>5, <2>2, <2>3
  <2>5. "idle" # "asks" /\ ("idle" \in {"idle", "asks"} <=> 0 = 0)
    OBVIOUS
  <2>6. count' \in [Quota!Day -> Int]
    BY <2>3 DEF Counts
  <2>7. Proceeds(c, "idle", 0)
    BY <1>7, <2>1, <2>4, <2>5, <2>6 DEF Proceeds
  <2>8. QED
    BY Zenon, <1>4, <1>7, <2>7
\* No import goes on.
<1>15. ASSUME UNCHANGED <<call, calls, done, fails, faults>>, today' \in 1..Days + 1,
              count' \in [Quota!Day -> Int],
              \A d \in Quota!Day : Value(d)' <= Value(d) \/ Value(d)' = 0
       PROVE  QuotaInv'
  <2>1. Waiting' = Waiting /\ Under' = Under
    BY <1>15 DEF Waiting, Under
  <2>2. QuotaTyped'
    BY <1>1, <1>15 DEF QuotaTyped
  <2>3. \A d \in Quota!Day : Value(d)' \in Int
    BY <2>2 DEF QuotaTyped, Value
  <2>4. ASSUME NEW d \in Quota!Day PROVE Value(d)' + Cardinality(Waiting) <= calls
    <3>1. PICK v \in Int, w \in Int, m \in Nat :
            v = Value(d) /\ w = Value(d)' /\ m = Cardinality(Waiting)
      BY <1>3, <2>3
    <3>2. v + m <= calls /\ m <= calls /\ (w <= v \/ w = 0)
      BY <1>1, <1>15, <3>1 DEF Bounded
    <3>3. w + m <= calls
      BY <1>2, <3>2
    <3>4. QED
      BY <3>1, <3>3
  <2>5. Bounded'
    BY <1>1, <1>15, <2>1, <2>4 DEF Bounded
  <2>6. QED
    BY <2>2, <2>5 DEF QuotaInv
<1>16. today \in 1..Days + 1
  BY <1>1 DEF QuotaTyped
<1>17. CASE Quota!WindowEnds
  BY <1>6, <1>15, <1>16, <1>17 DEF Quota!WindowEnds, Quota!bounds
<1>18. CASE Quota!Midnight
  <2>1. today' \in 1..Days + 1 /\ UNCHANGED <<count, call, calls, done, fails, faults>>
    BY <1>2, <1>18 DEF Quota!Midnight, Quota!bounds
  <2>2. QED
    BY <1>6, <1>15, <2>1
<1>19. ASSUME NEW d \in Quota!Day, Quota!Expire(d) PROVE QuotaInv'
  <2>1. count' = [count EXCEPT ![d] = Quota!Gone]
        /\ UNCHANGED <<today, call, calls, done, fails, faults>>
    BY <1>19 DEF Quota!Expire, Quota!bounds
  <2>2. Counts(d, 0)
    BY <1>1, <1>2, <2>1, Emptied
  <2>3. QED
    BY <1>5, <1>15, <1>16, <2>1, <2>2 DEF Counts
<1>20. CASE UNCHANGED Quota!vars
  BY <1>6, <1>15, <1>16, <1>20 DEF Quota!vars
<1>21. QED
  BY <1>8, <1>9, <1>10, <1>11, <1>12, <1>13, <1>14, <1>17, <1>18, <1>19, <1>20 DEF Quota!Next

(***************************************************************************)
(* Without faults no slot is lost: the counter of today counts no more     *)
(* than the imports that succeeded and those that hold a slot, and the     *)
(* counters of the days to come are at zero.                               *)
(***************************************************************************)
SlotHolds(d) ==
  /\ d = today => Value(d) <= done[d] + Cardinality(Slots(d))
  /\ d > today => Value(d) = 0

SlotInv == QuotaInv /\ \A d \in Quota!Day : SlotHolds(d)

\* What a step of import c may do to a counter and to the imports it stands for.
HadSlot(c, d) == call[c].at \in {"imports", "full", "failed"} /\ call[c].day = d
HasSlot(p, e, d) == p \in {"imports", "full", "failed"} /\ e = d

SlotMoves(c, p, e, d) ==
  \/ Value(d)' = Value(d) /\ done'[d] = done[d] /\ (HadSlot(c, d) => HasSlot(p, e, d))
  \/ Value(d)' = Value(d) /\ (done'[d] = done[d] + 1 \/ d # today)
  \/ /\ Value(d)' = Value(d) + 1 /\ done'[d] = done[d]
     /\ d = today /\ ~HadSlot(c, d) /\ HasSlot(p, e, d)
  \/ Value(d)' = Value(d) - 1 /\ done'[d] = done[d] /\ d = today
  \/ Value(d)' = 0
  \/ Value(d)' < 1 /\ d = today

LEMMA SlotKept ==
  ASSUME Quota!ImportQuotaAssumption, QuotaInv, QuotaInv', NEW c \in Imports, NEW p, NEW e,
         Sends(c, p, e), today' = today, NEW d \in Quota!Day, SlotHolds(d), SlotMoves(c, p, e, d)
  PROVE  SlotHolds(d)'
<1>1. Change(Slots(d), Slots(d)', HadSlot(c, d), HasSlot(p, e, d))
  BY CallMoves DEF QuotaInv, Bounded, Sends, HadSlot, HasSlot
<1>2. PICK m, n \in Nat : m = Cardinality(Slots(d)) /\ n = Cardinality(Slots(d)')
  BY <1>1 DEF Change
<1>3. Value(d) \in Int /\ done[d] \in Nat /\ today \in Int /\ d \in Int
  BY DEF QuotaInv, QuotaTyped, Value, Quota!ImportQuotaAssumption, Quota!Day
<1>4. Value(d)' \in Int /\ done'[d] \in Nat
  BY DEF QuotaInv, QuotaTyped, Value
<1>5. PICK v, w \in Int, x, y \in Nat :
        v = Value(d) /\ w = Value(d)' /\ x = done[d] /\ y = done'[d]
  BY <1>3, <1>4
<1>6. /\ n >= m - 1
      /\ (HadSlot(c, d) => HasSlot(p, e, d)) => n >= m
      /\ ~HadSlot(c, d) /\ HasSlot(p, e, d) => n = m + 1
  BY <1>1, <1>2 DEF Change
<1>7. (d = today => v <= x + m) /\ (d > today => v = 0)
  BY <1>2, <1>5 DEF SlotHolds
<1>8. \/ w = v /\ y = x /\ (HadSlot(c, d) => HasSlot(p, e, d))
      \/ w = v /\ (y = x + 1 \/ d # today)
      \/ w = v + 1 /\ y = x /\ d = today /\ ~HadSlot(c, d) /\ HasSlot(p, e, d)
      \/ w = v - 1 /\ y = x /\ d = today
      \/ w = 0
      \/ w < 1 /\ d = today
  BY <1>5 DEF SlotMoves
<1>9. (d = today => w <= y + n) /\ (d > today => w = 0)
  BY <1>3, <1>6, <1>7, <1>8
<1>10. QED
  BY <1>2, <1>5, <1>9 DEF SlotHolds

LEMMA SlotStep ==
  ASSUME Quota!ImportQuotaAssumption, MaxFaults = 0
  PROVE  SlotInv /\ [Quota!Next]_Quota!vars => SlotInv'
<1> SUFFICES ASSUME SlotInv, [Quota!Next]_Quota!vars PROVE SlotInv'
  OBVIOUS
<1>1. QuotaInv /\ QuotaTyped /\ Bounded
  BY DEF SlotInv, QuotaInv
<1>2. QuotaInv'
  BY <1>1, QuotaStep
<1>3. SUFFICES ASSUME NEW d \in Quota!Day PROVE SlotHolds(d)'
  BY <1>2 DEF SlotInv
<1>4. SlotHolds(d) /\ d \in Int /\ today \in Int /\ Value(d) \in Int /\ done[d] \in Nat
  BY <1>1 DEF SlotInv, QuotaTyped, Value, Quota!ImportQuotaAssumption, Quota!Day
<1>5. ASSUME NEW c \in Imports, NEW p, NEW e, Sends(c, p, e), today' = today,
             SlotMoves(c, p, e, d)
      PROVE  SlotHolds(d)'
  BY <1>1, <1>2, <1>4, <1>5, SlotKept
<1>6. ASSUME NEW c \in Imports, Quota!Ask(c) PROVE SlotHolds(d)'
  <2>1. /\ call[c].at = "idle"
        /\ Sends(c, "asks", 0) \/ UNCHANGED call
        /\ UNCHANGED <<today, count, done>>
    BY <1>6 DEF Quota!Ask, Quota!At, Sends, Quota!Idle
  <2>2. CASE Sends(c, "asks", 0)
    <3>1. Value(d)' = Value(d) /\ done'[d] = done[d] /\ ~HadSlot(c, d)
      BY <2>1 DEF HadSlot, Value
    <3>2. SlotMoves(c, "asks", 0, d)
      BY <3>1 DEF SlotMoves
    <3>3. QED
      BY Zenon, <1>5, <2>1, <2>2, <3>2
  <2>3. CASE UNCHANGED call
    BY <1>4, <2>1, <2>3 DEF SlotHolds, Value, Slots
  <2>4. QED
    BY <2>1, <2>2, <2>3
<1>7. ASSUME NEW c \in Imports, Quota!Reserve(c) PROVE SlotHolds(d)'
  <2>1. Reserving(c)
    BY <1>1, <1>7, Reserves
  <2>2. CASE Value(today) + 1 < 1 /\ Sends(c, "idle", 0)
    <3>1. SlotMoves(c, "idle", 0, d)
      BY <1>4, <2>1, <2>2 DEF Reserving, Counts, SlotMoves, HadSlot
    <3>2. QED
      BY Zenon, <1>5, <2>1, <2>2, <3>1 DEF Reserving
  <2>3. ASSUME NEW p \in {"full", "imports"}, Sends(c, p, today) PROVE SlotHolds(d)'
    <3>1. SlotMoves(c, p, today, d)
      BY <1>4, <2>1, <2>3 DEF Reserving, Counts, SlotMoves, HadSlot, HasSlot
    <3>2. PICK e : e = today
      OBVIOUS
    <3>3. SlotMoves(c, p, e, d) /\ Sends(c, p, e) /\ today' = today
      BY <2>1, <2>3, <3>1, <3>2 DEF Reserving
    <3>4. QED
      BY Zenon, <1>5, <3>3
  <2>4. QED
    BY <2>1, <2>2, <2>3 DEF Reserving
<1>8. ASSUME NEW c \in Imports, Quota!Release(c) PROVE SlotHolds(d)'
  <2>1. Releasing(c)
    BY <1>1, <1>8, Releases
  <2>2. PICK p, e : Sends(c, p, e) /\ p \in {"empties", "idle"}
    BY <2>1 DEF Releasing
  <2>3. SlotMoves(c, p, e, d)
    <3>1. CASE d = today
      BY <2>1, <3>1 DEF Releasing, Counts, SlotMoves
    <3>2. CASE d # today
      <4>1. Value(d)' = Value(d)
        BY <2>1, <3>2 DEF Releasing, Counts
      <4>2. QED
        BY <3>2, <4>1 DEF SlotMoves
    <3>3. QED
      BY <3>1, <3>2
  <2>4. QED
    BY Zenon, <1>5, <2>1, <2>2, <2>3 DEF Releasing
<1>9. ASSUME NEW c \in Imports, Quota!Succeed(c) PROVE SlotHolds(d)'
  <2>1. /\ call[c].at = "imports" /\ done' = [done EXCEPT ![call[c].day] = @ + 1]
        /\ Sends(c, "idle", 0)
        /\ UNCHANGED <<today, count>>
    BY <1>9 DEF Quota!Succeed, Quota!At, Sends
  <2>2. Value(d)' = Value(d)
    BY <2>1 DEF Value
  <2>3. SlotMoves(c, "idle", 0, d)
    BY <1>1, <2>1, <2>2 DEF SlotMoves, HadSlot, QuotaTyped
  <2>4. QED
    BY Zenon, <1>5, <2>1, <2>3
<1>10. ASSUME NEW c \in Imports, Quota!Fail(c) PROVE SlotHolds(d)'
  <2>1. /\ call[c].at = "imports" /\ Sends(c, "failed", call[c].day)
        /\ UNCHANGED <<today, count, done>>
    BY <1>10 DEF Quota!Fail, Quota!At, Sends
  <2>2. PICK e : e = call[c].day
    OBVIOUS
  <2>3. SlotMoves(c, "failed", e, d)
    BY <2>1, <2>2 DEF SlotMoves, HadSlot, HasSlot, Value
  <2>4. Sends(c, "failed", e)
    BY <2>1, <2>2
  <2>5. QED
    BY Zenon, <1>5, <2>1, <2>3, <2>4
<1>11. ASSUME NEW c \in Imports, Quota!Empty(c) PROVE SlotHolds(d)'
  <2>1. /\ call[c].at = "empties" /\ count' = [count EXCEPT ![call[c].day] = Quota!Gone]
        /\ Sends(c, "idle", 0)
        /\ UNCHANGED <<today, done>>
    BY <1>11 DEF Quota!Empty, Quota!At, Sends
  <2>2. \/ Value(d)' = 0
        \/ Value(d)' = Value(d) /\ done'[d] = done[d]
    BY <1>1, <2>1 DEF Value, QuotaTyped
  <2>3. SlotMoves(c, "idle", 0, d)
    BY <2>1, <2>2 DEF SlotMoves, HadSlot
  <2>4. QED
    BY Zenon, <1>5, <2>1, <2>3
<1>12. ASSUME NEW c \in Imports, Quota!ReserveFails(c) \/ Quota!ReleaseFails(c) \/ Quota!Crash(c)
       PROVE  FALSE
  <2>1. Failing(c)
    BY <1>1, <1>12, Fails
  <2>2. QED
    BY <1>1, <2>1 DEF Failing, QuotaTyped
<1>13. CASE Quota!WindowEnds
  BY <1>4, <1>13 DEF Quota!WindowEnds, SlotHolds, Value, Slots
<1>14. CASE Quota!Midnight
  <2>1. today' = today + 1 /\ UNCHANGED <<count, call, done>>
    BY <1>14 DEF Quota!Midnight
  <2>2. Value(d)' = Value(d) /\ Slots(d)' = Slots(d) /\ Cardinality(Slots(d)) \in Nat
    BY <1>1, <2>1, ImportsAreFinite DEF Value, Slots, Bounded
  <2>3. PICK m \in Nat : m = Cardinality(Slots(d)) /\ m = Cardinality(Slots(d)')
    BY <2>2
  <2>4. CASE d > today
    BY <1>4, <2>1, <2>2, <2>3, <2>4 DEF SlotHolds
  <2>5. CASE ~(d > today)
    BY <1>4, <2>1, <2>5 DEF SlotHolds
  <2>6. QED
    BY <2>4, <2>5
<1>15. ASSUME NEW b \in Quota!Day, Quota!Expire(b) PROVE SlotHolds(d)'
  <2>1. b < today /\ count' = [count EXCEPT ![b] = Quota!Gone] /\ UNCHANGED <<today, call, done>>
    BY <1>15 DEF Quota!Expire
  <2>2. CASE d = b
    BY <1>4, <2>1, <2>2 DEF SlotHolds
  <2>3. CASE d # b
    BY <1>1, <1>4, <2>1, <2>3 DEF SlotHolds, Value, Slots, QuotaTyped
  <2>4. QED
    BY <2>2, <2>3
<1>16. CASE UNCHANGED Quota!vars
  BY <1>4, <1>16 DEF Quota!vars, SlotHolds, Value, Slots
<1>17. QED
  BY <1>6, <1>7, <1>8, <1>9, <1>10, <1>11, <1>12, <1>13, <1>14, <1>15, <1>16 DEF Quota!Next

LEMMA SlotInit == ASSUME Quota!ImportQuotaAssumption PROVE Quota!Init => SlotInv
<1> SUFFICES ASSUME Quota!Init PROVE SlotInv
  OBVIOUS
<1>1. QuotaInv
  BY QuotaInit
<1>2. ASSUME NEW d \in Quota!Day PROVE SlotHolds(d)
  <2>1. Value(d) = 0 /\ done[d] = 0
    BY DEF Quota!Init, Value
  <2>2. Cardinality(Slots(d)) \in Nat
    BY <1>1, ImportsAreFinite DEF QuotaInv, Bounded
  <2>3. QED
    BY <2>1, <2>2 DEF SlotHolds
<1>3. QED
  BY <1>1, <1>2 DEF SlotInv

\* The instance's own Cardinality is the library's.
LEMMA SlotsCounted == SlotInv => Quota!NoSlotLost
<1> SUFFICES ASSUME SlotInv, today \in Quota!Day PROVE Quota!NoSlotLost
  BY DEF Quota!NoSlotLost
<1>1. PICK t \in Quota!Day : t = today
  OBVIOUS
<1>2. Value(t) <= done[t] + Cardinality(Slots(t))
  BY <1>1 DEF SlotInv, SlotHolds
<1>3. Quota!Value(t) = Value(t)
  BY DEF Quota!Value, Value
<1>4. Quota!Cardinality(Slots(t)) = Cardinality(Slots(t))
  BY Zenon DEF Quota!Cardinality, Cardinality
<1>5. Quota!Value(t) <= done[t] + Quota!Cardinality(Slots(t))
  BY <1>2, <1>3, <1>4
<1>6. QED
  BY <1>1, <1>5 DEF Quota!NoSlotLost, Slots

\* While Redis and the processes are up, the counter of today counts only imports that succeeded
\* that day or hold a slot of it: an import that is refused or fails costs the user nothing.
THEOREM NoSlotIsLost ==
  ASSUME Quota!ImportQuotaAssumption, MaxFaults = 0
  PROVE  Quota!Spec => []Quota!NoSlotLost
<1>1. Quota!Init => SlotInv
  BY SlotInit
<1>2. SlotInv /\ [Quota!Next]_Quota!vars => SlotInv'
  BY SlotStep
<1>3. SlotInv => Quota!NoSlotLost
  BY SlotsCounted
<1>4. QED
  BY <1>1, <1>2, <1>3, PTL DEF Quota!Spec

(***************************************************************************)
(* The cap: on one day, with no import that fails, the counter counts at   *)
(* least the imports that run, those that are done and those it turned     *)
(* away, and of these the last give back slots beyond the limit only.      *)
(***************************************************************************)
OneDay ==
  /\ \A c \in Imports : call[c].at \notin {"failed", "empties"}
  /\ done[1] + Cardinality(Running(1)) <= Limit
  /\ today = 1 =>
       /\ done[1] + Cardinality(Running(1)) + Cardinality(Turned) <= Value(1)
       /\ Cardinality(Turned) = 0 \/ Limit <= Value(1) - Cardinality(Turned)
  /\ today # 1 => \A c \in Imports : call[c].at \notin {"imports", "full"}

CapInv == QuotaInv /\ OneDay

\* Value, done, running and turned away before and after a step of import c.
CapMoves(c, p) ==
  \/ /\ call[c].at = "asks" /\ p = "imports"
     /\ Value(1)' = Value(1) + 1 /\ Value(1)' <= Limit /\ done'[1] = done[1]
  \/ /\ call[c].at = "asks" /\ p = "full"
     /\ Value(1)' = Value(1) + 1 /\ Value(1)' > Limit /\ done'[1] = done[1]
  \/ /\ call[c].at = "imports" /\ p = "idle"
     /\ Value(1)' = Value(1) /\ done'[1] \in {done[1], done[1] + 1}
  \/ /\ call[c].at = "full" /\ p = "idle"
     /\ Value(1)' \in {Value(1), Value(1) - 1} /\ done'[1] = done[1]
  \/ /\ call[c].at \in {"idle", "asks"} /\ p \in {"idle", "asks"}
     /\ Value(1)' \in {Value(1), Value(1) + 1} /\ done'[1] = done[1]

LEMMA CapKept ==
  ASSUME Quota!ImportQuotaAssumption, Days = 1, CapInv, QuotaInv', NEW c \in Imports, NEW p, NEW e,
         Sends(c, p, e), today' = today, today = 1 \/ p \in {"idle", "asks"}, CapMoves(c, p)
  PROVE  OneDay'
<1>1. /\ Change(Running(1), Running(1)', call[c].at = "imports" /\ call[c].day = 1,
                p = "imports" /\ e = 1)
      /\ Change(Turned, Turned', call[c].at = "full", p = "full")
  BY CallMoves DEF CapInv, QuotaInv, Bounded, Sends
<1>2. /\ call[c].at \in {"imports", "full"} => call[c].day = 1
      /\ p \in {"imports", "full"} => e = 1
      /\ \A b \in Imports : b # c => call'[b] = call[b]
      /\ call'[c].at = p
  <2>1. /\ \A b \in Imports : b # c => call'[b] = call[b]
        /\ call'[c].at = p /\ call'[c].day = e /\ call[c] \in CallRow /\ call'[c] \in CallRow
        /\ call[c].at \in {"idle", "asks"} <=> call[c].day = 0
        /\ call'[c].at \in {"idle", "asks"} <=> call'[c].day = 0
    BY DEF CapInv, QuotaInv, QuotaTyped, Sends
  <2>2. call[c].day \in 0..1 /\ e \in 0..1
    BY <2>1 DEF CallRow
  <2>3. QED
    BY <2>1, <2>2
<1>3. PICK r, s, m, n \in Nat :
        /\ r = Cardinality(Running(1)) /\ s = Cardinality(Running(1)')
        /\ m = Cardinality(Turned) /\ n = Cardinality(Turned')
  BY <1>1 DEF Change
<1>4. /\ s = r + (IF p = "imports" THEN 1 ELSE 0) - (IF call[c].at = "imports" THEN 1 ELSE 0)
      /\ n = m + (IF p = "full" THEN 1 ELSE 0) - (IF call[c].at = "full" THEN 1 ELSE 0)
  BY <1>1, <1>2, <1>3 DEF Change
<1>5. 1 \in Quota!Day /\ Limit \in Nat
  BY DEF Quota!Day, Quota!ImportQuotaAssumption
<1>6. PICK v, w \in Int, x, y \in Nat :
        v = Value(1) /\ w = Value(1)' /\ x = done[1] /\ y = done'[1]
  BY <1>5 DEF CapInv, QuotaInv, QuotaTyped, Value
<1>7. /\ x + r <= Limit
      /\ today = 1 => x + r + m <= v /\ (m = 0 \/ Limit <= v - m)
      /\ today # 1 => call[c].at \notin {"imports", "full"}
  BY <1>3, <1>6 DEF CapInv, OneDay
<1>8. \/ call[c].at = "asks" /\ p = "imports" /\ w = v + 1 /\ w <= Limit /\ y = x
      \/ call[c].at = "asks" /\ p = "full" /\ w = v + 1 /\ w > Limit /\ y = x
      \/ call[c].at = "imports" /\ p = "idle" /\ w = v /\ y \in {x, x + 1}
      \/ call[c].at = "full" /\ p = "idle" /\ w \in {v, v - 1} /\ y = x
      \/ /\ call[c].at \in {"idle", "asks"} /\ p \in {"idle", "asks"}
         /\ w \in {v, v + 1} /\ y = x
  BY <1>6 DEF CapMoves
<1>9. /\ y + s <= Limit
      /\ today = 1 => y + s + n <= w /\ (n = 0 \/ Limit <= w - n)
  <2>1. CASE call[c].at = "asks" /\ p = "imports" /\ w = v + 1 /\ w <= Limit /\ y = x
    BY <1>4, <1>5, <1>7, <2>1
  <2>2. CASE call[c].at = "asks" /\ p = "full" /\ w = v + 1 /\ w > Limit /\ y = x
    BY <1>4, <1>5, <1>7, <2>2
  <2>3. CASE call[c].at = "imports" /\ p = "idle" /\ w = v /\ y \in {x, x + 1}
    BY <1>4, <1>5, <1>7, <2>3
  <2>4. CASE call[c].at = "full" /\ p = "idle" /\ w \in {v, v - 1} /\ y = x
    BY <1>4, <1>5, <1>7, <2>4
  <2>5. CASE /\ call[c].at \in {"idle", "asks"} /\ p \in {"idle", "asks"}
             /\ w \in {v, v + 1} /\ y = x
    BY <1>4, <1>5, <1>7, <2>5
  <2>6. QED
    BY <1>8, <2>1, <2>2, <2>3, <2>4, <2>5
<1>10. p \in {"imports", "full", "idle", "asks"}
  BY <1>8
<1>11. \A b \in Imports : call'[b].at \notin {"failed", "empties"}
  BY <1>2, <1>10 DEF CapInv, OneDay
<1>12. today # 1 => \A b \in Imports : call'[b].at \notin {"imports", "full"}
  BY <1>2 DEF CapInv, OneDay
<1>13. QED
  BY <1>3, <1>6, <1>9, <1>11, <1>12 DEF OneDay

LEMMA CapStep ==
  ASSUME Quota!ImportQuotaAssumption, Days = 1, MaxFails = 0
  PROVE  CapInv /\ [Quota!Next]_Quota!vars => CapInv'
<1> SUFFICES ASSUME CapInv, [Quota!Next]_Quota!vars PROVE CapInv'
  OBVIOUS
<1>1. QuotaInv /\ QuotaTyped /\ Bounded /\ OneDay
  BY DEF CapInv, QuotaInv
<1>2. QuotaInv'
  BY <1>1, QuotaStep
<1>3. SUFFICES OneDay'
  BY <1>2 DEF CapInv
<1>4. Quota!Day = {1} /\ Value(1) \in Int /\ done[1] \in Nat /\ Limit \in Nat \ {0}
  BY <1>1 DEF QuotaTyped, Value, Quota!ImportQuotaAssumption, Quota!Day
<1>5. ASSUME NEW c \in Imports, NEW p, NEW e, Sends(c, p, e), today' = today,
             today = 1 \/ p \in {"idle", "asks"}, CapMoves(c, p)
      PROVE  OneDay'
  BY <1>2, <1>5, CapKept
<1>6. ASSUME UNCHANGED <<today, call, done>>, Value(1)' = Value(1) \/ today # 1 PROVE OneDay'
  <2>1. Running(1)' = Running(1) /\ Turned' = Turned
    BY <1>6 DEF Running, Turned
  <2>2. QED
    BY <1>1, <1>6, <2>1 DEF OneDay
<1>7. ASSUME NEW c \in Imports, Quota!Ask(c) PROVE OneDay'
  <2>1. /\ call[c].at = "idle"
        /\ Sends(c, "asks", 0) \/ UNCHANGED call
        /\ UNCHANGED <<today, count, done>>
    BY <1>7 DEF Quota!Ask, Quota!At, Sends, Quota!Idle
  <2>2. Value(1)' = Value(1)
    BY <2>1 DEF Value
  <2>3. CASE Sends(c, "asks", 0)
    <3>1. CapMoves(c, "asks")
      BY <2>1, <2>2 DEF CapMoves
    <3>2. QED
      BY Zenon, <1>5, <2>1, <2>3, <3>1
  <2>4. QED
    BY <1>6, <2>1, <2>2, <2>3
<1>8. ASSUME NEW c \in Imports, Quota!Reserve(c) PROVE OneDay'
  <2>1. Reserving(c)
    BY <1>1, <1>8, Reserves
  <2>2. today = 1
    BY <1>4, <2>1 DEF Reserving
  <2>3. /\ call[c].at = "asks" /\ UNCHANGED <<today, done>>
        /\ Value(1)' = Value(1) + 1
        /\ \/ Value(1) + 1 < 1 /\ Sends(c, "idle", 0)
           \/ Value(1) + 1 > Limit /\ Sends(c, "full", 1)
           \/ Value(1) + 1 \in 1..Limit /\ Sends(c, "imports", 1)
    BY <2>1, <2>2 DEF Reserving, Counts
  <2>4. PICK p, e : Sends(c, p, e) /\ CapMoves(c, p)
    <3>1. CASE Sends(c, "idle", 0)
      <4>1. CapMoves(c, "idle")
        BY <2>3 DEF CapMoves
      <4>2. QED
        BY <3>1, <4>1
    <3>2. CASE Value(1) + 1 > Limit /\ Sends(c, "full", 1)
      <4>1. CapMoves(c, "full")
        BY <2>3, <3>2 DEF CapMoves
      <4>2. QED
        BY <3>2, <4>1
    <3>3. CASE Value(1) + 1 \in 1..Limit /\ Sends(c, "imports", 1)
      <4>1. CapMoves(c, "imports")
        BY <1>4, <2>3, <3>3 DEF CapMoves
      <4>2. QED
        BY <3>3, <4>1
    <3>4. QED
      BY <2>3, <3>1, <3>2, <3>3
  <2>5. QED
    BY Zenon, <1>5, <2>2, <2>3, <2>4
<1>9. ASSUME NEW c \in Imports, Quota!Release(c) PROVE OneDay'
  <2>1. Releasing(c)
    BY <1>1, <1>9, Releases
  <2>2. today = 1 /\ call[c].at = "full"
    BY <1>1, <1>4, <2>1 DEF Releasing, OneDay
  <2>3. Cardinality(Turned) \in Nat \ {0}
    <3>1. Cardinality(Turned) \in Nat /\ IsFiniteSet(Turned)
      BY <1>1, ImportsAreFinite DEF Bounded
    <3>2. c \in Turned
      BY <2>2 DEF Turned
    <3>3. QED
      BY <3>1, <3>2, FS_EmptySet
  <2>4. Value(1) - 1 > 0
    BY <1>1, <1>4, <2>2, <2>3 DEF OneDay
  <2>5. Sends(c, "idle", 0) /\ Value(1)' = Value(1) - 1 /\ UNCHANGED <<today, done>>
    BY <1>4, <2>1, <2>2, <2>4 DEF Releasing, Counts
  <2>6. CapMoves(c, "idle")
    BY <2>2, <2>5 DEF CapMoves
  <2>7. QED
    BY Zenon, <1>5, <2>2, <2>5, <2>6
<1>10. ASSUME NEW c \in Imports, Quota!Succeed(c) PROVE OneDay'
  <2>1. /\ call[c].at = "imports" /\ done' = [done EXCEPT ![call[c].day] = @ + 1]
        /\ Sends(c, "idle", 0)
        /\ UNCHANGED <<today, count>>
    BY <1>10 DEF Quota!Succeed, Quota!At, Sends
  <2>2. Value(1)' = Value(1)
    BY <2>1 DEF Value
  <2>3. done'[1] \in {done[1], done[1] + 1}
    BY <1>1, <1>4, <2>1 DEF QuotaTyped
  <2>4. CapMoves(c, "idle")
    BY <2>1, <2>2, <2>3 DEF CapMoves
  <2>5. QED
    BY Zenon, <1>5, <2>1, <2>4
<1>11. ASSUME NEW c \in Imports, Quota!Fail(c) \/ Quota!Empty(c) PROVE FALSE
  BY <1>1, <1>11 DEF Quota!Fail, Quota!Empty, QuotaTyped, OneDay
<1>12. ASSUME NEW c \in Imports, Quota!ReserveFails(c) \/ Quota!ReleaseFails(c) \/ Quota!Crash(c)
       PROVE  OneDay'
  <2>1. Failing(c)
    BY <1>1, <1>12, Fails
  <2>2. Sends(c, "idle", 0) /\ UNCHANGED <<today, done>>
    BY <2>1 DEF Failing
  <2>3. UNCHANGED count => Value(1)' = Value(1)
    BY DEF Value
  <2>4. call[c].at \in {"asks", "imports", "full"}
    <3>1. call[c].at \in Places
      BY <1>1 DEF QuotaTyped, CallRow
    <3>2. QED
      BY <1>1, <2>1, <3>1 DEF Failing, OneDay, Places
  <2>5. CapMoves(c, "idle")
    <3>1. CASE UNCHANGED count
      BY <2>2, <2>3, <2>4, <3>1 DEF CapMoves
    <3>2. CASE /\ call[c].at = "asks" /\ today \in Quota!Day
               /\ Counts(today, Value(today) + 1)
      <4>1. today = 1
        BY <1>4, <3>2
      <4>2. Value(1)' = Value(1) + 1
        BY <2>2, <3>2, <4>1 DEF Counts
      <4>3. QED
        BY <2>2, <3>2, <4>2 DEF CapMoves
    <3>3. CASE /\ call[c].at \in {"full", "failed"} /\ today \in Quota!Day
               /\ Counts(today, Value(today) - 1)
      <4>1. today = 1
        BY <1>4, <3>3
      <4>2. Value(1)' = Value(1) - 1
        BY <2>2, <3>3, <4>1 DEF Counts
      <4>3. QED
        BY <2>2, <2>4, <3>3, <4>2 DEF CapMoves
    <3>4. QED
      BY <2>1, <3>1, <3>2, <3>3 DEF Failing
  <2>6. QED
    BY Zenon, <1>5, <2>2, <2>5
<1>13. CASE Quota!WindowEnds
  BY <1>6, <1>13 DEF Quota!WindowEnds, Value
<1>14. CASE Quota!Midnight
  <2>1. /\ today = 1 /\ today' = 2 /\ UNCHANGED <<count, call, done>>
        /\ \A c \in Imports : call[c].at \in {"idle", "empties"}
    BY <1>4, <1>14 DEF Quota!Midnight
  <2>2. Running(1)' = Running(1) /\ Turned' = Turned
    BY <2>1 DEF Running, Turned
  <2>3. today' # 1
    BY <2>1
  <2>4. QED
    BY <1>1, <2>1, <2>2, <2>3 DEF OneDay
<1>15. ASSUME NEW d \in Quota!Day, Quota!Expire(d) PROVE OneDay'
  <2>1. d = 1 /\ d < today /\ UNCHANGED <<today, call, done>>
    BY <1>4, <1>15 DEF Quota!Expire
  <2>2. QED
    BY <1>6, <2>1
<1>16. CASE UNCHANGED Quota!vars
  BY <1>6, <1>16 DEF Quota!vars, Value
<1>17. QED
  BY <1>7, <1>8, <1>9, <1>10, <1>11, <1>12, <1>13, <1>14, <1>15, <1>16 DEF Quota!Next

LEMMA CapInit == ASSUME Quota!ImportQuotaAssumption, Days = 1 PROVE Quota!Init => CapInv
<1> SUFFICES ASSUME Quota!Init PROVE CapInv
  OBVIOUS
<1>1. QuotaInv /\ Limit \in Nat /\ 1 \in Quota!Day
  BY QuotaInit DEF Quota!ImportQuotaAssumption, Quota!Day
<1>2. \A c \in Imports : call[c].at = "idle"
  BY DEF Quota!Init, Quota!Idle
<1>3. Cardinality(Running(1)) = 0 /\ Cardinality(Turned) = 0
  BY <1>2, FS_EmptySet DEF Running, Turned
<1>4. Value(1) = 0 /\ done[1] = 0 /\ today = 1
  BY <1>1 DEF Quota!Init, Value
<1>5. OneDay
  BY <1>1, <1>2, <1>3, <1>4 DEF OneDay
<1>6. QED
  BY <1>1, <1>5 DEF CapInv

LEMMA CapCounted ==
  ASSUME Quota!ImportQuotaAssumption, Days = 1, CapInv PROVE Quota!CapHolds
<1>1. Quota!Day = {1}
  BY DEF Quota!Day
<1>2. Quota!Importing(1) = Running(1)
  <2>1. ASSUME NEW c \in Imports
        PROVE  call[c] = [at |-> "imports", day |-> 1]
                 <=> call[c].at = "imports" /\ call[c].day = 1
    BY DEF CapInv, QuotaInv, QuotaTyped, CallRow
  <2>2. QED
    BY <2>1 DEF Quota!Importing, Running
<1>3. Quota!Cardinality(Running(1)) = Cardinality(Running(1))
  BY Zenon DEF Quota!Cardinality, Cardinality
<1>4. QED
  BY <1>1, <1>2, <1>3 DEF CapInv, OneDay, Quota!CapHolds

\* Within a day on which no import fails, no more imports than the daily limit run or succeed,
\* however many are asked for at once and whatever crashes or answers of Redis are lost.
THEOREM CapIsKept ==
  ASSUME Quota!ImportQuotaAssumption, Days = 1, MaxFails = 0
  PROVE  Quota!Spec => []Quota!CapHolds
<1>1. Quota!Init => CapInv
  BY CapInit
<1>2. CapInv /\ [Quota!Next]_Quota!vars => CapInv'
  BY CapStep
<1>3. CapInv => Quota!CapHolds
  BY CapCounted
<1>4. QED
  BY <1>1, <1>2, <1>3, PTL DEF Quota!Spec
=============================================================================

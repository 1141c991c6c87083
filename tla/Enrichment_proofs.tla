-------------------------- MODULE Enrichment_proofs --------------------------
(***************************************************************************)
(* One worker at a time fetches an article, for any workers, articles and  *)
(* bounds: what holds the lock is at the article (LocksOwned).             *)
(*                                                                         *)
(* What came from the page is overwritten by nobody but another process's  *)
(* sync: a process syncs or enriches (Quiet), so what its sync has read of *)
(* an article that the process itself fetched is still true when the sync  *)
(* writes (SeenFull).                                                      *)
(*                                                                         *)
(* One worker tries an article as often as allowed: each attempt is paid   *)
(* for before it begins (Counted).                                         *)
(*                                                                         *)
(* After them, about ArticleCache, what Redis keeps of these articles:     *)
(* StaleEndsSoon, as what is in Redis or on its way there was true of what *)
(* had been quiet (StaleInv), and ListsAreFresh, as rows under a           *)
(* generation that is not past have all that is told (FreshInv).           *)
(***************************************************************************)
EXTENDS Enrichment, TLAPS

Statuses == {"absent", "feed_ready", "enrichment_pending", "full_ready", "failed"}
Steps == {"idle", "found", "marked", "locked", "fetched", "unavailable", "written", "failed"}
LockRow == [owner : Worker \cup {None}, life : Nat]
WorkRow == [step : Steps, art : Article \cup {None}, attempts : Nat, content : Short..Full]
SeenRow == [status : Statuses, content : Short..Full]
SyncRow == [by : Syncers \cup {None}, seen : [Article -> SeenRow]]

\* The time of the next attempt may be anything here.
WellFormed(row) ==
  row \in [status : Statuses, next : {row.next}, attempts : Nat, content : Short..Full,
           version : Nat, from : Worker \cup {None}]

Typed ==
  /\ DOMAIN article = Article /\ \A a \in Article : WellFormed(article[a])
  /\ lock \in [Article -> LockRow] /\ worker \in [Worker -> WorkRow]
  /\ \A w \in Worker : worker[w].step = "idle" <=> worker[w].art = None
  /\ sync \in SyncRow /\ feed \in [Article -> Short..Longer]
  /\ asks \in Nat /\ syncs \in Nat /\ crashes \in Nat

\* The steps between taking the lock and giving it back.
Fetching == {"locked", "fetched", "unavailable", "written"}

\* Who fetches has the lock of its article, and it has not run out.
LocksOwned == \A w \in Worker : worker[w].step \in Fetching =>
  lock[worker[w].art].owner = w /\ lock[worker[w].art].life > 0

IInv == EnrichmentAssumption /\ Typed /\ LocksOwned

\* A process that syncs a feed enriches nothing meanwhile.
Quiet == sync.by \in Worker => ~Working(sync.by)

\* A sync knows of every full article that its own process has fetched that it is full, and of
\* every article that it saw full that it is there.
SeenFull == \A a \in Article :
  /\ article[a].content = Full =>
       /\ article[a].status # "absent"
       /\ sync.by # None /\ sync.by = article[a].from => sync.seen[a].content = Full
  /\ sync.by # None /\ sync.seen[a].content = Full => sync.seen[a].status # "absent"

FInv == IInv /\ Quiet /\ SeenFull

OneWorker == \A v, w \in Worker : v = w

\* An attempt was counted and will end with markArticleEnrichmentRetry, or with the page.
Trying(w) == worker[w].step \in {"marked", "locked", "fetched", "unavailable", "failed"}
Tried(a) == \E w \in Worker : worker[w].art = a /\ Trying(w)

\* An attempt that is to come, and one that a sync may yet bring.
Owing(a) == IF Pending(a) /\ ~Tried(a) THEN 1 ELSE 0
Syncing == IF sync.by = None THEN 0 ELSE 1
Allowed == MaxAttempts + asks + syncs + crashes

Counted ==
  /\ \A a \in Article : article[a].attempts + Owing(a) + Syncing <= Allowed
  /\ Syncing <= syncs
  /\ \A w \in Worker :
       /\ worker[w].step = "found" => /\ Pending(worker[w].art)
                                      /\ worker[w].attempts = article[worker[w].art].attempts
       /\ Trying(w) => worker[w].attempts + 1 = article[worker[w].art].attempts

CInv == IInv /\ Counted

(***************************************************************************)
(* Rows.                                                                   *)
(***************************************************************************)
LEMMA Ranks ==
  /\ Short = 0 /\ Longer = 1 /\ Full = 2
  /\ Short \in Short..Longer /\ Short..Longer \subseteq Short..Full
BY DEF Short, Longer, Full

LEMMA Empty ==
  /\ Idle \in WorkRow /\ Idle.step = "idle" /\ Idle.art = None
  /\ NoSync \in SyncRow /\ NoSync.by = None
<1>1. [status |-> "absent", content |-> Short] \in SeenRow
  BY Ranks DEF SeenRow, Statuses
<1>2. NoSync \in SyncRow /\ NoSync.by = None
  BY <1>1 DEF NoSync, SyncRow
<1> QED BY <1>2, Ranks DEF Idle, WorkRow, Steps

\* queueArticleEnrichments changes the status and the time of a row.
LEMMA QueuedRow ==
  ASSUME NEW row, WellFormed(row), NEW at
  PROVE  /\ WellFormed(Queued(row, at)) /\ Queued(row, at).status = "enrichment_pending"
         /\ Queued(row, at).attempts = row.attempts /\ Queued(row, at).content = row.content
         /\ Queued(row, at).from = row.from
BY DEF WellFormed, Queued, Statuses

LEMMA SyncedRow ==
  ASSUME NEW row, WellFormed(row), NEW seen \in SeenRow, NEW new \in Short..Longer
  PROVE  /\ WellFormed(Synced(row, seen, new))
         /\ Synced(row, seen, new).attempts = row.attempts
         /\ Synced(row, seen, new).from = row.from
         /\ Synced(row, seen, new).status \in {row.status, "enrichment_pending"}
         /\ seen.status # "absent" /\ seen.content = Full =>
              Synced(row, seen, new).content = row.content
         /\ row.content # Full => Synced(row, seen, new).content # Full
<1>1. PICK at : at = Now
  OBVIOUS
<1>2. PICK k : k = Persisted(row, seen, new)
  OBVIOUS
<1>3. new \in Short..Full /\ new # Full
  BY Ranks
<1>4. /\ WellFormed(k) /\ k.attempts = row.attempts /\ k.status = row.status
      /\ k.from = row.from
      /\ seen.status # "absent" /\ seen.content = Full => k.content = row.content
      /\ row.content # Full => k.content # Full
  BY <1>2, <1>3, Ranks DEF Persisted, ShouldRefresh, WellFormed
<1>5. Synced(row, seen, new) = IF ShouldProcess(seen) THEN Queued(k, at) ELSE row
  BY <1>1, <1>2 DEF Synced
<1> QED BY <1>4, <1>5, QueuedRow

(***************************************************************************)
(* What the steps do.                                                      *)
(***************************************************************************)
LEMMA Initially == ASSUME EnrichmentAssumption, Init PROVE IInv
<1>1. \A w \in Worker : worker[w] = Idle
  BY DEF Init
<1>2. worker \in [Worker -> WorkRow]
  BY Empty DEF Init
<1>3. DOMAIN article = Article /\ \A a \in Article : WellFormed(article[a])
  BY Ranks DEF Init, WellFormed, Statuses
<1>4. lock \in [Article -> LockRow] /\ feed \in [Article -> Short..Longer]
  BY Ranks DEF Init, LockRow
<1>5. sync \in SyncRow /\ asks \in Nat /\ syncs \in Nat /\ crashes \in Nat
  BY Empty DEF Init
<1>6. Typed
  BY <1>1, <1>2, <1>3, <1>4, <1>5, Empty DEF Typed
<1>7. LocksOwned
  BY <1>1, Empty DEF LocksOwned, Fetching
<1> QED BY <1>6, <1>7 DEF IInv

LEMMA AtWork ==
  ASSUME Typed, NEW w \in Worker, worker[w].step # "idle"
  PROVE  worker[w].art \in Article
BY DEF Typed, WorkRow

\* A worker goes on, or is done.
Moved(w, step) ==
  /\ worker' \in [Worker -> WorkRow]
  /\ \A v \in Worker : worker'[v].step = "idle" <=> worker'[v].art = None
  /\ \A v \in Worker : v # w => worker'[v] = worker[v]
  /\ worker'[w].step = step
  /\ step # "idle" => /\ worker'[w].art = worker[w].art
                      /\ worker'[w].attempts = worker[w].attempts
                      /\ worker'[w].content = worker[w].content

LEMMA Stepped ==
  ASSUME Typed, NEW w \in Worker, NEW step \in Steps \ {"idle"}, worker[w].step # "idle",
         worker' = [worker EXCEPT ![w].step = step]
  PROVE  Moved(w, step)
<1>1. PICK k : k = [worker[w] EXCEPT !.step = step]
  OBVIOUS
<1>2. /\ k \in WorkRow /\ k.step = step /\ k.art = worker[w].art
      /\ k.attempts = worker[w].attempts /\ k.content = worker[w].content
  BY <1>1 DEF Typed, WorkRow
<1>3. worker' = [worker EXCEPT ![w] = k]
  BY <1>1
<1> QED BY <1>2, <1>3 DEF Typed, Moved

LEMMA Stopped ==
  ASSUME Typed, NEW w \in Worker, worker' = [worker EXCEPT ![w] = Idle]
  PROVE  Moved(w, "idle")
BY Empty DEF Typed, Moved

\* The row of one article is written.
Wrote(a, row) ==
  /\ WellFormed(row)
  /\ DOMAIN article' = Article /\ \A b \in Article : WellFormed(article'[b])
  /\ article'[a] = row /\ \A b \in Article : b # a => article'[b] = article[b]

LEMMA Written ==
  ASSUME Typed, NEW a \in Article, NEW row, WellFormed(row),
         article' = [article EXCEPT ![a] = row]
  PROVE  Wrote(a, row)
BY DEF Typed, Wrote

\* What is left to show of a step.
Bare ==
  /\ DOMAIN article = Article /\ \A a \in Article : WellFormed(article[a])
  /\ lock \in [Article -> LockRow] /\ worker \in [Worker -> WorkRow]
  /\ \A w \in Worker : worker[w].step = "idle" <=> worker[w].art = None
  /\ sync \in SyncRow /\ feed \in [Article -> Short..Longer]
  /\ asks \in Nat /\ syncs \in Nat /\ crashes \in Nat
  /\ LocksOwned

LEMMA Now1 == ASSUME IInv PROVE Bare /\ Typed /\ EnrichmentAssumption
BY DEF IInv, Typed, Bare

LEMMA Kept == ASSUME EnrichmentAssumption, Bare' PROVE IInv'
BY DEF IInv, Typed, Bare

LEMMA SyncReadsDoes ==
  ASSUME IInv, NEW p \in Syncers, SyncReads(p)
  PROVE  /\ IInv' /\ UNCHANGED <<article, worker, asks, crashes>> /\ syncs' = syncs + 1
         /\ sync.by = None /\ sync'.by = p /\ p # None
         /\ p \in Worker => ~Working(p)
         /\ \A a \in Article : /\ sync'.seen[a].status = article[a].status
                               /\ sync'.seen[a].content = article[a].content
<1> USE Now1
<1>1. UNCHANGED <<article, lock, worker, asks, crashes>> /\ syncs' = syncs + 1 /\ sync.by = None
  BY DEF SyncReads
<1>2. p \in Worker => ~Working(p)
  BY DEF SyncReads, MaySync
<1>3. p # None
  BY DEF EnrichmentAssumption
<1>4. PICK seen : seen = [a \in Article |-> [status  |-> article[a].status,
                                              content |-> article[a].content]]
  OBVIOUS
<1>5. ASSUME NEW a \in Article
      PROVE  /\ seen[a] \in SeenRow /\ seen[a].status = article[a].status
             /\ seen[a].content = article[a].content
  <2>1. WellFormed(article[a])
    BY DEF Typed
  <2> QED BY <2>1, <1>4 DEF SeenRow, WellFormed
<1>6. seen \in [Article -> SeenRow]
  BY <1>4, <1>5
<1>7. sync' = [by |-> p, seen |-> seen]
  BY <1>4 DEF SyncReads
<1>8. sync' \in SyncRow /\ sync'.by = p /\ sync'.seen = seen
  BY <1>6, <1>7 DEF SyncRow
<1>9. feed' \in [Article -> Short..Longer]
  <2>1. PICK longer \in SUBSET Article : feed' = [a \in Article |->
          IF a \in longer THEN Longer ELSE feed[a]]
    BY DEF SyncReads
  <2>2. Longer \in Short..Longer /\ feed \in [Article -> Short..Longer]
    BY Ranks DEF Typed
  <2> QED BY <2>1, <2>2
<1>10. Bare'
  BY <1>1, <1>8, <1>9 DEF Bare, LocksOwned
<1> QED BY <1>1, <1>2, <1>3, <1>5, <1>8, <1>10, Kept

LEMMA SyncWritesDoes ==
  ASSUME IInv, SyncWrites
  PROVE  /\ IInv' /\ UNCHANGED <<worker, asks, syncs, crashes>>
         /\ sync.by # None /\ sync'.by = None
         /\ \A a \in Article :
              /\ article'[a].attempts = article[a].attempts /\ article'[a].from = article[a].from
              /\ article'[a].status \in {article[a].status, "enrichment_pending"}
              /\ sync.seen[a].status # "absent" /\ sync.seen[a].content = Full =>
                   article'[a].content = article[a].content
              /\ article[a].content # Full => article'[a].content # Full
<1> USE Now1
<1>1. UNCHANGED <<lock, worker, feed, asks, syncs, crashes>> /\ sync.by # None /\ sync' = NoSync
  BY DEF SyncWrites, bounds
<1>2. ASSUME NEW a \in Article
      PROVE  /\ WellFormed(article'[a]) /\ article'[a].attempts = article[a].attempts
             /\ article'[a].from = article[a].from
             /\ article'[a].status \in {article[a].status, "enrichment_pending"}
             /\ sync.seen[a].status # "absent" /\ sync.seen[a].content = Full =>
                  article'[a].content = article[a].content
             /\ article[a].content # Full => article'[a].content # Full
  <2>1. PICK row : row = article[a]
    OBVIOUS
  <2>2. PICK seen : seen = sync.seen[a]
    OBVIOUS
  <2>3. PICK new : new = feed[a]
    OBVIOUS
  <2>4. WellFormed(row) /\ seen \in SeenRow /\ new \in Short..Longer
    BY <2>1, <2>2, <2>3 DEF Typed, SyncRow
  <2>5. article'[a] = Synced(row, seen, new)
    BY <2>1, <2>2, <2>3 DEF SyncWrites
  <2> QED BY <2>1, <2>2, <2>4, <2>5, SyncedRow
<1>3. DOMAIN article' = Article
  BY DEF SyncWrites
<1>4. Bare'
  BY <1>1, <1>2, <1>3, Empty DEF Bare, LocksOwned
<1> QED BY <1>1, <1>2, <1>4, Empty, Kept

LEMMA AskDoes ==
  ASSUME IInv, NEW a \in Article, Ask(a)
  PROVE  /\ IInv' /\ UNCHANGED <<worker, sync, syncs, crashes>> /\ asks' = asks + 1
         /\ article[a].status # "absent" /\ article'[a].status = "enrichment_pending"
         /\ article'[a].attempts = article[a].attempts /\ article'[a].content = article[a].content
         /\ article'[a].from = article[a].from
         /\ \A b \in Article : b # a => article'[b] = article[b]
<1> USE Now1
<1>1. /\ UNCHANGED <<lock, worker, sync, feed, syncs, crashes>> /\ asks' = asks + 1
      /\ article[a].status # "absent"
  BY DEF Ask
<1>2. PICK row : row = article[a]
  OBVIOUS
<1>3. PICK at : at = Epoch
  OBVIOUS
<1>4. article' = [article EXCEPT ![a] = Queued(row, at)]
  BY <1>2, <1>3 DEF Ask
<1>5. WellFormed(row)
  BY <1>2 DEF Typed
<1>6. Wrote(a, Queued(row, at))
  BY <1>4, <1>5, QueuedRow, Written
<1>7. Bare'
  BY <1>1, <1>6 DEF Bare, LocksOwned, Wrote
<1> QED BY <1>1, <1>2, <1>5, <1>6, <1>7, QueuedRow, Kept DEF Wrote

LEMMA FindDoes ==
  ASSUME IInv, NEW w \in Worker, NEW a \in Article, Find(w, a)
  PROVE  /\ IInv' /\ UNCHANGED <<article, sync, bounds>>
         /\ ~Working(w) /\ sync.by # w /\ Pending(a)
         /\ worker'[w].step = "found" /\ worker'[w].art = a
         /\ worker'[w].attempts = article[a].attempts /\ worker'[w].content = article[a].content
         /\ \A v \in Worker : v # w => worker'[v] = worker[v]
<1> USE Now1
<1>1. UNCHANGED <<article, lock, sync, feed, bounds>> /\ ~Working(w) /\ sync.by # w /\ Pending(a)
  BY DEF Find, Due
<1>2. PICK k : k = [step |-> "found", art |-> a,
                    attempts |-> article[a].attempts, content |-> article[a].content]
  OBVIOUS
<1>3. worker' = [worker EXCEPT ![w] = k]
  BY <1>2 DEF Find
<1>4. WellFormed(article[a]) /\ a # None
  BY DEF Typed, EnrichmentAssumption
<1>5. /\ k \in WorkRow /\ k.step = "found" /\ k.art = a /\ k.attempts = article[a].attempts
      /\ k.content = article[a].content
  BY <1>2, <1>4 DEF WorkRow, Steps, WellFormed
<1>6. /\ worker' \in [Worker -> WorkRow] /\ worker'[w] = k
      /\ \A v \in Worker : v # w => worker'[v] = worker[v]
  BY <1>3, <1>5 DEF Typed
<1>7. \A v \in Worker : worker'[v].step = "idle" <=> worker'[v].art = None
  BY <1>4, <1>5, <1>6 DEF Typed
<1>8. LocksOwned'
  BY <1>1, <1>5, <1>6 DEF Bare, LocksOwned, Fetching
<1>9. Bare'
  BY <1>1, <1>6, <1>7, <1>8 DEF Bare, bounds
<1> QED BY <1>1, <1>5, <1>6, <1>9, Kept

LEMMA MarkAttemptDoes ==
  ASSUME IInv, NEW w \in Worker, MarkAttempt(w)
  PROVE  /\ IInv' /\ UNCHANGED <<sync, bounds>>
         /\ worker[w].step = "found" /\ Moved(w, "marked") /\ worker[w].art \in Article
         /\ article'[worker[w].art].attempts = article[worker[w].art].attempts + 1
         /\ article'[worker[w].art].status = article[worker[w].art].status
         /\ article'[worker[w].art].content = article[worker[w].art].content
         /\ article'[worker[w].art].from = article[worker[w].art].from
         /\ \A b \in Article : b # worker[w].art => article'[b] = article[b]
<1> USE Now1
<1>1. UNCHANGED <<lock, sync, feed, bounds>> /\ worker[w].step = "found"
  BY DEF MarkAttempt
<1>2. PICK a \in Article : a = worker[w].art
  BY <1>1, AtWork
<1>3. Moved(w, "marked")
  <2>1. worker' = [worker EXCEPT ![w].step = "marked"]
    BY DEF MarkAttempt, Step
  <2>2. "marked" \in Steps \ {"idle"}
    BY DEF Steps
  <2> QED BY <1>1, <2>1, <2>2, Stepped
<1>4. PICK row : row = article[a]
  OBVIOUS
<1>5. PICK k : k = [row EXCEPT !.attempts = row.attempts + 1, !.next = Null]
  OBVIOUS
<1>6. WellFormed(row)
  BY <1>4 DEF Typed
<1>7. /\ WellFormed(k) /\ k.attempts = row.attempts + 1 /\ k.status = row.status
      /\ k.content = row.content /\ k.from = row.from
  <2>1. PICK n \in Nat : n = row.attempts + 1
    BY <1>6 DEF WellFormed
  <2>2. PICK at : at = Null
    OBVIOUS
  <2>3. k = [row EXCEPT !.attempts = n, !.next = at]
    BY <1>5, <2>1, <2>2
  <2> QED BY <1>6, <2>1, <2>3 DEF WellFormed
<1>8. article' = [article EXCEPT ![a] = k]
  BY <1>2, <1>4, <1>5 DEF MarkAttempt
<1>9. Wrote(a, k)
  BY <1>7, <1>8, Written
<1>10. LocksOwned'
  BY <1>1, <1>3 DEF Bare, LocksOwned, Fetching, Moved
<1>11. Bare'
  BY <1>1, <1>3, <1>9, <1>10 DEF Bare, Moved, Wrote, bounds
<1> QED BY <1>1, <1>2, <1>3, <1>4, <1>7, <1>9, <1>11, Kept DEF Wrote

LEMMA TakeLockDoes ==
  ASSUME IInv, NEW w \in Worker, TakeLock(w)
  PROVE  /\ IInv' /\ UNCHANGED <<article, sync, bounds>>
         /\ worker[w].step = "marked" /\ (Moved(w, "locked") \/ Moved(w, "failed"))
<1> USE Now1
<1>1. UNCHANGED <<article, sync, feed, bounds>> /\ worker[w].step = "marked"
  BY DEF TakeLock
<1>2. PICK a \in Article : a = worker[w].art
  BY <1>1, AtWork
<1>3. CASE Free(a) /\ Step(w, "locked") /\
           lock' = [lock EXCEPT ![a] = [owner |-> w, life |-> LockLife]]
  <2>1. "locked" \in Steps \ {"idle"}
    BY DEF Steps
  <2>2. Moved(w, "locked")
    BY <1>1, <1>3, <2>1, Stepped DEF Step
  <2>3. PICK k : k = [owner |-> w, life |-> LockLife]
    OBVIOUS
  <2>4. k \in LockRow /\ k.owner = w /\ k.life > 0
    BY <2>3 DEF LockRow, EnrichmentAssumption
  <2>5. /\ lock' \in [Article -> LockRow] /\ lock'[a] = k
        /\ \A b \in Article : b # a => lock'[b] = lock[b]
    BY <1>3, <2>3, <2>4 DEF Typed
  <2>6. ASSUME NEW v \in Worker, v # w, worker[v].step \in Fetching PROVE worker[v].art # a
    BY <1>3, <2>6 DEF Bare, LocksOwned, Free
  <2>7. ASSUME NEW v \in Worker, worker'[v].step \in Fetching
        PROVE  lock'[worker'[v].art].owner = v /\ lock'[worker'[v].art].life > 0
    <3>1. CASE v = w
      BY <1>2, <2>2, <2>4, <2>5, <3>1 DEF Moved
    <3>2. CASE v # w
      <4>1. worker'[v] = worker[v] /\ worker[v].art # a /\ worker[v].step # "idle"
        BY <2>2, <2>6, <2>7, <3>2 DEF Moved, Fetching
      <4>2. lock'[worker[v].art] = lock[worker[v].art]
        BY <2>5, <4>1, AtWork
      <4> QED BY <2>7, <4>1, <4>2 DEF Bare, LocksOwned
    <3> QED BY <3>1, <3>2
  <2>8. Bare'
    BY <1>1, <2>2, <2>5, <2>7 DEF Bare, Moved, LocksOwned, bounds
  <2> QED BY <1>1, <2>2, <2>8, Kept
<1>4. CASE Step(w, "failed") /\ UNCHANGED lock
  <2>1. "failed" \in Steps \ {"idle"}
    BY DEF Steps
  <2>2. Moved(w, "failed")
    BY <1>1, <1>4, <2>1, Stepped DEF Step
  <2>3. LocksOwned'
    BY <1>4, <2>2 DEF Bare, Moved, LocksOwned, Fetching
  <2>4. Bare'
    BY <1>1, <1>4, <2>2, <2>3 DEF Bare, Moved, bounds
  <2> QED BY <1>1, <2>2, <2>4, Kept
<1> QED BY <1>2, <1>3, <1>4 DEF TakeLock

LEMMA FetchDoes ==
  ASSUME IInv, NEW w \in Worker, NEW step \in {"fetched", "unavailable"}, Fetch(w, step)
  PROVE  /\ IInv' /\ UNCHANGED <<article, sync, bounds>>
         /\ worker[w].step = "locked" /\ Moved(w, step)
<1> USE Now1
<1>1. UNCHANGED <<article, lock, sync, feed, bounds>> /\ worker[w].step = "locked"
  BY DEF Fetch
<1>2. step \in Steps \ {"idle"}
  BY DEF Steps
<1>3. Moved(w, step)
  BY <1>1, <1>2, Stepped DEF Fetch, Step
<1>4. LocksOwned'
  BY <1>1, <1>3 DEF Bare, Moved, LocksOwned, Fetching
<1>5. Bare'
  BY <1>1, <1>3, <1>4 DEF Bare, Moved, bounds
<1> QED BY <1>1, <1>3, <1>5, Kept

LEMMA WriteDoes ==
  ASSUME IInv, NEW w \in Worker, NEW page \in {Short, Full}, Write(w, page)
  PROVE  /\ IInv' /\ UNCHANGED <<sync, bounds>>
         /\ worker[w].step = "fetched" /\ Moved(w, "written") /\ worker[w].art \in Article
         /\ article'[worker[w].art].attempts = article[worker[w].art].attempts
         /\ article'[worker[w].art].status = "full_ready"
         /\ \/ article'[worker[w].art].content = article[worker[w].art].content
               /\ article'[worker[w].art].from = article[worker[w].art].from
            \/ article'[worker[w].art].content = Full /\ article'[worker[w].art].from = w
         /\ \A b \in Article : b # worker[w].art => article'[b] = article[b]
<1> USE Now1
<1>1. UNCHANGED <<lock, sync, feed, bounds>> /\ worker[w].step = "fetched"
  BY DEF Write
<1>2. PICK a \in Article : a = worker[w].art
  BY <1>1, AtWork
<1>3. Moved(w, "written")
  <2>1. worker' = [worker EXCEPT ![w].step = "written"]
    BY DEF Write, Step
  <2>2. "written" \in Steps \ {"idle"}
    BY DEF Steps
  <2> QED BY <1>1, <2>1, <2>2, Stepped
<1>4. PICK row : row = article[a]
  OBVIOUS
<1>5. PICK content : content = IF ShouldRefresh(worker[w].content, page) THEN page
                               ELSE row.content
  OBVIOUS
<1>14. PICK from : from = IF ShouldRefresh(worker[w].content, page) THEN w ELSE row.from
  OBVIOUS
<1>6. PICK k : k = [row EXCEPT !.content = content, !.from = from, !.status = "full_ready",
                               !.version = row.version + 1, !.next = Null]
  OBVIOUS
<1>7. WellFormed(row)
  BY <1>4 DEF Typed
<1>8. /\ (content = row.content /\ from = row.from) \/ (content = Full /\ from = w)
      /\ content \in Short..Full /\ from \in Worker \cup {None}
  <2>1. /\ worker[w].content \in Short..Full /\ row.content \in Short..Full
        /\ row.from \in Worker \cup {None}
    BY <1>7 DEF Typed, WorkRow, WellFormed
  <2> QED BY <1>5, <1>14, <2>1, Ranks DEF ShouldRefresh
<1>9. /\ WellFormed(k) /\ k.attempts = row.attempts /\ k.status = "full_ready"
      /\ k.content = content /\ k.from = from
  <2>1. PICK n \in Nat : n = row.version + 1
    BY <1>7 DEF WellFormed
  <2>2. PICK at : at = Null
    OBVIOUS
  <2>3. k = [row EXCEPT !.content = content, !.from = from, !.status = "full_ready",
                        !.version = n, !.next = at]
    BY <1>6, <2>1, <2>2
  <2> QED BY <1>7, <1>8, <2>1, <2>3 DEF WellFormed, Statuses
<1>10. article' = [article EXCEPT ![a] = k]
  BY <1>2, <1>4, <1>5, <1>6, <1>14 DEF Write
<1>11. Wrote(a, k)
  BY <1>9, <1>10, Written
<1>12. LocksOwned'
  BY <1>1, <1>3 DEF Bare, LocksOwned, Fetching, Moved
<1>13. Bare'
  BY <1>1, <1>3, <1>11, <1>12 DEF Bare, Moved, Wrote, bounds
<1> QED BY <1>1, <1>2, <1>3, <1>4, <1>8, <1>9, <1>11, <1>13, Kept DEF Wrote

\* The lock that is deleted is one's own.
LEMMA UnlockDoes ==
  ASSUME IInv, NEW w \in Worker, Unlock(w)
  PROVE  /\ IInv' /\ UNCHANGED <<article, sync, bounds>>
         /\ \/ worker[w].step = "written" /\ Moved(w, "idle")
            \/ worker[w].step = "unavailable" /\ Moved(w, "failed")
<1> USE Now1
<1>1. UNCHANGED <<article, sync, feed, bounds>> /\ worker[w].step \in {"written", "unavailable"}
  BY DEF Unlock, Unlocked
<1>2. PICK a \in Article : a = worker[w].art
  BY <1>1, AtWork
<1>3. \/ worker[w].step = "written" /\ Moved(w, "idle")
      \/ worker[w].step = "unavailable" /\ Moved(w, "failed")
  <2>1. CASE worker[w].step = "written"
    <3>1. worker' = [worker EXCEPT ![w] = Idle]
      BY <2>1 DEF Unlock
    <3> QED BY <2>1, <3>1, Stopped
  <2>2. CASE worker[w].step = "unavailable"
    <3>1. worker' = [worker EXCEPT ![w].step = "failed"]
      BY <2>2 DEF Unlock
    <3>2. "failed" \in Steps \ {"idle"}
      BY DEF Steps
    <3> QED BY <2>2, <3>1, <3>2, Stepped
  <2> QED BY <1>1, <2>1, <2>2
<1>4. PICK k : k = [owner |-> None, life |-> 0]
  OBVIOUS
<1>5. k \in LockRow
  BY <1>4 DEF LockRow
<1>6. lock' = [lock EXCEPT ![a] = k]
  BY <1>2, <1>4 DEF Unlock
<1>7. lock' \in [Article -> LockRow] /\ \A b \in Article : b # a => lock'[b] = lock[b]
  BY <1>5, <1>6 DEF Typed
<1>8. lock[a].owner = w
  BY <1>1, <1>2 DEF Bare, LocksOwned, Fetching
<1>9. worker'[w].step \notin Fetching
  BY <1>3 DEF Moved, Fetching
<1>10. ASSUME NEW v \in Worker, worker'[v].step \in Fetching
       PROVE  lock'[worker'[v].art].owner = v /\ lock'[worker'[v].art].life > 0
  <2>1. v # w /\ worker'[v] = worker[v] /\ worker[v].step # "idle"
    BY <1>3, <1>9, <1>10 DEF Moved, Fetching
  <2>2. lock[worker[v].art].owner = v /\ lock[worker[v].art].life > 0
    BY <1>10, <2>1 DEF Bare, LocksOwned
  <2>3. worker[v].art # a /\ worker[v].art \in Article
    BY <1>8, <2>1, <2>2, AtWork
  <2> QED BY <1>7, <2>1, <2>2, <2>3
<1>11. Bare'
  BY <1>1, <1>3, <1>7, <1>10 DEF Bare, Moved, LocksOwned, bounds
<1> QED BY <1>1, <1>3, <1>11, Kept

LEMMA MarkRetryDoes ==
  ASSUME IInv, NEW w \in Worker, MarkRetry(w)
  PROVE  /\ IInv' /\ UNCHANGED <<sync, bounds>>
         /\ worker[w].step = "failed" /\ Moved(w, "idle") /\ worker[w].art \in Article
         /\ article'[worker[w].art].attempts = article[worker[w].art].attempts
         /\ article'[worker[w].art].content = article[worker[w].art].content
         /\ article'[worker[w].art].from = article[worker[w].art].from
         /\ article'[worker[w].art].status \in {"failed", "enrichment_pending"}
         /\ article'[worker[w].art].status = "enrichment_pending" =>
              worker[w].attempts + 1 < MaxAttempts
         /\ \A b \in Article : b # worker[w].art => article'[b] = article[b]
<1> USE Now1
<1>1. UNCHANGED <<lock, sync, feed, bounds>> /\ worker[w].step = "failed"
  BY DEF MarkRetry
<1>2. PICK a \in Article : a = worker[w].art
  BY <1>1, AtWork
<1>3. Moved(w, "idle")
  BY Stopped DEF MarkRetry
<1>4. PICK row : row = article[a]
  OBVIOUS
<1>5. PICK n \in Nat : n = worker[w].attempts + 1
  BY DEF Typed, WorkRow
<1>6. PICK at : at = Delay(n)
  OBVIOUS
<1>7. PICK k : k = IF Exhausted(n)
                   THEN GivenUp(row) ELSE Queued(row, at)
  OBVIOUS
<1>8. WellFormed(row)
  BY <1>4 DEF Typed
<1>9. /\ WellFormed(k) /\ k.attempts = row.attempts /\ k.content = row.content
      /\ k.from = row.from
      /\ k.status \in {"failed", "enrichment_pending"}
      /\ k.status = "enrichment_pending" => n < MaxAttempts
  <2>1. CASE Exhausted(n)
    <3>1. PICK m \in Nat : m = row.version + 1
      BY <1>8 DEF WellFormed
    <3>2. PICK null : null = Null
      OBVIOUS
    <3>3. k = [row EXCEPT !.status = "failed", !.version = m, !.next = null]
      BY <1>7, <2>1, <3>1, <3>2 DEF GivenUp
    <3> QED BY <1>8, <3>1, <3>3 DEF WellFormed, Statuses
  <2>2. CASE ~Exhausted(n)
    <3>1. n < MaxAttempts
      BY <2>2 DEF Exhausted, EnrichmentAssumption
    <3> QED BY <1>7, <1>8, <2>2, <3>1, QueuedRow
  <2> QED BY <2>1, <2>2
<1>10. article' = [article EXCEPT ![a] = k]
  BY <1>2, <1>4, <1>5, <1>6, <1>7 DEF MarkRetry
<1>11. Wrote(a, k)
  BY <1>9, <1>10, Written
<1>12. LocksOwned'
  BY <1>1, <1>3 DEF Bare, LocksOwned, Fetching, Moved
<1>13. Bare'
  BY <1>1, <1>3, <1>11, <1>12 DEF Bare, Moved, Wrote, bounds
<1> QED BY <1>1, <1>2, <1>3, <1>4, <1>5, <1>9, <1>11, <1>13, Kept DEF Wrote

LEMMA CrashDoes ==
  ASSUME IInv, NEW w \in Worker, Crash(w)
  PROVE  /\ IInv' /\ UNCHANGED <<article, asks, syncs>> /\ crashes' = crashes + 1
         /\ Moved(w, "idle") /\ (UNCHANGED sync \/ sync'.by = None)
<1> USE Now1
<1>1. UNCHANGED <<article, feed, asks, syncs>> /\ crashes' = crashes + 1
  BY DEF Crash
<1>2. Moved(w, "idle")
  BY Stopped DEF Crash
<1>3. sync' \in SyncRow /\ (UNCHANGED sync \/ sync'.by = None)
  BY Empty DEF Crash, Typed
<1>4. ASSUME NEW a \in Article
      PROVE  lock'[a] \in LockRow /\ (lock[a].owner # w => lock'[a] = lock[a])
  <2>1. PICK k : k = lock[a]
    OBVIOUS
  <2>2. k \in LockRow
    BY <2>1 DEF Typed
  <2>3. [k EXCEPT !.owner = None] \in LockRow
    BY <2>2 DEF LockRow
  <2>4. lock'[a] = IF k.owner = w THEN [k EXCEPT !.owner = None] ELSE k
    BY <2>1 DEF Crash
  <2> QED BY <2>1, <2>2, <2>3, <2>4
<1>5. lock' \in [Article -> LockRow]
  BY <1>4 DEF Crash
<1>6. ASSUME NEW v \in Worker, worker'[v].step \in Fetching
      PROVE  lock'[worker'[v].art].owner = v /\ lock'[worker'[v].art].life > 0
  <2>1. v # w /\ worker'[v] = worker[v] /\ worker[v].step # "idle"
    BY <1>2, <1>6 DEF Moved, Fetching
  <2>2. /\ lock[worker[v].art].owner = v /\ lock[worker[v].art].life > 0
        /\ worker[v].art \in Article
    BY <1>6, <2>1, AtWork DEF Bare, LocksOwned
  <2> QED BY <1>4, <2>1, <2>2
<1>7. Bare'
  BY <1>1, <1>2, <1>3, <1>5, <1>6 DEF Bare, Moved, LocksOwned
<1> QED BY <1>1, <1>2, <1>3, <1>7, Kept

LEMMA TickDoes ==
  ASSUME IInv, Tick
  PROVE  /\ IInv' /\ UNCHANGED <<worker, sync, bounds>>
         /\ \A a \in Article : /\ article'[a].status = article[a].status
                               /\ article'[a].attempts = article[a].attempts
                               /\ article'[a].content = article[a].content
                               /\ article'[a].from = article[a].from
<1> USE Now1
<1>1. UNCHANGED <<worker, sync, feed, bounds>>
  BY DEF Tick
<1>2. ASSUME NEW a \in Article
      PROVE  /\ WellFormed(article'[a]) /\ article'[a].status = article[a].status
             /\ article'[a].attempts = article[a].attempts
             /\ article'[a].content = article[a].content
             /\ article'[a].from = article[a].from
  <2>1. PICK row : row = article[a]
    OBVIOUS
  <2>2. PICK at : at = IF row.next > Now THEN row.next - 1 ELSE row.next
    OBVIOUS
  <2>3. WellFormed(row)
    BY <2>1 DEF Typed
  <2>4. article'[a] = [row EXCEPT !.next = at]
    BY <2>1, <2>2 DEF Tick
  <2> QED BY <2>1, <2>3, <2>4 DEF WellFormed
<1>3. DOMAIN article' = Article
  BY DEF Tick
<1>4. ASSUME NEW a \in Article
      PROVE  /\ lock'[a] \in LockRow /\ lock'[a].owner = lock[a].owner
             /\ lock[a].owner # None => lock'[a].life > 0
  <2>1. PICK k : k = lock[a]
    OBVIOUS
  <2>2. k \in LockRow /\ (k.owner # None => k.life > 1)
    BY <2>1 DEF Typed, Tick
  <2>3. PICK n : n = IF k.life = 0 THEN 0 ELSE k.life - 1
    OBVIOUS
  <2>4. n \in Nat /\ (k.owner # None => n > 0)
    BY <2>2, <2>3 DEF LockRow
  <2>5. lock'[a] = [k EXCEPT !.life = n]
    BY <2>1, <2>3 DEF Tick
  <2> QED BY <2>1, <2>2, <2>4, <2>5 DEF LockRow
<1>5. lock' \in [Article -> LockRow]
  BY <1>4 DEF Tick
<1>6. ASSUME NEW v \in Worker, worker'[v].step \in Fetching
      PROVE  lock'[worker'[v].art].owner = v /\ lock'[worker'[v].art].life > 0
  <2>1. worker[v].art \in Article /\ lock[worker[v].art].owner = v /\ v # None
    BY <1>1, <1>6, AtWork DEF Bare, LocksOwned, Fetching, EnrichmentAssumption
  <2> QED BY <1>1, <1>4, <2>1
<1>7. Bare'
  BY <1>1, <1>2, <1>3, <1>5, <1>6 DEF Bare, LocksOwned, bounds
<1> QED BY <1>1, <1>2, <1>7, Kept

LEMMA StutterDoes == ASSUME IInv, UNCHANGED vars PROVE IInv'
<1>1. Bare'
  BY Now1 DEF vars, bounds, Bare, LocksOwned
<1> QED BY <1>1, Now1, Kept

(***************************************************************************)
(* One fetcher.                                                            *)
(***************************************************************************)
LEMMA StepIInv == ASSUME IInv, [Next]_vars PROVE IInv'
<1>1. ASSUME NEW p \in Syncers, SyncReads(p) PROVE IInv'
  BY <1>1, SyncReadsDoes
<1>2. CASE SyncWrites
  BY <1>2, SyncWritesDoes
<1>3. CASE Tick
  BY <1>3, TickDoes
<1>4. ASSUME NEW a \in Article, Ask(a) PROVE IInv'
  BY <1>4, AskDoes
<1>5. ASSUME NEW w \in Worker, Work(w) PROVE IInv'
  <2>1. ASSUME NEW a \in Article, Find(w, a) PROVE IInv'
    BY <2>1, FindDoes
  <2>2. ASSUME NEW step \in {"fetched", "unavailable"}, Fetch(w, step) PROVE IInv'
    BY <2>2, FetchDoes
  <2>3. ASSUME NEW page \in {Short, Full}, Write(w, page) PROVE IInv'
    BY <2>3, WriteDoes
  <2> QED BY <1>5, <2>1, <2>2, <2>3, MarkAttemptDoes, TakeLockDoes, UnlockDoes, MarkRetryDoes
          DEF Work
<1>6. ASSUME NEW w \in Worker, Crash(w) PROVE IInv'
  BY <1>6, CrashDoes
<1> QED BY <1>1, <1>2, <1>3, <1>4, <1>5, <1>6, StutterDoes DEF Next

\* However readers and syncs queue an article again, and wherever workers die, no two workers are
\* between taking and giving back the lock of one article (enrichSingleArticle): as a lock that
\* outlives its worker has no owner, nobody deletes the lock of another.
THEOREM OneFetches == ASSUME EnrichmentAssumption PROVE Spec => []OneFetcher
<1>1. IInv => OneFetcher
  <2> SUFFICES ASSUME IInv, NEW v \in Worker, NEW w \in Worker, v # w,
                      worker[v].art = worker[w].art,
                      worker[v].step \in Fetching, worker[w].step \in Fetching
               PROVE  FALSE
    BY DEF OneFetcher, Fetching
  <2>1. lock[worker[v].art].owner = v /\ lock[worker[w].art].owner = w
    BY DEF IInv, LocksOwned
  <2> QED BY <2>1
<1> QED BY <1>1, Initially, StepIInv, PTL DEF Spec

(***************************************************************************)
(* The page is kept.                                                       *)
(***************************************************************************)
\* The rows keep what they had of their pages, and each process that enriched nothing does so now.
SameRows == \A a \in Article :
  /\ article'[a].content = article[a].content /\ article'[a].from = article[a].from
  /\ article[a].status # "absent" => article'[a].status # "absent"

LEMMA RowsKept ==
  ASSUME FInv, IInv', SameRows, sync' = sync \/ sync'.by = None, Quiet'
  PROVE  FInv' /\ FullKept
BY DEF FInv, SeenFull, SameRows, FullKept

\* A step of a worker that is at work leaves the process that syncs at rest.
LEMMA StaysQuiet ==
  ASSUME FInv, NEW w \in Worker, Working(w), NEW step, Moved(w, step), UNCHANGED sync
  PROVE  Quiet'
BY DEF FInv, Quiet, Moved, Working

LEMMA StepFInv == ASSUME FInv, [Next]_vars PROVE FInv' /\ [FullKept]_vars
<1>1. IInv /\ IInv' /\ Quiet /\ SeenFull /\ EnrichmentAssumption
  BY StepIInv DEF FInv, IInv
<1>2. ASSUME NEW p \in Syncers, SyncReads(p) PROVE FInv' /\ FullKept
  <2>1. /\ UNCHANGED <<article, worker>> /\ (p \in Worker => ~Working(p)) /\ sync'.by = p
        /\ \A a \in Article : /\ sync'.seen[a].status = article[a].status
                              /\ sync'.seen[a].content = article[a].content
    BY <1>1, <1>2, SyncReadsDoes
  <2>2. Quiet'
    BY <2>1 DEF Quiet, Working
  <2>3. SeenFull'
    BY <1>1, <2>1 DEF SeenFull
  <2> QED BY <1>1, <2>1, <2>2, <2>3 DEF FInv, FullKept
<1>3. CASE SyncWrites
  <2>1. /\ UNCHANGED worker /\ sync.by # None /\ sync'.by = None
        /\ \A a \in Article :
             /\ article'[a].from = article[a].from
             /\ article'[a].status \in {article[a].status, "enrichment_pending"}
             /\ sync.seen[a].status # "absent" /\ sync.seen[a].content = Full =>
                  article'[a].content = article[a].content
             /\ article[a].content # Full => article'[a].content # Full
    BY <1>1, <1>3, SyncWritesDoes
  <2>2. FullKept
    BY <1>1, <1>3, <2>1 DEF SeenFull, FullKept
  <2>3. None \notin Worker
    BY <1>1 DEF EnrichmentAssumption
  <2>4. SeenFull' /\ Quiet'
    BY <1>1, <2>1, <2>3 DEF SeenFull, Quiet
  <2> QED BY <1>1, <2>2, <2>4 DEF FInv
<1>4. CASE Tick
  <2>1. UNCHANGED <<worker, sync>> /\ SameRows
    BY <1>1, <1>4, TickDoes DEF SameRows
  <2>2. Quiet'
    BY <1>1, <2>1 DEF Quiet, Working
  <2> QED BY <1>1, <2>1, <2>2, RowsKept
<1>5. ASSUME NEW a \in Article, Ask(a) PROVE FInv' /\ FullKept
  <2>1. UNCHANGED <<worker, sync>> /\ SameRows
    BY <1>1, <1>5, AskDoes DEF SameRows
  <2>2. Quiet'
    BY <1>1, <2>1 DEF Quiet, Working
  <2> QED BY <1>1, <2>1, <2>2, RowsKept
<1>6. ASSUME NEW w \in Worker, NEW a \in Article, Find(w, a) PROVE FInv' /\ FullKept
  <2>1. /\ UNCHANGED <<article, sync>> /\ sync.by # w
        /\ \A v \in Worker : v # w => worker'[v] = worker[v]
    BY <1>1, <1>6, FindDoes
  <2>2. Quiet' /\ SameRows
    BY <1>1, <2>1 DEF Quiet, Working, SameRows
  <2> QED BY <1>1, <2>1, <2>2, RowsKept
<1>7. ASSUME NEW w \in Worker, TakeLock(w) \/ Unlock(w) \/ Fetch(w, "fetched")
                                 \/ Fetch(w, "unavailable")
      PROVE  FInv' /\ FullKept
  <2>1. PICK step : UNCHANGED <<article, sync>> /\ Working(w) /\ Moved(w, step)
    BY <1>1, <1>7, TakeLockDoes, UnlockDoes, FetchDoes DEF Working
  <2>2. Quiet' /\ SameRows
    BY <2>1, StaysQuiet DEF SameRows
  <2> QED BY <1>1, <2>1, <2>2, RowsKept
<1>8. ASSUME NEW w \in Worker, MarkAttempt(w) PROVE FInv' /\ FullKept
  <2>1. UNCHANGED sync /\ Working(w) /\ Moved(w, "marked") /\ SameRows
    BY <1>1, <1>8, MarkAttemptDoes DEF Working, SameRows
  <2> QED BY <1>1, <2>1, StaysQuiet, RowsKept
<1>9. ASSUME NEW w \in Worker, MarkRetry(w) PROVE FInv' /\ FullKept
  <2>1. UNCHANGED sync /\ Working(w) /\ Moved(w, "idle") /\ SameRows
    BY <1>1, <1>9, MarkRetryDoes DEF Working, SameRows
  <2> QED BY <1>1, <2>1, StaysQuiet, RowsKept
\* What the page brings is not overwritten by a sync of the process that fetched it: it has none.
<1>10. ASSUME NEW w \in Worker, NEW page \in {Short, Full}, Write(w, page)
       PROVE  FInv' /\ FullKept
  <2>1. PICK a \in Article : /\ UNCHANGED sync /\ Working(w) /\ Moved(w, "written")
          /\ article'[a].status = "full_ready"
          /\ \/ article'[a].content = article[a].content /\ article'[a].from = article[a].from
             \/ article'[a].content = Full /\ article'[a].from = w
          /\ \A b \in Article : b # a => article'[b] = article[b]
    BY <1>1, <1>10, WriteDoes DEF Working
  <2>2. Quiet' /\ sync.by # w
    BY <1>1, <2>1, StaysQuiet DEF Quiet
  <2>3. SeenFull'
    BY <1>1, <2>1, <2>2 DEF SeenFull
  <2>4. FullKept
    BY <2>1 DEF FullKept
  <2> QED BY <1>1, <2>2, <2>3, <2>4 DEF FInv
<1>11. ASSUME NEW w \in Worker, Crash(w) PROVE FInv' /\ FullKept
  <2>1. UNCHANGED article /\ Moved(w, "idle") /\ (UNCHANGED sync \/ sync'.by = None)
    BY <1>1, <1>11, CrashDoes
  <2>2. None \notin Worker
    BY <1>1 DEF EnrichmentAssumption
  <2>3. Quiet' /\ SameRows
    BY <1>1, <2>1, <2>2 DEF Quiet, Moved, Working, SameRows
  <2> QED BY <1>1, <2>1, <2>3, RowsKept
<1>12. CASE UNCHANGED vars
  BY <1>1, <1>12 DEF vars, FInv, Quiet, SeenFull, Working
<1> QED BY <1>2, <1>3, <1>4, <1>5, <1>6, <1>7, <1>8, <1>9, <1>10, <1>11, <1>12 DEF Next, Work

\* What was fetched from the page of an article is overwritten by no other attempt at it and by no
\* sync of the process that fetched it, however many processes sync and enrich: a process does one
\* or the other, and processItem skips the articles that it saw full. Only a sync of another
\* process, which had read the row before the page was written, puts the feed's content back.
THEOREM PageKept == ASSUME EnrichmentAssumption PROVE Spec => [][FullKept]_vars
<1>1. Init => FInv
  <2> SUFFICES ASSUME Init PROVE FInv
    OBVIOUS
  <2>1. /\ sync.by = None /\ None \notin Worker
        /\ \A a \in Article : article[a].content # Full
    BY Empty, Ranks DEF Init, EnrichmentAssumption
  <2> QED BY <2>1, Initially DEF FInv, Quiet, SeenFull
<1>2. FInv /\ [Next]_vars => FInv' /\ [FullKept]_vars
  BY StepFInv
<1> QED BY <1>1, <1>2, PTL DEF Spec

(***************************************************************************)
(* Attempts are counted.                                                   *)
(***************************************************************************)
TryingSteps == {"marked", "locked", "fetched", "unavailable", "failed"}

LEMMA TheWorker ==
  ASSUME OneWorker, NEW w \in Worker, NEW a \in Article
  PROVE  /\ Tried(a) <=> worker[w].art = a /\ worker[w].step \in TryingSteps
         /\ Tried(a)' <=> worker'[w].art = a /\ worker'[w].step \in TryingSteps
BY DEF OneWorker, Tried, Trying, TryingSteps

LEMMA Numbers ==
  ASSUME IInv, NEW a \in Article
  PROVE  /\ article[a].attempts \in Nat /\ MaxAttempts \in Nat /\ MaxAttempts >= 1
         /\ asks \in Nat /\ syncs \in Nat /\ crashes \in Nat
         /\ Owing(a) \in {0, 1} /\ Syncing \in {0, 1}
BY DEF IInv, EnrichmentAssumption, Typed, WellFormed, Owing, Syncing

\* A step at which the worker does nothing, nor does a row change its attempts: each article that
\* begins to wait is paid for.
LEMMA OthersCount ==
  ASSUME CInv, IInv', UNCHANGED worker,
         Syncing' <= syncs',
         \A a \in Article :
           /\ article'[a].attempts = article[a].attempts
           /\ Pending(a) => article'[a].status = "enrichment_pending",
         \A a \in Article : Owing(a)' + Syncing' + Allowed <= Owing(a) + Syncing + Allowed'
  PROVE  CInv'
<1>1. IInv /\ Counted
  BY DEF CInv
<1>2. ASSUME NEW a \in Article
      PROVE  article'[a].attempts + Owing(a)' + Syncing' <= Allowed'
  <2>1. /\ article[a].attempts \in Nat /\ MaxAttempts \in Nat
        /\ asks \in Nat /\ syncs \in Nat /\ crashes \in Nat
        /\ Owing(a) \in {0, 1} /\ Syncing \in {0, 1}
    BY <1>1, Numbers
  <2>2. /\ asks' \in Nat /\ syncs' \in Nat /\ crashes' \in Nat
        /\ Owing(a)' \in {0, 1} /\ Syncing' \in {0, 1}
    BY DEF IInv, Typed, Owing, Syncing
  <2>3. article[a].attempts + Owing(a) + Syncing <= Allowed
    BY <1>1 DEF Counted
  <2>4. Allowed \in Nat /\ Allowed' \in Nat
    <3>1. ASSUME NEW i \in Nat, NEW j \in Nat, NEW k \in Nat, NEW l \in Nat
          PROVE  i + j + k + l \in Nat
      OBVIOUS
    <3> QED BY <2>1, <2>2, <3>1, Zenon DEF Allowed
  <2>5. Owing(a)' + Syncing' + Allowed <= Owing(a) + Syncing + Allowed'
    OBVIOUS
  <2> QED BY <2>1, <2>2, <2>3, <2>4, <2>5
<1>3. ASSUME NEW w \in Worker, worker'[w].step = "found"
      PROVE  /\ Pending(worker[w].art)'
             /\ worker'[w].attempts = article'[worker'[w].art].attempts
  <2>1. worker[w].step = "found" /\ worker[w].art \in Article
    BY <1>1, <1>3, AtWork DEF IInv
  <2> QED BY <1>1, <2>1 DEF Counted, Pending
<1>4. ASSUME NEW w \in Worker, worker'[w].step \in TryingSteps
      PROVE  worker'[w].attempts + 1 = article'[worker'[w].art].attempts
  <2>1. worker[w].step \in TryingSteps /\ worker[w].art \in Article
    BY <1>1, <1>4, AtWork DEF IInv, TryingSteps
  <2> QED BY <1>1, <2>1 DEF Counted, Trying, TryingSteps
<1>5. Counted'
  BY <1>2, <1>3, <1>4 DEF Counted, Trying, TryingSteps
<1> QED BY <1>5 DEF CInv

\* A step of the worker at one article, which stays paid for.
LEMMA WorkCounts ==
  ASSUME CInv, IInv', OneWorker, NEW w \in Worker, NEW a \in Article, UNCHANGED <<sync, bounds>>,
         worker[w].art \in {a, None}, worker'[w].art \in {a, None},
         \A b \in Article : b # a => article'[b] = article[b],
         article'[a].attempts + Owing(a)' + Syncing <= Allowed,
         worker'[w].step = "found" => /\ article'[a].status = "enrichment_pending"
                                      /\ worker'[w].attempts = article'[a].attempts,
         worker'[w].step \in TryingSteps => worker'[w].attempts + 1 = article'[a].attempts
  PROVE  CInv'
<1>1. IInv /\ Counted /\ Syncing' = Syncing /\ Allowed' = Allowed /\ syncs' = syncs
  BY DEF CInv, Syncing, Allowed, bounds
<1>2. ASSUME NEW b \in Article
      PROVE  article'[b].attempts + Owing(b)' + Syncing' <= Allowed'
  <2>1. CASE b = a
    BY <1>1, <2>1
  <2>2. CASE b # a
    <3>1. b # None
      BY <1>1 DEF IInv, EnrichmentAssumption
    <3>2. ~Tried(b) /\ ~Tried(b)'
      BY <2>2, <3>1, TheWorker
    <3>3. Owing(b)' = Owing(b)
      BY <2>2, <3>2 DEF Owing, Pending
    <3> QED BY <1>1, <2>2, <3>3 DEF Counted
  <2> QED BY <2>1, <2>2
<1>3. ASSUME NEW v \in Worker
      PROVE  /\ worker'[v].step = "found" =>
                  /\ Pending(worker[v].art)'
                  /\ worker'[v].attempts = article'[worker'[v].art].attempts
             /\ Trying(v)' => worker'[v].attempts + 1 = article'[worker'[v].art].attempts
  <2>1. v = w
    BY DEF OneWorker
  <2>2. worker'[w].step # "idle" => worker'[w].art = a
    BY DEF IInv, Typed
  <2> QED BY <2>1, <2>2 DEF Trying, TryingSteps, Pending
<1>4. Counted'
  BY <1>1, <1>2, <1>3 DEF Counted
<1> QED BY <1>4 DEF CInv

LEMMA StepCInv == ASSUME OneWorker, CInv, [Next]_vars PROVE CInv'
<1>1. IInv /\ IInv' /\ Counted
  BY StepIInv DEF CInv
<1>2. ASSUME NEW a \in Article
      PROVE  /\ article[a].attempts \in Nat /\ Owing(a) \in {0, 1} /\ Syncing \in {0, 1}
             /\ Allowed \in Nat /\ Allowed >= MaxAttempts + syncs /\ MaxAttempts \in Nat
             /\ article[a].attempts + Owing(a) + Syncing <= Allowed /\ Syncing <= syncs
             /\ syncs \in Nat
  BY <1>1, Numbers DEF Counted, Allowed
<1>3. /\ asks \in Nat /\ syncs \in Nat /\ crashes \in Nat /\ MaxAttempts \in Nat
      /\ Syncing \in {0, 1} /\ Syncing <= syncs
  BY <1>1 DEF IInv, EnrichmentAssumption, Typed, Syncing, Counted
<1>4. ASSUME NEW p \in Syncers, SyncReads(p) PROVE CInv'
  <2>1. /\ UNCHANGED <<article, worker, asks, crashes>> /\ syncs' = syncs + 1
        /\ sync.by = None /\ sync'.by = p /\ p # None
    BY <1>1, <1>4, SyncReadsDoes
  <2>2. Syncing = 0 /\ Syncing' = 1
    BY <2>1 DEF Syncing
  <2>3. Allowed' = Allowed + 1 /\ Allowed \in Nat
    BY <1>3, <2>1 DEF Allowed
  <2>4. \A a \in Article : Owing(a)' = Owing(a)
    BY <2>1 DEF Owing, Pending, Tried, Trying
  <2>5. \A a \in Article : Owing(a)' + Syncing' + Allowed <= Owing(a) + Syncing + Allowed'
    BY <1>2, <2>2, <2>3, <2>4
  <2>6. Syncing' <= syncs'
    BY <1>3, <2>1, <2>2
  <2> QED BY <1>1, <2>1, <2>5, <2>6, OthersCount DEF Pending
<1>5. CASE SyncWrites
  <2>1. /\ UNCHANGED <<worker, asks, syncs, crashes>> /\ sync.by # None /\ sync'.by = None
        /\ \A a \in Article : /\ article'[a].attempts = article[a].attempts
                              /\ article'[a].status \in {article[a].status, "enrichment_pending"}
    BY <1>1, <1>5, SyncWritesDoes
  <2>2. Syncing = 1 /\ Syncing' = 0 /\ Allowed' = Allowed
    BY <2>1 DEF Syncing, Allowed
  <2>3. ASSUME NEW a \in Article PROVE Owing(a)' <= Owing(a) + 1
    BY DEF Owing
  <2>4. ASSUME NEW a \in Article PROVE Owing(a)' \in {0, 1}
    BY DEF Owing
  <2>5. \A a \in Article : Owing(a)' + Syncing' + Allowed <= Owing(a) + Syncing + Allowed'
    BY <1>2, <2>2, <2>3, <2>4
  <2>6. Syncing' <= syncs'
    BY <1>3, <2>1, <2>2
  <2> QED BY <1>1, <2>1, <2>5, <2>6, OthersCount DEF Pending
<1>6. CASE Tick
  <2>1. /\ UNCHANGED <<worker, sync, bounds>>
        /\ \A a \in Article : /\ article'[a].status = article[a].status
                              /\ article'[a].attempts = article[a].attempts
    BY <1>1, <1>6, TickDoes
  <2>2. Syncing' = Syncing /\ Allowed' = Allowed /\ Syncing' <= syncs'
    BY <1>3, <2>1 DEF Syncing, Allowed, bounds
  <2>3. \A a \in Article : Owing(a)' = Owing(a)
    BY <2>1 DEF Owing, Pending, Tried, Trying
  <2>4. \A a \in Article : Owing(a)' + Syncing' + Allowed <= Owing(a) + Syncing + Allowed'
    BY <1>2, <2>2, <2>3
  <2> QED BY <1>1, <2>1, <2>2, <2>4, OthersCount DEF Pending
<1>7. ASSUME NEW a \in Article, Ask(a) PROVE CInv'
  <2>1. /\ UNCHANGED <<worker, sync, syncs, crashes>> /\ asks' = asks + 1
        /\ article'[a].status = "enrichment_pending"
        /\ article'[a].attempts = article[a].attempts
        /\ \A b \in Article : b # a => article'[b] = article[b]
    BY <1>1, <1>7, AskDoes
  <2>2. Syncing' = Syncing /\ Allowed' = Allowed + 1 /\ Syncing' <= syncs'
    BY <1>3, <2>1 DEF Syncing, Allowed
  <2>3. \A b \in Article : Owing(b)' \in {0, 1}
    BY DEF Owing
  <2>4. \A b \in Article : Owing(b)' + Syncing' + Allowed <= Owing(b) + Syncing + Allowed'
    BY <1>2, <2>2, <2>3
  <2>5. \A b \in Article : /\ article'[b].attempts = article[b].attempts
                           /\ Pending(b) => article'[b].status = "enrichment_pending"
    BY <2>1 DEF Pending
  <2> QED BY <1>1, <2>1, <2>2, <2>4, <2>5, OthersCount
<1>8. ASSUME NEW w \in Worker, NEW a \in Article, Find(w, a) PROVE CInv'
  <2>1. /\ UNCHANGED <<article, sync, bounds>> /\ ~Working(w) /\ Pending(a)
        /\ worker'[w].step = "found" /\ worker'[w].art = a
        /\ worker'[w].attempts = article[a].attempts
    BY <1>1, <1>8, FindDoes
  <2>2. worker[w].art = None
    BY <1>1, <2>1 DEF IInv, Typed, Working
  <2>3. Owing(a)' = 1 /\ Owing(a) = 1
    BY <2>1, <2>2, TheWorker DEF Owing, Pending, TryingSteps, IInv, Typed, Working
  <2>4. article'[a].attempts + Owing(a)' + Syncing <= Allowed
    BY <1>2, <2>1, <2>3
  <2> QED BY <1>1, <2>1, <2>2, <2>4, WorkCounts DEF Pending, TryingSteps
<1>9. ASSUME NEW w \in Worker, MarkAttempt(w) PROVE CInv'
  <2>1. /\ UNCHANGED <<sync, bounds>> /\ worker[w].step = "found" /\ Moved(w, "marked")
        /\ worker[w].art \in Article
    BY <1>1, <1>9, MarkAttemptDoes
  <2>2. PICK a \in Article : a = worker[w].art
    BY <2>1
  <2>3. /\ article'[a].attempts = article[a].attempts + 1
        /\ \A b \in Article : b # a => article'[b] = article[b]
    BY <1>1, <1>9, <2>2, MarkAttemptDoes
  <2>4. Pending(a) /\ worker[w].attempts = article[a].attempts
    BY <1>1, <2>1, <2>2 DEF Counted
  <2>5. /\ worker'[w].step = "marked" /\ worker'[w].art = a
        /\ worker'[w].attempts = article[a].attempts
    BY <2>1, <2>2, <2>4 DEF Moved
  <2>6. Owing(a) = 1 /\ Owing(a)' = 0
    BY <2>1, <2>4, <2>5, TheWorker DEF Owing, TryingSteps
  <2>7. article'[a].attempts + Owing(a)' + Syncing <= Allowed
    BY <1>2, <2>3, <2>6
  <2> QED BY <1>1, <2>1, <2>2, <2>3, <2>5, <2>7, WorkCounts
\* From then on to the end of the attempt the row is left alone.
<1>10. ASSUME NEW w \in Worker, TakeLock(w) \/ Fetch(w, "fetched") \/ Fetch(w, "unavailable")
                                  \/ (Unlock(w) /\ worker[w].step = "unavailable")
       PROVE  CInv'
  <2>1. PICK step \in TryingSteps :
          UNCHANGED <<article, sync, bounds>> /\ worker[w].step \in TryingSteps /\ Moved(w, step)
    BY <1>1, <1>10, TakeLockDoes, FetchDoes, UnlockDoes DEF TryingSteps
  <2>2. PICK a \in Article : a = worker[w].art
    BY <1>1, <2>1, AtWork DEF IInv, TryingSteps
  <2>3. /\ worker'[w].step \in TryingSteps /\ worker'[w].art = a
        /\ worker'[w].attempts = worker[w].attempts /\ worker'[w].step # "found"
    BY <2>1, <2>2 DEF Moved, TryingSteps
  <2>4. worker[w].attempts + 1 = article[a].attempts
    BY <1>1, <2>1, <2>2 DEF Counted, Trying, TryingSteps
  <2>5. Owing(a)' = Owing(a)
    BY <2>1, <2>2, <2>3, TheWorker DEF Owing
  <2>6. article'[a].attempts + Owing(a)' + Syncing <= Allowed
    BY <1>2, <2>1, <2>5
  <2> QED BY <1>1, <2>1, <2>2, <2>3, <2>4, <2>6, WorkCounts
<1>11. ASSUME NEW w \in Worker, NEW page \in {Short, Full}, Write(w, page) PROVE CInv'
  <2>1. /\ UNCHANGED <<sync, bounds>> /\ worker[w].step = "fetched" /\ Moved(w, "written")
        /\ worker[w].art \in Article
    BY <1>1, <1>11, WriteDoes
  <2>2. PICK a \in Article : a = worker[w].art
    BY <2>1
  <2>3. /\ article'[a].attempts = article[a].attempts /\ article'[a].status = "full_ready"
        /\ \A b \in Article : b # a => article'[b] = article[b]
    BY <1>1, <1>11, <2>2, WriteDoes
  <2>4. worker'[w].step = "written" /\ worker'[w].art = a
    BY <2>1, <2>2 DEF Moved
  <2>5. Owing(a)' = 0
    BY <2>3 DEF Owing, Pending
  <2>6. article'[a].attempts + Owing(a)' + Syncing <= Allowed
    BY <1>2, <2>3, <2>5
  <2> QED BY <1>1, <2>1, <2>2, <2>3, <2>4, <2>6, WorkCounts DEF TryingSteps
<1>12. ASSUME NEW w \in Worker, Unlock(w), worker[w].step = "written" PROVE CInv'
  <2>1. UNCHANGED <<article, sync, bounds>> /\ Moved(w, "idle")
    BY <1>1, <1>12, UnlockDoes
  <2>2. PICK a \in Article : a = worker[w].art
    BY <1>1, <1>12, AtWork DEF IInv
  <2>3. worker'[w].step = "idle" /\ worker'[w].art = None
    BY <2>1 DEF Moved
  <2>4. Owing(a)' = Owing(a)
    BY <1>12, <2>1, <2>3, TheWorker DEF Owing, Pending, TryingSteps
  <2>5. article'[a].attempts + Owing(a)' + Syncing <= Allowed
    BY <1>2, <2>1, <2>4
  <2> QED BY <1>1, <2>1, <2>2, <2>3, <2>5, WorkCounts DEF TryingSteps
\* An attempt that was not the last leaves room for another.
<1>13. ASSUME NEW w \in Worker, MarkRetry(w) PROVE CInv'
  <2>1. /\ UNCHANGED <<sync, bounds>> /\ worker[w].step = "failed" /\ Moved(w, "idle")
        /\ worker[w].art \in Article
    BY <1>1, <1>13, MarkRetryDoes
  <2>2. PICK a \in Article : a = worker[w].art
    BY <2>1
  <2>3. /\ article'[a].attempts = article[a].attempts
        /\ article'[a].status = "enrichment_pending" => worker[w].attempts + 1 < MaxAttempts
        /\ \A b \in Article : b # a => article'[b] = article[b]
    BY <1>1, <1>13, <2>2, MarkRetryDoes
  <2>4. worker'[w].step = "idle" /\ worker'[w].art = None
    BY <2>1 DEF Moved
  <2>5. worker[w].attempts + 1 = article[a].attempts
    BY <1>1, <2>1, <2>2 DEF Counted, Trying
  <2>6. article'[a].attempts + Owing(a)' + Syncing <= Allowed
    <3>1. CASE article'[a].status = "enrichment_pending"
      <4>1. article[a].attempts < MaxAttempts /\ Owing(a)' \in {0, 1}
        BY <2>3, <2>5, <3>1 DEF Owing
      <4> QED BY <1>2, <2>3, <4>1
    <3>2. CASE article'[a].status # "enrichment_pending"
      <4>1. Owing(a)' = 0
        BY <3>2 DEF Owing, Pending
      <4> QED BY <1>2, <2>3, <4>1
    <3> QED BY <3>1, <3>2
  <2> QED BY <1>1, <2>1, <2>2, <2>3, <2>4, <2>6, WorkCounts DEF TryingSteps
<1>14. ASSUME NEW w \in Worker, Crash(w) PROVE CInv'
  <2>1. /\ UNCHANGED <<article, asks, syncs>> /\ crashes' = crashes + 1 /\ Moved(w, "idle")
        /\ UNCHANGED sync \/ sync'.by = None
    BY <1>1, <1>14, CrashDoes
  <2>2. /\ Syncing' <= Syncing /\ Syncing' \in {0, 1} /\ Syncing' <= syncs'
    BY <1>3, <2>1 DEF Syncing
  <2>3. Allowed' = Allowed + 1
    BY <1>3, <2>1 DEF Allowed
  <2>4. ASSUME NEW a \in Article
        PROVE  article'[a].attempts + Owing(a)' + Syncing' <= Allowed'
    <3>1. Owing(a)' \in {0, 1} /\ article'[a].attempts = article[a].attempts
      BY <2>1 DEF Owing
    <3> QED BY <1>2, <2>2, <2>3, <3>1
  <2>5. \A v \in Worker : worker'[v].step = "idle"
    BY <2>1 DEF Moved, OneWorker
  <2>6. Counted'
    BY <2>2, <2>4, <2>5 DEF Counted, Trying
  <2> QED BY <1>1, <2>6 DEF CInv
<1>15. CASE UNCHANGED vars
  BY <1>1, <1>15 DEF vars, bounds, CInv, Counted, Owing, Pending, Tried, Trying, Syncing, Allowed
<1>16. ASSUME NEW w \in Worker, Unlock(w) PROVE CInv'
  BY <1>1, <1>10, <1>12, <1>16, UnlockDoes
<1>17. ASSUME NEW w \in Worker, Work(w) PROVE CInv'
  <2>1. ASSUME NEW step \in {"fetched", "unavailable"}, Fetch(w, step) PROVE CInv'
    BY <1>10, <2>1
  <2> QED BY <1>8, <1>9, <1>10, <1>11, <1>13, <1>16, <1>17, <2>1 DEF Work
<1> QED BY <1>4, <1>5, <1>6, <1>7, <1>14, <1>15, <1>17 DEF Next

\* One worker tries an article as often as allowed, and once more for each time that a reader or a
\* sync queues it again or the worker dies over it, whoever syncs the feed meanwhile.
THEOREM AttemptsEnd ==
  ASSUME EnrichmentAssumption, OneWorker PROVE Spec => []AttemptsBounded
<1>1. Init => CInv
  <2> SUFFICES ASSUME Init PROVE CInv
    OBVIOUS
  <2>1. /\ \A a \in Article : article[a].attempts = 0 /\ article[a].status = "absent"
        /\ \A w \in Worker : worker[w].step = "idle"
        /\ sync.by = None /\ asks = 0 /\ syncs = 0 /\ crashes = 0
    BY Empty DEF Init
  <2>2. MaxAttempts \in Nat
    BY DEF EnrichmentAssumption
  <2>3. Allowed = MaxAttempts /\ Syncing = 0 /\ \A a \in Article : Owing(a) = 0
    BY <2>1, <2>2 DEF Allowed, Syncing, Owing, Pending
  <2>4. Counted
    BY <2>1, <2>2, <2>3 DEF Counted, Trying
  <2> QED BY <2>4, Initially DEF CInv
<1>2. CInv /\ [Next]_vars => CInv'
  BY StepCInv
<1>3. CInv => AttemptsBounded
  <2> SUFFICES ASSUME CInv, NEW a \in Article
               PROVE  article[a].attempts <= MaxAttempts + asks + syncs + crashes
    BY DEF AttemptsBounded
  <2>1. /\ article[a].attempts \in Nat /\ Owing(a) \in {0, 1} /\ Syncing \in {0, 1}
        /\ asks \in Nat /\ syncs \in Nat /\ crashes \in Nat /\ MaxAttempts \in Nat
    BY Numbers DEF CInv
  <2>2. article[a].attempts + Owing(a) + Syncing <= MaxAttempts + asks + syncs + crashes
    BY DEF CInv, Counted, Allowed
  <2> QED BY <2>1, <2>2
<1> QED BY <1>1, <1>2, <1>3, PTL DEF Spec

---------------------------------------------------------------------------

(***************************************************************************)
(* ArticleCache: what Redis keeps of the articles.                         *)
(***************************************************************************)
CONSTANTS Warmers, Readers, ReaderAsks, DetailLife, CacheKinds, MaxVersion, MaxRestarts
VARIABLES versions, keys, snapshot, change, warmer, reader, crashed, restarts, told, age

Cache == INSTANCE ArticleCache WITH
  Warmer <- Warmers, Reader <- Readers, Asks <- ReaderAsks, Kinds <- CacheKinds,
  row <- versions, redis <- keys, saved <- snapshot, crashes <- crashed

Versions == [Article -> Nat]
ListRow == [gen : Nat, rows : Versions, life : 0..1]
DetailRow == [version : Nat, life : 0..DetailLife]
KeysRow == [gen : Nat, list : ListRow, detail : [Article -> DetailRow], warming : 0..1]
ChangeRow == [step : {"none", "committed", "bumped"}, kind : {"delivery", "enrichment"},
              rows : SUBSET Article, at : Versions]
WarmerRow == [step : {"idle", "locked", "gen", "rows", "current", "stored"},
              gen : Nat, rows : Versions]
ReaderSteps == {"idle", "list", "found", "detail", "missed", "fill", "listed", "shown"}
ReaderRow == [step : ReaderSteps, art : SUBSET Article, told : Versions, due : Versions,
              rows : Versions, gen : Nat]

\* A reader of the list reads no article, and one of an article only that.
ArtFits == \A r \in Readers :
  /\ reader[r].step \in {"list", "found", "listed"} => reader[r].art = {}
  /\ reader[r].step \in {"detail", "missed", "fill", "shown"} =>
       \E a \in Article : reader[r].art = {a}

CacheTyped ==
  /\ versions \in Versions /\ keys \in KeysRow /\ snapshot \in KeysRow /\ change \in ChangeRow
  /\ warmer \in [Warmers -> WarmerRow] /\ reader \in [Readers -> ReaderRow]
  /\ told \in Versions /\ age \in [Article -> 0..DetailLife + 1]
  /\ ArtFits

LEMMA CacheInit == ASSUME Cache!CacheAssumption PROVE Cache!Init => CacheTyped
<1> SUFFICES ASSUME Cache!Init PROVE CacheTyped
  OBVIOUS
<1> USE DEF Cache!CacheAssumption
<1>1. DetailLife \in Nat
  OBVIOUS
<1>2. PICK zero \in Versions : zero = Cache!NoRows
  BY DEF Versions, Cache!NoRows
<1>3. /\ versions = zero /\ told = zero
      /\ keys = [gen |-> 0, list |-> [gen |-> 0, rows |-> zero, life |-> 0],
                 detail |-> [a \in Article |-> [version |-> 0, life |-> 0]], warming |-> 0]
      /\ snapshot = keys
  BY <1>2 DEF Cache!Init, Cache!Empty, Cache!NoList, Cache!NoDetail
<1>4. keys \in KeysRow /\ snapshot \in KeysRow
  BY <1>1, <1>3 DEF KeysRow, ListRow, DetailRow
<1>5. change \in ChangeRow
  BY <1>2 DEF Cache!Init, Cache!NoChange, ChangeRow
<1>6. warmer \in [Warmers -> WarmerRow]
  BY <1>2 DEF Cache!Init, Cache!Resting, WarmerRow
<1>7. PICK away : away = [step |-> "idle", art |-> {}, told |-> zero, due |-> zero,
                          rows |-> zero, gen |-> 0]
  OBVIOUS
<1>8. reader = [r \in Readers |-> away]
  BY <1>2, <1>7 DEF Cache!Init, Cache!Away
<1>9. away \in ReaderRow
  BY <1>7 DEF ReaderRow, ReaderSteps
<1>10. reader \in [Readers -> ReaderRow] /\ ArtFits
  BY <1>7, <1>8, <1>9 DEF ArtFits
<1>11. age \in [Article -> 0..DetailLife + 1]
  BY <1>1 DEF Cache!Init
<1>12. QED
  BY <1>2, <1>3, <1>4, <1>5, <1>6, <1>10, <1>11 DEF CacheTyped

\* What each step does to the rows and the history.
LEMMA RowSteps ==
  ASSUME Cache!CacheAssumption, CacheTyped, NEW kind \in {"delivery", "enrichment"},
         NEW as \in SUBSET Article, Cache!Changes(kind, as)
  PROVE  /\ versions' \in Versions /\ age' \in [Article -> 0..DetailLife + 1]
         /\ \A a \in Article :
              /\ versions'[a] = IF a \in as THEN versions[a] + 1 ELSE versions[a]
              /\ age'[a] = IF a \in as THEN 0 ELSE age[a]
         /\ change.step = "none"
         /\ change' = [step |-> "committed", kind |-> kind, rows |-> as, at |-> versions']
         /\ UNCHANGED <<keys, snapshot, warmer, reader, crashed, restarts, told>>
<1>1. DetailLife \in Nat
  BY DEF Cache!CacheAssumption
<1>2. versions' = [a \in Article |-> IF a \in as THEN versions[a] + 1 ELSE versions[a]]
  BY DEF Cache!Changes
<1>3. age' = [a \in Article |-> IF a \in as THEN 0 ELSE age[a]]
  BY DEF Cache!Changes
<1>4. \A a \in Article : versions[a] \in Nat /\ age[a] \in 0..DetailLife + 1
  BY DEF CacheTyped, Versions
<1>5. versions' \in Versions /\ age' \in [Article -> 0..DetailLife + 1]
  <2>1. \A a \in Article : /\ (IF a \in as THEN versions[a] + 1 ELSE versions[a]) \in Nat
                           /\ (IF a \in as THEN 0 ELSE age[a]) \in 0..DetailLife + 1
    <3>1. 0 \in 0..DetailLife + 1
      BY <1>1
    <3>2. \A n \in Nat : n + 1 \in Nat
      OBVIOUS
    <3>3. QED
      BY Zenon, <1>4, <3>1, <3>2
  <2>2. QED
    BY <1>2, <1>3, <2>1 DEF Versions
<1>6. QED
  BY <1>2, <1>3, <1>5 DEF Cache!Changes, Cache!bounds

\* A reader goes on, and what it has asked for stays what it is.
ReadOn(r, x, step) ==
  /\ reader' = [reader EXCEPT ![r] = x]
  /\ x.step = step /\ x.art = reader[r].art /\ x.told = reader[r].told /\ x.due = reader[r].due

\* From the list, and past it.
ListMoved(r, x) ==
  \/ /\ reader[r].step = "list" /\ keys.list.life > 0 /\ ReadOn(r, x, "found") /\ keys' = keys
     /\ x.rows = keys.list.rows /\ x.gen = keys.list.gen
  \/ /\ reader[r].step = "list" /\ ReadOn(r, x, "listed") /\ keys' = keys /\ x.rows = versions
  \/ /\ reader[r].step = "found" /\ ReadOn(r, x, "listed") /\ keys' = keys
     /\ x.rows = IF reader[r].gen = keys.gen THEN reader[r].rows ELSE versions

DetailMoved(r, x, a) ==
  \/ /\ reader[r].step = "detail" /\ keys.detail[a].life > 0 /\ ReadOn(r, x, "shown")
     /\ keys' = keys /\ x.rows[a] = keys.detail[a].version
  \/ reader[r].step = "detail" /\ ReadOn(r, x, "missed") /\ keys' = keys
  \/ /\ reader[r].step = "missed" /\ ReadOn(r, x, "fill")
     /\ keys' = keys /\ x.rows[a] = versions[a]
  \/ /\ reader[r].step = "fill" /\ ReadOn(r, x, "shown") /\ x.rows = reader[r].rows
     /\ keys' = [keys EXCEPT !.detail[a] = [version |-> reader[r].rows[a], life |-> DetailLife]]

ReadMoved(r, x) ==
  /\ \/ ListMoved(r, x)
     \/ \E a \in Article : reader[r].art = {a} /\ DetailMoved(r, x, a)
  /\ UNCHANGED <<versions, snapshot, change, warmer, told, age, restarts>>

LEMMA ReaderMoves ==
  ASSUME CacheTyped, NEW r \in Readers,
         \/ Cache!GetList(r) \/ Cache!ServeList(r)
         \/ Cache!GetDetail(r) \/ Cache!ReadRow(r) \/ Cache!Fill(r)
  PROVE  \E x \in ReaderRow : ReadMoved(r, x)
<1>1. /\ reader \in [Readers -> ReaderRow] /\ reader[r] \in ReaderRow
      /\ versions \in Versions /\ keys \in KeysRow
  BY DEF CacheTyped
<1>2. UNCHANGED <<versions, snapshot, change, warmer, told, age, restarts>>
  BY DEF Cache!GetList, Cache!ServeList, Cache!GetDetail, Cache!ReadRow, Cache!Fill,
         Cache!Goes, Cache!history, Cache!bounds
<1>3. PICK zero \in Versions : zero = Cache!NoRows
  BY DEF Versions, Cache!NoRows
\* A step of the reader, with what it has read.
<1>4. ASSUME NEW step \in ReaderSteps, NEW rows \in Versions, Cache!Goes(r, step, rows)
      PROVE  \E x \in ReaderRow : ReadOn(r, x, step) /\ x.rows = rows
  <2>1. PICK x : x = [reader[r] EXCEPT !.step = step, !.rows = rows]
    OBVIOUS
  <2>2. reader' = [reader EXCEPT ![r] = x]
    BY <1>1, <1>4, <2>1 DEF Cache!Goes
  <2>3. x \in ReaderRow /\ x.step = step /\ x.rows = rows
        /\ x.art = reader[r].art /\ x.told = reader[r].told /\ x.due = reader[r].due
    BY <1>1, <2>1 DEF ReaderRow
  <2>4. QED
    BY <2>2, <2>3 DEF ReadOn
<1>5. CASE Cache!GetList(r)
  <2>1. CASE /\ keys.list.life > 0
             /\ reader' = [reader EXCEPT ![r].step = "found", ![r].rows = keys.list.rows,
                                         ![r].gen = keys.list.gen]
    <3>1. PICK rows \in Versions, gen \in Nat : rows = keys.list.rows /\ gen = keys.list.gen
      BY <1>1 DEF KeysRow, ListRow
    <3>2. PICK x \in ReaderRow : ReadOn(r, x, "found") /\ x.rows = rows /\ x.gen = gen
      <4>1. PICK x : x = [reader[r] EXCEPT !.step = "found", !.rows = rows, !.gen = gen]
        OBVIOUS
      <4>2. reader' = [reader EXCEPT ![r] = x]
        BY <1>1, <2>1, <3>1, <4>1
      <4>3. x \in ReaderRow /\ x.step = "found" /\ x.rows = rows /\ x.gen = gen
            /\ x.art = reader[r].art /\ x.told = reader[r].told /\ x.due = reader[r].due
        BY <1>1, <4>1 DEF ReaderRow, ReaderSteps
      <4>4. QED
        BY <4>2, <4>3 DEF ReadOn
    <3>3. QED
      BY <1>2, <1>5, <2>1, <3>1, <3>2 DEF Cache!GetList, ReadMoved, ListMoved
  <2>2. CASE Cache!Goes(r, "listed", versions)
    <3>1. PICK x \in ReaderRow : ReadOn(r, x, "listed") /\ x.rows = versions
      BY <1>1, <1>4, <2>2 DEF ReaderSteps
    <3>2. QED
      BY <1>2, <1>5, <3>1 DEF Cache!GetList, ReadMoved, ListMoved
  <2>3. QED
    BY <1>5, <2>1, <2>2 DEF Cache!GetList
<1>6. CASE Cache!ServeList(r)
  <2>1. PICK rows \in Versions :
          rows = IF reader[r].gen = keys.gen THEN reader[r].rows ELSE versions
    BY <1>1 DEF ReaderRow
  <2>2. Cache!Goes(r, "listed", rows)
    BY <1>6, <2>1 DEF Cache!ServeList, Cache!Serves, Cache!IsCurrent
  <2>3. PICK x \in ReaderRow : ReadOn(r, x, "listed") /\ x.rows = rows
    BY <1>4, <2>2 DEF ReaderSteps
  <2>4. QED
    BY <1>2, <1>6, <2>1, <2>3 DEF Cache!ServeList, ReadMoved, ListMoved
\* A reader of an article.
<1>7. ASSUME reader[r].step \in {"detail", "missed", "fill"}
      PROVE  \E a \in Article : reader[r].art = {a} /\ Cache!TheArticle(r) = a
  <2>1. PICK a \in Article : reader[r].art = {a}
    BY <1>7 DEF CacheTyped, ArtFits
  <2>2. QED
    BY <2>1 DEF Cache!TheArticle
<1>8. \A a \in Article, v \in Nat : Cache!Only(a, v) \in Versions /\ Cache!Only(a, v)[a] = v
  BY DEF Cache!Only, Versions
<1>9. CASE Cache!GetDetail(r)
  <2>1. PICK a \in Article : reader[r].art = {a} /\ Cache!TheArticle(r) = a
    BY <1>7, <1>9 DEF Cache!GetDetail
  <2>2. keys.detail[a].version \in Nat
    BY <1>1 DEF KeysRow, DetailRow
  <2>3. CASE /\ keys.detail[a].life > 0
             /\ Cache!Goes(r, "shown", Cache!Only(a, keys.detail[a].version))
    <3>1. PICK rows \in Versions : rows = Cache!Only(a, keys.detail[a].version)
      BY <1>8, <2>2
    <3>2. rows[a] = keys.detail[a].version
      BY <1>8, <2>2, <3>1
    <3>3. PICK x \in ReaderRow : ReadOn(r, x, "shown") /\ x.rows = rows
      BY <1>4, <2>3, <3>1 DEF ReaderSteps
    <3>4. QED
      BY <1>2, <1>9, <2>1, <2>3, <3>2, <3>3 DEF Cache!GetDetail, ReadMoved, DetailMoved
  <2>4. CASE Cache!Goes(r, "missed", Cache!NoRows)
    <3>1. PICK x \in ReaderRow : ReadOn(r, x, "missed")
      BY <1>3, <1>4, <2>4 DEF ReaderSteps
    <3>2. QED
      BY <1>2, <1>9, <2>1, <3>1 DEF Cache!GetDetail, ReadMoved, DetailMoved
  <2>5. QED
    BY <1>9, <2>1, <2>3, <2>4 DEF Cache!GetDetail
<1>10. CASE Cache!ReadRow(r)
  <2>1. PICK a \in Article : reader[r].art = {a} /\ Cache!TheArticle(r) = a
    BY <1>7, <1>10 DEF Cache!ReadRow
  <2>2. PICK rows \in Versions : rows = Cache!Only(a, versions[a]) /\ rows[a] = versions[a]
    BY <1>1, <1>8 DEF Versions
  <2>3. PICK x \in ReaderRow : ReadOn(r, x, "fill") /\ x.rows = rows
    BY <1>4, <1>10, <2>1, <2>2 DEF Cache!ReadRow, ReaderSteps
  <2>4. QED
    BY <1>2, <1>10, <2>1, <2>2, <2>3 DEF Cache!ReadRow, ReadMoved, DetailMoved
<1>11. CASE Cache!Fill(r)
  <2>1. PICK a \in Article : reader[r].art = {a} /\ Cache!TheArticle(r) = a
    BY <1>7, <1>11 DEF Cache!Fill
  <2>2. PICK x \in ReaderRow : ReadOn(r, x, "shown") /\ x.rows = reader[r].rows
    BY <1>1, <1>4, <1>11 DEF Cache!Fill, ReaderSteps, ReaderRow
  <2>3. QED
    BY <1>2, <1>11, <2>1, <2>2 DEF Cache!Fill, ReadMoved, DetailMoved
<1>12. QED
  BY <1>5, <1>6, <1>9, <1>10, <1>11

\* A reader begins, and notes what it must be told.
Asking(r, x, step, as, life) ==
  /\ reader[r].step = "idle" /\ reader' = [reader EXCEPT ![r] = x]
  /\ x.step = step /\ x.art = as /\ x.told = told
  /\ \A a \in Article : x.due[a] = IF age[a] > life THEN versions[a] ELSE 0
  /\ UNCHANGED <<versions, keys, snapshot, change, warmer, told, age, restarts>>

LEMMA ReaderAsked ==
  ASSUME CacheTyped, NEW r \in Readers, NEW step \in {"list", "detail"},
         NEW as \in SUBSET Article, NEW life \in Nat, Cache!Ask(r, step, as, life)
  PROVE  \E x \in ReaderRow : Asking(r, x, step, as, life)
<1>1. PICK due \in Versions : due = Cache!Quiet(life)
  BY DEF Cache!Quiet, CacheTyped, Versions
<1>2. \A a \in Article : due[a] = IF age[a] > life THEN versions[a] ELSE 0
  BY <1>1 DEF Cache!Quiet
<1>3. PICK zero \in Versions : zero = Cache!NoRows
  BY DEF Versions, Cache!NoRows
<1>4. PICK away \in ReaderRow : away = Cache!Away
  BY <1>3 DEF Cache!Away, ReaderRow, ReaderSteps
<1>5. PICK x : x = [away EXCEPT !.step = step, !.art = as, !.told = told, !.due = due]
  OBVIOUS
<1>6. x \in ReaderRow /\ x.step = step /\ x.art = as /\ x.told = told /\ x.due = due
  BY <1>4, <1>5 DEF ReaderRow, ReaderSteps, CacheTyped
<1>7. reader' = [reader EXCEPT ![r] = x]
  BY <1>1, <1>4, <1>5 DEF Cache!Ask
<1>8. QED
  BY <1>2, <1>6, <1>7 DEF Asking, Cache!Ask, Cache!history, Cache!bounds

\* What is in Redis, a tick later.
LEMMA OlderKeys ==
  ASSUME DetailLife \in Nat \ {0}, NEW k \in KeysRow
  PROVE  /\ Cache!Older(k) \in KeysRow
         /\ Cache!Older(k).gen = k.gen /\ Cache!Older(k).list.life = 0
         /\ Cache!Older(k).list.gen = k.list.gen /\ Cache!Older(k).list.rows = k.list.rows
         /\ \A a \in Article :
              /\ Cache!Older(k).detail[a].version = k.detail[a].version
              /\ Cache!Older(k).detail[a].life =
                   IF k.detail[a].life = 0 THEN 0 ELSE k.detail[a].life - 1
<1>1. PICK det :
        det = [a \in Article |-> [k.detail[a] EXCEPT !.life = Cache!Less(k.detail[a].life)]]
  OBVIOUS
<1>2. \A a \in Article : k.detail[a] \in DetailRow
  BY DEF KeysRow
<1>3. \A a \in Article :
        /\ det[a] \in DetailRow
        /\ det[a].version = k.detail[a].version
        /\ det[a].life = IF k.detail[a].life = 0 THEN 0 ELSE k.detail[a].life - 1
  BY <1>1, <1>2 DEF DetailRow, Cache!Less
<1>4. det \in [Article -> DetailRow]
  BY <1>1, <1>3
<1>5. k.list \in ListRow
  BY DEF KeysRow
<1>6. PICK l : l = [k.list EXCEPT !.life = Cache!Less(k.list.life)]
  OBVIOUS
<1>7. l \in ListRow /\ l.life = 0 /\ l.gen = k.list.gen /\ l.rows = k.list.rows
  BY <1>5, <1>6 DEF ListRow, Cache!Less
<1>8. Cache!Older(k) = [k EXCEPT !.list = l, !.warming = 0, !.detail = det]
  BY <1>1, <1>6 DEF Cache!Older, KeysRow
<1>9. PICK m : m = [k EXCEPT !.list = l, !.warming = 0, !.detail = det]
  OBVIOUS
<1>10. m \in KeysRow /\ m.gen = k.gen /\ m.list = l /\ m.detail = det
  <2>1. m = [gen |-> k.gen, list |-> l, detail |-> det, warming |-> 0] /\ k.gen \in Nat
    BY <1>9 DEF KeysRow
  <2>2. QED
    BY <1>4, <1>7, <2>1 DEF KeysRow
<1>11. QED
  BY <1>3, <1>7, <1>8, <1>9, <1>10

LEMMA CacheStep ==
  ASSUME Cache!CacheAssumption
  PROVE  CacheTyped /\ [Cache!Next]_Cache!vars => CacheTyped'
<1> SUFFICES ASSUME CacheTyped, [Cache!Next]_Cache!vars PROVE CacheTyped'
  OBVIOUS
<1>0. DetailLife \in Nat \ {0}
  BY DEF Cache!CacheAssumption
<1>1. PICK zero \in Versions : zero = Cache!NoRows
  BY DEF Versions, Cache!NoRows
<1>3. ASSUME NEW kind \in {"delivery", "enrichment"}, NEW as \in SUBSET Article,
             Cache!Changes(kind, as)
      PROVE  CacheTyped'
  <2>1. /\ versions' \in Versions /\ age' \in [Article -> 0..DetailLife + 1]
        /\ change' = [step |-> "committed", kind |-> kind, rows |-> as, at |-> versions']
        /\ UNCHANGED <<keys, snapshot, warmer, reader, told>>
    BY <1>3, RowSteps
  <2>2. change' \in ChangeRow
    BY <2>1 DEF ChangeRow
  <2>3. QED
    BY <2>1, <2>2 DEF CacheTyped, ArtFits
<1>4. CASE Cache!Deliver
  BY <1>3, <1>4 DEF Cache!Deliver
<1>5. CASE Cache!Enrich
  BY <1>3, <1>5 DEF Cache!Enrich
<1>6. CASE Cache!Bump
  <2>1. keys' \in KeysRow /\ change' \in ChangeRow
    BY <1>6 DEF Cache!Bump, Cache!Bumped, CacheTyped, KeysRow, ChangeRow
  <2>2. QED
    BY <1>6, <2>1 DEF Cache!Bump, CacheTyped, ArtFits, Cache!history
<1>7. Cache!NoChange \in ChangeRow
  BY <1>1 DEF Cache!NoChange, ChangeRow
<1>8. Cache!Noted(change.rows, change.at) \in Versions
  BY DEF CacheTyped, ChangeRow, Versions, Cache!Noted
<1>9. Cache!NoList \in ListRow /\ Cache!NoDetail \in DetailRow
  BY <1>0, <1>1 DEF Cache!NoList, ListRow, Cache!NoDetail, DetailRow
<1>10. CASE Cache!DropList
  <2>1. keys' \in KeysRow
    BY <1>9, <1>10 DEF Cache!DropList, CacheTyped, KeysRow
  <2>2. QED
    BY <1>7, <1>8, <1>10, <2>1 DEF Cache!DropList, CacheTyped, ArtFits
<1>11. CASE Cache!DropDetail
  <2>1. PICK det \in [Article -> DetailRow] : det =
          [a \in Article |-> IF a \in change.rows THEN Cache!NoDetail ELSE keys.detail[a]]
    BY <1>9 DEF CacheTyped, KeysRow
  <2>2. keys' = [keys EXCEPT !.detail = det]
    BY <1>11, <2>1 DEF Cache!DropDetail
  <2>3. keys' \in KeysRow
    BY <2>1, <2>2 DEF CacheTyped, KeysRow
  <2>4. QED
    BY <1>7, <1>8, <1>11, <2>3 DEF Cache!DropDetail, CacheTyped, ArtFits
<1>12. CASE Cache!Crash
  BY <1>7, <1>12 DEF Cache!Crash, CacheTyped, ArtFits, Cache!history
<1>13. ASSUME NEW w \in Warmers,
              \/ Cache!TakeLock(w) \/ Cache!ReadGen(w) \/ Cache!ReadRows(w)
              \/ Cache!Check(w) \/ Cache!Store(w) \/ Cache!Release(w)
       PROVE  CacheTyped'
  <2>1. UNCHANGED <<versions, snapshot, change, reader, told, age>>
    BY <1>13 DEF Cache!TakeLock, Cache!ReadGen, Cache!ReadRows, Cache!Check, Cache!Store,
                 Cache!Release, Cache!Warm, Cache!history
  <2>2. Cache!Resting \in WarmerRow
    BY <1>1 DEF Cache!Resting, WarmerRow
  <2>3. warmer' \in [Warmers -> WarmerRow]
    <3>1. PICK x : warmer' = [warmer EXCEPT ![w] = x] /\ x \in WarmerRow
      BY <1>13, <2>2 DEF Cache!TakeLock, Cache!ReadGen, Cache!ReadRows, Cache!Check, Cache!Store,
                 Cache!Release, Cache!Warm, CacheTyped, WarmerRow, KeysRow
    <3>2. QED
      BY <3>1 DEF CacheTyped
  <2>4. Cache!Stored(w) \in ListRow
    BY DEF Cache!Stored, ListRow, CacheTyped, WarmerRow
  <2>5. keys' \in KeysRow
    BY <1>13, <2>4 DEF Cache!TakeLock, Cache!ReadGen, Cache!ReadRows, Cache!Check, Cache!Store,
                 Cache!Release, CacheTyped, KeysRow
  <2>6. QED
    BY <2>1, <2>3, <2>5 DEF CacheTyped, ArtFits
<1>14. CASE Cache!Save
  BY <1>14 DEF Cache!Save, CacheTyped, ArtFits, Cache!history
<1>15. CASE Cache!Restart
  BY <1>15 DEF Cache!Restart, CacheTyped, ArtFits, Cache!history
\* The steps of a reader before which nothing is in Redis.
<1>16. ASSUME NEW r \in Readers, NEW x \in ReaderRow, reader' = [reader EXCEPT ![r] = x],
              /\ x.step \in {"list", "found", "listed"} => x.art = {}
              /\ x.step \in {"detail", "missed", "fill", "shown"} => \E a \in Article : x.art = {a},
              keys' \in KeysRow,
              UNCHANGED <<versions, snapshot, change, warmer, told, age>>
       PROVE  CacheTyped'
  <2>1. reader' \in [Readers -> ReaderRow]
    BY <1>16 DEF CacheTyped
  <2>2. ArtFits'
    <3>1. SUFFICES ASSUME NEW q \in Readers
                   PROVE  /\ reader'[q].step \in {"list", "found", "listed"} => reader'[q].art = {}
                          /\ reader'[q].step \in {"detail", "missed", "fill", "shown"} =>
                               \E a \in Article : reader'[q].art = {a}
      BY DEF ArtFits
    <3>2. reader'[q] = IF q = r THEN x ELSE reader[q]
      BY <1>16 DEF CacheTyped
    <3>3. QED
      BY <1>16, <3>2 DEF CacheTyped, ArtFits
  <2>3. QED
    BY <1>16, <2>1, <2>2 DEF CacheTyped
<1>17. ASSUME NEW r \in Readers, NEW step \in {"list", "detail"}, NEW as \in SUBSET Article,
              NEW life \in Nat, Cache!Ask(r, step, as, life),
              step = "list" => as = {}, step = "detail" => \E a \in Article : as = {a}
       PROVE  CacheTyped'
  <2>1. PICK x \in ReaderRow : Asking(r, x, step, as, life)
    BY <1>17, ReaderAsked
  <2>2. QED
    BY <1>16, <1>17, <2>1 DEF Asking, CacheTyped
<1>18. ASSUME NEW r \in Readers,
              \/ Cache!GetList(r) \/ Cache!ServeList(r)
              \/ Cache!GetDetail(r) \/ Cache!ReadRow(r) \/ Cache!Fill(r)
       PROVE  CacheTyped'
  <2>1. PICK x \in ReaderRow : ReadMoved(r, x)
    BY <1>18, ReaderMoves
  <2>2. /\ x.art = reader[r].art
        /\ x.step \in {"list", "found", "listed"} => reader[r].step \in {"list", "found"}
        /\ x.step \in {"detail", "missed", "fill", "shown"} =>
             reader[r].step \in {"detail", "missed", "fill"}
    BY <2>1 DEF ReadMoved, ReadOn, ListMoved, DetailMoved
  <2>3. /\ x.step \in {"list", "found", "listed"} => x.art = {}
        /\ x.step \in {"detail", "missed", "fill", "shown"} => \E a \in Article : x.art = {a}
    BY <2>2 DEF CacheTyped, ArtFits
  <2>4. keys' \in KeysRow
    <3>1. CASE keys' = keys
      BY <3>1 DEF CacheTyped
    <3>2. CASE keys' # keys
      <4>1. PICK a \in Article, d \in DetailRow : keys' = [keys EXCEPT !.detail[a] = d]
        <5>1. PICK a \in Article :
                keys' = [keys EXCEPT !.detail[a] = [version |-> reader[r].rows[a],
                                                    life |-> DetailLife]]
          BY <2>1, <3>2 DEF ReadMoved, ListMoved, DetailMoved
        <5>2. reader[r].rows[a] \in Nat
          BY DEF CacheTyped, ReaderRow, Versions
        <5>3. [version |-> reader[r].rows[a], life |-> DetailLife] \in DetailRow
          BY <1>0, <5>2 DEF DetailRow
        <5>4. QED
          BY <5>1, <5>3
      <4>2. PICK det \in [Article -> DetailRow] : det = [keys.detail EXCEPT ![a] = d]
        BY <4>1 DEF CacheTyped, KeysRow
      <4>3. keys' = [keys EXCEPT !.detail = det]
        BY <4>1, <4>2 DEF CacheTyped, KeysRow
      <4>4. QED
        BY <4>2, <4>3 DEF CacheTyped, KeysRow
    <3>3. QED
      BY <3>1, <3>2
  <2>5. QED
    BY <1>16, <2>1, <2>3, <2>4 DEF ReadMoved, ListMoved, DetailMoved, ReadOn
<1>19. ASSUME NEW r \in Readers, Cache!Leave(r)
       PROVE  CacheTyped'
  <2>1. PICK x : x = [step |-> "idle", art |-> {}, told |-> zero, due |-> zero, rows |-> zero,
                      gen |-> 0]
    OBVIOUS
  <2>2. x = Cache!Away /\ x \in ReaderRow
    BY <1>1, <2>1 DEF Cache!Away, ReaderRow, ReaderSteps
  <2>3. QED
    BY <1>16, <1>19, <2>1, <2>2 DEF Cache!Leave, Cache!history, CacheTyped
<1>20. CASE Cache!Tick
  <2>1. keys' \in KeysRow /\ snapshot' \in KeysRow
    <3>1. keys' = Cache!Older(keys) /\ snapshot' = Cache!Older(snapshot)
      BY <1>20 DEF Cache!Tick
    <3>2. keys \in KeysRow /\ snapshot \in KeysRow
      BY DEF CacheTyped
    <3>3. QED
      BY <1>0, <3>1, <3>2, OlderKeys
  <2>2. age' \in [Article -> 0..DetailLife + 1]
    <3>1. \A a \in Article :
            (IF age[a] > DetailLife THEN age[a] ELSE age[a] + 1) \in 0..DetailLife + 1
      BY <1>0 DEF CacheTyped
    <3>2. QED
      BY <1>20, <3>1 DEF Cache!Tick
  <2>3. QED
    BY <1>20, <2>1, <2>2 DEF Cache!Tick, CacheTyped, ArtFits
<1>21. CASE UNCHANGED Cache!vars
  BY <1>21 DEF Cache!vars, CacheTyped, ArtFits
<1>22. \A a \in Article : {a} \in SUBSET Article
  OBVIOUS
<1>23. CASE \E r \in Readers : Cache!Ask(r, "list", {}, 1)
  BY <1>17, <1>23
<1>24. CASE \E r \in Readers, a \in Article : Cache!Ask(r, "detail", {a}, DetailLife)
  BY <1>0, <1>17, <1>22, <1>24
<1>25. QED
  BY <1>4, <1>5, <1>6, <1>10, <1>11, <1>12, <1>13, <1>14, <1>15, <1>18, <1>19, <1>20, <1>21,
     <1>23, <1>24 DEF Cache!Next

\* A warmer goes on.
WarmMoved(w, x) ==
  /\ warmer' = [warmer EXCEPT ![w] = x]
  /\ \/ /\ x.step \in {"locked", "idle"}
        /\ keys'.gen = keys.gen /\ keys'.list = keys.list /\ keys'.detail = keys.detail
     \/ x.step = "gen" /\ x.gen = keys.gen /\ keys' = keys
     \/ /\ warmer[w].step = "gen" /\ x.step = "rows" /\ x.gen = warmer[w].gen
        /\ x.rows = versions /\ keys' = keys
     \/ /\ warmer[w].step = "rows" /\ x.step \in {"current", "stored"} /\ keys' = keys
        /\ x.gen = warmer[w].gen /\ x.rows = warmer[w].rows
     \/ /\ warmer[w].step = "current" /\ x.step = "stored"
        /\ keys'.gen = keys.gen /\ keys'.detail = keys.detail
        /\ keys'.list = [gen |-> warmer[w].gen, rows |-> warmer[w].rows, life |-> 1]
  /\ UNCHANGED <<versions, snapshot, change, reader, told, age, restarts>>

LEMMA WarmerMoves ==
  ASSUME CacheTyped, NEW w \in Warmers,
         \/ Cache!TakeLock(w) \/ Cache!ReadGen(w) \/ Cache!ReadRows(w)
         \/ Cache!Check(w) \/ Cache!Store(w) \/ Cache!Release(w)
  PROVE  \E x \in WarmerRow : WarmMoved(w, x)
<1>1. /\ warmer \in [Warmers -> WarmerRow] /\ warmer[w] \in WarmerRow
      /\ versions \in Versions /\ keys \in KeysRow
  BY DEF CacheTyped
<1>2. UNCHANGED <<versions, snapshot, change, reader, told, age, restarts>>
  BY DEF Cache!TakeLock, Cache!ReadGen, Cache!ReadRows, Cache!Check, Cache!Store,
         Cache!Release, Cache!Warm, Cache!history, Cache!bounds
<1>3. ASSUME NEW from, NEW to \in {"locked", "current", "stored"}, Cache!Warm(w, from, to)
      PROVE  \E x \in WarmerRow :
               /\ warmer' = [warmer EXCEPT ![w] = x] /\ warmer[w].step = from
               /\ x.step = to /\ x.gen = warmer[w].gen /\ x.rows = warmer[w].rows
  <2>1. PICK x : x = [warmer[w] EXCEPT !.step = to]
    OBVIOUS
  <2>2. x \in WarmerRow /\ x.step = to /\ x.gen = warmer[w].gen /\ x.rows = warmer[w].rows
    BY <1>1, <2>1 DEF WarmerRow
  <2>3. QED
    BY <1>1, <1>3, <2>1, <2>2 DEF Cache!Warm
<1>4. CASE Cache!TakeLock(w)
  <2>1. PICK x \in WarmerRow : warmer' = [warmer EXCEPT ![w] = x] /\ x.step = "locked"
    BY <1>3, <1>4 DEF Cache!TakeLock
  <2>2. keys'.gen = keys.gen /\ keys'.list = keys.list /\ keys'.detail = keys.detail
    BY <1>1, <1>4 DEF Cache!TakeLock, KeysRow
  <2>3. QED
    BY <1>2, <2>1, <2>2 DEF WarmMoved
<1>5. CASE Cache!ReadGen(w)
  <2>1. PICK x : x = [warmer[w] EXCEPT !.step = "gen", !.gen = keys.gen]
    OBVIOUS
  <2>2. x \in WarmerRow /\ x.step = "gen" /\ x.gen = keys.gen
    BY <1>1, <2>1 DEF WarmerRow, KeysRow
  <2>3. warmer' = [warmer EXCEPT ![w] = x]
    BY <1>1, <1>5, <2>1 DEF Cache!ReadGen
  <2>4. QED
    BY <1>2, <1>5, <2>2, <2>3 DEF WarmMoved, Cache!ReadGen
<1>6. CASE Cache!ReadRows(w)
  <2>1. PICK x : x = [warmer[w] EXCEPT !.step = "rows", !.rows = versions]
    OBVIOUS
  <2>2. x \in WarmerRow /\ x.step = "rows" /\ x.gen = warmer[w].gen /\ x.rows = versions
    BY <1>1, <2>1 DEF WarmerRow
  <2>3. warmer' = [warmer EXCEPT ![w] = x]
    BY <1>1, <1>6, <2>1 DEF Cache!ReadRows
  <2>4. QED
    BY <1>2, <1>6, <2>2, <2>3 DEF WarmMoved, Cache!ReadRows
<1>7. CASE Cache!Check(w)
  <2>1. PICK x \in WarmerRow :
          /\ warmer' = [warmer EXCEPT ![w] = x] /\ warmer[w].step = "rows"
          /\ x.step \in {"current", "stored"} /\ x.gen = warmer[w].gen /\ x.rows = warmer[w].rows
    BY <1>3, <1>7 DEF Cache!Check
  <2>2. QED
    BY <1>2, <1>7, <2>1 DEF WarmMoved, Cache!Check
<1>8. CASE Cache!Store(w)
  <2>1. PICK x \in WarmerRow : warmer' = [warmer EXCEPT ![w] = x] /\ warmer[w].step = "current"
                              /\ x.step = "stored"
    BY <1>3, <1>8 DEF Cache!Store
  <2>2. /\ keys'.gen = keys.gen /\ keys'.detail = keys.detail
        /\ keys'.list = [gen |-> warmer[w].gen, rows |-> warmer[w].rows, life |-> 1]
    BY <1>1, <1>8 DEF Cache!Store, Cache!Stored, KeysRow
  <2>3. QED
    BY <1>2, <2>1, <2>2 DEF WarmMoved
<1>9. CASE Cache!Release(w)
  <2>1. PICK x \in WarmerRow : x = Cache!Resting /\ x.step = "idle"
    <3>1. PICK zero \in Versions : zero = Cache!NoRows
      BY DEF Versions, Cache!NoRows
    <3>2. PICK x : x = [step |-> "idle", gen |-> 0, rows |-> zero]
      OBVIOUS
    <3>3. x \in WarmerRow /\ x = Cache!Resting
      BY <3>1, <3>2 DEF Cache!Resting, WarmerRow
    <3>4. QED
      BY <3>2, <3>3
  <2>2. keys'.gen = keys.gen /\ keys'.list = keys.list /\ keys'.detail = keys.detail
    BY <1>1, <1>9 DEF Cache!Release, KeysRow
  <2>3. QED
    BY <1>2, <1>9, <2>1, <2>2 DEF WarmMoved, Cache!Release
<1>10. QED
  BY <1>4, <1>5, <1>6, <1>7, <1>8, <1>9

\* What rows of the list must have of what has not changed for a tick, and for whoever asks.
ListServes(rows) == \A a \in Article :
  /\ age[a] > 0 => rows[a] >= versions[a]
  /\ \A r \in Readers : reader[r].step = "list" => rows[a] >= reader[r].due[a]

\* What a version of an article must be that was read so many ticks ago.
DetailServes(a, version, ago) ==
  /\ age[a] > ago => version >= versions[a]
  /\ \A r \in Readers :
       reader[r].step = "detail" /\ reader[r].art = {a} => version >= reader[r].due[a]

\* So it is of what Redis has, and of what is on its way there.
KeysServe(k) ==
  /\ k.list.life > 0 => ListServes(k.list.rows)
  /\ \A a \in Article : k.detail[a].life > 0 =>
       DetailServes(a, k.detail[a].version, DetailLife - k.detail[a].life)

WarmersServe == \A w \in Warmers :
  warmer[w].step \in {"rows", "current"} => ListServes(warmer[w].rows)

FillersServe == \A r \in Readers, a \in Article :
  reader[r].step = "fill" /\ reader[r].art = {a} =>
    /\ DetailServes(a, reader[r].rows[a], 0)
    /\ reader[r].rows[a] >= reader[r].due[a]

\* What is due is of the rows, and what was found has it.
ReadersServed == \A r \in Readers, a \in Article :
  /\ reader[r].step # "idle" => reader[r].due[a] <= versions[a]
  /\ reader[r].step \in {"found", "listed"} => reader[r].rows[a] >= reader[r].due[a]
  /\ reader[r].step = "shown" /\ reader[r].art = {a} => reader[r].rows[a] >= reader[r].due[a]

StaleInv ==
  /\ CacheTyped /\ KeysServe(keys) /\ KeysServe(snapshot)
  /\ WarmersServe /\ FillersServe /\ ReadersServed

LEMMA StaleStep ==
  ASSUME Cache!CacheAssumption
  PROVE  StaleInv /\ [Cache!Next]_Cache!vars => StaleInv'
<1> SUFFICES ASSUME StaleInv, [Cache!Next]_Cache!vars PROVE StaleInv'
  OBVIOUS
<1>0. DetailLife \in Nat \ {0}
  BY DEF Cache!CacheAssumption
<1>1. CacheTyped'
  BY CacheStep DEF StaleInv
<1>2. \A a \in Article : /\ versions[a] \in Nat /\ age[a] \in Nat
                         /\ versions'[a] \in Nat /\ age'[a] \in Nat
  BY <1>0, <1>1 DEF StaleInv, CacheTyped, Versions
<1>3. \A r \in Readers : reader[r] \in ReaderRow /\ \A a \in Article : reader[r].due[a] \in Nat
  BY DEF StaleInv, CacheTyped, ReaderRow, Versions
\* A row changes: then it has not been quiet for a tick.
<1>4. ASSUME NEW kind \in {"delivery", "enrichment"}, NEW as \in SUBSET Article,
             Cache!Changes(kind, as)
      PROVE  StaleInv'
  <2>0. /\ \A a \in Article :
             /\ versions'[a] = IF a \in as THEN versions[a] + 1 ELSE versions[a]
             /\ age'[a] = IF a \in as THEN 0 ELSE age[a]
        /\ UNCHANGED <<keys, snapshot, warmer, reader>>
    BY <1>4, RowSteps DEF StaleInv
  <2>1. /\ \A a \in Article :
             /\ age'[a] > 0 => age'[a] = age[a] /\ versions'[a] = versions[a]
             /\ versions[a] <= versions'[a]
        /\ UNCHANGED <<keys, snapshot, warmer, reader>>
    <3>1. ASSUME NEW a \in Article
          PROVE  /\ age'[a] > 0 => age'[a] = age[a] /\ versions'[a] = versions[a]
                 /\ versions[a] <= versions'[a]
      <4>0. versions[a] \in Nat /\ versions'[a] \in Nat /\ age[a] \in Nat
        BY <1>2
      <4>1. CASE a \in as
        <5>1. versions'[a] = versions[a] + 1 /\ age'[a] = 0
          BY Zenon, <2>0, <4>1
        <5>2. QED
          BY <4>0, <5>1
      <4>2. CASE a \notin as
        <5>1. versions'[a] = versions[a] /\ age'[a] = age[a]
          BY Zenon, <2>0, <4>2
        <5>2. QED
          BY <4>0, <5>1
      <4>3. QED
        BY <4>1, <4>2
    <3>2. QED
      BY <2>0, <3>1
  <2>2. ASSUME NEW k \in KeysRow, KeysServe(k) PROVE KeysServe(k)'
    <3>1. ASSUME k.list.life > 0 PROVE ListServes(k.list.rows)'
      BY <2>1, <2>2, <3>1 DEF KeysServe, ListServes
    <3>2. ASSUME NEW a \in Article, k.detail[a].life > 0
          PROVE  DetailServes(a, k.detail[a].version, DetailLife - k.detail[a].life)'
      <4>1. k.detail[a].life \in 0..DetailLife
        BY DEF KeysRow, DetailRow
      <4>2. QED
        BY <1>0, <1>2, <2>1, <2>2, <3>2, <4>1 DEF KeysServe, DetailServes
    <3>3. QED
      BY <3>1, <3>2 DEF KeysServe
  <2>3. KeysServe(keys)' /\ KeysServe(snapshot)'
    <3>1. PICK k, l : k = keys /\ l = snapshot
      OBVIOUS
    <3>2. k \in KeysRow /\ l \in KeysRow /\ keys' = k /\ snapshot' = l
      BY <2>1, <3>1 DEF StaleInv, CacheTyped
    <3>3. KeysServe(k)' /\ KeysServe(l)'
      BY <2>2, <3>1, <3>2 DEF StaleInv
    <3>4. QED
      BY <3>2, <3>3 DEF KeysServe, ListServes, DetailServes
  <2>4. WarmersServe'
    BY <1>2, <2>1 DEF WarmersServe, ListServes, StaleInv
  <2>5. FillersServe'
    BY <1>2, <2>1 DEF FillersServe, DetailServes, StaleInv
  <2>6. ReadersServed'
    BY <1>2, <1>3, <2>1 DEF ReadersServed, StaleInv
  <2>7. QED
    BY <1>1, <2>3, <2>4, <2>5, <2>6 DEF StaleInv
\* What is dropped is not served.
<1>5. ASSUME keys'.list.life > 0 => keys'.list = keys.list,
             \A a \in Article : keys'.detail[a].life > 0 => keys'.detail[a] = keys.detail[a],
             UNCHANGED <<versions, snapshot, warmer, reader, age>>
      PROVE  StaleInv'
  <2>1. KeysServe(keys)'
    BY <1>5 DEF StaleInv, KeysServe, ListServes, DetailServes
  <2>2. KeysServe(snapshot)'
    BY <1>5 DEF StaleInv, KeysServe, ListServes, DetailServes
  <2>3. WarmersServe' /\ FillersServe' /\ ReadersServed'
    BY <1>5 DEF StaleInv, WarmersServe, FillersServe, ReadersServed, ListServes, DetailServes
  <2>4. QED
    BY <1>1, <2>1, <2>2, <2>3 DEF StaleInv
<1>6. CASE Cache!Deliver
  BY <1>4, <1>6 DEF Cache!Deliver
<1>7. CASE Cache!Enrich
  BY <1>4, <1>7 DEF Cache!Enrich
<1>8. keys \in KeysRow
  BY DEF StaleInv, CacheTyped
<1>9. CASE Cache!Bump
  BY <1>5, <1>8, <1>9 DEF Cache!Bump, Cache!history, KeysRow
<1>10. CASE Cache!DropList
  BY <1>5, <1>8, <1>10 DEF Cache!DropList, KeysRow, Cache!NoList
<1>11. CASE Cache!DropDetail
  BY <1>5, <1>8, <1>11 DEF Cache!DropDetail, KeysRow, Cache!NoDetail
<1>12. CASE Cache!Crash
  BY <1>5, <1>12 DEF Cache!Crash, Cache!history
\* What warmers store they have read since the last tick.
<1>13. ASSUME NEW w \in Warmers,
              \/ Cache!TakeLock(w) \/ Cache!ReadGen(w) \/ Cache!ReadRows(w)
              \/ Cache!Check(w) \/ Cache!Store(w) \/ Cache!Release(w)
       PROVE  StaleInv'
  <2>1. PICK x \in WarmerRow : WarmMoved(w, x)
    BY <1>13, WarmerMoves DEF StaleInv
  <2>2. UNCHANGED <<versions, snapshot, reader, age>> /\ warmer' = [warmer EXCEPT ![w] = x]
        /\ warmer \in [Warmers -> WarmerRow]
    BY <2>1 DEF WarmMoved, StaleInv, CacheTyped
  <2>3. x.step \in {"rows", "current"} => ListServes(x.rows)
    <3>1. CASE x.rows = versions
      BY <1>2, <3>1 DEF ListServes, StaleInv, ReadersServed
    <3>2. CASE x.rows = warmer[w].rows /\ warmer[w].step = "rows"
      BY <3>2 DEF StaleInv, WarmersServe
    <3>3. QED
      BY <2>1, <3>1, <3>2 DEF WarmMoved
  <2>4. WarmersServe'
    BY <2>2, <2>3 DEF StaleInv, WarmersServe, ListServes
  <2>5. /\ keys'.detail = keys.detail
        /\ \/ keys'.list = keys.list
           \/ keys'.list.rows = warmer[w].rows /\ warmer[w].step = "current"
    BY <2>1 DEF WarmMoved
  <2>6. KeysServe(keys)'
    <3>1. keys'.list.life > 0 => ListServes(keys'.list.rows)
      BY <2>5 DEF StaleInv, KeysServe, WarmersServe
    <3>2. QED
      BY <2>2, <2>5, <3>1 DEF StaleInv, KeysServe, ListServes, DetailServes
  <2>7. KeysServe(snapshot)' /\ FillersServe' /\ ReadersServed'
    BY <2>2 DEF StaleInv, KeysServe, FillersServe, ReadersServed, ListServes, DetailServes
  <2>8. QED
    BY <1>1, <2>4, <2>6, <2>7 DEF StaleInv
<1>14. CASE Cache!Save
  BY <1>1, <1>14 DEF Cache!Save, Cache!history, StaleInv, KeysServe, WarmersServe, FillersServe,
                     ReadersServed, ListServes, DetailServes
<1>15. CASE Cache!Restart
  BY <1>1, <1>15 DEF Cache!Restart, Cache!history, StaleInv, KeysServe, WarmersServe, FillersServe,
                     ReadersServed, ListServes, DetailServes
\* Who asks is due what was quiet for as long as anything in Redis lives.
<1>16. ASSUME NEW r \in Readers, NEW x \in ReaderRow, NEW step \in {"list", "detail"},
              NEW as \in SUBSET Article, NEW life \in Nat,
              Asking(r, x, step, as, life), life >= IF step = "list" THEN 1 ELSE DetailLife
       PROVE  StaleInv'
  <2>1. UNCHANGED <<versions, keys, snapshot, warmer, age>> /\ reader' = [reader EXCEPT ![r] = x]
        /\ reader \in [Readers -> ReaderRow] /\ snapshot \in KeysRow
        /\ x.step = step /\ x.art = as
    BY <1>16 DEF Asking, StaleInv, CacheTyped
  <2>2. \A a \in Article : x.due[a] = IF age[a] > life THEN versions[a] ELSE 0
    BY <1>16 DEF Asking
  <2>3. ASSUME NEW rows \in Versions, ListServes(rows) PROVE ListServes(rows)'
    <3>1. \A a \in Article : rows[a] \in Nat
      BY <2>3 DEF Versions
    <3>2. QED
      BY <1>0, <1>2, <1>16, <2>1, <2>2, <2>3, <3>1 DEF ListServes
  <2>4. ASSUME NEW a \in Article, NEW v \in Nat, NEW n \in 0..DetailLife, DetailServes(a, v, n)
        PROVE  DetailServes(a, v, n)'
    BY <1>0, <1>2, <1>16, <2>1, <2>2, <2>4 DEF DetailServes
  <2>5. ASSUME NEW k \in KeysRow, KeysServe(k) PROVE KeysServe(k)'
    <3>1. ASSUME k.list.life > 0 PROVE ListServes(k.list.rows)'
      <4>1. PICK rows \in Versions : rows = k.list.rows /\ ListServes(rows)
        BY <2>5, <3>1 DEF KeysServe, KeysRow, ListRow
      <4>2. QED
        BY <2>3, <4>1 DEF ListServes
    <3>2. ASSUME NEW a \in Article, k.detail[a].life > 0
          PROVE  DetailServes(a, k.detail[a].version, DetailLife - k.detail[a].life)'
      <4>1. k.detail[a].life \in 0..DetailLife /\ k.detail[a].version \in Nat
        BY DEF KeysRow, DetailRow
      <4>2. PICK v \in Nat, n \in 0..DetailLife :
              v = k.detail[a].version /\ n = DetailLife - k.detail[a].life /\ DetailServes(a, v, n)
        BY <1>0, <2>5, <3>2, <4>1 DEF KeysServe
      <4>3. QED
        BY <2>4, <4>2 DEF DetailServes
    <3>3. QED
      BY <3>1, <3>2 DEF KeysServe
  <2>6. KeysServe(keys)' /\ KeysServe(snapshot)'
    <3>1. PICK k \in KeysRow, l \in KeysRow : k = keys /\ l = snapshot
      BY <1>8, <2>1
    <3>2. keys' = k /\ snapshot' = l /\ KeysServe(k)' /\ KeysServe(l)'
      BY <2>1, <2>5, <3>1 DEF StaleInv
    <3>3. QED
      BY <3>2 DEF KeysServe, ListServes, DetailServes
  <2>7. WarmersServe'
    <3>1. ASSUME NEW w \in Warmers, warmer[w].step \in {"rows", "current"}
          PROVE  ListServes(warmer[w].rows)'
      <4>1. PICK rows \in Versions : rows = warmer[w].rows /\ ListServes(rows)
        BY <3>1 DEF StaleInv, CacheTyped, WarmersServe, WarmerRow
      <4>2. QED
        BY <2>1, <2>3, <4>1 DEF ListServes
    <3>2. QED
      BY <2>1, <3>1 DEF WarmersServe
  <2>8. FillersServe'
    <3>1. ASSUME NEW q \in Readers, NEW a \in Article,
                 reader'[q].step = "fill", reader'[q].art = {a}
          PROVE  DetailServes(a, reader[q].rows[a], 0)' /\ reader'[q].rows[a] >= reader'[q].due[a]
      <4>1. q # r /\ reader'[q] = reader[q]
        BY <2>1, <3>1
      <4>2. PICK v \in Nat : v = reader[q].rows[a] /\ DetailServes(a, v, 0)
        BY <1>3, <3>1, <4>1 DEF StaleInv, FillersServe, ReaderRow, Versions
      <4>3. DetailServes(a, v, 0)'
        BY <1>0, <2>4, <4>2
      <4>4. QED
        BY <3>1, <4>1, <4>2, <4>3 DEF DetailServes, StaleInv, FillersServe
    <3>2. QED
      BY <3>1 DEF FillersServe
  <2>9. ReadersServed'
    BY <1>2, <1>3, <2>1, <2>2 DEF StaleInv, ReadersServed
  <2>10. QED
    BY <1>1, <2>6, <2>7, <2>8, <2>9 DEF StaleInv
<1>17. CASE \E r \in Readers : Cache!Ask(r, "list", {}, 1)
  <2>1. PICK r \in Readers : Cache!Ask(r, "list", {}, 1)
    BY <1>17
  <2>2. PICK x \in ReaderRow : Asking(r, x, "list", {}, 1)
    BY <2>1, ReaderAsked DEF StaleInv
  <2>3. QED
    BY <1>16, <2>2
<1>18. CASE \E r \in Readers, a \in Article : Cache!Ask(r, "detail", {a}, DetailLife)
  <2>1. PICK r \in Readers, a \in Article : Cache!Ask(r, "detail", {a}, DetailLife)
    BY <1>18
  <2>2. PICK as \in SUBSET Article : as = {a}
    OBVIOUS
  <2>3. PICK x \in ReaderRow : Asking(r, x, "detail", as, DetailLife)
    BY <1>0, <2>1, <2>2, ReaderAsked DEF StaleInv
  <2>4. DetailLife \in Nat /\ DetailLife >= DetailLife
    BY <1>0
  <2>5. QED
    BY <1>16, <2>3, <2>4
\* A reader goes on.
<1>19. ASSUME NEW r \in Readers,
              \/ Cache!GetList(r) \/ Cache!ServeList(r)
              \/ Cache!GetDetail(r) \/ Cache!ReadRow(r) \/ Cache!Fill(r)
       PROVE  StaleInv'
  <2>1. PICK x \in ReaderRow : ReadMoved(r, x)
    BY <1>19, ReaderMoves DEF StaleInv
  <2>2. /\ UNCHANGED <<versions, snapshot, warmer, age>>
        /\ reader' = [reader EXCEPT ![r] = x] /\ reader \in [Readers -> ReaderRow]
        /\ x.art = reader[r].art /\ x.due = reader[r].due
        /\ reader[r].step # "idle" /\ x.step \notin {"idle", "list", "detail"}
    BY <2>1 DEF ReadMoved, ListMoved, DetailMoved, ReadOn, StaleInv, CacheTyped
  <2>3. KeysServe(snapshot)' /\ WarmersServe'
    BY <2>2 DEF StaleInv, KeysServe, WarmersServe, ListServes, DetailServes
  <2>4. ASSUME NEW a \in Article, reader[r].art = {a}, x.step = "fill"
        PROVE  DetailServes(a, x.rows[a], 0) /\ x.rows[a] >= x.due[a]
    <3>1. x.rows[a] = versions[a]
      BY <2>1, <2>4 DEF ReadMoved, ListMoved, DetailMoved, ReadOn
    <3>2. QED
      BY <1>2, <2>2, <3>1 DEF DetailServes, StaleInv, ReadersServed
  <2>5. FillersServe'
    BY <2>2, <2>4 DEF StaleInv, FillersServe, DetailServes
  <2>6. ASSUME NEW a \in Article
        PROVE  /\ x.step \in {"found", "listed"} => x.rows[a] >= x.due[a]
               /\ x.step = "shown" /\ x.art = {a} => x.rows[a] >= x.due[a]
    <3>1. CASE ListMoved(r, x)
      <4>1. /\ x.step \in {"found", "listed"}
            /\ \/ reader[r].step = "list" /\ keys.list.life > 0 /\ x.rows = keys.list.rows
               \/ reader[r].step = "found" /\ x.rows = reader[r].rows
               \/ x.rows = versions
        BY <3>1 DEF ListMoved, ReadOn
      <4>2. x.rows[a] >= reader[r].due[a]
        BY <1>2, <2>2, <4>1 DEF StaleInv, KeysServe, ListServes, ReadersServed
      <4>3. QED
        BY <2>2, <4>1, <4>2
    <3>2. CASE \E b \in Article : reader[r].art = {b} /\ DetailMoved(r, x, b)
      <4>1. PICK b \in Article : reader[r].art = {b} /\ DetailMoved(r, x, b)
        BY <3>2
      <4>2. x.step \notin {"found", "listed"}
        BY <4>1 DEF DetailMoved, ReadOn
      <4>3. ASSUME x.step = "shown", x.art = {a} PROVE x.rows[a] >= reader[r].due[a]
        <5>1. a = b
          BY <2>2, <4>1, <4>3
        <5>2. \/ /\ reader[r].step = "detail" /\ keys.detail[a].life > 0
                 /\ x.rows[a] = keys.detail[a].version
              \/ reader[r].step = "fill" /\ x.rows = reader[r].rows
          BY <4>1, <4>3, <5>1 DEF DetailMoved, ReadOn
        <5>3. QED
          BY <4>1, <5>1, <5>2 DEF StaleInv, KeysServe, DetailServes, FillersServe
      <4>4. QED
        BY <2>2, <4>2, <4>3
    <3>3. QED
      BY <2>1, <3>1, <3>2 DEF ReadMoved
  <2>7. ReadersServed'
    BY <2>2, <2>6 DEF StaleInv, ReadersServed
  <2>8. KeysServe(keys)'
    <3>1. CASE keys' = keys
      BY <2>2, <3>1 DEF StaleInv, KeysServe, ListServes, DetailServes
    <3>2. CASE keys' # keys
      <4>1. PICK a \in Article :
              /\ reader[r].art = {a} /\ reader[r].step = "fill"
              /\ keys' = [keys EXCEPT !.detail[a] = [version |-> reader[r].rows[a],
                                                    life |-> DetailLife]]
        BY <2>1, <3>2 DEF ReadMoved, ListMoved, DetailMoved
      <4>2. /\ keys'.list = keys.list
            /\ \A b \in Article : keys'.detail[b] =
                 IF b = a THEN [version |-> reader[r].rows[a], life |-> DetailLife]
                 ELSE keys.detail[b]
        BY <1>8, <4>1 DEF KeysRow
      <4>3. DetailLife - DetailLife = 0
        BY <1>0
      <4>4. DetailServes(a, reader[r].rows[a], 0)
        BY <4>1 DEF StaleInv, FillersServe
      <4>5. keys'.list.life > 0 => ListServes(keys'.list.rows)
        BY <4>2 DEF StaleInv, KeysServe
      <4>6. \A b \in Article : keys'.detail[b].life > 0 =>
              DetailServes(b, keys'.detail[b].version, DetailLife - keys'.detail[b].life)
        BY <4>2, <4>3, <4>4 DEF StaleInv, KeysServe
      <4>7. QED
        BY <2>2, <4>5, <4>6 DEF KeysServe, ListServes, DetailServes
    <3>3. QED
      BY <3>1, <3>2
  <2>9. QED
    BY <1>1, <2>3, <2>5, <2>7, <2>8 DEF StaleInv
<1>20. ASSUME NEW r \in Readers, Cache!Leave(r)
       PROVE  StaleInv'
  <2>1. UNCHANGED <<versions, keys, snapshot, warmer, age>>
        /\ reader' = [reader EXCEPT ![r] = Cache!Away] /\ reader \in [Readers -> ReaderRow]
    BY <1>20 DEF Cache!Leave, Cache!history, StaleInv, CacheTyped
  <2>2. Cache!Away.step = "idle"
    BY DEF Cache!Away
  <2>3. KeysServe(keys)' /\ KeysServe(snapshot)' /\ WarmersServe'
    BY <2>1, <2>2 DEF StaleInv, KeysServe, WarmersServe, ListServes, DetailServes
  <2>4. FillersServe'
    BY <2>1, <2>2 DEF StaleInv, FillersServe, DetailServes
  <2>5. ReadersServed'
    BY <2>1, <2>2 DEF StaleInv, ReadersServed
  <2>6. QED
    BY <1>1, <2>3, <2>4, <2>5 DEF StaleInv
\* A tick: the lists have lived, and nobody is on the way to Redis with what was read.
<1>21. CASE Cache!Tick
  <2>1. /\ UNCHANGED <<versions, warmer, reader>>
        /\ keys' = Cache!Older(keys) /\ snapshot' = Cache!Older(snapshot)
        /\ \A w \in Warmers : warmer[w].step \notin {"rows", "current"}
        /\ \A r \in Readers : reader[r].step \notin {"found", "fill"}
        /\ \A a \in Article : age'[a] = IF age[a] > DetailLife THEN age[a] ELSE age[a] + 1
    BY <1>21 DEF Cache!Tick
  <2>2. ASSUME NEW k \in KeysRow, KeysServe(k) PROVE KeysServe(Cache!Older(k))'
    <3>1. PICK m \in KeysRow : m = Cache!Older(k)
      BY <1>0, OlderKeys
    <3>2. /\ m.list.life = 0
          /\ \A a \in Article :
               /\ m.detail[a].version = k.detail[a].version
               /\ m.detail[a].life = IF k.detail[a].life = 0 THEN 0 ELSE k.detail[a].life - 1
      BY <1>0, <3>1, OlderKeys
    <3>3. ASSUME NEW a \in Article, m.detail[a].life > 0
          PROVE  DetailServes(a, m.detail[a].version, DetailLife - m.detail[a].life)'
      <4>1. k.detail[a].life \in 0..DetailLife
        BY DEF KeysRow, DetailRow
      <4>2. PICK l \in 1..DetailLife : l = k.detail[a].life /\ m.detail[a].life = l - 1
        BY <1>0, <3>2, <3>3, <4>1
      <4>3. DetailServes(a, m.detail[a].version, DetailLife - l)
        BY <1>0, <2>2, <3>2, <4>2 DEF KeysServe
      <4>4. age'[a] > DetailLife - (l - 1) => age[a] > DetailLife - l
        BY <1>0, <1>2, <2>1, <4>2
      <4>5. QED
        BY <2>1, <4>2, <4>3, <4>4 DEF DetailServes
    <3>4. KeysServe(m)'
      BY <3>2, <3>3 DEF KeysServe
    <3>5. QED
      BY <3>1, <3>4 DEF KeysServe, ListServes, DetailServes
  <2>3. KeysServe(keys)' /\ KeysServe(snapshot)'
    <3>1. PICK k \in KeysRow, l \in KeysRow : k = keys /\ l = snapshot
      BY DEF StaleInv, CacheTyped
    <3>2. PICK m, n : m = Cache!Older(k) /\ n = Cache!Older(l) /\ KeysServe(m)' /\ KeysServe(n)'
      BY <2>2, <3>1 DEF StaleInv, KeysServe, ListServes, DetailServes
    <3>3. keys' = m /\ snapshot' = n
      BY <2>1, <3>1, <3>2
    <3>4. QED
      BY <3>2, <3>3 DEF KeysServe, ListServes, DetailServes
  <2>4. WarmersServe' /\ FillersServe' /\ ReadersServed'
    BY <2>1 DEF StaleInv, WarmersServe, FillersServe, ReadersServed
  <2>5. QED
    BY <1>1, <2>3, <2>4 DEF StaleInv
<1>22. CASE UNCHANGED Cache!vars
  BY <1>1, <1>22 DEF Cache!vars, StaleInv, KeysServe, WarmersServe, FillersServe, ReadersServed,
                     ListServes, DetailServes
<1>23. QED
  BY <1>6, <1>7, <1>9, <1>10, <1>11, <1>12, <1>13, <1>14, <1>15, <1>17, <1>18, <1>19, <1>20,
     <1>21, <1>22 DEF Cache!Next

LEMMA StaleInit == ASSUME Cache!CacheAssumption PROVE Cache!Init => StaleInv
<1> SUFFICES ASSUME Cache!Init PROVE StaleInv
  OBVIOUS
<1>1. CacheTyped
  BY CacheInit
<1>2. keys.list.life = 0 /\ snapshot = keys /\ \A a \in Article : keys.detail[a].life = 0
  BY DEF Cache!Init, Cache!Empty, Cache!NoList, Cache!NoDetail
<1>3. /\ \A w \in Warmers : warmer[w].step = "idle"
      /\ \A r \in Readers : reader[r].step = "idle"
  BY DEF Cache!Init, Cache!Resting, Cache!Away
<1>4. QED
  BY <1>1, <1>2, <1>3 DEF StaleInv, KeysServe, WarmersServe, FillersServe, ReadersServed

\* ArticleCache: after any crashes of who changes the rows, any restarts of Redis from an old
\* snapshot and any late fills, whoever reads the list or an article is shown at least what had
\* been quiet for the life of what is cached (populateCache, getCachedArticleList, getArticle).
THEOREM StaleEndsSoon ==
  ASSUME Cache!CacheAssumption PROVE Cache!Spec => []Cache!StaleEnds
<1>1. Cache!Init => StaleInv
  BY StaleInit
<1>2. StaleInv /\ [Cache!Next]_Cache!vars => StaleInv'
  BY StaleStep
<1>3. StaleInv => Cache!StaleEnds
  <2>1. SUFFICES ASSUME StaleInv, NEW r \in Readers, reader[r].step \in {"listed", "shown"},
                        NEW a \in Article, reader[r].art \in {{}, {a}}
                 PROVE  reader[r].rows[a] >= reader[r].due[a]
    BY DEF Cache!StaleEnds
  <2>2. reader[r].step = "shown" => reader[r].art = {a}
    BY <2>1 DEF StaleInv, CacheTyped, ArtFits
  <2>3. QED
    BY <2>1, <2>2 DEF StaleInv, ReadersServed
<1>4. QED
  BY <1>1, <1>2, <1>3, PTL DEF Cache!Spec

\* What the caches were told of, or are being told of since the generation went up.
Known(a) == IF change.step = "bumped" /\ a \in change.rows THEN change.at[a] ELSE told[a]

Has(rows) == \A a \in Article : rows[a] >= Known(a)

\* Of a generation that is not past, rows have what is known.
Holds(gen, rows) == gen <= keys.gen /\ (gen = keys.gen => Has(rows))

ToldIsReal == \A a \in Article :
  /\ told[a] <= versions[a]
  /\ change.step # "none" /\ a \in change.rows =>
       told[a] <= change.at[a] /\ change.at[a] <= versions[a]

ListHolds == keys.list.life > 0 => Holds(keys.list.gen, keys.list.rows)

WarmersHold == \A w \in Warmers :
  /\ warmer[w].step = "gen" => warmer[w].gen <= keys.gen
  /\ warmer[w].step \in {"rows", "current"} => Holds(warmer[w].gen, warmer[w].rows)

ReadersTold == \A r \in Readers :
  /\ reader[r].step # "idle" => \A a \in Article : reader[r].told[a] <= told[a]
  /\ reader[r].step = "found" =>
       /\ reader[r].gen <= keys.gen
       /\ reader[r].gen = keys.gen => \A a \in Article : reader[r].rows[a] >= reader[r].told[a]
  /\ reader[r].step = "listed" => \A a \in Article : reader[r].rows[a] >= reader[r].told[a]

FreshInv ==
  /\ CacheTyped /\ restarts \in Nat
  /\ change.step # "none" => change.kind = "delivery"
  /\ ToldIsReal /\ ListHolds /\ WarmersHold /\ ReadersTold

LEMMA FreshInit == ASSUME Cache!CacheAssumption PROVE Cache!Init => FreshInv
<1> SUFFICES ASSUME Cache!Init PROVE FreshInv
  OBVIOUS
<1>1. CacheTyped
  BY CacheInit
<1>2. keys.list.life = 0 /\ restarts = 0 /\ change.step = "none"
  BY DEF Cache!Init, Cache!Empty, Cache!NoList, Cache!NoChange
<1>3. /\ \A w \in Warmers : warmer[w].step = "idle"
      /\ \A r \in Readers : reader[r].step = "idle"
      /\ \A a \in Article : told[a] = 0 /\ versions[a] = 0
  BY DEF Cache!Init, Cache!Resting, Cache!Away, Cache!NoRows
<1>4. QED
  BY <1>1, <1>2, <1>3 DEF FreshInv, ToldIsReal, ListHolds, WarmersHold, ReadersTold

LEMMA FreshStep ==
  ASSUME Cache!CacheAssumption, MaxRestarts = 0, "enrich" \notin CacheKinds
  PROVE  FreshInv /\ [Cache!Next]_Cache!vars => FreshInv'
<1> SUFFICES ASSUME FreshInv, [Cache!Next]_Cache!vars PROVE FreshInv'
  OBVIOUS
<1>0. DetailLife \in Nat \ {0}
  BY DEF Cache!CacheAssumption
<1>1. CacheTyped /\ CacheTyped'
  BY CacheStep DEF FreshInv
<1>2. /\ \A a \in Article : /\ versions[a] \in Nat /\ told[a] \in Nat /\ change.at[a] \in Nat
                            /\ versions'[a] \in Nat /\ told'[a] \in Nat
      /\ keys.gen \in Nat /\ keys.list.gen \in Nat
      /\ \A a \in Article : keys.list.rows[a] \in Nat
  BY <1>1 DEF CacheTyped, Versions, ChangeRow, KeysRow, ListRow
<1>3. \A r \in Readers : /\ reader[r].gen \in Nat
                         /\ \A a \in Article : /\ reader[r].told[a] \in Nat
                                              /\ reader[r].rows[a] \in Nat
  BY <1>1 DEF CacheTyped, ReaderRow, Versions
<1>4. \A w \in Warmers : /\ warmer[w].gen \in Nat
                         /\ \A a \in Article : warmer[w].rows[a] \in Nat
  BY <1>1 DEF CacheTyped, WarmerRow, Versions
\* A delivery: nothing is told yet.
<1>5. CASE Cache!Deliver
  <2>1. PICK as \in SUBSET Article : Cache!Changes("delivery", as)
    BY <1>5 DEF Cache!Deliver
  <2>2. /\ \A a \in Article : versions'[a] = IF a \in as THEN versions[a] + 1 ELSE versions[a]
        /\ change.step = "none"
        /\ change' = [step |-> "committed", kind |-> "delivery", rows |-> as, at |-> versions']
        /\ UNCHANGED <<keys, snapshot, warmer, reader, restarts, told>>
    BY <1>1, <2>1, RowSteps
  <2>3. \A a \in Article : versions[a] <= versions'[a]
    <3>1. ASSUME NEW a \in Article PROVE versions[a] <= versions'[a]
      <4>1. versions[a] \in Nat /\ (versions'[a] = versions[a] + 1 \/ versions'[a] = versions[a])
        BY Zenon, <1>2, <2>2
      <4>2. QED
        BY <4>1
    <3>2. QED
      BY <3>1
  <2>4. /\ change'.step = "committed" /\ change'.kind = "delivery" /\ change'.at = versions'
    BY <2>2
  <2>5. ToldIsReal'
    <3>1. ASSUME NEW a \in Article PROVE told[a] <= versions'[a]
      <4>1. told[a] <= versions[a]
        BY DEF FreshInv, ToldIsReal
      <4>2. versions[a] <= versions'[a] /\ versions[a] \in Nat /\ versions'[a] \in Nat
            /\ told[a] \in Nat
        BY <1>2, <2>3
      <4>3. QED
        BY <4>1, <4>2
    <3>2. ASSUME NEW a \in Article PROVE versions'[a] <= versions'[a]
      <4>1. versions'[a] \in Nat
        BY <1>2
      <4>2. QED
        BY <4>1
    <3>3. told' = told
      BY <2>2
    <3>4. QED
      BY <2>4, <3>1, <3>2, <3>3 DEF ToldIsReal
  <2>6. ListHolds' /\ WarmersHold'
    BY <2>2, <2>4 DEF FreshInv, ListHolds, WarmersHold, Holds, Has, Known
  <2>7. ReadersTold'
    BY <2>2 DEF FreshInv, ReadersTold
  <2>8. QED
    BY <1>1, <2>2, <2>4, <2>5, <2>6, <2>7 DEF FreshInv
<1>6. CASE Cache!Enrich
  BY <1>6 DEF Cache!Enrich
\* The generation goes up: all that was read before is of an earlier one.
<1>7. CASE Cache!Bump
  <2>1. /\ keys'.gen = keys.gen + 1 /\ keys'.list = keys.list
        /\ change'.step = "bumped" /\ change'.kind = change.kind
        /\ change'.rows = change.rows /\ change'.at = change.at /\ change.step = "committed"
        /\ UNCHANGED <<versions, warmer, reader, restarts, told>>
    BY <1>1, <1>7 DEF Cache!Bump, Cache!Bumped, Cache!history, Cache!bounds, CacheTyped, KeysRow,
                      ChangeRow
  <2>2. ToldIsReal'
    BY <2>1 DEF FreshInv, ToldIsReal
  <2>3. ListHolds'
    BY <1>2, <2>1 DEF FreshInv, ListHolds, Holds
  <2>4. WarmersHold'
    BY <1>2, <1>4, <2>1 DEF FreshInv, WarmersHold, Holds
  <2>5. ReadersTold'
    BY <1>2, <1>3, <2>1 DEF FreshInv, ReadersTold
  <2>6. QED
    BY <1>1, <2>1, <2>2, <2>3, <2>4, <2>5 DEF FreshInv
\* The list goes, and with it what the change was is told.
<1>8. CASE Cache!DropList
  <2>1. /\ keys'.gen = keys.gen /\ keys'.list.life = 0 /\ change'.step = "none"
        /\ change.step = "bumped"
        /\ \A a \in Article : told'[a] = IF a \in change.rows THEN change.at[a] ELSE told[a]
        /\ UNCHANGED <<versions, warmer, reader, restarts>>
    BY <1>1, <1>8 DEF Cache!DropList, Cache!Noted, Cache!NoChange, Cache!NoList, Cache!bounds,
                      CacheTyped, KeysRow
  <2>2. \A a \in Article : told'[a] = Known(a) /\ told[a] <= told'[a] /\ told'[a] <= versions[a]
    <3>1. ASSUME NEW a \in Article
          PROVE  told'[a] = Known(a) /\ told[a] <= told'[a] /\ told'[a] <= versions[a]
      <4>1. CASE a \in change.rows
        <5>1. told'[a] = change.at[a] /\ Known(a) = change.at[a]
          BY <2>1, <4>1 DEF Known
        <5>2. QED
          BY <2>1, <4>1, <5>1 DEF FreshInv, ToldIsReal
      <4>2. CASE a \notin change.rows
        <5>1. told'[a] = told[a] /\ Known(a) = told[a]
          BY <2>1, <4>2 DEF Known
        <5>2. QED
          BY <1>2, <5>1 DEF FreshInv, ToldIsReal
      <4>3. QED
        BY <4>1, <4>2
    <3>2. QED
      BY <3>1
  <2>3. ToldIsReal' /\ ListHolds'
    BY <2>1, <2>2 DEF ToldIsReal, ListHolds
  <2>4. \A a \in Article : Known(a)' = Known(a)
    BY <2>1, <2>2 DEF Known
  <2>5. WarmersHold'
    BY <2>1, <2>2 DEF FreshInv, WarmersHold, Holds, Has, Known
  <2>6. ReadersTold'
    BY <1>2, <1>3, <2>1, <2>2 DEF FreshInv, ReadersTold
  <2>7. QED
    BY <1>1, <2>1, <2>3, <2>5, <2>6 DEF FreshInv
<1>9. CASE Cache!DropDetail
  BY <1>9 DEF Cache!DropDetail, FreshInv
\* Who dies tells nobody, and what was being told need not be known.
<1>10. CASE Cache!Crash
  <2>1. /\ change'.step = "none"
        /\ UNCHANGED <<versions, keys, warmer, reader, restarts, told>>
    BY <1>10 DEF Cache!Crash, Cache!NoChange, Cache!history
  <2>2. \A a \in Article : told[a] <= Known(a)
    BY <1>2 DEF FreshInv, ToldIsReal, Known
  <2>3. ToldIsReal' /\ ReadersTold'
    BY <2>1 DEF FreshInv, ToldIsReal, ReadersTold
  <2>4. ASSUME NEW rows \in Versions, Has(rows) PROVE \A a \in Article : rows[a] >= told[a]
    <3>1. ASSUME NEW a \in Article PROVE rows[a] >= told[a]
      <4>1. rows[a] \in Nat /\ rows[a] >= Known(a) /\ told[a] <= Known(a) /\ Known(a) \in Nat
        BY <1>2, <2>2, <2>4 DEF Has, Versions, Known
      <4>2. QED
        BY <1>2, <4>1
    <3>2. QED
      BY <3>1
  <2>5. ListHolds'
    <3>1. keys.list.rows \in Versions
      BY <1>1 DEF CacheTyped, KeysRow, ListRow
    <3>2. QED
      BY <2>1, <2>4, <3>1 DEF FreshInv, ListHolds, Holds, Has, Known
  <2>6. WarmersHold'
    <3>1. \A w \in Warmers : warmer[w].rows \in Versions
      BY <1>1 DEF CacheTyped, WarmerRow
    <3>2. QED
      BY <2>1, <2>4, <3>1 DEF FreshInv, WarmersHold, Holds, Has, Known
  <2>7. QED
    BY <1>1, <2>1, <2>3, <2>5, <2>6 DEF FreshInv
\* What a warmer reads after the generation has all that is known in it.
<1>11. ASSUME NEW w \in Warmers,
              \/ Cache!TakeLock(w) \/ Cache!ReadGen(w) \/ Cache!ReadRows(w)
              \/ Cache!Check(w) \/ Cache!Store(w) \/ Cache!Release(w)
       PROVE  FreshInv'
  <2>1. PICK x \in WarmerRow : WarmMoved(w, x)
    BY <1>1, <1>11, WarmerMoves
  <2>2. /\ UNCHANGED <<versions, change, reader, told, restarts>>
        /\ warmer' = [warmer EXCEPT ![w] = x] /\ warmer \in [Warmers -> WarmerRow]
        /\ keys'.gen = keys.gen
    BY <1>1, <2>1 DEF WarmMoved, CacheTyped
  <2>3. Has(versions)
    BY <1>2 DEF FreshInv, ToldIsReal, Has, Known
  <2>4. x.step = "gen" => x.gen <= keys.gen
    BY <1>2, <2>1 DEF WarmMoved
  <2>5. x.step \in {"rows", "current"} => Holds(x.gen, x.rows)
    BY <2>1, <2>3 DEF WarmMoved, FreshInv, WarmersHold, Holds
  <2>6. WarmersHold'
    BY <2>2, <2>4, <2>5 DEF FreshInv, WarmersHold, Holds, Has, Known
  <2>7. ListHolds'
    <3>1. keys'.list.life > 0 => Holds(keys'.list.gen, keys'.list.rows)
      BY <2>1 DEF WarmMoved, FreshInv, ListHolds, WarmersHold
    <3>2. QED
      BY <2>2, <3>1 DEF ListHolds, Holds, Has, Known
  <2>8. ToldIsReal' /\ ReadersTold'
    BY <2>2 DEF FreshInv, ToldIsReal, ReadersTold
  <2>9. QED
    BY <1>1, <2>2, <2>6, <2>7, <2>8 DEF FreshInv
<1>12. ~Cache!Save /\ ~Cache!Restart
  BY DEF Cache!Save, Cache!Restart, FreshInv
\* A reader begins.
<1>13. ASSUME NEW r \in Readers, NEW x \in ReaderRow, NEW step \in {"list", "detail"},
              NEW as, NEW life, Asking(r, x, step, as, life)
       PROVE  FreshInv'
  <2>1. /\ UNCHANGED <<versions, keys, change, warmer, told, restarts>>
        /\ reader' = [reader EXCEPT ![r] = x] /\ reader \in [Readers -> ReaderRow]
        /\ x.step = step /\ x.told = told
    BY <1>1, <1>13 DEF Asking, CacheTyped
  <2>2. ToldIsReal' /\ ListHolds' /\ WarmersHold'
    BY <2>1 DEF FreshInv, ToldIsReal, ListHolds, WarmersHold, Holds, Has, Known
  <2>3. ReadersTold'
    BY <1>2, <1>13, <2>1 DEF FreshInv, ReadersTold
  <2>4. QED
    BY <1>1, <2>1, <2>2, <2>3 DEF FreshInv
<1>14. CASE \E r \in Readers : Cache!Ask(r, "list", {}, 1)
  <2>1. PICK r \in Readers : Cache!Ask(r, "list", {}, 1)
    BY <1>14
  <2>2. PICK x \in ReaderRow : Asking(r, x, "list", {}, 1)
    BY <1>1, <2>1, ReaderAsked
  <2>3. QED
    BY <1>13, <2>2
<1>15. CASE \E r \in Readers, a \in Article : Cache!Ask(r, "detail", {a}, DetailLife)
  <2>1. PICK r \in Readers, a \in Article : Cache!Ask(r, "detail", {a}, DetailLife)
    BY <1>15
  <2>2. PICK as \in SUBSET Article : as = {a}
    OBVIOUS
  <2>3. PICK x \in ReaderRow : Asking(r, x, "detail", as, DetailLife)
    BY <1>0, <1>1, <2>1, <2>2, ReaderAsked
  <2>4. QED
    BY <1>13, <2>3
\* A reader goes on: what it finds is of a generation that is past, or has what it was told.
<1>16. ASSUME NEW r \in Readers,
              \/ Cache!GetList(r) \/ Cache!ServeList(r)
              \/ Cache!GetDetail(r) \/ Cache!ReadRow(r) \/ Cache!Fill(r)
       PROVE  FreshInv'
  <2>1. PICK x \in ReaderRow : ReadMoved(r, x)
    BY <1>1, <1>16, ReaderMoves
  <2>2. /\ UNCHANGED <<versions, change, warmer, told, restarts>>
        /\ reader' = [reader EXCEPT ![r] = x] /\ reader \in [Readers -> ReaderRow]
        /\ x.told = reader[r].told /\ reader[r].step # "idle"
    BY <1>1, <2>1 DEF ReadMoved, ListMoved, DetailMoved, ReadOn, CacheTyped
  <2>3. keys'.gen = keys.gen /\ keys'.list = keys.list
    <3>1. keys \in KeysRow
      BY <1>1 DEF CacheTyped
    <3>2. QED
      BY <2>1, <3>1 DEF ReadMoved, ListMoved, DetailMoved, KeysRow
  <2>4. ToldIsReal' /\ ListHolds' /\ WarmersHold'
    BY <2>2, <2>3 DEF FreshInv, ToldIsReal, ListHolds, WarmersHold, Holds, Has, Known
  <2>5. \A a \in Article : reader[r].told[a] <= told[a] /\ told[a] <= Known(a)
    BY <1>2, <2>2 DEF FreshInv, ReadersTold, ToldIsReal, Known
  <2>6. x.step = "found" => /\ x.gen <= keys.gen
                            /\ x.gen = keys.gen => \A a \in Article : x.rows[a] >= x.told[a]
    <3>1. SUFFICES ASSUME x.step = "found"
                   PROVE  /\ x.gen <= keys.gen
                          /\ x.gen = keys.gen => \A a \in Article : x.rows[a] >= x.told[a]
      OBVIOUS
    <3>2. keys.list.life > 0 /\ x.rows = keys.list.rows /\ x.gen = keys.list.gen
      BY <2>1, <3>1 DEF ReadMoved, ListMoved, DetailMoved, ReadOn
    <3>3. Holds(x.gen, x.rows)
      BY <3>2 DEF FreshInv, ListHolds
    <3>4. ASSUME x.gen = keys.gen, NEW a \in Article PROVE x.rows[a] >= x.told[a]
      <4>1. x.rows[a] >= Known(a) /\ Known(a) \in Nat /\ x.rows[a] \in Nat
        BY <1>2, <3>2, <3>3, <3>4 DEF Holds, Has, Known
      <4>2. QED
        BY <1>2, <1>3, <2>2, <2>5, <4>1
    <3>5. QED
      BY <3>3, <3>4 DEF Holds
  <2>7. x.step = "listed" => \A a \in Article : x.rows[a] >= x.told[a]
    <3>1. SUFFICES ASSUME x.step = "listed", NEW a \in Article PROVE x.rows[a] >= x.told[a]
      OBVIOUS
    <3>2. \/ x.rows = versions
          \/ /\ reader[r].step = "found" /\ reader[r].gen = keys.gen
             /\ x.rows = reader[r].rows
      BY <2>1, <3>1 DEF ReadMoved, ListMoved, DetailMoved, ReadOn
    <3>3. CASE x.rows = versions
      BY <1>2, <1>3, <2>2, <2>5, <3>3 DEF FreshInv, ToldIsReal
    <3>4. CASE /\ reader[r].step = "found" /\ reader[r].gen = keys.gen
               /\ x.rows = reader[r].rows
      BY <2>2, <3>4 DEF FreshInv, ReadersTold
    <3>5. QED
      BY <3>2, <3>3, <3>4
  <2>8. ReadersTold'
    BY <2>2, <2>3, <2>5, <2>6, <2>7 DEF FreshInv, ReadersTold
  <2>9. QED
    BY <1>1, <2>2, <2>4, <2>8 DEF FreshInv
<1>17. ASSUME NEW r \in Readers, Cache!Leave(r)
       PROVE  FreshInv'
  <2>1. /\ UNCHANGED <<versions, keys, change, warmer, told, restarts>>
        /\ reader' = [reader EXCEPT ![r] = Cache!Away] /\ reader \in [Readers -> ReaderRow]
        /\ Cache!Away.step = "idle"
    BY <1>1, <1>17 DEF Cache!Leave, Cache!history, Cache!bounds, Cache!Away, CacheTyped
  <2>2. ToldIsReal' /\ ListHolds' /\ WarmersHold'
    BY <2>1 DEF FreshInv, ToldIsReal, ListHolds, WarmersHold, Holds, Has, Known
  <2>3. ReadersTold'
    BY <2>1 DEF FreshInv, ReadersTold
  <2>4. QED
    BY <1>1, <2>1, <2>2, <2>3 DEF FreshInv
<1>18. CASE Cache!Tick
  <2>1. /\ keys'.gen = keys.gen /\ keys'.list.life = 0
        /\ UNCHANGED <<versions, change, warmer, reader, told, restarts>>
    <3>1. keys \in KeysRow
      BY <1>1 DEF CacheTyped
    <3>2. QED
      BY <1>0, <1>18, <3>1, OlderKeys DEF Cache!Tick, Cache!bounds
  <2>2. ToldIsReal' /\ ListHolds' /\ WarmersHold' /\ ReadersTold'
    BY <2>1 DEF FreshInv, ToldIsReal, ListHolds, WarmersHold, ReadersTold, Holds, Has, Known
  <2>3. QED
    BY <1>1, <2>1, <2>2 DEF FreshInv
<1>19. CASE UNCHANGED Cache!vars
  BY <1>1, <1>19 DEF Cache!vars, FreshInv, ToldIsReal, ListHolds, WarmersHold, ReadersTold, Holds,
                     Has, Known
<1>20. QED
  BY <1>5, <1>6, <1>7, <1>8, <1>9, <1>10, <1>11, <1>12, <1>14, <1>15, <1>16, <1>17, <1>18, <1>19
     DEF Cache!Next

\* ArticleCache: as long as Redis keeps what it has, a list has all that deliveries had brought
\* and told the cache of before the reader asked, whatever warmers store at any time and whoever
\* dies: the generation that a warmer read before the rows is the one the list is served under
\* (invalidateCache, populateCache, getCachedArticleList).
THEOREM ListsAreFresh ==
  ASSUME Cache!CacheAssumption, MaxRestarts = 0, "enrich" \notin CacheKinds
  PROVE  Cache!Spec => []Cache!ListFresh
<1>1. Cache!Init => FreshInv
  BY FreshInit
<1>2. FreshInv /\ [Cache!Next]_Cache!vars => FreshInv'
  BY FreshStep
<1>3. FreshInv => Cache!ListFresh
  BY DEF FreshInv, ReadersTold, Cache!ListFresh
<1>4. QED
  BY <1>1, <1>2, <1>3, PTL DEF Cache!Spec
=============================================================================

---------------------------- MODULE ArticleCache ----------------------------
(***************************************************************************)
(* What Redis keeps of a user's articles: the first page of the list, with *)
(* a generation (services/article-cache.service.ts), and the details of an *)
(* article (services/article.service.ts).  Deliveries and syncs change the *)
(* rows and then invalidate the list; enrichment changes a row and then    *)
(* drops its details; warmers and readers fill in what they read.  Redis   *)
(* may come back from an old snapshot.                                     *)
(*                                                                         *)
(* A row is its version, 0 when there is none.  A tick is the life of a    *)
(* cached list, two minutes.                                               *)
(***************************************************************************)
EXTENDS Integers, FiniteSets

CONSTANTS
  Article, Warmer, Reader,
  Asks,         \* what readers ask for: a subset of {"list", "detail"}
  DetailLife,   \* ticks that the details of an article live
  Kinds,        \* what changes rows: a subset of {"insert", "revise", "enrich"}
  MaxVersion, MaxCrashes, MaxRestarts \* bounds

CacheAssumption ==
  /\ DetailLife \in Nat \ {0} /\ Asks \subseteq {"list", "detail"}
  /\ Kinds \subseteq {"insert", "revise", "enrich"}
  /\ MaxVersion \in Nat \ {0} /\ MaxCrashes \in Nat /\ MaxRestarts \in Nat

VARIABLES
  row,       \* article |-> the version of its row
  redis,     \* what Redis holds: generation, list, details, the warming lock
  saved,     \* the last snapshot that Redis has written of it
  change,    \* a change of the rows on its way through the caches
  warmer,    \* what each warmer is at
  reader,    \* what each reader is at
  crashes, restarts, \* for the bounds
  told,      \* history: the versions that the caches were told of
  age        \* history: article |-> ticks since its row changed

vars == <<row, redis, saved, change, warmer, reader, crashes, restarts, told, age>>
bounds == <<crashes, restarts>>
history == <<told, age>>

Rows == [Article -> 0..MaxVersion]
NoRows == [a \in Article |-> 0]
MaxGen == MaxVersion * Cardinality(Article)

List == [gen : 0..MaxGen, rows : Rows, life : 0..1]
NoList == [gen |-> 0, rows |-> NoRows, life |-> 0]
Detail == [version : 0..MaxVersion, life : 0..DetailLife]
NoDetail == [version |-> 0, life |-> 0]
Redis == [gen : 0..MaxGen, list : List, detail : [Article -> Detail], warming : 0..1]
Empty == [gen |-> 0, list |-> NoList, detail |-> [a \in Article |-> NoDetail], warming |-> 0]

NoChange == [step |-> "none", kind |-> "enrichment", rows |-> {}, at |-> NoRows]
Resting == [step |-> "idle", gen |-> 0, rows |-> NoRows]
Away == [step |-> "idle", art |-> {}, told |-> NoRows, due |-> NoRows, rows |-> NoRows, gen |-> 0]

TypeOK ==
  /\ row \in Rows /\ redis \in Redis /\ saved \in Redis
  /\ change \in [step : {"none", "committed", "bumped"}, kind : {"delivery", "enrichment"},
                 rows : SUBSET Article, at : Rows]
  /\ warmer \in [Warmer -> [step : {"idle", "locked", "gen", "rows", "current", "stored"},
                            gen : 0..MaxGen, rows : Rows]]
  /\ reader \in [Reader -> [step : {"idle", "list", "found", "detail", "missed", "fill",
                                    "listed", "shown"},
                            art : {{}} \cup {{a} : a \in Article}, told : Rows,
                            due : Rows, rows : Rows, gen : 0..MaxGen]]
  /\ crashes \in 0..MaxCrashes /\ restarts \in 0..MaxRestarts
  /\ told \in Rows /\ age \in [Article -> 0..DetailLife + 1]

Init ==
  /\ row = NoRows /\ redis = Empty /\ saved = Empty /\ change = NoChange
  /\ warmer = [w \in Warmer |-> Resting] /\ reader = [r \in Reader |-> Away]
  /\ crashes = 0 /\ restarts = 0
  /\ told = NoRows /\ age = [a \in Article |-> DetailLife + 1]

(***************************************************************************)
(* A change of the rows and what follows its commit.                       *)
(***************************************************************************)
Changes(kind, as) ==
  /\ change.step = "none" /\ as # {} /\ \A a \in as : row[a] < MaxVersion
  /\ row' = [a \in Article |-> IF a \in as THEN row[a] + 1 ELSE row[a]]
  /\ change' = [step |-> "committed", kind |-> kind, rows |-> as, at |-> row']
  /\ age' = [a \in Article |-> IF a \in as THEN 0 ELSE age[a]]
  /\ UNCHANGED <<redis, saved, warmer, reader, bounds, told>>

\* A delivery inserts articles and revises what it finds.
Deliver == \E as \in SUBSET Article :
  /\ \A a \in as : IF row[a] = 0 THEN "insert" \in Kinds ELSE "revise" \in Kinds
  /\ Changes("delivery", as)

Enrich == \E a \in Article :
  /\ "enrich" \in Kinds /\ row[a] > 0
  /\ Changes("enrichment", {a})

\* incrementGeneration.
Bumped(gen) == gen + 1

\* invalidateCache, first step.
Bump ==
  /\ change.step = "committed" /\ change.kind = "delivery"
  /\ redis' = [redis EXCEPT !.gen = Bumped(@)]
  /\ change' = [change EXCEPT !.step = "bumped"]
  /\ UNCHANGED <<row, saved, warmer, reader, bounds, history>>

Noted(as, at) == [a \in Article |-> IF a \in as THEN at[a] ELSE told[a]]

\* The second: the list is deleted.
DropList ==
  /\ change.step = "bumped"
  /\ redis' = [redis EXCEPT !.list = NoList]
  /\ change' = NoChange /\ told' = Noted(change.rows, change.at)
  /\ UNCHANGED <<row, saved, warmer, reader, bounds, age>>

\* invalidateArticleDetailCaches, after an enrichment.
DropDetail ==
  /\ change.step = "committed" /\ change.kind = "enrichment"
  /\ redis' = [redis EXCEPT !.detail = [a \in Article |->
       IF a \in change.rows THEN NoDetail ELSE redis.detail[a]]]
  /\ change' = NoChange /\ told' = Noted(change.rows, change.at)
  /\ UNCHANGED <<row, saved, warmer, reader, bounds, age>>

\* The process dies after the commit: nobody tells the caches.
Crash ==
  /\ change.step # "none" /\ crashes < MaxCrashes
  /\ crashes' = crashes + 1 /\ change' = NoChange
  /\ UNCHANGED <<row, redis, saved, warmer, reader, restarts, history>>

(***************************************************************************)
(* populateCache.                                                          *)
(***************************************************************************)
Warm(w, from, to) ==
  /\ warmer[w].step = from /\ warmer' = [warmer EXCEPT ![w].step = to]
  /\ UNCHANGED <<row, saved, change, reader, bounds, history>>

TakeLock(w) ==
  Warm(w, "idle", "locked") /\ redis.warming = 0 /\ redis' = [redis EXCEPT !.warming = 1]

ReadGen(w) ==
  /\ warmer[w].step = "locked"
  /\ warmer' = [warmer EXCEPT ![w].step = "gen", ![w].gen = redis.gen]
  /\ UNCHANGED <<row, redis, saved, change, reader, bounds, history>>

ReadRows(w) ==
  /\ warmer[w].step = "gen"
  /\ warmer' = [warmer EXCEPT ![w].step = "rows", ![w].rows = row]
  /\ UNCHANGED <<row, redis, saved, change, reader, bounds, history>>

\* isGenerationCurrent.
IsCurrent(gen) == gen = redis.gen

Check(w) ==
  /\ UNCHANGED redis
  /\ \/ IsCurrent(warmer[w].gen) /\ Warm(w, "rows", "current")
     \/ ~IsCurrent(warmer[w].gen) /\ Warm(w, "rows", "stored")

\* Mutant of Stored: the list gets the generation of the time it is stored.
StoredNow(w) == [gen |-> redis.gen, rows |-> warmer[w].rows, life |-> 1]

\* The list that is stored, with the generation that was read first.
Stored(w) == [gen |-> warmer[w].gen, rows |-> warmer[w].rows, life |-> 1]

Store(w) == Warm(w, "current", "stored") /\ redis' = [redis EXCEPT !.list = Stored(w)]

Release(w) ==
  /\ warmer[w].step = "stored"
  /\ warmer' = [warmer EXCEPT ![w] = Resting]
  /\ redis' = [redis EXCEPT !.warming = 0]
  /\ UNCHANGED <<row, saved, change, reader, bounds, history>>

(***************************************************************************)
(* getArticles and getArticle.                                             *)
(***************************************************************************)
\* The rows that have not changed for a time.
Quiet(life) == [a \in Article |-> IF age[a] > life THEN row[a] ELSE 0]

Ask(r, step, as, life) ==
  /\ reader[r].step = "idle" /\ step \in Asks
  /\ reader' = [reader EXCEPT ![r] = [Away EXCEPT !.step = step, !.art = as,
                                        !.told = told, !.due = Quiet(life)]]
  /\ UNCHANGED <<row, redis, saved, change, warmer, bounds, history>>

Goes(r, step, rows) ==
  /\ reader' = [reader EXCEPT ![r].step = step, ![r].rows = rows]
  /\ UNCHANGED <<row, saved, change, warmer, bounds, history>>

\* getCachedArticleList: the list, and then the generation.
GetList(r) ==
  /\ reader[r].step = "list" /\ UNCHANGED redis
  /\ \/ /\ redis.list.life > 0
        /\ reader' = [reader EXCEPT ![r].step = "found", ![r].rows = redis.list.rows,
                                   ![r].gen = redis.list.gen]
        /\ UNCHANGED <<row, saved, change, warmer, bounds, history>>
     \/ redis.list.life = 0 /\ Goes(r, "listed", row)

Serves(r) == IsCurrent(reader[r].gen)

ServeList(r) ==
  /\ reader[r].step = "found" /\ UNCHANGED redis
  /\ Goes(r, "listed", IF Serves(r) THEN reader[r].rows ELSE row)

TheArticle(r) == CHOOSE a \in Article : reader[r].art = {a}
Only(a, version) == [b \in Article |-> IF b = a THEN version ELSE 0]

\* The details in the cache, or the row.
GetDetail(r) ==
  LET a == TheArticle(r) IN
  /\ reader[r].step = "detail" /\ UNCHANGED redis
  /\ \/ redis.detail[a].life > 0 /\ Goes(r, "shown", Only(a, redis.detail[a].version))
     \/ redis.detail[a].life = 0 /\ Goes(r, "missed", NoRows)

ReadRow(r) ==
  LET a == TheArticle(r) IN
  /\ reader[r].step = "missed" /\ UNCHANGED redis
  /\ Goes(r, "fill", Only(a, row[a]))

Fill(r) ==
  LET a == TheArticle(r) IN
  /\ reader[r].step = "fill"
  /\ redis' = [redis EXCEPT !.detail[a] = [version |-> reader[r].rows[a], life |-> DetailLife]]
  /\ Goes(r, "shown", reader[r].rows)

Leave(r) ==
  /\ reader[r].step \in {"listed", "shown"}
  /\ reader' = [reader EXCEPT ![r] = Away]
  /\ UNCHANGED <<row, redis, saved, change, warmer, bounds, history>>

(***************************************************************************)
(* Redis and the clock.                                                    *)
(***************************************************************************)
Save ==
  /\ restarts < MaxRestarts /\ saved # redis
  /\ saved' = redis
  /\ UNCHANGED <<row, redis, change, warmer, reader, bounds, history>>

Restart ==
  /\ restarts < MaxRestarts /\ saved # redis
  /\ redis' = saved /\ restarts' = restarts + 1
  /\ UNCHANGED <<row, saved, change, warmer, reader, crashes, history>>

Less(n) == IF n = 0 THEN 0 ELSE n - 1

Older(keys) ==
  [keys EXCEPT !.list.life = Less(@), !.warming = 0,
               !.detail = [a \in Article |-> [keys.detail[a] EXCEPT !.life = Less(@)]]]

\* Not while somebody is between a row and the cache: that takes no minutes.
Tick ==
  /\ \A w \in Warmer : warmer[w].step \notin {"rows", "current"}
  /\ \A r \in Reader : reader[r].step \notin {"found", "fill"}
  /\ redis' = Older(redis) /\ saved' = Older(saved)
  /\ age' = [a \in Article |-> IF age[a] > DetailLife THEN age[a] ELSE age[a] + 1]
  /\ <<redis', saved', age'>> # <<redis, saved, age>>
  /\ UNCHANGED <<row, change, warmer, reader, bounds, told>>

Next ==
  \/ Deliver \/ Enrich \/ Bump \/ DropList \/ DropDetail \/ Crash
  \/ \E w \in Warmer : \/ TakeLock(w) \/ ReadGen(w) \/ ReadRows(w)
                       \/ Check(w) \/ Store(w) \/ Release(w)
  \/ \E r \in Reader : Ask(r, "list", {}, 1)
  \/ \E r \in Reader, a \in Article : Ask(r, "detail", {a}, DetailLife)
  \/ \E r \in Reader : \/ GetList(r) \/ ServeList(r)
                       \/ GetDetail(r) \/ ReadRow(r) \/ Fill(r) \/ Leave(r)
  \/ Save \/ Restart \/ Tick

Spec == Init /\ [][Next]_vars

-----------------------------------------------------------------------------
\* A list has all that deliveries had brought and invalidated the cache for
\* before the reader asked, whatever warmers store meanwhile.  (Enrichment
\* leaves the list alone: the property is about deliveries.)
ListFresh ==
  \A r \in Reader : reader[r].step = "listed" =>
    \A a \in Article : reader[r].rows[a] >= reader[r].told[a]

\* After a crash, an old snapshot or a late fill, nothing stale outlives its
\* time to live: what was quiet for that long is shown as it is.
StaleEnds ==
  \A r \in Reader : reader[r].step \in {"listed", "shown"} =>
    \A a \in Article : reader[r].art \in {{}, {a}} => reader[r].rows[a] >= reader[r].due[a]

\* Whoever is told of a new version and asks for the article gets it.
DetailFresh ==
  \A r \in Reader : reader[r].step = "shown" =>
    \A a \in reader[r].art : reader[r].rows[a] >= reader[r].told[a]
=============================================================================

---------------------------- MODULE Migrations ------------------------------
(***************************************************************************)
(* How the SQL migrations are applied (db/migrations.ts), by the API when  *)
(* it starts (index.ts) and by the command db:migrate (db/migrate.ts), at  *)
(* the same time and from different releases, while an older worker goes   *)
(* on writing rows to the tables that are protected.                       *)
(*                                                                         *)
(* A migration is known by its date, and its file by a hash.  The reads    *)
(* before the transaction are statements of their own; so are the rows of  *)
(* the guard that a baseline inserts.  The transaction is one step: until  *)
(* it commits, nobody sees it, and who comes second waits for it.          *)
(***************************************************************************)
EXTENDS Naturals, FiniteSets, FiniteSetsExt

CONSTANTS
  Process,   \* those that apply migrations
  Release,   \* process |-> the migrations of its release, as date |-> hash
  Initially, \* the migrations already applied, as date |-> hash
  Guarded,   \* whether the guard knows of them: it is younger than the ledger
  Row,       \* rows of protected tables
  Drops,     \* date |-> the rows a migration deletes
  Adds,      \* date |-> the rows a migration inserts
  MaxCrash   \* bound: processes that die

MigrationsAssumption ==
  /\ MaxCrash \in Nat /\ Guarded \in BOOLEAN
  /\ IsFiniteSet(DOMAIN Initially) /\ DOMAIN Initially \subseteq Nat
  /\ \A p \in Process : IsFiniteSet(DOMAIN Release[p]) /\ DOMAIN Release[p] \subseteq Nat
  /\ \A p \in Process : \A d \in DOMAIN Release[p] : Adds[d] \subseteq Row

Dates == DOMAIN Initially \cup UNION {DOMAIN Release[p] : p \in Process}
Hashes == {Initially[d] : d \in DOMAIN Initially}
            \cup UNION {{Release[p][d] : d \in DOMAIN Release[p]} : p \in Process}

VARIABLES
  ledger,  \* __drizzle_migrations: date |-> hash
  guard,   \* __self_feed_migration_guard: date |-> the hashes of the file and of the ledger
  ran,     \* history: how often each migration's statements were committed
  rows,    \* the rows there are
  gone,    \* history: the rows that the worker or a user has deleted
  pc,      \* process |-> where it is in applyMigrations
  known,   \* process |-> what it has read of the ledger
  todo,    \* process |-> dates to be baselined, or to be applied
  before,  \* process |-> the rows in its snapshot of the protected tables
  crashes

vars == <<ledger, guard, ran, rows, gone, pc, known, todo, before, crashes>>

Local(p) == DOMAIN Release[p]
Applied == DOMAIN ledger
Steps == {"off", "started", "checked", "baseline", "snapshot", "backup", "migrate", "up", "failed"}

TypeOK ==
  /\ Applied \subseteq Dates /\ \A d \in Applied : ledger[d] \in Hashes
  /\ \A d \in DOMAIN guard : guard[d] \in [file : Hashes, ledger : Hashes]
  /\ DOMAIN guard \subseteq Applied /\ rows \subseteq Row /\ gone \subseteq Row
  /\ pc \in [Process -> Steps] /\ todo \in [Process -> SUBSET Dates]
  /\ before \in [Process -> SUBSET Row]

Init ==
  /\ ledger = Initially /\ ran = [d \in Dates |-> IF d \in DOMAIN Initially THEN 1 ELSE 0]
  /\ guard = [d \in {x \in DOMAIN Initially : Guarded} |->
                [file |-> Initially[d], ledger |-> Initially[d]]]
  /\ rows \in SUBSET Row /\ gone = {}
  /\ pc = [p \in Process |-> "off"] /\ known = [p \in Process |-> <<>>]
  /\ todo = [p \in Process |-> {}] /\ before = [p \in Process |-> {}] /\ crashes = 0

(***************************************************************************)
(* applyMigrations.                                                        *)
(***************************************************************************)
At(p, step) == pc[p] = step
Go(p, step) == pc' = [pc EXCEPT ![p] = step]

\* createMigrationTable, createMigrationGuardTable, appliedMigrations
Start(p) ==
  /\ At(p, "off") /\ Go(p, "started") /\ known' = [known EXCEPT ![p] = ledger]
  /\ UNCHANGED <<ledger, guard, ran, rows, gone, todo, before, crashes>>

\* Mutant: the hashes of the files are not compared.
RefusedByDate(p) ==
  \/ \E d \in DOMAIN guard : d \notin DOMAIN known[p] \/ d \notin Local(p)
  \/ \E d \in DOMAIN known[p] : d \notin Local(p) \/ d \notin DOMAIN guard
\* assertOrBaselineAppliedMigrationHashes, of a database with a guard
Refused(p) ==
  \/ \E d \in DOMAIN guard : d \notin DOMAIN known[p] \/ d \notin Local(p)
  \/ \E d \in DOMAIN known[p] : \/ d \notin Local(p) \/ d \notin DOMAIN guard
                                \/ known[p][d] # guard[d].ledger
                                \/ Release[p][d] # guard[d].file

Check(p) ==
  /\ At(p, "started")
  /\ IF DOMAIN guard = {} /\ DOMAIN known[p] # {}
       THEN Go(p, "baseline") /\ todo' = [todo EXCEPT ![p] = DOMAIN known[p]]
       ELSE Go(p, IF Refused(p) THEN "failed" ELSE "checked") /\ UNCHANGED todo
  /\ UNCHANGED <<ledger, guard, ran, rows, gone, known, before, crashes>>

Tracked(p, d) == [file |-> Release[p][d], ledger |-> known[p][d]]

\* The same, of a database without a guard: one row after the other, by date.
Baseline(p) ==
  /\ At(p, "baseline")
  /\ LET d == Min(todo[p]) IN
       IF d \notin Local(p) \/ d \in DOMAIN guard
         THEN Go(p, "failed") /\ UNCHANGED <<guard, todo>>
         ELSE /\ guard' = [e \in DOMAIN guard \cup {d} |->
                            IF e = d THEN Tracked(p, d) ELSE guard[e]]
              /\ todo' = [todo EXCEPT ![p] = @ \ {d}]
              /\ Go(p, IF todo[p] = {d} THEN "checked" ELSE "baseline")
  /\ UNCHANGED <<ledger, ran, rows, gone, known, before, crashes>>

\* latestAppliedMigration, pendingMigrations
Pending(p) == {d \in Local(p) : Applied = {} \/ d > Max(Applied)}

Select(p) ==
  /\ At(p, "checked") /\ todo' = [todo EXCEPT ![p] = Pending(p)]
  /\ Go(p, IF Pending(p) = {} THEN "up" ELSE "snapshot")
  /\ UNCHANGED <<ledger, guard, ran, rows, gone, known, before, crashes>>

\* protectedTableSnapshot
Snapshot(p) ==
  /\ At(p, "snapshot") /\ before' = [before EXCEPT ![p] = rows]
  /\ Go(p, IF rows = {} THEN "migrate" ELSE "backup")
  /\ UNCHANGED <<ledger, guard, ran, rows, gone, known, todo, crashes>>

\* createMigrationBackup
Backup(p) ==
  /\ At(p, "backup") /\ Go(p, "migrate")
  /\ UNCHANGED <<ledger, guard, ran, rows, gone, known, todo, before, crashes>>

Over(rs, ds) == (rs \ UNION {Drops[d] : d \in ds}) \cup UNION {Adds[d] : d \in ds}

\* Mutant: only the numbers of the rows are compared.
LosesCount(p, after) == Cardinality(after) < Cardinality(before[p])
\* assertNoProtectedDataLoss
Loses(p, after) == Cardinality(after) < Cardinality(before[p]) \/ ~(before[p] \subseteq after)

\* Mutant: what is in the guard is not unique.
NeverTwice(p) == FALSE
\* The date is the primary key of the guard.
Twice(p) == todo[p] \cap DOMAIN guard # {}

\* insertMigrationRecord
Recorded(p) ==
  [d \in todo[p] \cup Applied |-> IF d \in todo[p] THEN Release[p][d] ELSE ledger[d]]

Migrate(p) ==
  /\ At(p, "migrate")
  /\ LET after == Over(rows, todo[p]) IN
       IF Twice(p) \/ Loses(p, after)
         THEN Go(p, "failed") /\ UNCHANGED <<ledger, guard, ran, rows>>
         ELSE /\ Go(p, "up") /\ rows' = after
              /\ ledger' = Recorded(p)
              /\ guard' = [d \in todo[p] \cup DOMAIN guard |->
                            IF d \in todo[p] THEN [file |-> Release[p][d], ledger |-> Release[p][d]]
                            ELSE guard[d]]
              /\ ran' = [d \in Dates |-> IF d \in todo[p] THEN ran[d] + 1 ELSE ran[d]]
  /\ UNCHANGED <<gone, known, todo, before, crashes>>

\* The container is started again (restart: unless-stopped), or the command by hand.
Restart(p) ==
  /\ At(p, "failed") /\ Go(p, "off")
  /\ known' = [known EXCEPT ![p] = <<>>] /\ todo' = [todo EXCEPT ![p] = {}]
  /\ before' = [before EXCEPT ![p] = {}]
  /\ UNCHANGED <<ledger, guard, ran, rows, gone, crashes>>

Crash(p) ==
  /\ pc[p] \notin {"off", "failed"} /\ crashes < MaxCrash /\ crashes' = crashes + 1
  /\ Go(p, "failed")
  /\ UNCHANGED <<ledger, guard, ran, rows, gone, known, todo, before>>

\* The worker and the API of the release before, which have no part in this.
Insert(r) ==
  /\ r \notin rows \cup gone /\ rows' = rows \cup {r}
  /\ UNCHANGED <<ledger, guard, ran, gone, pc, known, todo, before, crashes>>

Delete(r) ==
  /\ r \in rows /\ rows' = rows \ {r} /\ gone' = gone \cup {r}
  /\ UNCHANGED <<ledger, guard, ran, pc, known, todo, before, crashes>>

Next ==
  \/ \E p \in Process : \/ Start(p) \/ Check(p) \/ Baseline(p) \/ Select(p) \/ Snapshot(p)
                        \/ Backup(p) \/ Migrate(p) \/ Restart(p) \/ Crash(p)
  \/ \E r \in Row : Insert(r) \/ Delete(r)

Spec == Init /\ [][Next]_vars

(***************************************************************************)
(* Properties.                                                             *)
(***************************************************************************)
\* However many processes start at a time, and wherever they die, the statements of a migration
\* are committed once, and then the ledger and the guard say so.
AppliedOnce ==
  \A d \in Dates : /\ ran[d] = IF d \in Applied THEN 1 ELSE 0
                   /\ Guarded => (d \in DOMAIN guard <=> d \in Applied)

\* A process that comes up finds applied exactly the migrations of its release, each from the file
\* that the release has ("Database has applied migration ... that is not present in local
\* migrations", "Local migration hash changed"; README: "Apply pending SQL migrations").
UpMatches ==
  \A p \in Process : pc[p] # "up" /\ pc'[p] = "up" =>
   /\ DOMAIN ledger' = Local(p)
   /\ \A d \in DOMAIN guard' : guard'[d].file = Release[p][d]

\* A migration removes no row that was there when its process began ("rolls back pending
\* migrations that would remove protected data").
KnownRowsKept ==
  \A p \in Process : pc[p] = "migrate" /\ pc'[p] = "up" =>
   \A r \in before[p] : r \in rows => r \in rows'

\* It removes none at all.
RowsKept ==
  \A p \in Process : pc[p] = "migrate" /\ pc'[p] = "up" => rows \subseteq rows'

\* The API comes up and stays up (README: "The API service applies database migrations
\* automatically on boot, so schema changes are handled seamlessly").
ComesUp == <>[](\A p \in Process : pc[p] = "up")
=============================================================================

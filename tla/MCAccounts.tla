----------------------------- MODULE MCAccounts -----------------------------
(***************************************************************************)
(* Instances of what services write to SQLite between awaits: accounts and *)
(* their sessions, the category tree, the migrations at start, and the     *)
(* counts of the product's analytics. Each behaviour is one of a part; the *)
(* parts share no table.                                                   *)
(***************************************************************************)
EXTENDS Integers, Sequences, TLC

CONSTANTS
  None, Root, NoUser, t1, t2, c1, c2, u1, u2, s1, s2, k1, k2, k3, f1, n1, n2, q1, q2, api,
  command, ra, rb

VARIABLES
  part, \* which of the parts the behaviour is one of
  users, sessions, tombs, access, calls, owner, hashes, updates, faults, ended, rotations,
  parent, name, slug, home, used, req, under, ledger, guard, ran, rows, gone, pc, known, todo,
  before, crashes, today, events, pending, user, flush, request, mark, counted

\* AuthSessions: overlapping requests of one account.
Sessions == INSTANCE AuthSessions WITH
  Call <- {c1, c2}, User <- {u1}, Session <- {s1, s2},
  Requests <- {"register", "login", "refresh", "change"}, MaxTokens <- 3, MaxHashes <- 3,
  MaxUpdates <- 0, MaxFaults <- 1
\* Two accounts whose roles and states administrators change.
Admins == INSTANCE AuthSessions WITH
  Call <- {c1, c2}, User <- {u1, u2}, Session <- {s1, s2},
  Requests <- {"register", "create", "login", "update"}, MaxTokens <- 2, MaxHashes <- 2,
  MaxUpdates <- 2, MaxFaults <- 0
\* Requests that are checked while their session is revoked.
Checks == INSTANCE AuthSessions WITH
  Call <- {c1, c2}, User <- {u1}, Session <- {s1, s2},
  Requests <- {"register", "reset", "login", "logout", "revoke", "check"}, MaxTokens <- 2,
  MaxHashes <- 2, MaxUpdates <- 0, MaxFaults <- 1
\* Categories: one request at a time. Both names are made into one slug.
MadeOf == [n \in {n1, n2} |-> <<"foo", "foo-2", "foo-3", "foo-4">>]
Slugs == {"foo", "foo-2", "foo-3", "foo-4"}
Alone == INSTANCE Categories WITH
  Category <- {k1, k2, k3}, Feed <- {f1}, Name <- {n1, n2}, Slug <- Slugs, Slugs <- MadeOf,
  Request <- {q1}, Kinds <- {"create", "update", "delete", "place", "unsubscribe", "import"}
\* Two at a time, on a path of categories and the feed in it.
Overlap == INSTANCE Categories WITH
  Category <- {k1, k2, k3}, Feed <- {f1}, Name <- {n1}, Slug <- Slugs,
  Slugs <- [n \in {n1} |-> MadeOf[n]], Request <- {q1, q2},
  Kinds <- {"create", "delete", "place", "unsubscribe", "import"}
\* Two at a time that move and rename categories, which takes and frees slugs.
Moves == INSTANCE Categories WITH
  Category <- {k1, k2}, Feed <- {}, Name <- {n1, n2}, Slug <- Slugs, Slugs <- MadeOf,
  Request <- {q1, q2}, Kinds <- {"create", "update", "delete"}
\* Migrations: the API and the command start together and may die.
Together == INSTANCE Migrations WITH
  Process <- {api, command}, Release <- [p \in {api, command} |-> <<"x", "x", "x">>],
  Initially <- <<"x">>, Guarded <- TRUE, Row <- {ra}, Drops <- [d \in 1..3 |-> {}],
  Adds <- [d \in 1..3 |-> {}], MaxCrash <- 2
\* The file of a migration that has been applied differs in one of the releases.
Edited == INSTANCE Migrations WITH
  Process <- {api, command},
  Release <- [p \in {api, command} |-> IF p = api THEN <<"x", "x", "x">> ELSE <<"y", "x", "x">>],
  Initially <- <<"x">>, Guarded <- TRUE, Row <- {ra}, Drops <- [d \in 1..3 |-> {}],
  Adds <- [d \in 1..3 |-> {}], MaxCrash <- 1
\* A database of before the guard, whose ledger holds hashes of its own.
Legacy == INSTANCE Migrations WITH
  Process <- {api}, Release <- [p \in {api} |-> <<"x", "x", "x">>], Initially <- <<"l", "l">>,
  Guarded <- FALSE, Row <- {}, Drops <- [d \in 1..3 |-> {}], Adds <- [d \in 1..3 |-> {}],
  MaxCrash <- 1
\* The second migration puts a row in the place of another.
Dropping == INSTANCE Migrations WITH
  Process <- {api, command}, Release <- [p \in {api, command} |-> <<"x", "x", "x">>],
  Initially <- <<"x">>, Guarded <- TRUE, Row <- {ra, rb},
  Drops <- [d \in 1..3 |-> IF d = 2 THEN {ra} ELSE {}],
  Adds <- [d \in 1..3 |-> IF d = 2 THEN {rb} ELSE {}], MaxCrash <- 1
\* Analytics: one tab that two users share, and increments that fail.
Stored == INSTANCE Analytics WITH
  Tab <- {t1}, User <- {u1, u2}, MaxPending <- 2, Life <- 2, Period <- 1, MaxEvents <- 3,
  MaxDay <- 1, Faults <- {"increment"}, MaxFaults <- 1
\* Events that have become too old, in a storage for one.
Aged == INSTANCE Analytics WITH
  Tab <- {t1}, User <- {u1}, MaxPending <- 1, Life <- 2, Period <- 1, MaxEvents <- 2,
  MaxDay <- 3, Faults <- {"increment"}, MaxFaults <- 1
\* Everything may fail, and marks expire.
Resent == INSTANCE Analytics WITH
  Tab <- {t1}, User <- {u1}, MaxPending <- 2, Life <- 2, Period <- 1, MaxEvents <- 2,
  MaxDay <- 2, Faults <- {"increment", "redis", "lost", "crash"}, MaxFaults <- 2
\* Two tabs send the same event.
Tabs == INSTANCE Analytics WITH
  Tab <- {t1, t2}, User <- {u1}, MaxPending <- 2, Life <- 2, Period <- 1, MaxEvents <- 1,
  MaxDay <- 2, Faults <- {"increment", "redis", "lost", "crash"}, MaxFaults <- 1

ASSUME
  /\ Sessions!AuthAssumption
  /\ Admins!AuthAssumption
  /\ Checks!AuthAssumption
  /\ Alone!CategoriesAssumption
  /\ Overlap!CategoriesAssumption
  /\ Moves!CategoriesAssumption
  /\ Together!MigrationsAssumption
  /\ Edited!MigrationsAssumption
  /\ Legacy!MigrationsAssumption
  /\ Dropping!MigrationsAssumption
  /\ Stored!AnalyticsAssumption
  /\ Aged!AnalyticsAssumption
  /\ Resent!AnalyticsAssumption
  /\ Tabs!AnalyticsAssumption

\* What a component has no variable for stays unused in its parts.
BesideAuthSessions == <<
  parent, name, slug, home, used, req, under, ledger, guard, ran, rows, gone, pc, known, todo,
  before, crashes, today, events, pending, user, flush, request, mark, counted>>
BesideCategories == <<
  users, sessions, tombs, access, calls, owner, hashes, updates, faults, ended, rotations,
  ledger, guard, ran, rows, gone, pc, known, todo, before, crashes, today, events, pending,
  user, flush, request, mark, counted>>
BesideMigrations == <<
  users, sessions, tombs, access, calls, owner, hashes, updates, faults, ended, rotations,
  parent, name, slug, home, used, req, under, today, events, pending, user, flush, request,
  mark, counted>>
BesideAnalytics == <<
  users, sessions, tombs, access, calls, owner, hashes, updates, ended, rotations, parent, name,
  slug, home, used, req, under, ledger, guard, ran, rows, gone, pc, known, todo, before, crashes>>

NoAuthSessionsBeside ==
  /\ parent = None /\ name = None /\ slug = None /\ home = None /\ used = None /\ req = None
  /\ under = None /\ ledger = None /\ guard = None /\ ran = None /\ rows = None /\ gone = None
  /\ pc = None /\ known = None /\ todo = None /\ before = None /\ crashes = None /\ today = None
  /\ events = None /\ pending = None /\ user = None /\ flush = None /\ request = None
  /\ mark = None /\ counted = None
NoCategoriesBeside ==
  /\ users = None /\ sessions = None /\ tombs = None /\ access = None /\ calls = None
  /\ owner = None /\ hashes = None /\ updates = None /\ faults = None /\ ended = None
  /\ rotations = None /\ ledger = None /\ guard = None /\ ran = None /\ rows = None
  /\ gone = None /\ pc = None /\ known = None /\ todo = None /\ before = None /\ crashes = None
  /\ today = None /\ events = None /\ pending = None /\ user = None /\ flush = None
  /\ request = None /\ mark = None /\ counted = None
NoMigrationsBeside ==
  /\ users = None /\ sessions = None /\ tombs = None /\ access = None /\ calls = None
  /\ owner = None /\ hashes = None /\ updates = None /\ faults = None /\ ended = None
  /\ rotations = None /\ parent = None /\ name = None /\ slug = None /\ home = None
  /\ used = None /\ req = None /\ under = None /\ today = None /\ events = None /\ pending = None
  /\ user = None /\ flush = None /\ request = None /\ mark = None /\ counted = None
NoAnalyticsBeside ==
  /\ users = None /\ sessions = None /\ tombs = None /\ access = None /\ calls = None
  /\ owner = None /\ hashes = None /\ updates = None /\ ended = None /\ rotations = None
  /\ parent = None /\ name = None /\ slug = None /\ home = None /\ used = None /\ req = None
  /\ under = None /\ ledger = None /\ guard = None /\ ran = None /\ rows = None /\ gone = None
  /\ pc = None /\ known = None /\ todo = None /\ before = None /\ crashes = None

Init ==
  \/ part = "sessions" /\ Sessions!Init /\ NoAuthSessionsBeside
  \/ part = "admins" /\ Admins!Init /\ NoAuthSessionsBeside
  \/ part = "checks" /\ Checks!Init /\ NoAuthSessionsBeside
  \/ part = "alone" /\ Alone!Init /\ NoCategoriesBeside
  \/ part = "overlap" /\ Overlap!Init /\ NoCategoriesBeside
  \/ part = "moves" /\ Moves!Init /\ NoCategoriesBeside
  \/ part = "together" /\ Together!Init /\ NoMigrationsBeside
  \/ part = "edited" /\ Edited!Init /\ NoMigrationsBeside
  \/ part = "legacy" /\ Legacy!Init /\ NoMigrationsBeside
  \/ part = "dropping" /\ Dropping!Init /\ NoMigrationsBeside
  \/ part = "stored" /\ Stored!Init /\ NoAnalyticsBeside
  \/ part = "aged" /\ Aged!Init /\ NoAnalyticsBeside
  \/ part = "resent" /\ Resent!Init /\ NoAnalyticsBeside
  \/ part = "tabs" /\ Tabs!Init /\ NoAnalyticsBeside

Next ==
  /\ UNCHANGED part
  /\ \/ part = "sessions" /\ Sessions!Next /\ UNCHANGED BesideAuthSessions
     \/ part = "admins" /\ Admins!Next /\ UNCHANGED BesideAuthSessions
     \/ part = "checks" /\ Checks!Next /\ UNCHANGED BesideAuthSessions
     \/ part = "alone" /\ Alone!Next /\ UNCHANGED BesideCategories
     \/ part = "overlap" /\ Overlap!Next /\ UNCHANGED BesideCategories
     \/ part = "moves" /\ Moves!Next /\ UNCHANGED BesideCategories
     \/ part = "together" /\ Together!Next /\ UNCHANGED BesideMigrations
     \/ part = "edited" /\ Edited!Next /\ UNCHANGED BesideMigrations
     \/ part = "legacy" /\ Legacy!Next /\ UNCHANGED BesideMigrations
     \/ part = "dropping" /\ Dropping!Next /\ UNCHANGED BesideMigrations
     \/ part = "stored" /\ Stored!Next /\ UNCHANGED BesideAnalytics
     \/ part = "aged" /\ Aged!Next /\ UNCHANGED BesideAnalytics
     \/ part = "resent" /\ Resent!Next /\ UNCHANGED BesideAnalytics
     \/ part = "tabs" /\ Tabs!Next /\ UNCHANGED BesideAnalytics

vars == <<
  part, users, sessions, tombs, access, calls, owner, hashes, updates, faults, ended, rotations,
  parent, name, slug, home, used, req, under, ledger, guard, ran, rows, gone, pc, known, todo,
  before, crashes, today, events, pending, user, flush, request, mark, counted>>
Spec == Init /\ [][Next]_vars

Symmetry == Permutations({c1, c2}) \cup Permutations({s1, s2}) \cup Permutations({q1, q2})

-----------------------------------------------------------------------------
\* The tables keep their types.
TypesHold ==
  /\ part = "sessions" => Sessions!TypeOK
  /\ part = "admins" => Admins!TypeOK
  /\ part = "checks" => Checks!TypeOK
  /\ part = "alone" => Alone!TypeOK
  /\ part = "overlap" => Overlap!TypeOK
  /\ part = "moves" => Moves!TypeOK
  /\ part = "together" => Together!TypeOK
  /\ part = "edited" => Edited!TypeOK
  /\ part = "legacy" => Legacy!TypeOK
  /\ part = "dropping" => Dropping!TypeOK
  /\ part = "stored" => Stored!TypeOK
  /\ part = "aged" => Aged!TypeOK
  /\ part = "resent" => Resent!TypeOK
  /\ part = "tabs" => Tabs!TypeOK

\* A live session, and an access token signed for it, has the password and the role its account
\* has now, a refresh token is traded at most once, and there is an enabled administrator: each is
\* decided on at one await and written at a later one.
AccountsHold ==
  /\ part = "sessions" => Sessions!AccountsHold
  /\ part = "admins" => Admins!AccountsHold

\* No request is granted whose session had been revoked before the last read of its check.
GrantedBeforeEnded == [][part = "checks" => Checks!GrantedBeforeEnded]_vars

\* What the keys of the tables promise holds however requests overlap. No category falls out of
\* the tree, no two siblings get one name and no feed goes with a category, one request at a time;
\* where two overlap, only by a request that another has overtaken: a move by a move, a name by a
\* category that took or got it, a deletion by a feed that was placed.
TreeHolds ==
  [][/\ part = "alone" => Alone!TreeKept
     /\ part = "overlap" => Overlap!TreeKept
     /\ part = "moves" => Moves!TreeKept]_vars

\* An event of the product's analytics is counted once for its user, until its mark has expired;
\* and with one request at a time none is lost when its row cannot be written.
EventsCounted ==
  /\ part = "stored" => Stored!CountedForUser /\ Stored!CountedOnce /\ Stored!NothingLost
  /\ part = "aged" => Aged!CountedForUser /\ Aged!CountedOnce /\ Aged!NothingLost
  /\ part = "resent" => Resent!CountedForUser /\ Resent!CountedOnce
  /\ part = "tabs" => Tabs!CountedForUser /\ Tabs!CountedOnce

\* Each migration is applied once; a process that comes up has applied what its release has, and
\* removed no row that was there when it began.
MigratedRight ==
  [][/\ part = "together" => Together!AppliedOnce' /\ Together!UpMatches
     /\ part = "edited" => Edited!UpMatches
     /\ part = "legacy" => Legacy!AppliedOnce' /\ Legacy!UpMatches
     /\ part = "dropping" => Dropping!KnownRowsKept]_vars
=============================================================================

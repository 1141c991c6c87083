---------------------------- MODULE RefreshView -----------------------------
(***************************************************************************)
(* What a browser shows of refreshes (hooks/use-feed-refresh.ts,           *)
(* lib/feed-sync-status.ts and the queries of feed-hooks.ts) over the      *)
(* durable refresh requests of the server, reduced to their state and      *)
(* dates (durable-refresh-status.ts): that some of a request is done would *)
(* only arm the polling timer once more.                                   *)
(*                                                                         *)
(* The page watches one query: that of the request it tracks, or the       *)
(* latest one's.  An answer equal to the one before leaves the data as it  *)
(* is, and the effects that depend on it do not run again.  Commit runs    *)
(* the effects of a render; nothing else happens before it (Quiet).  Dates *)
(* are ages in ticks, counted up to MaxMonitor, beyond which none is told  *)
(* apart.                                                                  *)
(***************************************************************************)
EXTENDS Naturals, FiniteSets, FiniteSetsExt

CONSTANTS
  Requests,   \* bound: requests made, numbered
  MaxClicks,  \* bound: refreshes this browser asks for
  MaxFaults,  \* bound: requests that fail, streams that break, and reloads
  Poll,       \* SYNC_STATUS_FALLBACK_MS
  Foreground, \* SYNC_STATUS_FOREGROUND_TIMEOUT_MS
  MaxMonitor, \* SYNC_STATUS_MAX_MONITOR_MS
  Deadline,   \* MANUAL_REFRESH_REQUEST_MAX_AGE_MS: the server ends a request
  Scopes,     \* what is refreshed
  Others, Reloads, \* whether other clients ask as well, and whether the page may be reloaded
  None, Unknown

RefreshViewAssumption ==
  /\ {Requests, MaxClicks, MaxFaults, MaxMonitor} \subseteq Nat
  /\ {Poll, Foreground, Deadline} \subseteq Nat \ {0}
  /\ Foreground < MaxMonitor /\ Deadline < MaxMonitor
  /\ Scopes \subseteq {"all", "feed"} /\ {Others, Reloads} \subseteq BOOLEAN

Request == 1..Requests
Key == Request \cup {0}     \* 0: the query of the latest request
Latest == 0
Call == 1..MaxClicks

VARIABLES
  server,  \* request |-> its row
  cache,   \* query |-> its data
  after,   \* queries answered since localRefreshQueuedAt
  stale,   \* queries older than their staleTime, or invalidated
  get,     \* the query being fetched, and the answer under way
  tracked, \* trackedRequestId, as in localStorage
  local,   \* localRefreshQueuedAt
  syncing, \* syncingFeedId
  error,   \* feedSyncError, by the request that it is about
  call,    \* the browser's POSTs in their order
  was,     \* wasRefreshingAllFeeds
  armed,   \* what the polling effect last ran for
  poll,    \* its timer
  loaded,  \* finished requests whose articles the reader has fetched
  faults

vars == <<server, cache, after, stale, get, tracked, local, syncing, error, call, was, armed,
          poll, loaded, faults>>

NoRow == [state |-> "none", scope |-> "all", queued |-> None, started |-> None]
NoStatus == [id |-> None, state |-> "done"]
NoCall == [at |-> "none", scope |-> "all", ans |-> None]
NoGet == [key |-> None, ans |-> None]
Ages == 0..MaxMonitor

TypeOK ==
  /\ server \in [Request -> [state : {"none", "pending", "running", "done"},
                             scope : Scopes \cup {"all"},
                             queued : Ages \cup {None}, started : Ages \cup {None}]]
  /\ \A k \in Key : cache[k] # Unknown => cache[k].id \in Request \cup {None}
  /\ {after, stale} \subseteq SUBSET Key /\ get.key \in Key \cup {None}
  /\ tracked \in Request \cup {None} /\ local \in Ages \cup {None}
  /\ syncing \in Scopes \cup {None} /\ error \in Call \cup {None}
  /\ \A i \in Call : call[i].at \in {"none", "sent", "accepted", "asking", "over"}
  /\ poll \in 0..Poll \cup {None} /\ loaded \subseteq Request

Init ==
  /\ server = [r \in Request |-> NoRow] /\ cache = [k \in Key |-> Unknown]
  /\ after = {} /\ stale = {} /\ get = [key |-> Latest, ans |-> None] /\ tracked = None
  /\ local = None /\ syncing = None /\ error = None /\ call = [i \in Call |-> NoCall]
  /\ was = FALSE /\ armed = None /\ poll = None /\ loaded = {} /\ faults = 0

(***************************************************************************)
(* What is rendered.                                                       *)
(***************************************************************************)
Made == {r \in Request : server[r].state # "none"}
Done == {r \in Request : server[r].state = "done"}
StatusOf(r) == [id |-> r, state |-> server[r].state]
Status(k) == IF k # Latest THEN StatusOf(k) ELSE IF Made = {} THEN NoStatus ELSE StatusOf(Max(Made))

Watched == IF tracked = None THEN Latest ELSE tracked
Data == cache[Watched]
Known == Data # Unknown
Active(d) == d # Unknown /\ d.state # "done"

\* getFeedSyncStatusActiveSince: the start, or else when it was asked for.
Dated == Known /\ Data.id # None
Since == IF Data.state # "pending" /\ server[Data.id].started # None
         THEN server[Data.id].started ELSE server[Data.id].queued
Elapsed == IF Dated THEN Since ELSE IF local # None THEN local ELSE 0

Clicks == Cardinality({i \in Call : call[i].at # "none"})
\* isPending is about the call made last.
Pending == Clicks > 0 /\ call[Clicks].at \in {"sent", "accepted"}
Inactive == ~Pending /\ Known /\ ~Active(Data) /\ (local = None \/ Watched \in after)

AllPending == Pending /\ syncing = "all"
AllActive == Active(Data) /\ server[Data.id].scope = "all"
AllSettled == ~AllPending /\ Known /\ ~AllActive /\ (local = None \/ Watched \in after)
LocalActive == AllPending \/ (~AllSettled /\ (syncing = "all" \/ local # None))
IsActive == (AllActive \/ LocalActive) /\ (AllPending \/ Elapsed < MaxMonitor)
TakingLonger == IsActive /\ Elapsed >= Foreground
Blocking == IsActive /\ (AllPending \/ ~TakingLonger)

(***************************************************************************)
(* The effects of a render.  What is invalidated is fetched when it is     *)
(* watched, and the reader fetches the articles there are.                 *)
(***************************************************************************)
\* Mutant: what is tracked is given up with the first answer about it.
ForgetAtOnce == tracked # None /\ Known
Forget == tracked # None /\ Known /\ ~(Data.id = tracked /\ Active(Data))
Release == syncing # None /\ Inactive
TooLong == syncing = "all" /\ TakingLonger
Ended == was /\ ~IsActive
Changed == armed # <<Watched, Data>>
Quiet == ~Forget /\ ~Release /\ ~TooLong /\ was = IsActive /\ ~Changed

Asked(k) == get' = [key |-> k, ans |-> None]

Commit ==
  /\ ~Quiet
  /\ LET k == IF Forget THEN Latest ELSE Watched
         invalid == TooLong \/ Ended
     IN /\ tracked' = IF Forget THEN None ELSE tracked
        /\ local' = IF Release \/ TooLong THEN None ELSE local
        /\ syncing' = IF Release \/ TooLong THEN None ELSE syncing
        /\ was' = IsActive /\ armed' = <<Watched, Data>>
        /\ stale' = IF invalid THEN Key ELSE stale
        /\ loaded' = IF invalid THEN Done ELSE loaded
        /\ IF invalid \/ (Forget /\ (k \in stale \/ cache[k] = Unknown)) THEN Asked(k)
           ELSE get' = IF Forget THEN NoGet ELSE get
  /\ poll' = IF ~Changed THEN poll
             ELSE IF Active(Data) /\ Since < MaxMonitor THEN Poll ELSE None
  /\ UNCHANGED <<server, cache, after, error, call, faults>>

(***************************************************************************)
(* The user, and the calls.                                                *)
(***************************************************************************)
\* refreshFeed, for all feeds or (forced) for one that is not blocked.
Click(scope) ==
  /\ Quiet /\ ~Blocking
  /\ IF scope = "all" THEN syncing = "all" => Inactive ELSE syncing # "feed"
  /\ Clicks < MaxClicks
  /\ call' = [call EXCEPT ![Clicks + 1] = [at |-> "sent", scope |-> scope, ans |-> None]]
  /\ error' = None /\ local' = 0 /\ after' = {} /\ syncing' = scope
  /\ UNCHANGED <<server, cache, stale, get, tracked, was, armed, poll, loaded, faults>>

\* Another selection: applySelection, selectAllFeeds, selectCategory.
Select ==
  /\ Quiet /\ syncing # None /\ syncing' = None /\ error' = None
  /\ UNCHANGED <<server, cache, after, stale, get, tracked, local, call, was, armed, poll, loaded,
                 faults>>

Row(scope) == [NoRow EXCEPT !.state = "pending", !.scope = scope, !.queued = 0]
Next1 == Cardinality(Made) + 1

\* The request of a scope that is not done yet is the answer to another one for it.
Same(scope) == {r \in Made \ Done : server[r].scope = scope}

Accept(i) ==
  /\ Quiet /\ call[i].at = "sent"
  /\ \E r \in IF Same(call[i].scope) # {} THEN Same(call[i].scope) ELSE {Next1} \cap Request :
       /\ server' = IF r \in Made THEN server ELSE [server EXCEPT ![r] = Row(call[i].scope)]
       /\ call' = [call EXCEPT ![i].at = "accepted",
                              ![i].ans = [id |-> r, state |-> server'[r].state]]
  /\ UNCHANGED <<cache, after, stale, get, tracked, local, syncing, error, was, armed, poll, loaded,
                 faults>>

Rank(s) == IF s = "pending" THEN 0 ELSE IF s = "running" THEN 1 ELSE 2
\* mergeFeedSyncStatus: of two answers about one job the further one.
Merged(old, new) ==
  IF old # Unknown /\ old.id = new.id /\ Rank(old.state) > Rank(new.state) THEN old ELSE new

\* useSyncAllFeeds onSuccess, and what refreshFeed does with the answer.
Reply(i) ==
  /\ Quiet /\ call[i].at = "accepted"
  /\ LET answer == call[i].ans
         r == answer.id
     IN /\ cache' = [cache EXCEPT ![Latest] = Merged(cache[Latest], answer), ![r] = answer]
        /\ after' = after \cup {Latest, r} /\ stale' = stale \ {Latest, r}
        /\ tracked' = r /\ get' = IF Watched = r THEN get ELSE NoGet
  /\ call' = [call EXCEPT ![i].at = "over"]
  /\ UNCHANGED <<server, local, syncing, error, was, armed, poll, loaded, faults>>

\* The request, or its answer, is lost; the status is asked for.
Fail(i) ==
  /\ Quiet /\ call[i].at \in {"sent", "accepted"} /\ faults < MaxFaults
  /\ call' = [call EXCEPT ![i].at = "asking"] /\ faults' = faults + 1
  /\ UNCHANGED <<server, cache, after, stale, get, tracked, local, syncing, error, was, armed, poll,
                 loaded>>

Reconcile(i) ==
  /\ Quiet /\ call[i].at = "asking"
  /\ \E ok \in BOOLEAN :
       /\ ok \/ faults < MaxFaults
       /\ faults' = IF ok THEN faults ELSE faults + 1
       /\ cache' = IF ok THEN [cache EXCEPT ![Watched] = Status(Watched)] ELSE cache
       /\ after' = IF ok THEN after \cup {Watched} ELSE after
       /\ stale' = IF ok THEN stale \ {Watched} ELSE stale
       /\ get' = NoGet
  /\ call' = [call EXCEPT ![i].at = "over"]
  /\ IF Active(cache'[Watched]) THEN UNCHANGED <<error, local, syncing>>
     ELSE /\ error' = i /\ local' = None
          /\ syncing' = IF syncing = call[i].scope THEN None ELSE syncing
  /\ UNCHANGED <<server, tracked, was, armed, poll, loaded>>

(***************************************************************************)
(* The status query.                                                       *)
(***************************************************************************)
PollDue ==
  /\ Quiet /\ poll = 0 /\ poll' = None /\ Asked(Watched)
  /\ UNCHANGED <<server, cache, after, stale, tracked, local, syncing, error, call, was, armed,
                 loaded, faults>>

Read ==
  /\ Quiet /\ get.key # None /\ get.ans = None
  /\ get' = [get EXCEPT !.ans = Status(get.key)]
  /\ UNCHANGED <<server, cache, after, stale, tracked, local, syncing, error, call, was, armed,
                 poll, loaded, faults>>

Arrive ==
  /\ Quiet /\ get.key # None /\ get.ans # None
  /\ cache' = [cache EXCEPT ![get.key] = get.ans] /\ get' = NoGet
  /\ after' = after \cup {get.key} /\ stale' = stale \ {get.key}
  /\ UNCHANGED <<server, tracked, local, syncing, error, call, was, armed, poll, loaded, faults>>

GetFails ==
  /\ Quiet /\ get.key # None /\ faults < MaxFaults
  /\ get' = NoGet /\ faults' = faults + 1
  /\ UNCHANGED <<server, cache, after, stale, tracked, local, syncing, error, call, was, armed,
                 poll, loaded>>

\* The event stream comes back: what is shown is fetched again, and the timer set anew.
Reconnect ==
  /\ Quiet /\ faults < MaxFaults /\ faults' = faults + 1
  /\ stale' = Key /\ loaded' = Done /\ armed' = None
  /\ IF get.key = None THEN Asked(Watched) ELSE UNCHANGED get
  /\ UNCHANGED <<server, cache, after, tracked, local, syncing, error, call, was, poll>>

\* The page is loaded again; localStorage keeps the request.
Reload ==
  /\ Quiet /\ Reloads /\ faults < MaxFaults /\ faults' = faults + 1
  /\ cache' = [k \in Key |-> Unknown] /\ after' = {} /\ stale' = {} /\ Asked(Watched)
  /\ local' = None /\ syncing' = None /\ error' = None /\ was' = FALSE /\ armed' = None
  /\ poll' = None /\ loaded' = Done
  /\ call' = [i \in Call |-> IF call[i].at = "none" THEN NoCall ELSE [call[i] EXCEPT !.at = "over"]]
  /\ UNCHANGED <<server, tracked>>

(***************************************************************************)
(* The server.  Of the new articles an event may tell.                     *)
(***************************************************************************)
Move(r, row) ==
  /\ server' = [server EXCEPT ![r] = row]
  /\ UNCHANGED <<cache, after, stale, get, tracked, local, syncing, error, call, was, armed, poll,
                 faults>>

Start(r) ==
  /\ Quiet /\ server[r].state = "pending" /\ UNCHANGED loaded
  /\ Move(r, [server[r] EXCEPT !.state = "running", !.started = 0])

Finish(r) ==
  /\ Quiet /\ server[r].state \in {"pending", "running"}
  /\ Move(r, [server[r] EXCEPT !.state = "done"])
  /\ \E heard \in BOOLEAN : loaded' = IF heard THEN loaded \cup {r} ELSE loaded

OtherClient(scope) ==
  /\ Quiet /\ Others /\ Next1 \in Request /\ Same(scope) = {} /\ UNCHANGED loaded
  /\ Move(Next1, Row(scope))

Older(age) == IF age = None THEN None ELSE Min({age + 1, MaxMonitor})

\* A tick is longer than a request takes, or its timeout, and than an answer stays fresh.
Tick ==
  /\ Quiet /\ poll # 0 /\ get.key = None /\ \A i \in Call : call[i].at \in {"none", "over"}
  /\ \A r \in Made : server[r].state # "done" => server[r].queued < Deadline
  /\ server' = [r \in Request |-> [server[r] EXCEPT !.queued = Older(@), !.started = Older(@)]]
  /\ local' = Older(local) /\ stale' = Key
  /\ poll' = IF poll = None THEN None ELSE poll - 1
  /\ UNCHANGED <<cache, after, get, tracked, syncing, error, call, was, armed, loaded, faults>>

Next ==
  \/ Commit \/ Select \/ PollDue \/ Read \/ Arrive \/ GetFails \/ Reconnect \/ Reload \/ Tick
  \/ \E s \in Scopes : Click(s) \/ OtherClient(s)
  \/ \E i \in Call : Accept(i) \/ Reply(i) \/ Fail(i) \/ Reconcile(i)
  \/ \E r \in Request : Start(r) \/ Finish(r)

Spec == Init /\ [][Next]_vars

(***************************************************************************)
(* Properties.                                                             *)
(***************************************************************************)
\* A request is given up by the page only when the server is done with it (or for a newer one).
GivenUpDone ==
  tracked # None /\ tracked' # tracked => tracked \in Done \/ tracked' \in Request

\* A refresh just asked for is shown in the foreground ("keeps local refresh state active while
\* waiting for a post-refresh status response").
StartsInFront == AllPending /\ local = 0 => ~TakingLonger

\* A request whose end was shown is not shown as active again ("releases a completed tracked
\* request and resumes latest-status tracking").
NotRevived ==
  tracked # None /\ Known /\ Data.id = tracked /\ ~Active(Data) /\ tracked' = None =>
   ~(Active(cache'[Latest]) /\ cache'[Latest].id = tracked)

\* The loader of one feed always goes away.
FeedReleased == [](syncing = "feed" => <>(syncing # "feed"))

\* No error is shown of a refresh that the server accepted, when the status could be asked for
\* ("keeps loading when the queue response fails after the backend accepted the refresh").
ErrorIsTrue == error # None /\ faults <= 1 => call[error].ans = None
=============================================================================

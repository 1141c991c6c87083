----------------------------- MODULE Analytics ------------------------------
(***************************************************************************)
(* Product analytics: events that browsers keep in localStorage until the  *)
(* server has taken them, and recordClientEvents, which counts each in the *)
(* row of its user and day.  A mark in Redis, which lives for eight days,  *)
(* keeps an event that is sent again from being counted again; marks are   *)
(* set one by one, then the rows of the days are incremented one by one.   *)
(*                                                                         *)
(* The tabs share the storage; reading and writing it back is one turn of  *)
(* a tab.  The days pass between requests only.  Events are numbered as    *)
(* they happen, which is the order in which they are stored, sent and      *)
(* marked: a set of numbers stands for a list of events.                   *)
(***************************************************************************)
EXTENDS Integers, Sequences, FiniteSets

CONSTANTS
  Tab, User,
  NoUser,      \* nobody is signed in
  MaxPending,  \* MAX_PENDING_EVENTS
  Life,        \* EVENT_DEDUP_TTL_SECONDS, in days
  Period,      \* REPORT_PERIOD_DAYS
  MaxEvents,   \* bound on the events that happen
  MaxDay,      \* bound on the days that pass
  Faults,      \* what may fail: "increment", "redis", "lost", "crash"
  MaxFaults    \* bound on the failures

AnalyticsAssumption ==
  /\ NoUser \notin User
  /\ {MaxPending, Life, Period} \subseteq Nat \ {0} /\ {MaxEvents, MaxDay, MaxFaults} \subseteq Nat
  /\ Faults \subseteq {"increment", "redis", "lost", "crash"}

VARIABLES
  today,
  events,   \* what has happened: the user and the day of each event, by its number
  pending,  \* the numbers that localStorage has
  user,     \* activeUserId of each tab
  flush,    \* the request that flushPromise of each tab waits for, or 0
  request,  \* what recordClientEvents has done for each request
  mark,     \* the days that the mark of an event has left
  counted,  \* the days on which an event was counted
  faults

vars == <<today, events, pending, user, flush, request, mark, counted, faults>>

Id == 1..MaxEvents
Requests == 1..MaxFaults + Cardinality(Tab)
Phase == {"free", "marking", "counting", "undoing", "ok", "failed"}
NoRequest == [phase |-> "free", for |-> NoUser, sent |-> {}, left |-> {}, got |-> {}]

TypeOK ==
  /\ today \in 0..MaxDay /\ faults \in 0..MaxFaults
  /\ events \in Seq([user : User, day : Nat]) /\ Len(events) <= MaxEvents
  /\ pending \subseteq Id
  /\ user \in [Tab -> User \cup {NoUser}] /\ flush \in [Tab -> {0} \cup Requests]
  /\ request \in [Requests -> [phase : Phase, for : User \cup {NoUser},
                               sent : SUBSET Id, left : SUBSET Id, got : SUBSET Id]]
  /\ mark \in [Id -> 0..Life] /\ counted \in [Id -> Seq(Nat)]

Init ==
  /\ today = 0 /\ faults = 0 /\ events = <<>> /\ pending = {}
  /\ user = [t \in Tab |-> NoUser] /\ flush = [t \in Tab |-> 0]
  /\ request = [r \in Requests |-> NoRequest]
  /\ mark = [e \in Id |-> 0] /\ counted = [e \in Id |-> <<>>]

(***************************************************************************)
(* The browser.                                                            *)
(***************************************************************************)
IsFirst(e, s) == e \in s /\ \A f \in s : e <= f

\* savePendingEvents: the last MaxPending.
Kept(s) == {e \in s : Cardinality({f \in s : f >= e}) <= MaxPending}

\* Mutant of Mine: all that the storage has is sent.
MineAll(t, stored, es) == stored

\* The events of the user who is signed in in the tab.
Mine(t, stored, es) == {e \in stored : es[e].user = user[t]}

\* flushProductAnalyticsEvents, with what the storage has: nothing if a flush is on its way.
StartFlush(t, stored, es) ==
  LET sent == Mine(t, stored, es) IN
  IF flush[t] # 0 \/ user[t] = NoUser \/ sent = {} THEN UNCHANGED <<flush, request>>
  ELSE \E r \in Requests :
         /\ request[r].phase = "free"
         /\ \A q \in Requests : q < r => request[q].phase # "free"
         /\ flush' = [flush EXCEPT ![t] = r]
         /\ request' = [request EXCEPT ![r] = [phase |-> "marking", for |-> user[t],
                                               sent |-> sent, left |-> sent, got |-> {}]]

\* queueProductAnalyticsEvent; offline, the flush returns at once.
Record(t, online) ==
  /\ user[t] # NoUser /\ Len(events) < MaxEvents
  /\ events' = Append(events, [user |-> user[t], day |-> today])
  /\ pending' = Kept(pending \cup {Len(events) + 1})
  /\ IF online THEN StartFlush(t, pending', events') ELSE UNCHANGED <<flush, request>>
  /\ UNCHANGED <<today, user, mark, counted, faults>>

\* A flush at sign-in, or when the connection is back.
Flush(t) ==
  /\ StartFlush(t, pending, events)
  /\ UNCHANGED <<today, events, pending, user, mark, counted, faults>>

\* setProductAnalyticsUser: before another user signs in, the first one signs out.
SignIn(t, u) ==
  /\ (u = NoUser) # (user[t] = NoUser)
  /\ user' = [user EXCEPT ![t] = u]
  /\ UNCHANGED <<today, events, pending, flush, request, mark, counted, faults>>

\* The answer: what was sent leaves the storage, whatever the server says it accepted.
Answered(t, ok) ==
  LET r == flush[t] IN
  /\ r # 0 /\ request[r].phase = IF ok THEN "ok" ELSE "failed"
  /\ pending' = IF ok THEN pending \ request[r].sent ELSE pending
  /\ flush' = [flush EXCEPT ![t] = 0]
  /\ request' = [request EXCEPT ![r] = NoRequest]
  /\ UNCHANGED <<today, events, user, mark, counted, faults>>

Fails(kind) == kind \in Faults /\ faults < MaxFaults /\ faults' = faults + 1

\* The connection breaks, or the page is loaded again; the server goes on.
Lose(t) ==
  /\ Fails("lost") /\ flush[t] # 0
  /\ flush' = [flush EXCEPT ![t] = 0]
  /\ UNCHANGED <<today, events, pending, user, request, mark, counted>>

\* A request that nobody waits for is forgotten when it is done.
Forget(r) ==
  /\ request[r].phase \in {"ok", "failed"} /\ \A t \in Tab : flush[t] # r
  /\ request' = [request EXCEPT ![r] = NoRequest]
  /\ UNCHANGED <<today, events, pending, user, flush, mark, counted, faults>>

(***************************************************************************)
(* The server: recordClientEvents.                                         *)
(***************************************************************************)
\* Mutant of Acceptable: an event may be of any day.
AcceptableAlways(e) == TRUE

\* Neither older than two periods nor of a day to come.
Acceptable(e) == events[e].day \in (today - 2 * Period)..today

\* Mutant of Mark: the mark is not looked at.
MarkBlindly(r, e) ==
  /\ request[r].phase = "marking" /\ IsFirst(e, request[r].left)
  /\ mark' = [mark EXCEPT ![e] = IF Acceptable(e) THEN Life ELSE @]
  /\ request' = [request EXCEPT ![r].left = @ \ {e},
                                ![r].got = IF Acceptable(e) THEN @ \cup {e} ELSE @]
  /\ UNCHANGED <<today, events, pending, user, flush, counted, faults>>

\* SET NX of an event's mark: one that has a mark, or is too old, is passed over.
Mark(r, e) ==
  LET accepted == Acceptable(e) /\ mark[e] = 0 IN
  /\ request[r].phase = "marking" /\ IsFirst(e, request[r].left)
  /\ mark' = IF accepted THEN [mark EXCEPT ![e] = Life] ELSE mark
  /\ request' = [request EXCEPT ![r].left = request[r].left \ {e},
                                ![r].got = request[r].got \cup IF accepted THEN {e} ELSE {}]
  /\ UNCHANGED <<today, events, pending, user, flush, counted, faults>>

\* All are marked.
Marked(r) ==
  /\ request[r].phase = "marking" /\ request[r].left = {}
  /\ request' = [request EXCEPT ![r].phase = IF request[r].got = {} THEN "ok" ELSE "counting"]
  /\ UNCHANGED <<today, events, pending, user, flush, mark, counted, faults>>

\* Redis fails while marks are set: those that are set stay.
MarkFails(r) ==
  /\ Fails("redis") /\ request[r].phase = "marking" /\ request[r].left # {}
  /\ request' = [request EXCEPT ![r].phase = "failed"]
  /\ UNCHANGED <<today, events, pending, user, flush, mark, counted>>

OfDay(s, d) == {e \in s : events[e].day = d}

\* incrementProductCounts for the first of the days that are left.
Count(r, e) ==
  LET now == OfDay(request[r].got, events[e].day)
      left == request[r].got \ now
  IN
  /\ request[r].phase = "counting" /\ IsFirst(e, request[r].got)
  /\ counted' = [f \in Id |-> IF f \in now THEN Append(counted[f], today) ELSE counted[f]]
  /\ request' = [request EXCEPT ![r].got = left,
                                ![r].phase = IF left = {} THEN "ok" ELSE "counting"]
  /\ UNCHANGED <<today, events, pending, user, flush, mark, faults>>

\* The increment fails, and has not been written.
CountFails(r) ==
  /\ Fails("increment") /\ request[r].phase = "counting"
  /\ request' = [request EXCEPT ![r].phase = "undoing"]
  /\ UNCHANGED <<today, events, pending, user, flush, mark, counted>>

\* Mutant of Undo: the marks of the days that were counted are taken back too.
UndoAll(r) ==
  /\ request[r].phase = "undoing"
  /\ mark' = [e \in Id |-> IF e \in request[r].sent THEN 0 ELSE mark[e]]
  /\ request' = [request EXCEPT ![r].phase = "failed"]
  /\ UNCHANGED <<today, events, pending, user, flush, counted, faults>>

\* The marks of the days that were not counted are taken back.
Undo(r) ==
  /\ request[r].phase = "undoing"
  /\ mark' = [e \in Id |-> IF e \in request[r].got THEN 0 ELSE mark[e]]
  /\ request' = [request EXCEPT ![r].phase = "failed"]
  /\ UNCHANGED <<today, events, pending, user, flush, counted, faults>>

UndoFails(r) ==
  /\ Fails("redis") /\ request[r].phase = "undoing"
  /\ request' = [request EXCEPT ![r].phase = "failed"]
  /\ UNCHANGED <<today, events, pending, user, flush, mark, counted>>

\* The process stops between two steps.
Crash(r) ==
  /\ Fails("crash") /\ request[r].phase \in {"marking", "counting", "undoing"}
  /\ request' = [request EXCEPT ![r].phase = "failed"]
  /\ UNCHANGED <<today, events, pending, user, flush, mark, counted>>

Day ==
  /\ today < MaxDay /\ \A r \in Requests : request[r].phase = "free"
  /\ today' = today + 1
  /\ mark' = [e \in Id |-> IF mark[e] > 0 THEN mark[e] - 1 ELSE 0]
  /\ UNCHANGED <<events, pending, user, flush, request, counted, faults>>

Next ==
  \/ Day
  \/ \E t \in Tab :
       \/ \E online \in BOOLEAN : Record(t, online)
       \/ Flush(t)
       \/ \E u \in User \cup {NoUser} : SignIn(t, u)
       \/ \E ok \in BOOLEAN : Answered(t, ok)
       \/ Lose(t)
  \/ \E r \in Requests :
       \/ \E e \in Id : Mark(r, e) \/ Count(r, e)
       \/ Forget(r) \/ Marked(r) \/ MarkFails(r) \/ CountFails(r) \/ Undo(r)
       \/ UndoFails(r) \/ Crash(r)

Spec == Init /\ [][Next]_vars

(***************************************************************************)
(* getReport: the days that it lists, and those it reads for the users who *)
(* come back.                                                              *)
(***************************************************************************)
Listed == (today - Period)..(today - 1)
ReadFrom == today - 2 * Period

\* A user is active on a day that has a row of theirs.
ActiveOn(u, d) == \E e \in 1..Len(events) : events[e] = [user |-> u, day |-> d] /\ counted[e] # <<>>

\* retention: who was there in the window before, and who of them is there in this one.
Eligible(w) == {u \in User : \E d \in (today - 2 * w)..(today - w - 1) : ActiveOn(u, d)}
Returning(w) == {u \in Eligible(w) : \E d \in (today - w)..today : ActiveOn(u, d)}

(***************************************************************************)
(* Properties.                                                             *)
(***************************************************************************)
\* However often an event is sent, by however many tabs, and whatever fails between its mark and
\* its row: it is counted twice only when its mark has expired.
CountedOnce ==
  \A e \in Id : \A i, j \in DOMAIN counted[e] : i < j => counted[e][j] - counted[e][i] >= Life

\* With one request at a time, and increments that fail, an event of the last MaxPending that is
\* not too old waits in the storage until it is counted.
NothingLost ==
  \A e \in 1..Len(events) :
    e > Len(events) - MaxPending /\ Acceptable(e) => e \in pending \/ counted[e] # <<>>

\* An event is counted for the user who is signed in where it is sent, in a row that a report of
\* the day reads.
CountedForUser ==
  \A r \in Requests :
    request[r].phase = "counting" =>
      \A e \in request[r].got :
        events[e].user = request[r].for /\ events[e].day >= ReadFrom
=============================================================================

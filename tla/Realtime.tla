------------------------------ MODULE Realtime ------------------------------
(***************************************************************************)
(* Event streams of one API process (services/realtime.service.ts,         *)
(* routes/events.ts, utils/sse-registry.ts).  All streams of a process     *)
(* share one Redis connection that subscribes to a channel per user; it is *)
(* made for the first stream, given up with the last, and replaced when it *)
(* reports an error.                                                       *)
(*                                                                         *)
(* Every await is a step boundary; what was waited for and is there goes   *)
(* on before anything else happens (Settled).  A connection answers its    *)
(* commands in their order; what the client library does is modelled from  *)
(* its use.                                                                *)
(***************************************************************************)
EXTENDS Naturals, FiniteSets, Sequences

CONSTANTS
  User, Stream,
  Owner,        \* stream |-> its user
  MaxStreams,   \* MAX_CONNECTIONS_PER_USER
  MaxReconnect, \* MAX_RECONNECT_ATTEMPTS
  Conns,        \* bound: connections made, numbered
  MaxBreaks,    \* bound: errors of connections
  MaxOpens      \* bound: times a client opens a stream

RealtimeAssumption ==
  /\ User # {} /\ Owner \in [Stream -> User]
  /\ {MaxStreams, MaxReconnect, Conns} \subseteq Nat \ {0}
  /\ {MaxBreaks, MaxOpens} \subseteq Nat /\ 0 \notin Stream

Conn == 1..Conns
NoConn == 0

VARIABLES
  sub,       \* subscriber: the connection in use
  joining,   \* connecting: the connection that ensureSubscriber waits for
  handlers,  \* user |-> streams that have a handler
  count,     \* connectionsByUser
  pending,   \* pendingSubscriptionsByChannel: the connection that was asked
  attempts,  \* reconnectAttempts
  conn,      \* connection |-> its state, commands to answer, and channels
  again,     \* connection |-> channels it has been told to take up on connecting
  str,       \* stream |-> what it is at, and what it waits for
  gone,      \* streams whose client has left (closed)
  registry,  \* sseRegistry
  fix,       \* connections whose quit an error handler waits for
  opens, breaks

vars == <<sub, joining, handlers, count, pending, attempts, conn, again, str, gone, registry,
          fix, opens, breaks>>

\* "wait": connect() was called, and its promise has not settled.
NewConn == [state |-> "none", todo |-> <<>>, chans |-> {}, wait |-> FALSE]
Idle == [at |-> "idle", on |-> NoConn]

TypeOK ==
  /\ {sub, joining} \subseteq Conn \cup {NoConn} /\ attempts \in 0..MaxReconnect
  /\ handlers \in [User -> SUBSET Stream] /\ count \in [User -> Nat]
  /\ pending \in [User -> Conn \cup {NoConn}] /\ again \in [Conn -> SUBSET User]
  /\ \A c \in Conn : /\ conn[c].state \in {"none", "idle", "opening", "up", "broken", "quit"}
                     /\ conn[c].chans \subseteq User
  /\ str \in [Stream -> [at : {"idle", "joining", "joined", "asking", "asked", "open", "closing",
                               "leaving", "left", "refused", "failed"}, on : Conn \cup {NoConn}]]
  /\ gone \subseteq Stream /\ registry \subseteq Stream /\ fix \subseteq Conn \cup {NoConn}
  /\ opens \in 0..MaxOpens /\ breaks \in 0..MaxBreaks

Init ==
  /\ sub = NoConn /\ joining = NoConn /\ handlers = [u \in User |-> {}]
  /\ count = [u \in User |-> 0] /\ pending = [u \in User |-> NoConn] /\ attempts = 0
  /\ conn = [c \in Conn |-> NewConn] /\ again = [c \in Conn |-> {}]
  /\ str = [s \in Stream |-> Idle] /\ gone = {} /\ registry = {} /\ fix = {}
  /\ opens = 0 /\ breaks = 0

\* Nothing that can go on is left in this turn of the event loop.
Ready(d) == d \in {NoConn} \cup {c \in Conn : conn[c].state = "quit"}
Settled == /\ \A s \in Stream : str[s].at \notin {"joined", "asked", "closing", "left"}
           /\ \A d \in fix : ~Ready(d)

Unused == {c \in Conn : conn[c].state = "none"}
Fresh == CHOOSE c \in Unused : TRUE
Running(c) == c # NoConn /\ conn[c].state # "quit"

\* A command is put in the connection's queue, and wakes a stream or, for 0,
\* the loop that subscribes again.  A lazy connection opens on its first.
Queued(c, what, u, s) ==
  [conn EXCEPT ![c].todo = Append(@, [what |-> what, u |-> u, for |-> s]),
               ![c].state = IF @ = "idle" THEN "opening" ELSE @]
Dropped(c) == [conn EXCEPT ![c].todo = Append(@, [what |-> "quit", u |-> CHOOSE u \in User : TRUE,
                                                  for |-> 0])]

(***************************************************************************)
(* ensureSubscriber.  connecting ??= ...: a connection that comes while    *)
(* the promise of another is there is not told to connect.                 *)
(***************************************************************************)
Ensure ==
  IF sub # NoConn THEN UNCHANGED <<sub, joining, conn>>
  ELSE /\ Unused # {}
       /\ sub' = Fresh
       /\ conn' = [conn EXCEPT ![Fresh].state = IF joining = NoConn THEN "opening" ELSE "idle",
                               ![Fresh].wait = (joining = NoConn)]
       /\ joining' = IF joining = NoConn THEN Fresh ELSE joining

\* A client opens a stream: GET /events/stream.
Open(s) ==
  /\ Settled
  /\ str[s].at = "idle" /\ opens < MaxOpens
  /\ opens' = opens + 1 /\ registry' = registry \cup {s} /\ Ensure
  /\ str' = [str EXCEPT ![s] = IF joining' = NoConn THEN [at |-> "joined", on |-> NoConn]
                               ELSE [at |-> "joining", on |-> joining']]
  /\ UNCHANGED <<handlers, count, pending, attempts, again, gone, fix, breaks>>

\* The catch of the route: an error event, and the end of the stream.
Ends(s, how) ==
  /\ str' = [str EXCEPT ![s] = [at |-> how, on |-> NoConn]]
  /\ registry' = registry \ {s}

Full(u, last) == count[u] >= MaxStreams

\* Mutant of Opened: it is not looked at whether the client is still there.
OpenedAlways(s) == "open"

Opened(s) == IF s \in gone THEN "closing" ELSE "open"

\* The handler is registered, and taken back at once if the client has left.
Commit(s) ==
  LET u == Owner[s] IN
  IF sub = NoConn
  THEN Ends(s, "failed") /\ UNCHANGED <<handlers, count>>
  ELSE IF Full(u, TRUE)
  THEN Ends(s, "refused") /\ UNCHANGED <<handlers, count>>
  ELSE /\ handlers' = [handlers EXCEPT ![u] = @ \cup {s}]
       /\ count' = [count EXCEPT ![u] = @ + 1]
       /\ str' = [str EXCEPT ![s] = [at |-> Opened(s), on |-> NoConn]]
       /\ UNCHANGED registry

\* subscribe, after ensureSubscriber.
Subscribe(s) ==
  LET u == Owner[s]
      c == IF pending[u] = NoConn THEN sub ELSE pending[u]
  IN
  /\ str[s].at = "joined"
  /\ \/ /\ Full(u, FALSE) \/ (handlers[u] = {} /\ c = NoConn)
        /\ Ends(s, IF Full(u, FALSE) THEN "refused" ELSE "failed")
        /\ UNCHANGED <<handlers, count, pending, conn>>
     \/ /\ ~Full(u, FALSE) /\ handlers[u] # {} /\ Commit(s) /\ UNCHANGED <<pending, conn>>
     \/ /\ ~Full(u, FALSE) /\ handlers[u] = {} /\ c # NoConn
        /\ pending' = [pending EXCEPT ![u] = c]
        /\ str' = [str EXCEPT ![s] = [at |-> "asking", on |-> c]]
        /\ conn' = IF pending[u] = NoConn /\ Running(c) THEN Queued(c, "sub", u, s) ELSE conn
        /\ UNCHANGED <<handlers, count, registry>>
  /\ UNCHANGED <<sub, joining, attempts, again, gone, fix, opens, breaks>>

\* The subscription is there: the streams that waited go on one by one.
Subscribed(s) ==
  LET u == Owner[s] IN
  /\ str[s].at = "asked" /\ Commit(s)
  /\ pending' = [pending EXCEPT ![u] = IF @ = str[s].on THEN NoConn ELSE @]
  /\ UNCHANGED <<sub, joining, attempts, conn, again, gone, fix, opens, breaks>>

\* The client goes away: abort, or the stream is cancelled.  A stream that
\* is not open yet finds out when it is.
Gone(s) ==
  /\ Settled
  /\ str[s].at \in {"joining", "asking", "open"} /\ s \notin gone
  /\ gone' = gone \cup {s} /\ registry' = registry \ {s}
  /\ str' = [str EXCEPT ![s].at = IF @ = "open" THEN "closing" ELSE @]
  /\ UNCHANGED <<sub, joining, handlers, count, pending, attempts, conn, again, fix, opens, breaks>>

\* unsubscribe, the part before its await.
Leave(s) ==
  LET u == Owner[s]  last == handlers[u] = {s} IN
  /\ str[s].at = "closing"
  /\ handlers' = [handlers EXCEPT ![u] = @ \ {s}]
  /\ count' = [count EXCEPT ![u] = IF @ > 1 THEN @ - 1 ELSE 0]
  /\ IF ~last
     THEN str' = [str EXCEPT ![s] = Idle] /\ gone' = gone \ {s} /\ UNCHANGED conn
     ELSE /\ str' = [str EXCEPT ![s] = [at |-> IF Running(sub) THEN "leaving" ELSE "left",
                                        on |-> sub]]
          /\ conn' = IF Running(sub) THEN Queued(sub, "unsub", u, s) ELSE conn
          /\ UNCHANGED gone
  /\ UNCHANGED <<sub, joining, pending, attempts, again, registry, fix, opens, breaks>>

NobodyLeft == \A u \in User : handlers[u] = {}

\* ... and after it: without handlers the connection is given up.
Left(s) ==
  /\ str[s].at = "left"
  /\ str' = [str EXCEPT ![s] = Idle] /\ gone' = gone \ {s}
  /\ IF NobodyLeft /\ sub # NoConn
     THEN sub' = NoConn /\ conn' = IF Running(sub) THEN Dropped(sub) ELSE conn
     ELSE UNCHANGED <<sub, conn>>
  /\ UNCHANGED <<joining, handlers, count, pending, attempts, again, registry, fix, opens, breaks>>

\* A client whose stream ended, and was told so, may open another.
Retry(s) ==
  /\ str[s].at \in {"refused", "failed"}
  /\ str' = [str EXCEPT ![s] = Idle] /\ gone' = gone \ {s}
  /\ UNCHANGED <<sub, joining, handlers, count, pending, attempts, conn, again, registry, fix,
                 opens, breaks>>

(***************************************************************************)
(* The connection.                                                         *)
(***************************************************************************)
Woken(c) == [s \in Stream |-> IF str[s] = [at |-> "joining", on |-> c]
                              THEN [str[s] EXCEPT !.at = "joined"] ELSE str[s]]

\* It is up; if ensureSubscriber waits for it, channels are taken up again.
Up(c) ==
  /\ Settled
  /\ conn[c].state = "opening" /\ conn' = [conn EXCEPT ![c].state = "up"]
  /\ UNCHANGED <<sub, joining, handlers, count, pending, attempts, again, str, gone, registry, fix,
                 opens, breaks>>

\* Mutant of ToTakeUp: a new connection takes up nothing.
ToTakeUpNone(c) == {}

ToTakeUp(c) == {u \in User \ again[c] : handlers[u] # {}}

\* resubscribeActiveChannels: one after another; then those who wait go on.
TakeUp(c) ==
  /\ Settled
  /\ conn[c].state = "up" /\ conn[c].wait
  /\ \A i \in DOMAIN conn[c].todo : conn[c].todo[i].for # 0
  /\ IF ToTakeUp(c) # {}
     THEN \E u \in ToTakeUp(c) :
            /\ conn' = Queued(c, "sub", u, 0) /\ again' = [again EXCEPT ![c] = @ \cup {u}]
            /\ UNCHANGED <<joining, str>>
     ELSE /\ joining' = NoConn /\ str' = Woken(c)
          /\ conn' = [conn EXCEPT ![c].wait = FALSE] /\ UNCHANGED again
  /\ UNCHANGED <<sub, handlers, count, pending, attempts, gone, registry, fix, opens, breaks>>

\* Redis answers the first command.
Answer(c) ==
  LET head == Head(conn[c].todo)
      on == [conn EXCEPT ![c].todo = Tail(@)]
  IN
  /\ Settled
  /\ conn[c].state = "up" /\ conn[c].todo # <<>>
  /\ \/ /\ head.what = "sub" /\ conn' = [on EXCEPT ![c].chans = @ \cup {head.u}]
        /\ str' = [s \in Stream |-> IF head.for # 0 /\ Owner[s] = head.u
                                       /\ str[s] = [at |-> "asking", on |-> c]
                                    THEN [at |-> "asked", on |-> c] ELSE str[s]]
     \/ /\ head.what = "unsub" /\ conn' = [on EXCEPT ![c].chans = @ \ {head.u}]
        /\ str' = [str EXCEPT ![head.for].at = "left"]
     \/ /\ head.what = "quit" /\ conn' = [conn EXCEPT ![c].state = "quit", ![c].chans = {}]
        /\ str' = [s \in Stream |-> IF str[s].on = c /\ str[s].at = "asking"
                                    THEN [str[s] EXCEPT !.at = "failed"]
                                    ELSE IF str[s].on = c /\ str[s].at = "leaving"
                                    THEN [str[s] EXCEPT !.at = "left"] ELSE str[s]]
  /\ registry' = {s \in registry : str'[s].at # "failed"}
  /\ pending' = [u \in User |-> IF head.what = "quit" /\ pending[u] = c THEN NoConn ELSE pending[u]]
  /\ UNCHANGED <<sub, joining, handlers, count, attempts, again, gone, fix, opens, breaks>>

Reacts == attempts < MaxReconnect

Quits(c) == \E i \in DOMAIN conn[c].todo : conn[c].todo[i].what = "quit"

TakingUp(c) ==
  \E i \in DOMAIN conn[c].todo : conn[c].todo[i].for = 0 /\ conn[c].todo[i].what = "sub"

\* An error.  The handler quits whatever subscriber there is and will make
\* another; after too many errors it does nothing.  Commands under way fail
\* with the connection, or when it has been tried too often; the promise of
\* connecting fails with them, and forgets whatever subscriber there is.
Break(c, tired) ==
  LET act == Reacts
      ends == (act /\ sub = c) \/ Quits(c)
      fails == ends \/ tired
      rejects == conn[c].wait /\ (conn[c].state = "opening" \/ (TakingUp(c) /\ fails))
      failed(s) == /\ str[s].on = c
                   /\ (str[s].at = "asking" /\ fails) \/ (str[s].at = "joining" /\ rejects)
      left(s) == str[s].on = c /\ str[s].at = "leaving" /\ fails
  IN
  /\ Settled
  /\ conn[c].state \in {"opening", "up"} /\ breaks < MaxBreaks /\ breaks' = breaks + 1
  /\ str' = [s \in Stream |-> IF failed(s) THEN [at |-> "failed", on |-> NoConn]
                              ELSE IF left(s) THEN [str[s] EXCEPT !.at = "left"] ELSE str[s]]
  /\ registry' = {s \in registry : ~failed(s)}
  /\ pending' = [u \in User |-> IF pending[u] = c /\ fails THEN NoConn ELSE pending[u]]
  /\ attempts' = IF act THEN attempts + 1 ELSE attempts
  /\ fix' = IF act THEN fix \cup {sub} ELSE fix
  /\ sub' = IF act \/ rejects THEN NoConn ELSE sub
  /\ joining' = IF rejects THEN NoConn ELSE joining
  /\ conn' = [d \in Conn |->
       IF d = c THEN [conn[c] EXCEPT !.todo = IF fails THEN <<>> ELSE @,
                                     !.wait = @ /\ ~rejects,
                                     !.state = IF ends THEN "quit" ELSE "broken"]
       ELSE IF act /\ d = sub THEN Dropped(d)[d] ELSE conn[d]]
  /\ UNCHANGED <<handlers, count, again, gone, opens>>

\* The error handler goes on after the quit: connecting is forgotten, and a
\* subscriber is made unless somebody else did.
Fix(d) ==
  /\ d \in fix /\ Ready(d) /\ fix' = fix \ {d}
  /\ IF sub # NoConn THEN joining' = NoConn /\ UNCHANGED <<sub, conn>>
     ELSE /\ Unused # {} /\ sub' = Fresh /\ joining' = Fresh
          /\ conn' = [conn EXCEPT ![Fresh].state = "opening", ![Fresh].wait = TRUE]
  /\ UNCHANGED <<handlers, count, pending, attempts, again, str, gone, registry, opens, breaks>>

\* A connection that nobody quit connects again by itself, with its channels.
Heal(c) ==
  /\ Settled
  /\ conn[c].state = "broken"
  /\ conn' = [conn EXCEPT ![c].state = "up"]
  /\ UNCHANGED <<sub, joining, handlers, count, pending, attempts, again, str, gone, registry, fix,
                 opens, breaks>>

Next ==
  \/ \E s \in Stream : Open(s) \/ Subscribe(s) \/ Subscribed(s) \/ Gone(s) \/ Leave(s) \/ Left(s)
                       \/ Retry(s)
  \/ \E c \in Conn : Up(c) \/ TakeUp(c) \/ Answer(c) \/ Heal(c)
                     \/ \E tired \in BOOLEAN : Break(c, tired)
  \/ \E d \in Conn \cup {NoConn} : Fix(d)

Spec == Init /\ [][Next]_vars

-----------------------------------------------------------------------------
\* A user has as many streams counted as there are handlers, and no more
\* than the limit, whichever way a subscription failed or was left.
CountsAgree == \A u \in User : count[u] = Cardinality(handlers[u]) /\ count[u] <= MaxStreams

\* Handlers are those of streams that are open: a stream that ended, or
\* failed on its way, has left none; and none is tracked that ended.
NothingLeaks ==
  /\ \A s \in Stream : /\ s \in handlers[Owner[s]] <=> str[s].at \in {"open", "closing"}
                    /\ str[s].at = "open" => s \notin gone
  /\ \A s \in registry : str[s].at \in {"joining", "joined", "asking", "asked", "open"}

Handled(s) == s \in handlers[Owner[s]]
Hears(s) == \E c \in Conn : conn[c].state = "up" /\ Owner[s] \in conn[c].chans

\* An open stream is not cut off for good, once connections hold.
HeardAgain == \A s \in Stream : []<>(str[s].at # "open" \/ Hears(s))

\* A stream is turned away only for its user's limit or an error of Redis.
OnlyErrorsFail == breaks = 0 => \A s \in Stream : str[s].at # "failed"
=============================================================================

--------------------------- MODULE BrowserSession ---------------------------
(***************************************************************************)
(* The session of a browser: the tabs of the web client share one refresh  *)
(* cookie and one IndexedDB with the tombstone of a local sign-out, the    *)
(* last user and the queued changes; each tab has its own access token.    *)
(*                                                                         *)
(* A request carries the cookie of the moment it is sent; an answer sets   *)
(* or deletes the cookie at the moment it arrives.  The server rotates the *)
(* token of a session at every refresh (see AuthSessions).                 *)
(***************************************************************************)
EXTENDS Naturals

CONSTANTS
  Tab,        \* tabs of one browser, of one account
  Lossy,      \* what the network loses: a subset of {"request", "answer"}
  Overlap,    \* whether a sign-in or sign-out may overlap with other requests
  MaxLogins,  \* bound on sessions opened
  MaxRefresh, \* bound on tokens of one session
  MaxLoads,   \* bound on loads of a page
  MaxFaults   \* bound on lost messages

BrowserAssumption ==
  /\ Lossy \subseteq {"request", "answer"} /\ Overlap \in BOOLEAN
  /\ MaxLogins \in Nat /\ MaxRefresh \in Nat \ {0}
  /\ MaxLoads \in Nat /\ MaxFaults \in Nat

VARIABLES
  server,     \* session |-> the number of its current token, 0 when it is not live
  cookie,     \* the refresh cookie: a session and the number of a token
  store,      \* IndexedDB: the tombstone, the last user, the queued changes
  tabs,       \* each tab's user interface, access token and refresh
  net,        \* requests on their way, and their answers
  heard,      \* tabs to which a sign-out in another tab is still to be told
  logins, loads, faults, \* for the bounds
  left,       \* the session of the cookie at the last sign-out
  wants,      \* whether the user has signed in since the last sign-out
  revoked,    \* sessions ended by another device, an administrator or time
  behind      \* history, for the properties: sessions whose newest token the browser may miss

vars == <<server, cookie, store, tabs, net, heard, logins, loads, faults, left, wants, revoked,
          behind>>

Sid == 0..MaxLogins
Cookie == [sid : Sid, token : 0..MaxRefresh]
NoCookie == [sid |-> 0, token |-> 0]
TabState == [ui : {"boot", "out", "in", "offline"}, access : Sid,
             waits : {"none", "boot", "me", "call", "login"}, user : BOOLEAN]
Message == [tab : Tab, kind : {"refresh", "logout", "login"}, cookie : Cookie,
            step : {"sent", "ok", "rejected"}, kept : BOOLEAN]

TypeOK ==
  /\ server \in [1..MaxLogins -> 0..MaxRefresh]
  /\ cookie \in Cookie
  /\ store \in [tomb : BOOLEAN, user : BOOLEAN, queued : BOOLEAN]
  /\ tabs \in [Tab -> TabState]
  /\ net \subseteq Message
  /\ \A t \in Tab : tabs[t].waits \in {"boot", "call", "login"} =>
       \E q \in net : q.tab = t /\ q.kept /\ q.kind # "logout"
  /\ heard \subseteq Tab /\ left \in Sid /\ revoked \subseteq Sid /\ behind \subseteq Sid
  /\ logins \in Sid /\ loads \in 0..MaxLoads /\ faults \in 0..MaxFaults

SignedOut == [ui |-> "out", access |-> 0, waits |-> "none", user |-> FALSE]

Init ==
  /\ server = [s \in 1..MaxLogins |-> 0]
  /\ cookie = NoCookie
  /\ store = [tomb |-> FALSE, user |-> FALSE, queued |-> FALSE]
  /\ tabs = [t \in Tab |-> SignedOut]
  /\ net = {} /\ heard = {} /\ logins = 0 /\ loads = 0 /\ faults = 0
  /\ left = 0 /\ wants = FALSE /\ revoked = {} /\ behind = {}

Live(s) == s # 0 /\ server[s] # 0
Current(c) == Live(c.sid) /\ server[c.sid] = c.token
OnItsWay(kind) == \E q \in net : q.kind = kind

Sends(t, kind) ==
  /\ \A q \in net : q.tab = t => q.kind # kind
  /\ net' = net \cup {[tab |-> t, kind |-> kind, cookie |-> cookie, step |-> "sent",
                       kept |-> TRUE]}

Quiet == net = {} /\ \A t \in Tab : tabs[t].waits = "none"

\* A user signs in or out in one tab at a time.
MayRefresh == Overlap \/ ~(OnItsWay("logout") \/ OnItsWay("login"))
MaySign == ~OnItsWay("login") /\ (Overlap \/ Quiet)

\* The pages that show the user's account.
Using(t) == tabs[t].ui \in {"in", "offline"}

\* clearLocalSession: the tokens in memory and the last user; and the cached
\* queries, the outbox and the known revisions of the user the page knows.
Cleared(t, next) ==
  /\ tabs' = [tabs EXCEPT ![t] = SignedOut]
  /\ store' = next

Forgotten(t) == [store EXCEPT !.user = FALSE, !.queued = @ /\ ~tabs[t].user]

(***************************************************************************)
(* login: a new session, the tombstone lifted, the user remembered.        *)
(***************************************************************************)
Login(t) ==
  /\ tabs[t].ui = "out" /\ tabs[t].waits = "none" /\ logins < MaxLogins /\ MaySign
  /\ Sends(t, "login")
  /\ tabs' = [tabs EXCEPT ![t].waits = "login"]
  /\ wants' = TRUE
  /\ UNCHANGED <<server, cookie, store, heard, logins, loads, faults, left, revoked>>

(***************************************************************************)
(* The page is loaded.  With a tombstone nothing is restored; otherwise    *)
(* the cookie is traded for an access token.  What the page that is left   *)
(* had on its way reaches the server, but no answer reaches the page.      *)
(***************************************************************************)
\* Mutant of Barred: the tombstone is not looked at.
BarredNever == FALSE

Barred == store.tomb

Load(t) ==
  /\ loads < MaxLoads /\ loads' = loads + 1
  /\ \A q \in net : q.tab = t /\ q.kept => q.kind # "refresh" \/ "answer" \in Lossy
  /\ LET rest == {IF q.tab = t THEN [q EXCEPT !.kept = FALSE] ELSE q : q \in net} IN
     \/ /\ Barred
        /\ net' = rest
        /\ tabs' = [tabs EXCEPT ![t] = SignedOut]
     \/ /\ ~Barred /\ MayRefresh
        /\ net' = rest \cup {[tab |-> t, kind |-> "refresh", cookie |-> cookie,
                              step |-> "sent", kept |-> TRUE]}
        /\ tabs' = [tabs EXCEPT ![t] = [ui |-> "boot", access |-> 0, waits |-> "boot",
                                         user |-> store.user]]
  /\ heard' = heard \ {t}
  /\ UNCHANGED <<server, cookie, store, logins, faults, left, wants, revoked>>

(***************************************************************************)
(* A request answered with 401, because the access token has run out or    *)
(* its session is gone, refreshes once: one refresh at a time in each tab. *)
(* A tab that was restored offline does so when the browser is online.     *)
(***************************************************************************)
Unauthorized(t) ==
  /\ Using(t) /\ tabs[t].waits = "none" /\ MayRefresh
  /\ Sends(t, "refresh")
  /\ tabs' = [tabs EXCEPT ![t].waits = "call"]
  /\ UNCHANGED <<server, cookie, store, heard, logins, loads, faults, left, wants, revoked>>

ChangeArticle(t) ==
  /\ Using(t) /\ ~store.queued
  /\ store' = [store EXCEPT !.queued = TRUE]
  /\ UNCHANGED <<server, cookie, tabs, net, heard, logins, loads, faults, left, wants, revoked>>

(***************************************************************************)
(* logout: the request goes out with the cookie, the tombstone is written, *)
(* the other tabs are told, the local state is cleared.                    *)
(***************************************************************************)
Logout(t) ==
  /\ Using(t) /\ MaySign
  /\ Sends(t, "logout")
  /\ Cleared(t, [Forgotten(t) EXCEPT !.tomb = TRUE])
  /\ heard' = Tab \ {t}
  /\ wants' = FALSE /\ left' = cookie.sid
  /\ UNCHANGED <<server, cookie, logins, loads, faults, revoked>>

\* A page that does not know the user, because it is starting, takes no notice.
HearSignOut(t) ==
  /\ t \in heard /\ heard' = heard \ {t}
  /\ IF Using(t) THEN Cleared(t, [Forgotten(t) EXCEPT !.tomb = TRUE])
     ELSE UNCHANGED <<tabs, store>>
  /\ UNCHANGED <<server, cookie, net, logins, loads, faults, left, wants, revoked>>

(***************************************************************************)
(* The server: rotation, revocation if the token is the current one, a new *)
(* session.  A logout is answered with success whatever it found.          *)
(***************************************************************************)
Answered(q, step, c) == net' = (net \ {q}) \cup {[q EXCEPT !.step = step, !.cookie = c]}

ServeRefresh(q) ==
  /\ q \in net /\ q.kind = "refresh" /\ q.step = "sent"
  /\ \/ /\ ~Current(q.cookie)
        /\ Answered(q, "rejected", q.cookie)
        /\ UNCHANGED server
     \/ /\ Current(q.cookie) /\ q.cookie.token < MaxRefresh
        /\ server' = [server EXCEPT ![q.cookie.sid] = @ + 1]
        /\ Answered(q, "ok", [q.cookie EXCEPT !.token = @ + 1])
  /\ UNCHANGED <<cookie, store, tabs, heard, logins, loads, faults, left, wants, revoked>>

SignsOut(c) == Current(c)

ServeLogout(q) ==
  /\ q \in net /\ q.kind = "logout" /\ q.step = "sent"
  /\ server' = IF SignsOut(q.cookie) THEN [server EXCEPT ![q.cookie.sid] = 0] ELSE server
  /\ Answered(q, "ok", NoCookie)
  /\ UNCHANGED <<cookie, store, tabs, heard, logins, loads, faults, left, wants, revoked>>

ServeLogin(q) ==
  /\ q \in net /\ q.kind = "login" /\ q.step = "sent" /\ logins < MaxLogins
  /\ logins' = logins + 1
  /\ server' = [server EXCEPT ![logins + 1] = 1]
  /\ Answered(q, "ok", [sid |-> logins + 1, token |-> 1])
  /\ UNCHANGED <<cookie, store, tabs, heard, loads, faults, left, wants, revoked>>

\* The session is revoked from another device, by an administrator or by time.
RevokedElsewhere(s) ==
  /\ Live(s)
  /\ server' = [server EXCEPT ![s] = 0]
  /\ revoked' = revoked \cup {s}
  /\ UNCHANGED <<cookie, store, tabs, net, heard, logins, loads, faults, left, wants>>

(***************************************************************************)
(* Answers.  Of a page that has been left, nothing is applied.             *)
(***************************************************************************)
Arrives(q) == q \in net /\ q.step # "sent" /\ net' = net \ {q}

Dropped(q) ==
  /\ Arrives(q) /\ ~q.kept
  /\ UNCHANGED <<server, cookie, store, tabs, heard, logins, loads, faults, left, wants, revoked>>

LoggedIn(q) ==
  /\ Arrives(q) /\ q.kept /\ q.kind = "login"
  /\ cookie' = q.cookie
  /\ store' = [store EXCEPT !.tomb = FALSE, !.user = TRUE]
  /\ tabs' = [tabs EXCEPT ![q.tab] = [ui |-> "in", access |-> q.cookie.sid, waits |-> "none",
                                    user |-> TRUE]]
  /\ UNCHANGED <<server, heard, logins, loads, faults, left, wants, revoked>>

LoggedOut(q) ==
  /\ Arrives(q) /\ q.kept /\ q.kind = "logout"
  /\ cookie' = NoCookie
  /\ store' = [store EXCEPT !.tomb = FALSE]
  /\ UNCHANGED <<server, tabs, heard, logins, loads, faults, left, wants, revoked>>

\* The access token is set, whatever the tab has become in the meantime.
Refreshed(q) ==
  LET t == q.tab IN
  /\ Arrives(q) /\ q.kept /\ q.kind = "refresh" /\ q.step = "ok"
  /\ cookie' = q.cookie
  /\ tabs' = [tabs EXCEPT ![t].access = q.cookie.sid,
                          ![t].waits = IF @ \in {"boot", "call"} THEN "me" ELSE @]
  /\ UNCHANGED <<server, store, heard, logins, loads, faults, left, wants, revoked>>

\* The endpoint rejects the token and deletes the cookie: authentication is lost.
Rejected(q) ==
  LET t == q.tab IN
  /\ Arrives(q) /\ q.kept /\ q.kind = "refresh" /\ q.step = "rejected"
  /\ cookie' = NoCookie
  /\ IF tabs[t].waits \in {"boot", "call"} THEN Cleared(t, Forgotten(t))
     ELSE tabs' = [tabs EXCEPT ![t].access = 0] /\ UNCHANGED store
  /\ UNCHANGED <<server, heard, logins, loads, faults, left, wants, revoked>>

\* /auth/me ends the start of a page, and the repeated request the refresh.
Me(t) ==
  /\ tabs[t].waits = "me"
  /\ \/ /\ Live(tabs[t].access)
        /\ tabs' = [tabs EXCEPT ![t].ui = "in", ![t].waits = "none", ![t].user = TRUE]
        /\ store' = [store EXCEPT !.user = @ \/ tabs[t].ui # "in"]
     \/ ~Live(tabs[t].access) /\ Cleared(t, Forgotten(t))
  /\ UNCHANGED <<server, cookie, net, heard, logins, loads, faults, left, wants, revoked>>

(***************************************************************************)
(* The network fails before or after the server.  A page that starts shows *)
(* the last user offline, if there is one; a request in a page fails.      *)
(***************************************************************************)

\* Mutant of Unavailable: a request that fails counts as one that is rejected.
UnavailableRejected(t) == Cleared(t, Forgotten(t))

Unavailable(t) ==
  CASE tabs[t].waits = "boot" /\ tabs[t].user ->
         /\ tabs' = [tabs EXCEPT ![t].ui = "offline", ![t].waits = "none"]
         /\ UNCHANGED store
    [] tabs[t].waits = "boot" /\ ~tabs[t].user -> Cleared(t, Forgotten(t))
    [] OTHER -> tabs' = [tabs EXCEPT ![t].waits = "none"] /\ UNCHANGED store

Lose(q) ==
  /\ q \in net /\ faults < MaxFaults /\ faults' = faults + 1
  /\ \/ "request" \in Lossy /\ q.step = "sent"
     \/ "answer" \in Lossy /\ q.step # "sent"
  /\ net' = net \ {q}
  /\ IF q.kept /\ q.kind # "logout" THEN Unavailable(q.tab) ELSE UNCHANGED <<tabs, store>>
  /\ UNCHANGED <<server, cookie, heard, logins, loads, left, wants, revoked>>

Step ==
  \/ \E t \in Tab : \/ Login(t) \/ Load(t) \/ Unauthorized(t) \/ ChangeArticle(t)
                    \/ Logout(t) \/ HearSignOut(t) \/ Me(t)
  \/ \E s \in 1..MaxLogins : RevokedElsewhere(s)
  \/ \E q \in net : \/ ServeRefresh(q) \/ ServeLogout(q) \/ ServeLogin(q)
                    \/ Dropped(q) \/ LoggedIn(q) \/ LoggedOut(q) \/ Refreshed(q) \/ Rejected(q)
                    \/ Lose(q)

(***************************************************************************)
(* History, for the properties: nothing orders the requests of the tabs.   *)
(* The browser may miss the newest token of a session when a refresh of it *)
(* was under way, or a page that starts with it, together with a sign-out  *)
(* or another refresh, or the answer was lost; until it has the token and  *)
(* nothing of the session is under way.                                    *)
(***************************************************************************)
Refreshing(s) == {q \in net : q.kind = "refresh" /\ q.cookie.sid = s}
Starting(s) == \E t \in Tab : tabs[t].waits = "me" /\ tabs[t].ui = "boot" /\ tabs[t].access = s

Crosses(s) ==
  \/ OnItsWay("logout") /\ (Refreshing(s) # {} \/ Starting(s))
  \/ \E q, r \in Refreshing(s) : q # r
  \/ /\ wants /\ cookie.sid = s
     /\ \E q \in net : q.kind = "logout" \/ (q.kind = "refresh" /\ q.cookie.sid # s)

Missed(s) == \E q \in Refreshing(s) : q.step = "ok" /\ q \notin net' /\ cookie' # q.cookie
InStep(s) == wants /\ cookie.sid = s /\ Current(cookie) /\ Refreshing(s) = {} /\ ~Starting(s)

Behind == {s \in 1..MaxLogins : (s \in behind /\ ~InStep(s)') \/ Crosses(s)' \/ Missed(s)}

Next == Step /\ behind' = Behind

Spec == Init /\ [][Next]_vars

(***************************************************************************)
(* Properties.                                                             *)
(***************************************************************************)

\* After a sign-out no page comes back signed in until the user signs in: not by
\* a reload, another tab, or an answer that was on its way.
SignOutSticks == \A t \in Tab : ~Using(t) /\ Using(t)' => wants'

\* When a sign-out has been confirmed and the tombstone lifted, the session that
\* the browser was in is no longer live on the server.
SignOutRevokes == ~wants /\ ~store.tomb /\ ~OnItsWay("logout") => ~Live(left)

\* Queued changes are discarded only at a sign-out, or after the session was
\* revoked: not because the network failed.
DiscardedForCause ==
  store.queued /\ ~store'.queued => ~wants' \/ cookie.sid \in revoked \cup {0}

\* The same whatever overlaps and is lost. A page may come back that knew the user
\* when it was loaded, before the sign-out, or that is of a session of which the
\* browser may miss the newest token; and of such a session the sign-out may fail.
SticksUnlessBehind ==
  \A t \in Tab : ~Using(t) /\ Using(t)' =>
    wants' \/ tabs[t].user \/ {cookie.sid, tabs[t].access} \cap behind # {}

RevokesUnlessBehind ==
  ~wants /\ ~store.tomb /\ ~OnItsWay("logout") => ~Live(left) \/ left \in behind

\* Queued changes are discarded at a sign-out here or in another tab, or by a page
\* whose session was revoked, was signed out of or is one of those.
DiscardedUnlessBehind ==
  store.queued /\ ~store'.queued =>
    \/ ~wants' \/ heard' # heard \/ cookie.sid = 0
    \/ \E t \in Tab :
         /\ tabs'[t] # tabs[t]
         /\ ({cookie.sid, tabs[t].access} \ {0}) \cap (revoked \cup behind \cup {left}) # {}
=============================================================================

---------------------------- MODULE AuthSessions ----------------------------
(***************************************************************************)
(* Accounts and their sessions in the API: registration, login, rotation   *)
(* of refresh tokens, logout, password changes, administration, and the    *)
(* check of an access token on every request.                              *)
(*                                                                         *)
(* SQLite holds users and sessions; its transactions are atomic.  Redis    *)
(* holds a tombstone for each revoked session, and any call to it may      *)
(* fail.  A request is a call: what it has read is carried in its record   *)
(* across every await, while other calls go on.                            *)
(***************************************************************************)
EXTENDS Naturals

CONSTANTS
  Call,       \* requests that can be in progress at a time
  User,       \* accounts, absent until they register
  Session,    \* ids of sessions
  None,       \* no session
  Requests,   \* the operations that clients ask for
  MaxTokens,  \* bound on refresh tokens handed out
  MaxHashes,  \* bound on password hashes: changes of passwords
  MaxUpdates, \* bound on administrators' updates
  MaxFaults   \* bound on failing calls to Redis

AuthAssumption ==
  /\ User # {} /\ None \notin Session
  /\ MaxTokens \in Nat /\ MaxHashes \in Nat /\ MaxUpdates \in Nat /\ MaxFaults \in Nat

VARIABLES
  users,      \* the users table
  sessions,   \* the auth_sessions table; token 0: no row
  tombs,      \* sessions with a tombstone in Redis
  access,     \* access tokens that have been signed
  calls,      \* where each request stands, and what it has read
  owner,      \* refresh token |-> the session it was handed out for
  hashes,     \* password hashes made so far
  updates, faults, \* for the bounds
  ended,      \* sessions whose revocation has got through to SQLite and Redis
  rotations   \* refresh tokens that have been traded for the next one

vars == <<users, sessions, tombs, access, calls, owner, hashes, updates, faults, ended, rotations>>
data == <<users, sessions, owner, hashes, access, rotations>>

Role == {"admin", "user"}
UserRow == [exists : BOOLEAN, active : BOOLEAN, role : Role, hash : Nat]
SessionRow == [user : User, token : Nat, live : BOOLEAN, hash : Nat, role : Role]
Change == {"deactivate", "activate", "demote", "promote", "none"}
Step == {"idle", "user", "rotate", "tomb", "revoke", "list", "tombs", "commit", "announce",
         "issue", "first", "row", "second", "granted"}
Op == {"register", "create", "login", "refresh", "logout", "revoke", "change", "reset", "update",
       "check", "none"}
CallState == [op : Op, step : Step, user : User, hash : Nat, role : Role,
              session : Session \cup {None}, token : Nat, change : Change, actor : User,
              found : SUBSET Session]

AnyUser == CHOOSE u \in User : TRUE
Idle == [op |-> "none", step |-> "idle", user |-> AnyUser, hash |-> 0, role |-> "user",
         session |-> None, token |-> 0, change |-> "none", actor |-> AnyUser, found |-> {}]

TypeOK ==
  /\ users \in [User -> UserRow]
  /\ sessions \in [Session -> SessionRow]
  /\ tombs \subseteq Session /\ ended \subseteq Session
  /\ access \subseteq [session : Session, role : Role]
  /\ calls \in [Call -> CallState]
  /\ owner \in [1..MaxTokens -> SUBSET Session]
  /\ \A s \in Session : sessions[s].token # 0 => owner[sessions[s].token] = {s}
  /\ hashes \in 0..MaxHashes /\ updates \in 0..MaxUpdates /\ faults \in 0..MaxFaults
  /\ rotations \in [1..MaxTokens -> 0..MaxTokens]

Init ==
  /\ users = [u \in User |-> [exists |-> FALSE, active |-> TRUE, role |-> "user", hash |-> 0]]
  /\ sessions = [s \in Session |-> [user |-> AnyUser, token |-> 0, live |-> FALSE, hash |-> 0,
                                    role |-> "user"]]
  /\ tombs = {} /\ access = {} /\ ended = {}
  /\ calls = [c \in Call |-> Idle]
  /\ owner = [n \in 1..MaxTokens |-> {}]
  /\ hashes = 0 /\ updates = 0 /\ faults = 0
  /\ rotations = [n \in 1..MaxTokens |-> 0]

\* activeWhere: neither revoked nor past its absolute or idle lifetime.
Active(s) == sessions[s].live

ActiveOf(u) == {s \in Session : Active(s) /\ sessions[s].user = u}
Admin(u) == users[u].exists /\ users[u].active /\ users[u].role = "admin"

\* Mutant of Fresh: a token may be drawn twice.
FreshAny(n) == n > 0

\* The first refresh token that has not been handed out.
Fresh(n) == owner[n] = {} /\ \A k \in 1..(n - 1) : owner[k] # {}

Starts(c, op, step, u) ==
  /\ op \in Requests /\ calls[c].step = "idle"
  /\ calls' = [calls EXCEPT ![c] = [Idle EXCEPT !.op = op, !.step = step, !.user = u,
                                                !.hash = users[u].hash, !.role = users[u].role]]

GoesTo(c, step) == calls' = [calls EXCEPT ![c].step = step]
Ends(c) == calls' = [calls EXCEPT ![c] = Idle]

(***************************************************************************)
(* register: in one write transaction the first account becomes the        *)
(* administrator.  adminCreateUser: emails are unique.                     *)
(***************************************************************************)
NoUsers == \A u \in User : ~users[u].exists

Enrolled(u, role) ==
  /\ ~users[u].exists /\ hashes < MaxHashes
  /\ users' = [users EXCEPT ![u] = [exists |-> TRUE, active |-> TRUE, role |-> role,
                                    hash |-> hashes + 1]]
  /\ hashes' = hashes + 1

Register(c, u) ==
  /\ "register" \in Requests /\ calls[c].step = "idle"
  /\ LET role == IF NoUsers THEN "admin" ELSE "user" IN
     /\ Enrolled(u, role)
     /\ calls' = [calls EXCEPT ![c] = [Idle EXCEPT !.op = "register", !.step = "issue",
                                       !.user = u, !.hash = hashes + 1, !.role = role]]
  /\ UNCHANGED <<sessions, tombs, access, owner, updates, faults, ended, rotations>>

AdminCreate(a, u, role) ==
  /\ "create" \in Requests /\ Admin(a) /\ Enrolled(u, role)
  /\ UNCHANGED <<sessions, tombs, access, calls, owner, updates, faults, ended, rotations>>

(***************************************************************************)
(* login verifies the password; issueTokens then inserts the session in a  *)
(* transaction that finds the account as it was verified.                  *)
(***************************************************************************)
Login(c, u) ==
  /\ users[u].exists /\ users[u].active
  /\ Starts(c, "login", "issue", u)
  /\ UNCHANGED <<data, tombs, updates, faults, ended>>

\* Mutant of Verified: the account may have changed since the password was verified.
VerifiedNever(k) == TRUE

Verified(k) ==
  /\ users[k.user].active
  /\ users[k.user].hash = k.hash /\ users[k.user].role = k.role

Issue(c) ==
  LET k == calls[c] IN
  /\ k.step = "issue"
  /\ \/ /\ ~Verified(k)
        /\ UNCHANGED data
     \/ \E s \in Session, n \in 1..MaxTokens :
          /\ Verified(k) /\ sessions[s].token = 0 /\ Fresh(n)
          /\ sessions' = [sessions EXCEPT ![s] = [user |-> k.user, token |-> n, live |-> TRUE,
                                                  hash |-> k.hash, role |-> k.role]]
          /\ owner' = [owner EXCEPT ![n] = {s}]
          /\ access' = access \cup {[session |-> s, role |-> k.role]}
          /\ UNCHANGED <<users, hashes, rotations>>
  /\ Ends(c)
  /\ UNCHANGED <<tombs, updates, faults, ended>>

(***************************************************************************)
(* refresh with the current or an older token: the session, its account,   *)
(* and a compare-and-swap on the token are three awaits.                   *)
(***************************************************************************)
Refresh(c, s, n) ==
  /\ s \in owner[n]
  /\ Active(s) /\ sessions[s].token = n
  /\ "refresh" \in Requests /\ calls[c].step = "idle"
  /\ calls' = [calls EXCEPT ![c] = [Idle EXCEPT !.op = "refresh", !.step = "user",
                                    !.session = s, !.token = n, !.user = sessions[s].user]]
  /\ UNCHANGED <<data, tombs, updates, faults, ended>>

RefreshUser(c) ==
  LET k == calls[c] IN
  /\ k.step = "user"
  /\ IF users[k.user].active
     THEN calls' = [calls EXCEPT ![c].step = "rotate", ![c].role = users[k.user].role]
     ELSE GoesTo(c, "tomb")
  /\ UNCHANGED <<data, tombs, updates, faults, ended>>

\* Mutant of Current: any call that once read the session may rotate it.
CurrentAny(k) == Active(k.session)

Current(k) == Active(k.session) /\ sessions[k.session].token = k.token

Rotate(c) ==
  LET k == calls[c] IN
  /\ k.step = "rotate"
  /\ \/ /\ ~Current(k)
        /\ UNCHANGED data
     \/ \E n \in 1..MaxTokens :
          /\ Current(k) /\ Fresh(n)
          /\ sessions' = [sessions EXCEPT ![k.session].token = n]
          /\ owner' = [owner EXCEPT ![n] = {k.session}]
          /\ access' = access \cup {[session |-> k.session, role |-> k.role]}
          /\ rotations' = [rotations EXCEPT ![k.token] = @ + 1]
          /\ UNCHANGED <<users, hashes>>
  /\ Ends(c)
  /\ UNCHANGED <<tombs, updates, faults, ended>>

(***************************************************************************)
(* logout, revokeSession, and refresh for a disabled account: a tombstone  *)
(* first, then the row.                                                    *)
(***************************************************************************)
Revocation(c, op, s) ==
  /\ Active(s) /\ op \in Requests /\ calls[c].step = "idle"
  /\ calls' = [calls EXCEPT ![c] = [Idle EXCEPT !.op = op, !.step = "tomb", !.session = s,
                                                !.user = sessions[s].user, !.found = {s}]]
  /\ UNCHANGED <<data, tombs, updates, faults, ended>>

Logout(c, s, n) == sessions[s].token = n /\ Revocation(c, "logout", s)
RevokeSession(c, s) == Revocation(c, "revoke", s)

Tombstone(c) ==
  /\ calls[c].step = "tomb"
  /\ tombs' = tombs \cup {calls[c].session}
  /\ GoesTo(c, "revoke")
  /\ UNCHANGED <<data, updates, faults, ended>>

Revoke(c) ==
  LET s == calls[c].session IN
  /\ calls[c].step = "revoke"
  /\ sessions' = [sessions EXCEPT ![s].live = FALSE]
  /\ ended' = ended \cup {s}
  /\ Ends(c)
  /\ UNCHANGED <<users, owner, hashes, access, rotations, tombs, updates, faults>>

(***************************************************************************)
(* changePassword, adminResetPassword and adminUpdateUser: tombstones for  *)
(* the sessions listed, the change with the revocation of all sessions in  *)
(* one transaction, tombstones for the sessions that it revoked.           *)
(***************************************************************************)
ChangePassword(c, u) ==
  /\ users[u].exists /\ users[u].active /\ ActiveOf(u) # {}
  /\ Starts(c, "change", "list", u)
  /\ UNCHANGED <<data, tombs, updates, faults, ended>>

SignedInAdmin(a) ==
  \E t \in access : Active(t.session) /\ t.role = "admin" /\ sessions[t.session].user = a

AdminResetPassword(c, a, u) ==
  /\ SignedInAdmin(a) /\ users[u].exists
  /\ Starts(c, "reset", "list", u)
  /\ UNCHANGED <<data, tombs, updates, faults, ended>>

RemovesAdmin(u, change) == Admin(u) /\ change \in {"demote", "deactivate"}

\* Mutant of Allowed: the last administrator may remove another who is gone already.
AllowedOnce(a, u, change) == ~(a = u /\ RemovesAdmin(u, change))

Allowed(a, u, change) ==
  RemovesAdmin(u, change) => a # u /\ \E v \in User \ {u} : Admin(v)

AdminUpdateUser(c, a, u, change) ==
  /\ SignedInAdmin(a) /\ users[u].exists /\ updates < MaxUpdates
  /\ "update" \in Requests /\ calls[c].step = "idle"
  /\ Allowed(a, u, change)
  /\ updates' = updates + 1
  /\ calls' = [calls EXCEPT ![c] = [Idle EXCEPT !.op = "update", !.user = u, !.actor = a,
                  !.step = IF change = "activate" THEN "commit" ELSE "list",
                  !.change = change]]
  /\ UNCHANGED <<data, tombs, faults, ended>>

List(c) ==
  /\ calls[c].step = "list"
  /\ calls' = [calls EXCEPT ![c].step = "tombs", ![c].found = ActiveOf(calls[c].user)]
  /\ UNCHANGED <<data, tombs, updates, faults, ended>>

Tombstones(c) ==
  /\ calls[c].step = "tombs"
  /\ tombs' = tombs \cup calls[c].found
  /\ GoesTo(c, "commit")
  /\ UNCHANGED <<data, updates, faults, ended>>

Applied(r, change) ==
  CASE change = "demote" -> [r EXCEPT !.role = "user"]
    [] change = "promote" -> [r EXCEPT !.role = "admin"]
    [] change = "deactivate" -> [r EXCEPT !.active = FALSE]
    [] change = "activate" -> [r EXCEPT !.active = TRUE]

Revoked(k) == ActiveOf(k.user)

RevokeAll(c) ==
  /\ sessions' = [s \in Session |-> IF s \in Revoked(calls[c])
                                    THEN [sessions[s] EXCEPT !.live = FALSE] ELSE sessions[s]]
  /\ calls' = [calls EXCEPT ![c].step = "announce", ![c].found = Revoked(calls[c]),
                            ![c].hash = users'[calls[c].user].hash,
                            ![c].role = users'[calls[c].user].role]
  /\ UNCHANGED <<access, owner, rotations, tombs, updates, faults, ended>>

CommitPassword(c) ==
  LET k == calls[c] IN
  /\ k.step = "commit" /\ k.op \in {"change", "reset"}
  /\ \/ /\ k.op = "change" /\ ~(users[k.user].active /\ users[k.user].hash = k.hash)
        /\ Ends(c)
        /\ UNCHANGED <<data, tombs, updates, faults, ended>>
     \/ /\ k.op = "change" => users[k.user].active /\ users[k.user].hash = k.hash
        /\ hashes < MaxHashes
        /\ users' = [users EXCEPT ![k.user].hash = hashes + 1]
        /\ hashes' = hashes + 1
        /\ RevokeAll(c)

CommitUpdate(c) ==
  LET k == calls[c] IN
  /\ k.step = "commit" /\ k.op = "update"
  /\ \/ /\ ~Allowed(k.actor, k.user, k.change)
        /\ Ends(c)
        /\ UNCHANGED <<data, tombs, updates, faults, ended>>
     \/ /\ Allowed(k.actor, k.user, k.change)
        /\ users' = [users EXCEPT ![k.user] = Applied(@, k.change)]
        /\ UNCHANGED hashes
        /\ \/ k.change # "activate" /\ RevokeAll(c)
           \/ /\ k.change = "activate" /\ Ends(c)
              /\ UNCHANGED <<sessions, access, owner, rotations, tombs, updates, faults, ended>>

Announce(c) ==
  LET k == calls[c] IN
  /\ k.step = "announce"
  /\ tombs' = tombs \cup k.found
  /\ ended' = ended \cup k.found
  /\ IF k.op = "change" THEN GoesTo(c, "issue") ELSE Ends(c)
  /\ UNCHANGED <<data, updates, faults>>

\* Redis fails before the revocation or after it: the request fails, and some
\* of the tombstones may have been written.
RedisFails(c) ==
  /\ faults < MaxFaults /\ faults' = faults + 1
  /\ calls[c].step \in {"tomb", "tombs", "announce"}
  /\ \E some \in SUBSET calls[c].found : tombs' = tombs \cup some
  /\ Ends(c)
  /\ UNCHANGED <<data, updates, ended>>

(***************************************************************************)
(* authMiddleware: isAccessSessionActive reads the tombstone, the row and  *)
(* the tombstone again; without Redis it reads the row again.              *)
(***************************************************************************)
Check(c, t) ==
  /\ "check" \in Requests /\ calls[c].step = "idle"
  /\ calls' = [calls EXCEPT ![c] = [Idle EXCEPT !.op = "check", !.step = "first",
                                                !.session = t.session, !.role = t.role]]
  /\ UNCHANGED <<data, tombs, updates, faults, ended>>

FirstLook(c) ==
  LET k == calls[c] IN
  /\ k.step = "first"
  /\ \/ k.session \in tombs /\ Ends(c) /\ UNCHANGED faults
     \/ k.session \notin tombs /\ GoesTo(c, "row") /\ UNCHANGED faults
     \/ faults < MaxFaults /\ faults' = faults + 1 /\ GoesTo(c, "row")
  /\ UNCHANGED <<data, tombs, updates, ended>>

ReadRow(c) ==
  LET k == calls[c] IN
  /\ k.step = "row"
  /\ IF Active(k.session) THEN GoesTo(c, "second") ELSE Ends(c)
  /\ UNCHANGED <<data, tombs, updates, faults, ended>>

\* Mutant of StillActive: the row as it was read before.
StillActiveAsRead(s) == TRUE

StillActive(s) == s \notin tombs

SecondLook(c) ==
  LET k == calls[c] IN
  /\ k.step = "second"
  /\ \/ StillActive(k.session) /\ GoesTo(c, "granted") /\ UNCHANGED faults
     \/ ~StillActive(k.session) /\ Ends(c) /\ UNCHANGED faults
     \/ /\ faults < MaxFaults /\ faults' = faults + 1
        /\ IF Active(k.session) THEN GoesTo(c, "granted") ELSE Ends(c)
  /\ UNCHANGED <<data, tombs, updates, ended>>

Serve(c) ==
  /\ calls[c].step = "granted" /\ Ends(c)
  /\ UNCHANGED <<data, tombs, updates, faults, ended>>

(***************************************************************************)
(* A session reaches its idle or absolute lifetime.  A tombstone is kept   *)
(* for the lifetime of an access token, longer than any call lasts.        *)
(***************************************************************************)
Expire(s) ==
  /\ Active(s)
  /\ sessions' = [sessions EXCEPT ![s].live = FALSE]
  /\ UNCHANGED <<users, owner, hashes, access, rotations, tombs, calls, updates, faults, ended>>

TombLapses(s) ==
  /\ s \in tombs /\ \A c \in Call : calls[c].session # s /\ s \notin calls[c].found
  /\ tombs' = tombs \ {s}
  /\ UNCHANGED <<data, calls, updates, faults, ended>>

CallStep(c) ==
  \/ Issue(c) \/ RefreshUser(c) \/ Rotate(c)
  \/ Tombstone(c) \/ Revoke(c)
  \/ List(c) \/ Tombstones(c) \/ CommitPassword(c) \/ CommitUpdate(c) \/ Announce(c)
  \/ RedisFails(c)
  \/ FirstLook(c) \/ ReadRow(c) \/ SecondLook(c) \/ Serve(c)

Request(c) ==
  \/ \E u \in User : Register(c, u) \/ Login(c, u) \/ ChangePassword(c, u)
  \/ \E s \in Session, n \in 1..MaxTokens : Refresh(c, s, n) \/ Logout(c, s, n)
  \/ \E s \in Session : RevokeSession(c, s)
  \/ \E a \in User, u \in User : AdminResetPassword(c, a, u)
  \/ \E a \in User, u \in User, change \in Change \ {"none"} : AdminUpdateUser(c, a, u, change)
  \/ \E s \in Session, role \in Role :
       [session |-> s, role |-> role] \in access /\ Check(c, [session |-> s, role |-> role])

Next ==
  \/ \E c \in Call : Request(c) \/ CallStep(c)
  \/ \E a \in User, u \in User, role \in Role : AdminCreate(a, u, role)
  \/ \E s \in Session : Expire(s) \/ TombLapses(s)

Spec == Init /\ [][Next]_vars

(***************************************************************************)
(* Properties.                                                             *)
(***************************************************************************)
\* A live session belongs to an enabled account with the password and the role
\* it was opened with, and so do the access tokens signed for it: logging in
\* and refreshing verify the account at one await and write at a later one.
SessionsMatchAccount ==
  /\ \A s \in Session : Active(s) =>
       /\ users[sessions[s].user].exists /\ users[sessions[s].user].active
       /\ users[sessions[s].user].hash = sessions[s].hash
       /\ users[sessions[s].user].role = sessions[s].role
  /\ \A t \in access : Active(t.session) => t.role = sessions[t.session].role

\* Once anyone has registered there is an enabled administrator, whatever
\* registrations and administrators' updates overlap.
AdministratorLeft == NoUsers \/ \E u \in User : Admin(u)

\* A refresh token is traded for the next one at most once.
TokenTradedOnce == \A n \in 1..MaxTokens : rotations[n] <= 1

\* What accounts and sessions owe each other at any time.
AccountsHold == SessionsMatchAccount /\ AdministratorLeft /\ TokenTradedOnce

\* A request is granted only if the revocation of its session has not got
\* through to SQLite and Redis by the last read of the check.
GrantedBeforeEnded ==
  \A c \in Call : calls[c].step = "second" /\ calls'[c].step = "granted"
   => calls[c].session \notin ended
=============================================================================

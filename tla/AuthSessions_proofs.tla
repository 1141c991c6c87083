------------------------ MODULE AuthSessions_proofs ------------------------
(***************************************************************************)
(* Theorems about what the accounts' requests do: AuthSessions, for any    *)
(* number of overlapping requests, accounts and sessions, and, after it,   *)
(* Analytics, for any number of tabs, users and events, and BrowserSession *)
(* for any number of tabs, logins, reloads and lost messages.              *)
(*                                                                         *)
(*   TypesKept         Spec => []TypeOK                                    *)
(*   AccountsAgree     Spec => []AccountsHold                              *)
(*   RevokedIsRefused  Spec => [][GrantedBeforeEnded]_vars                 *)
(*                                                                         *)
(*   EventsTypes          Events!Spec => []Events!TypeOK                   *)
(*   EventsAreCountedOnce Events!Spec => [](CountedOnce /\ CountedForUser) *)
(*   LoneTabLosesNothing  Events!Spec => []Events!NothingLost              *)
(*                                                                         *)
(*   TabTypes        Browser!Spec => []Browser!TypeOK                      *)
(*   SignOutsLast    Browser!Spec => [][Browser!SignOutSticks]_vars        *)
(*   SignOutsRevoke  Browser!Spec => []Browser!SignOutRevokes              *)
(* The last two: when sign-ins and sign-outs overlap with nothing else,    *)
(* and the last when no answer of the server is lost.                      *)
(*                                                                         *)
(* A request decides at one await and writes at a later one.  What it has  *)
(* read must still mean something by then: Right says, step by step, which *)
(* part of a request's record other requests cannot make untrue.           *)
(***************************************************************************)
EXTENDS AuthSessions, Sequences, FiniteSetTheorems, TLAPS

\* A session that has been opened; its row is not deleted while requests last.
Held(s) == s \in Session /\ sessions[s].token # 0

\* What a request may go on relying on while others run.
Right(k) ==
  /\ k.step \in {"user", "rotate"} =>
       /\ Held(k.session) /\ k.token \in 1..MaxTokens /\ sessions[k.session].user = k.user
       /\ k.step = "rotate" /\ Active(k.session) => k.role = sessions[k.session].role
  /\ k.step \in {"tomb", "revoke", "first", "row", "second", "granted"} => Held(k.session)
  /\ k.step \in {"list", "tombs", "commit", "announce", "issue"} => users[k.user].exists
  /\ k.step \in {"list", "tombs", "commit"} /\ k.op = "update" => k.change # "none"
  /\ k.step = "announce" => \A s \in k.found : Held(s) /\ ~Active(s)
  /\ k.step = "revoke" => k.session \in tombs
  /\ k.step = "second" /\ k.session \in ended => k.session \in tombs

CallsRight == \A c \in Call : Right(calls[c])

RowsRight == \A s \in Session :
  sessions[s].token \in 0..MaxTokens /\ (Active(s) => sessions[s].token # 0)

\* A token that was traded is gone: no session has it, and it is not drawn again.
Traded == \A n \in 1..MaxTokens :
  rotations[n] # 0 => /\ rotations[n] = 1 /\ owner[n] # {}
                      /\ \A s \in Session : sessions[s].token # n

\* Revocations last: a session is not revived.
EndedOver == \A s \in ended : Held(s) /\ ~Active(s)

AccessHeld == \A t \in access : Held(t.session)

DataRight ==
  RowsRight /\ Traded /\ AccessHeld /\ SessionsMatchAccount /\ AdministratorLeft

IInv == AuthAssumption /\ TypeOK /\ CallsRight /\ EndedOver /\ DataRight

LEMMA IdleRow ==
  ASSUME AuthAssumption
  PROVE  /\ Idle \in CallState /\ AnyUser \in User
         /\ Idle.step = "idle" /\ Idle.session = None /\ Idle.found = {}
<1>1. AnyUser \in User
  BY DEF AuthAssumption, AnyUser
<1>2. Idle \in CallState
  <2>1. /\ "idle" \in Step /\ "user" \in Role /\ "none" \in Change /\ "none" \in Op
        /\ 0 \in Nat /\ None \in Session \cup {None} /\ {} \in SUBSET Session
    BY DEF Step, Role, Change, Op
  <2> QED BY <1>1, <2>1 DEF Idle, CallState
<1>3. Idle.step = "idle" /\ Idle.session = None /\ Idle.found = {}
  BY DEF Idle
<1> QED BY <1>1, <1>2, <1>3

LEMMA InitIInv == AuthAssumption /\ Init => IInv
<1> SUFFICES ASSUME AuthAssumption, Init PROVE IInv
  OBVIOUS
<1>1. TypeOK
  BY IdleRow DEF AuthAssumption, Init, TypeOK, UserRow, SessionRow, Role
<1>2. CallsRight /\ EndedOver
  BY IdleRow DEF Init, CallsRight, EndedOver, Right
<1>3. DataRight
  BY IdleRow DEF AuthAssumption, Init, DataRight, RowsRight, Traded, AccessHeld, Active,
                 SessionsMatchAccount, AdministratorLeft, NoUsers
<1> QED BY <1>1, <1>2, <1>3 DEF IInv

(***************************************************************************)
(* What no step takes back, and why a request's record stays right.        *)
(***************************************************************************)
Onward ==
  /\ \A u \in User : users[u].exists => users'[u].exists
  /\ \A s \in Session : sessions[s].token # 0 =>
       /\ sessions'[s].token # 0 /\ sessions'[s].user = sessions[s].user
       /\ sessions'[s].role = sessions[s].role /\ (sessions'[s].live => sessions[s].live)
  /\ tombs \subseteq tombs'
  /\ \A s \in ended' : s \in ended \/ s \in tombs'

\* One request moves, to a record that is right.
Moves(c) ==
  /\ calls' \in [Call -> CallState]
  /\ \A d \in Call \ {c} : calls'[d] = calls[d]
  /\ Right(calls[c])'

LEMMA RightKept ==
  ASSUME IInv, Onward, NEW d \in Call, calls'[d] = calls[d]
  PROVE  Right(calls[d])'
<1>1. calls[d] \in CallState /\ Right(calls[d])
  BY DEF IInv, TypeOK, CallsRight
<1> QED BY <1>1 DEF Onward, Right, Held, Active, CallState

LEMMA MovesKept ==
  ASSUME IInv, Onward, NEW c \in Call, Moves(c)
  PROVE  CallsRight'
BY RightKept DEF Moves, CallsRight

\* The tables are as they were; revocations may have got through.
Quiet(c) ==
  /\ UNCHANGED data /\ Moves(c)
  /\ tombs \subseteq tombs' /\ tombs' \subseteq Session
  /\ updates' \in 0..MaxUpdates /\ faults' \in 0..MaxFaults
  /\ ended' \subseteq Session
  /\ \A s \in ended' : s \in ended \/ (s \in tombs' /\ Held(s) /\ ~Active(s))

LEMMA QuietKept ==
  ASSUME IInv, NEW c \in Call, Quiet(c)
  PROVE  IInv'
<1> USE DEF IInv, Quiet, data
<1>1. TypeOK'
  BY DEF TypeOK, Moves
<1>2. CallsRight'
  <2>1. Onward
    BY DEF Onward
  <2> QED BY <2>1, MovesKept
<1>3. EndedOver'
  BY DEF EndedOver, Held, Active
<1>4. DataRight'
  BY DEF DataRight, RowsRight, Traded, AccessHeld, SessionsMatchAccount, AdministratorLeft,
         NoUsers, Admin, Active, Held
<1> QED BY <1>1, <1>2, <1>3, <1>4

\* The forms in which a request moves.
LEMMA Ending ==
  ASSUME IInv, NEW c \in Call, Ends(c)
  PROVE  Moves(c) /\ calls'[c].step = "idle"
BY IdleRow DEF IInv, TypeOK, Ends, Moves, Right

LEMMA Going ==
  ASSUME IInv, NEW c \in Call, NEW step \in Step, GoesTo(c, step)
  PROVE  /\ calls' \in [Call -> CallState] /\ \A d \in Call \ {c} : calls'[d] = calls[d]
         /\ calls'[c] = [calls[c] EXCEPT !.step = step]
         /\ calls'[c].step = step /\ calls'[c].session = calls[c].session
         /\ calls'[c].user = calls[c].user /\ calls'[c].op = calls[c].op
         /\ calls'[c].change = calls[c].change /\ calls'[c].found = calls[c].found
         /\ calls'[c].role = calls[c].role /\ calls'[c].token = calls[c].token
<1>1. calls \in [Call -> CallState]
  BY DEF IInv, TypeOK
<1>2. /\ calls' = [calls EXCEPT ![c] = [calls[c] EXCEPT !.step = step]]
  BY <1>1 DEF GoesTo
<1>3. [calls[c] EXCEPT !.step = step] \in CallState
  BY <1>1 DEF CallState
<1> QED BY <1>1, <1>2, <1>3 DEF CallState

LEMMA Starting ==
  ASSUME IInv, NEW c \in Call, NEW op \in Op, NEW step \in Step, NEW u \in User,
         Starts(c, op, step, u)
  PROVE  /\ calls' \in [Call -> CallState] /\ \A d \in Call \ {c} : calls'[d] = calls[d]
         /\ calls'[c].step = step /\ calls'[c].op = op /\ calls'[c].user = u
<1>1. calls \in [Call -> CallState] /\ users[u] \in UserRow
  BY DEF IInv, TypeOK
<1>2. Idle \in CallState
  BY IdleRow DEF IInv
<1>3. PICK k : k = [Idle EXCEPT !.op = op, !.step = step, !.user = u, !.hash = users[u].hash,
                                !.role = users[u].role]
  OBVIOUS
<1>4. k \in CallState /\ k.step = step /\ k.op = op /\ k.user = u
  BY <1>1, <1>2, <1>3 DEF CallState, UserRow
<1>5. calls' = [calls EXCEPT ![c] = k]
  BY <1>3 DEF Starts
<1> QED BY <1>1, <1>4, <1>5

\* Nothing but the request's own record changes.
LEMMA Reading ==
  ASSUME IInv, NEW c \in Call, UNCHANGED <<data, tombs, updates, faults, ended>>, Moves(c)
  PROVE  IInv'
<1>1. Quiet(c)
  BY DEF Quiet, IInv, TypeOK, data
<1> QED BY <1>1, QuietKept

\* What types say of one request.
LEMMA CallTyped ==
  ASSUME IInv, NEW c \in Call
  PROVE  /\ calls \in [Call -> CallState] /\ calls[c] \in CallState /\ Right(calls[c])
         /\ calls[c].step \in Step /\ calls[c].user \in User /\ calls[c].role \in Role
         /\ calls[c].session \in Session \cup {None} /\ calls[c].token \in Nat
         /\ calls[c].change \in Change /\ calls[c].found \subseteq Session /\ calls[c].op \in Op
         /\ calls[c].hash \in Nat /\ calls[c].actor \in User
BY DEF IInv, TypeOK, CallsRight, CallState

(***************************************************************************)
(* Requests that start.                                                    *)
(***************************************************************************)
LEMMA LoginKept ==
  ASSUME IInv, NEW c \in Call, NEW u \in User, Login(c, u)
  PROVE  IInv'
<1>1. /\ calls' \in [Call -> CallState] /\ \A d \in Call \ {c} : calls'[d] = calls[d]
      /\ calls'[c].step = "issue" /\ calls'[c].op = "login" /\ calls'[c].user = u
  BY Starting DEF Login, Op, Step
<1>2. UNCHANGED <<data, tombs, updates, faults, ended>> /\ users'[u].exists
  BY DEF Login, data
<1>3. Moves(c)
  BY <1>1, <1>2 DEF Moves, Right
<1> QED BY <1>2, <1>3, Reading

LEMMA ListingKept ==
  ASSUME IInv, NEW c \in Call, NEW a \in User, NEW u \in User,
         ChangePassword(c, u) \/ AdminResetPassword(c, a, u)
  PROVE  IInv'
<1>1. /\ calls' \in [Call -> CallState] /\ \A d \in Call \ {c} : calls'[d] = calls[d]
      /\ calls'[c].step = "list" /\ calls'[c].op \in {"change", "reset"} /\ calls'[c].user = u
  BY Starting DEF ChangePassword, AdminResetPassword, Op, Step
<1>2. UNCHANGED <<data, tombs, updates, faults, ended>> /\ users'[u].exists
  BY DEF ChangePassword, AdminResetPassword, data
<1>3. Moves(c)
  BY <1>1, <1>2 DEF Moves, Right
<1> QED BY <1>2, <1>3, Reading

LEMMA RefreshKept ==
  ASSUME IInv, NEW c \in Call, NEW s \in Session, NEW n \in 1..MaxTokens, Refresh(c, s, n)
  PROVE  IInv'
<1>1. UNCHANGED <<data, tombs, updates, faults, ended>> /\ UNCHANGED sessions
  BY DEF Refresh, data
<1>2. sessions[s] \in SessionRow /\ calls \in [Call -> CallState] /\ Idle \in CallState
  BY IdleRow DEF IInv, TypeOK
<1>3. PICK k : k = [Idle EXCEPT !.op = "refresh", !.step = "user", !.session = s, !.token = n,
                                !.user = sessions[s].user]
  OBVIOUS
<1>4. /\ k \in CallState /\ k.step = "user" /\ k.session = s /\ k.token = n
      /\ k.user = sessions[s].user
  <2>1. "refresh" \in Op /\ "user" \in Step /\ n \in Nat /\ sessions[s].user \in User
    BY <1>2 DEF Op, Step, SessionRow, IInv, AuthAssumption
  <2> QED BY <1>2, <1>3, <2>1 DEF CallState
<1>5. calls' = [calls EXCEPT ![c] = k]
  BY <1>3 DEF Refresh
<1>6. Held(s)
  <2>1. sessions[s].token = n /\ n # 0
    BY DEF Refresh
  <2> QED BY <2>1 DEF Held
<1>7. Moves(c)
  BY <1>1, <1>2, <1>4, <1>5, <1>6 DEF Moves, Right, Held
<1> QED BY <1>1, <1>7, Reading

LEMMA RevocationKept ==
  ASSUME IInv, NEW c \in Call, NEW s \in Session, NEW op \in Op, Revocation(c, op, s)
  PROVE  IInv'
<1>1. UNCHANGED <<data, tombs, updates, faults, ended>> /\ UNCHANGED sessions
  BY DEF Revocation, data
<1>2. sessions[s] \in SessionRow /\ calls \in [Call -> CallState] /\ Idle \in CallState
  BY IdleRow DEF IInv, TypeOK
<1>3. PICK k : k = [Idle EXCEPT !.op = op, !.step = "tomb", !.session = s,
                                !.user = sessions[s].user, !.found = {s}]
  OBVIOUS
<1>4. k \in CallState /\ k.step = "tomb" /\ k.session = s
  <2>1. "tomb" \in Step /\ sessions[s].user \in User /\ {s} \in SUBSET Session
    BY <1>2 DEF Step, SessionRow
  <2> QED BY <1>2, <1>3, <2>1 DEF CallState
<1>5. calls' = [calls EXCEPT ![c] = k]
  BY <1>3 DEF Revocation
<1>6. Held(s)
  BY DEF Revocation, IInv, DataRight, RowsRight, Held
<1>7. Moves(c)
  BY <1>1, <1>2, <1>4, <1>5, <1>6 DEF Moves, Right, Held
<1> QED BY <1>1, <1>7, Reading

LEMMA UpdateStarts ==
  ASSUME IInv, NEW c \in Call, NEW a \in User, NEW u \in User, NEW change \in Change \ {"none"},
         AdminUpdateUser(c, a, u, change)
  PROVE  IInv'
<1>1. /\ UNCHANGED <<data, tombs, faults, ended>> /\ UNCHANGED users
      /\ updates' = updates + 1 /\ updates < MaxUpdates /\ users[u].exists
  BY DEF AdminUpdateUser, data
<1>2. calls \in [Call -> CallState] /\ Idle \in CallState
  BY IdleRow DEF IInv, TypeOK
<1>3. PICK k : k = [Idle EXCEPT !.op = "update", !.user = u, !.actor = a,
                  !.step = IF change = "activate" THEN "commit" ELSE "list", !.change = change]
  OBVIOUS
<1>4. /\ k \in CallState /\ k.step \in {"list", "commit"} /\ k.user = u /\ k.change = change
      /\ k.op = "update"
  <2>1. /\ "update" \in Op /\ "commit" \in Step /\ "list" \in Step
        /\ (IF change = "activate" THEN "commit" ELSE "list") \in {"list", "commit"}
    BY DEF Op, Step
  <2> QED BY <1>2, <1>3, <2>1 DEF CallState
<1>5. calls' = [calls EXCEPT ![c] = k]
  BY <1>3 DEF AdminUpdateUser
<1>6. Moves(c)
  BY <1>1, <1>2, <1>4, <1>5 DEF Moves, Right
<1>7. updates' \in 0..MaxUpdates
  BY <1>1 DEF IInv, AuthAssumption, TypeOK
<1>8. Quiet(c)
  BY <1>1, <1>6, <1>7 DEF Quiet, IInv, TypeOK
<1> QED BY <1>8, QuietKept

LEMMA CheckKept ==
  ASSUME IInv, NEW c \in Call, NEW s \in Session, NEW role \in Role,
         [session |-> s, role |-> role] \in access, Check(c, [session |-> s, role |-> role])
  PROVE  IInv'
<1>1. UNCHANGED <<data, tombs, updates, faults, ended>> /\ UNCHANGED sessions
  BY DEF Check, data
<1>2. calls \in [Call -> CallState] /\ Idle \in CallState
  BY IdleRow DEF IInv, TypeOK
<1>3. PICK k : k = [Idle EXCEPT !.op = "check", !.step = "first", !.session = s, !.role = role]
  OBVIOUS
<1>4. k \in CallState /\ k.step = "first" /\ k.session = s
  <2>1. "check" \in Op /\ "first" \in Step
    BY DEF Op, Step
  <2> QED BY <1>2, <1>3, <2>1 DEF CallState
<1>5. calls' = [calls EXCEPT ![c] = k]
  BY <1>3 DEF Check
<1>6. Held(s)
  BY DEF IInv, DataRight, AccessHeld
<1>7. Moves(c)
  BY <1>1, <1>2, <1>4, <1>5, <1>6 DEF Moves, Right, Held
<1> QED BY <1>1, <1>7, Reading

(***************************************************************************)
(* Steps of a request that leave the tables alone.                         *)
(***************************************************************************)
LEMMA EndKept ==
  ASSUME IInv, NEW c \in Call, UNCHANGED <<data, tombs, updates, faults, ended>>, Ends(c)
  PROVE  IInv'
BY Ending, Reading

LEMMA RefreshUserKept ==
  ASSUME IInv, NEW c \in Call, RefreshUser(c)
  PROVE  IInv'
<1>1. /\ UNCHANGED <<data, tombs, updates, faults, ended>> /\ UNCHANGED <<sessions, users>>
      /\ calls[c].step = "user"
  BY DEF RefreshUser, data
<1>2. /\ Held(calls[c].session) /\ calls[c].token \in 1..MaxTokens
      /\ sessions[calls[c].session].user = calls[c].user
  BY <1>1, CallTyped DEF Right
<1>3. CASE ~users[calls[c].user].active
  <2>1. GoesTo(c, "tomb") /\ "tomb" \in Step
    BY <1>3 DEF RefreshUser, Step
  <2>2. Moves(c)
    BY <1>1, <1>2, <2>1, Going DEF Moves, Right, Held
  <2> QED BY <1>1, <2>2, Reading
<1>4. CASE users[calls[c].user].active
  <2>1. PICK k : k = [calls[c] EXCEPT !.step = "rotate", !.role = users[calls[c].user].role]
    OBVIOUS
  <2>2. calls' = [calls EXCEPT ![c] = k]
    BY <1>4, <2>1, CallTyped DEF RefreshUser
  <2>3. users[calls[c].user].role \in Role /\ "rotate" \in Step
    BY CallTyped DEF IInv, TypeOK, UserRow, Step
  <2>4. /\ k \in CallState /\ k.step = "rotate" /\ k.session = calls[c].session
        /\ k.token = calls[c].token /\ k.user = calls[c].user
        /\ k.role = users[calls[c].user].role
    BY <2>1, <2>3, CallTyped DEF CallState
  <2>5. Active(k.session) => k.role = sessions[k.session].role
    BY <1>2, <2>4 DEF IInv, DataRight, SessionsMatchAccount, Held
  <2>6. calls'[c] = k /\ calls' \in [Call -> CallState]
    BY <2>2, <2>4, CallTyped
  <2>7. Moves(c)
    BY <1>1, <1>2, <2>2, <2>4, <2>5, <2>6, CallTyped DEF Moves, Right, Held, Active
  <2> QED BY <1>1, <2>7, Reading
<1> QED BY <1>3, <1>4

LEMMA TombstoneKept ==
  ASSUME IInv, NEW c \in Call, Tombstone(c)
  PROVE  IInv'
<1>1. /\ UNCHANGED <<data, updates, faults, ended>> /\ UNCHANGED sessions
      /\ calls[c].step = "tomb" /\ tombs' = tombs \cup {calls[c].session}
  BY DEF Tombstone, data
<1>2. Held(calls[c].session)
  BY <1>1, CallTyped DEF Right
<1>3. GoesTo(c, "revoke") /\ "revoke" \in Step
  BY DEF Tombstone, Step
<1>4. Moves(c)
  BY <1>1, <1>2, <1>3, Going DEF Moves, Right, Held
<1>5. Quiet(c)
  BY <1>1, <1>2, <1>4 DEF Quiet, IInv, TypeOK, Held
<1> QED BY <1>5, QuietKept

LEMMA ListKept ==
  ASSUME IInv, NEW c \in Call, List(c)
  PROVE  IInv'
<1>1. /\ UNCHANGED <<data, tombs, updates, faults, ended>> /\ UNCHANGED users
      /\ calls[c].step = "list"
  BY DEF List, data
<1>2. PICK k : k = [calls[c] EXCEPT !.step = "tombs", !.found = ActiveOf(calls[c].user)]
  OBVIOUS
<1>3. calls' = [calls EXCEPT ![c] = k]
  BY <1>2, CallTyped DEF List
<1>4. ActiveOf(calls[c].user) \in SUBSET Session /\ "tombs" \in Step
  BY DEF ActiveOf, Step
<1>5. /\ k \in CallState /\ k.step = "tombs" /\ k.user = calls[c].user
      /\ k.change = calls[c].change /\ k.op = calls[c].op
  BY <1>2, <1>4, CallTyped DEF CallState
<1>6. /\ users[calls[c].user].exists
      /\ calls[c].op = "update" => calls[c].change # "none"
  BY <1>1, CallTyped DEF Right
<1>7. calls'[c] = k /\ calls' \in [Call -> CallState]
  BY <1>3, <1>5, CallTyped
<1>8. Moves(c)
  BY <1>1, <1>3, <1>5, <1>6, <1>7, CallTyped DEF Moves, Right
<1> QED BY <1>1, <1>8, Reading

LEMMA TombstonesKept ==
  ASSUME IInv, NEW c \in Call, Tombstones(c)
  PROVE  IInv'
<1>1. /\ UNCHANGED <<data, updates, faults, ended>> /\ UNCHANGED users
      /\ calls[c].step = "tombs" /\ tombs' = tombs \cup calls[c].found
  BY DEF Tombstones, data
<1>2. /\ users[calls[c].user].exists
      /\ calls[c].op = "update" => calls[c].change # "none"
  BY <1>1, CallTyped DEF Right
<1>3. GoesTo(c, "commit") /\ "commit" \in Step
  BY DEF Tombstones, Step
<1>4. Moves(c)
  BY <1>1, <1>2, <1>3, Going DEF Moves, Right
<1>5. Quiet(c)
  BY <1>1, <1>4, CallTyped DEF Quiet, IInv, TypeOK
<1> QED BY <1>5, QuietKept

LEMMA AnnounceKept ==
  ASSUME IInv, NEW c \in Call, Announce(c)
  PROVE  IInv'
<1>1. /\ UNCHANGED <<data, updates, faults>> /\ UNCHANGED users /\ calls[c].step = "announce"
      /\ tombs' = tombs \cup calls[c].found /\ ended' = ended \cup calls[c].found
  BY DEF Announce, data
<1>2. /\ users[calls[c].user].exists
      /\ \A s \in calls[c].found : Held(s) /\ ~Active(s)
  BY <1>1, CallTyped DEF Right
<1>3. Moves(c)
  <2>1. CASE Ends(c)
    BY <2>1, Ending
  <2>2. CASE GoesTo(c, "issue")
    <3>1. "issue" \in Step
      BY DEF Step
    <3> QED BY <1>1, <1>2, <2>2, <3>1, Going DEF Moves, Right
  <2> QED BY <2>1, <2>2 DEF Announce
<1>4. Quiet(c)
  BY <1>1, <1>2, <1>3, CallTyped DEF Quiet, IInv, TypeOK
<1> QED BY <1>4, QuietKept

LEMMA RedisFailsKept ==
  ASSUME IInv, NEW c \in Call, RedisFails(c)
  PROVE  IInv'
<1>1. PICK some \in SUBSET calls[c].found : tombs' = tombs \cup some
  BY DEF RedisFails
<1>2. /\ UNCHANGED <<data, updates, ended>> /\ faults < MaxFaults /\ faults' = faults + 1
      /\ Ends(c)
  BY DEF RedisFails
<1>3. faults' \in 0..MaxFaults
  BY <1>2 DEF IInv, AuthAssumption, TypeOK
<1>4. Quiet(c)
  BY <1>1, <1>2, <1>3, Ending, CallTyped DEF Quiet, IInv, TypeOK
<1> QED BY <1>4, QuietKept

\* The three reads of a check.
LEMMA LookKept ==
  ASSUME IInv, NEW c \in Call, FirstLook(c) \/ ReadRow(c) \/ SecondLook(c)
  PROVE  IInv'
<1>1. /\ UNCHANGED <<data, tombs, updates, ended>> /\ UNCHANGED sessions
      /\ calls[c].step \in {"first", "row", "second"} /\ faults' \in 0..MaxFaults
  BY DEF FirstLook, ReadRow, SecondLook, data, IInv, AuthAssumption, TypeOK
<1>2. Held(calls[c].session) /\ (Active(calls[c].session) => calls[c].session \notin ended)
  BY <1>1, CallTyped DEF Right, IInv, EndedOver
<1>3. \/ Ends(c)
      \/ \E step \in {"row", "granted"} : GoesTo(c, step)
      \/ Active(calls[c].session) /\ GoesTo(c, "second")
  BY DEF FirstLook, ReadRow, SecondLook
<1>4. Moves(c)
  <2>1. CASE Ends(c)
    BY <2>1, Ending
  <2>2. ASSUME NEW step \in {"row", "granted"}, GoesTo(c, step) PROVE Moves(c)
    <3>1. step \in Step
      BY DEF Step
    <3> QED BY <1>1, <1>2, <2>2, <3>1, Going DEF Moves, Right, Held
  <2>3. CASE Active(calls[c].session) /\ GoesTo(c, "second")
    <3>1. "second" \in Step
      BY DEF Step
    <3> QED BY <1>1, <1>2, <2>3, <3>1, Going DEF Moves, Right, Held
  <2> QED BY <1>3, <2>1, <2>2, <2>3
<1>5. Quiet(c)
  BY <1>1, <1>4 DEF Quiet, IInv, TypeOK
<1> QED BY <1>5, QuietKept

(***************************************************************************)
(* New accounts.  No session is anybody's who does not exist yet.          *)
(***************************************************************************)
LEMMA Enrolling ==
  ASSUME IInv, NEW u \in User, NEW role \in Role, Enrolled(u, role), role = "admin" \/ ~NoUsers,
         UNCHANGED <<sessions, access, owner, ended, rotations>>
  PROVE  /\ users' \in [User -> UserRow] /\ hashes' \in 0..MaxHashes
         /\ \A v \in User : users[v].exists => users'[v].exists
         /\ users'[u].exists /\ DataRight' /\ EndedOver'
<1>1. PICK r : r = [exists |-> TRUE, active |-> TRUE, role |-> role, hash |-> hashes + 1]
  OBVIOUS
<1>2. /\ users' = [users EXCEPT ![u] = r] /\ hashes' = hashes + 1 /\ hashes < MaxHashes
      /\ ~users[u].exists
  BY <1>1 DEF Enrolled
<1>3. hashes' \in 0..MaxHashes /\ hashes + 1 \in Nat
  BY <1>2 DEF IInv, TypeOK, AuthAssumption
<1>4. r \in UserRow /\ r.exists /\ r.active /\ r.role = role
  BY <1>1, <1>3 DEF UserRow
<1>5. /\ users' \in [User -> UserRow] /\ users'[u] = r
      /\ \A v \in User \ {u} : users'[v] = users[v]
  BY <1>2, <1>4 DEF IInv, TypeOK
<1>6. \A v \in User : users[v].exists => users'[v].exists
  BY <1>4, <1>5
<1>7. SessionsMatchAccount'
  <2>1. \A s \in Session : Active(s) => sessions[s].user \in User \ {u}
    BY <1>2 DEF IInv, TypeOK, SessionRow, DataRight, SessionsMatchAccount
  <2> QED BY <1>5, <2>1 DEF IInv, DataRight, SessionsMatchAccount, Active
<1>8. AdministratorLeft'
  <2>1. CASE role = "admin"
    BY <1>4, <1>5, <2>1 DEF AdministratorLeft, Admin
  <2>2. CASE ~NoUsers
    <3>1. PICK v \in User : Admin(v)
      BY <2>2 DEF IInv, DataRight, AdministratorLeft
    <3>2. users'[v] = users[v]
      BY <1>2, <1>5, <3>1 DEF Admin
    <3> QED BY <3>1, <3>2 DEF AdministratorLeft, Admin
  <2> QED BY <2>1, <2>2
<1>9. RowsRight' /\ Traded' /\ AccessHeld' /\ EndedOver'
  BY DEF IInv, DataRight, RowsRight, Traded, AccessHeld, EndedOver, Held, Active
<1> QED BY <1>3, <1>4, <1>5, <1>6, <1>7, <1>8, <1>9 DEF DataRight

LEMMA RegisterKept ==
  ASSUME IInv, NEW c \in Call, NEW u \in User, Register(c, u)
  PROVE  IInv'
<1>1. PICK role : role = IF NoUsers THEN "admin" ELSE "user"
  OBVIOUS
<1>2. role \in Role /\ (role = "admin" \/ ~NoUsers)
  BY <1>1 DEF Role
<1>3. PICK k : k = [Idle EXCEPT !.op = "register", !.step = "issue", !.user = u,
                                !.hash = hashes + 1, !.role = role]
  OBVIOUS
<1>4. /\ Enrolled(u, role) /\ calls' = [calls EXCEPT ![c] = k]
      /\ UNCHANGED <<sessions, tombs, access, owner, updates, faults, ended, rotations>>
  BY <1>1, <1>3 DEF Register
<1>5. /\ users' \in [User -> UserRow] /\ hashes' \in 0..MaxHashes
      /\ \A v \in User : users[v].exists => users'[v].exists
      /\ users'[u].exists /\ DataRight' /\ EndedOver'
  BY <1>2, <1>4, Enrolling
<1>6. k \in CallState /\ k.step = "issue" /\ k.op = "register" /\ k.user = u
  <2>1. "register" \in Op /\ "issue" \in Step /\ hashes + 1 \in Nat /\ Idle \in CallState
    BY IdleRow DEF Op, Step, IInv, TypeOK
  <2> QED BY <1>2, <1>3, <2>1 DEF CallState
<1>7. calls' \in [Call -> CallState] /\ calls'[c] = k
  BY <1>4, <1>6, CallTyped
<1>8. Moves(c)
  BY <1>4, <1>5, <1>6, <1>7, CallTyped DEF Moves, Right
<1>9. Onward
  BY <1>4, <1>5 DEF Onward
<1>10. TypeOK'
  BY <1>4, <1>5, <1>7 DEF IInv, TypeOK
<1> QED BY <1>5, <1>8, <1>9, <1>10, MovesKept DEF IInv

LEMMA AdminCreateKept ==
  ASSUME IInv, NEW a \in User, NEW u \in User, NEW role \in Role, AdminCreate(a, u, role)
  PROVE  IInv'
<1>1. /\ Enrolled(u, role) /\ ~NoUsers
      /\ UNCHANGED <<sessions, tombs, access, calls, owner, updates, faults, ended, rotations>>
  BY DEF AdminCreate, Admin, NoUsers
<1>2. /\ users' \in [User -> UserRow] /\ hashes' \in 0..MaxHashes
      /\ \A v \in User : users[v].exists => users'[v].exists
      /\ DataRight' /\ EndedOver'
  BY <1>1, Enrolling
<1>3. Onward
  BY <1>1, <1>2 DEF Onward
<1>4. CallsRight'
  BY <1>1, <1>3, RightKept DEF CallsRight
<1>5. TypeOK'
  BY <1>1, <1>2 DEF IInv, TypeOK
<1> QED BY <1>2, <1>4, <1>5 DEF IInv

(***************************************************************************)
(* Sessions that are opened and go on to the next token.                   *)
(***************************************************************************)
LEMMA IssueKept ==
  ASSUME IInv, NEW c \in Call, Issue(c)
  PROVE  IInv'
<1>1. CASE UNCHANGED data
  BY <1>1, EndKept DEF Issue
<1>2. ASSUME NEW s \in Session, NEW n \in 1..MaxTokens,
             Verified(calls[c]), sessions[s].token = 0, Fresh(n),
             sessions' = [sessions EXCEPT ![s] = [user |-> calls[c].user, token |-> n,
                            live |-> TRUE, hash |-> calls[c].hash, role |-> calls[c].role]],
             owner' = [owner EXCEPT ![n] = {s}],
             access' = access \cup {[session |-> s, role |-> calls[c].role]},
             UNCHANGED <<users, hashes, rotations>>
      PROVE  IInv'
  <2>1. PICK r : r = [user |-> calls[c].user, token |-> n, live |-> TRUE,
                      hash |-> calls[c].hash, role |-> calls[c].role]
    OBVIOUS
  <2>2. PICK t : t = [session |-> s, role |-> calls[c].role]
    OBVIOUS
  <2>3. /\ r \in SessionRow /\ t \in [session : Session, role : Role]
        /\ r.user = calls[c].user /\ r.token = n /\ r.live /\ r.hash = calls[c].hash
        /\ r.role = calls[c].role /\ t.session = s /\ t.role = calls[c].role
    BY <2>1, <2>2, CallTyped DEF SessionRow, IInv, AuthAssumption
  <2>4. sessions' = [sessions EXCEPT ![s] = r] /\ access' = access \cup {t}
    BY <1>2, <2>1, <2>2
  <2>5. /\ sessions' \in [Session -> SessionRow] /\ sessions'[s] = r
        /\ \A z \in Session \ {s} : sessions'[z] = sessions[z]
    BY <2>3, <2>4 DEF IInv, TypeOK
  <2>6. UNCHANGED <<tombs, updates, faults, ended, users, hashes, rotations>> /\ Ends(c)
    BY <1>2 DEF Issue
  <2>7. Onward
    BY <1>2, <2>5, <2>6 DEF Onward
  <2>8. CallsRight' /\ calls' \in [Call -> CallState]
    BY <2>6, <2>7, Ending, MovesKept DEF Moves
  <2>9. TypeOK'
    <3>1. owner' \in [1..MaxTokens -> SUBSET Session]
      BY <1>2 DEF IInv, TypeOK
    <3>2. ASSUME NEW z \in Session, sessions'[z].token # 0
          PROVE  owner'[sessions'[z].token] = {z}
      <4>1. CASE z = s
        BY <1>2, <2>3, <2>5, <4>1 DEF IInv, TypeOK
      <4>2. CASE z # s
        <5>1. PICK m : m = sessions[z].token
          OBVIOUS
        <5>2. sessions'[z].token = m /\ m \in 1..MaxTokens /\ owner[m] = {z}
          BY <2>5, <3>2, <4>2, <5>1 DEF IInv, TypeOK, SessionRow, DataRight, RowsRight,
             AuthAssumption
        <5>3. m # n
          BY <1>2, <5>2 DEF Fresh
        <5> QED BY <1>2, <5>2, <5>3 DEF IInv, TypeOK
      <4> QED BY <4>1, <4>2
    <3> QED BY <2>3, <2>4, <2>5, <2>6, <2>8, <3>1, <3>2 DEF IInv, TypeOK
  <2>10. EndedOver'
    BY <1>2, <2>5, <2>6 DEF IInv, EndedOver, Held, Active
  <2>11. DataRight'
    <3>1. RowsRight'
      BY <2>3, <2>5 DEF IInv, DataRight, RowsRight, Active, AuthAssumption
    <3>2. Traded'
      <4> SUFFICES ASSUME NEW m \in 1..MaxTokens, rotations[m] # 0
                   PROVE  /\ rotations[m] = 1 /\ owner'[m] # {}
                          /\ \A z \in Session : sessions'[z].token # m
        BY <2>6 DEF Traded
      <4>1. rotations[m] = 1 /\ owner[m] # {} /\ \A z \in Session : sessions[z].token # m
        BY DEF IInv, DataRight, Traded
      <4>2. m # n
        BY <1>2, <4>1 DEF Fresh
      <4> QED BY <1>2, <2>3, <2>5, <4>1, <4>2 DEF IInv, TypeOK
    <3>3. AccessHeld'
      BY <1>2, <2>3, <2>4, <2>5 DEF IInv, DataRight, AccessHeld, Held
    <3>4. SessionsMatchAccount'
      <4>1. /\ users[calls[c].user].exists /\ users[calls[c].user].active
            /\ users[calls[c].user].hash = calls[c].hash
            /\ users[calls[c].user].role = calls[c].role
        BY <1>2, CallTyped DEF Verified, Right, Issue
      <4>2. \A z \in Session : Active(z)' =>
              /\ users[sessions'[z].user].exists /\ users[sessions'[z].user].active
              /\ users[sessions'[z].user].hash = sessions'[z].hash
              /\ users[sessions'[z].user].role = sessions'[z].role
        BY <2>3, <2>5, <4>1 DEF IInv, DataRight, SessionsMatchAccount, Active
      <4>3. \A x \in access' : Active(x.session)' => x.role = sessions'[x.session].role
        <5>1. \A x \in access : x.session \in Session \ {s}
          BY <1>2 DEF IInv, DataRight, AccessHeld, Held
        <5> QED BY <2>3, <2>4, <2>5, <5>1 DEF IInv, DataRight, SessionsMatchAccount, Active
      <4> QED BY <2>6, <4>2, <4>3 DEF SessionsMatchAccount
    <3>5. AdministratorLeft'
      BY <2>6 DEF IInv, DataRight, AdministratorLeft, NoUsers, Admin
    <3> QED BY <3>1, <3>2, <3>3, <3>4, <3>5 DEF DataRight
  <2> QED BY <2>8, <2>9, <2>10, <2>11 DEF IInv
<1> QED BY <1>1, <1>2 DEF Issue

LEMMA RotateKept ==
  ASSUME IInv, NEW c \in Call, Rotate(c)
  PROVE  IInv'
<1>1. CASE UNCHANGED data
  BY <1>1, EndKept DEF Rotate
<1>2. ASSUME NEW n \in 1..MaxTokens, Current(calls[c]), Fresh(n),
             sessions' = [sessions EXCEPT ![calls[c].session].token = n],
             owner' = [owner EXCEPT ![n] = {calls[c].session}],
             access' = access \cup {[session |-> calls[c].session, role |-> calls[c].role]},
             rotations' = [rotations EXCEPT ![calls[c].token] = @ + 1],
             UNCHANGED <<users, hashes>>
      PROVE  IInv'
  <2>1. PICK s \in Session : s = calls[c].session
    BY CallTyped DEF Right, Rotate, Held
  <2>2. PICK p \in 1..MaxTokens : p = calls[c].token
    BY CallTyped DEF Right, Rotate
  <2>3. PICK t : t = [session |-> s, role |-> calls[c].role]
    OBVIOUS
  <2>4. /\ t \in [session : Session, role : Role] /\ t.session = s /\ t.role = calls[c].role
        /\ sessions[s] \in SessionRow
    BY <2>3, CallTyped DEF IInv, TypeOK
  <2>5. /\ sessions[s].token = p /\ sessions[s].live /\ sessions[s].role = t.role
        /\ sessions[s].user = calls[c].user
    BY <1>2, <2>1, <2>2, <2>4, CallTyped DEF Current, Active, Right, Rotate
  <2>6. PICK r : r = [sessions[s] EXCEPT !.token = n]
    OBVIOUS
  <2>7. /\ r \in SessionRow /\ r.user = sessions[s].user /\ r.token = n
        /\ r.live = sessions[s].live
        /\ r.hash = sessions[s].hash /\ r.role = sessions[s].role
    BY <2>4, <2>6 DEF SessionRow, IInv, AuthAssumption
  <2>8. sessions' = [sessions EXCEPT ![s] = r] /\ access' = access \cup {t}
    BY <1>2, <2>1, <2>3, <2>6 DEF IInv, TypeOK
  <2>9. /\ sessions' \in [Session -> SessionRow] /\ sessions'[s] = r
        /\ \A z \in Session \ {s} : sessions'[z] = sessions[z]
    BY <2>7, <2>8 DEF IInv, TypeOK
  <2>10. UNCHANGED <<tombs, updates, faults, ended, users, hashes>> /\ Ends(c)
    BY <1>2 DEF Rotate
  <2>11. Onward
    BY <1>2, <2>7, <2>9, <2>10 DEF Onward
  <2>12. CallsRight' /\ calls' \in [Call -> CallState]
    BY <2>10, <2>11, Ending, MovesKept DEF Moves
  <2>13. /\ owner' = [owner EXCEPT ![n] = {s}] /\ owner[n] = {} /\ owner[p] = {s} /\ p # n
    <3>1. owner' = [owner EXCEPT ![n] = {s}] /\ owner[n] = {}
      BY <1>2, <2>1 DEF Fresh
    <3>2. owner[p] = {s}
      <4>1. p # 0
        OBVIOUS
      <4> QED BY <2>5, <4>1 DEF IInv, TypeOK
    <3> QED BY <3>1, <3>2
  <2>14. /\ rotations[p] = 0 /\ rotations' = [rotations EXCEPT ![p] = 1]
    <3>1. rotations[p] = 0
      BY <2>5 DEF IInv, DataRight, Traded
    <3>2. rotations' = [rotations EXCEPT ![p] = rotations[p] + 1] /\ rotations[p] + 1 = 1
      BY <1>2, <2>2, <3>1 DEF IInv, TypeOK
    <3> QED BY <3>1, <3>2
  <2>15. TypeOK'
    <3>1. owner' \in [1..MaxTokens -> SUBSET Session]
      BY <2>13 DEF IInv, TypeOK
    <3>2. ASSUME NEW z \in Session, sessions'[z].token # 0
          PROVE  owner'[sessions'[z].token] = {z}
      <4>1. CASE z = s
        BY <2>7, <2>9, <2>13, <4>1 DEF IInv, TypeOK
      <4>2. CASE z # s
        <5>1. PICK m : m = sessions[z].token
          OBVIOUS
        <5>2. sessions'[z].token = m /\ m \in 1..MaxTokens /\ owner[m] = {z}
          BY <2>9, <3>2, <4>2, <5>1 DEF IInv, TypeOK, SessionRow, DataRight, RowsRight,
             AuthAssumption
        <5>3. m # n
          BY <2>13, <5>2
        <5> QED BY <2>13, <5>2, <5>3 DEF IInv, TypeOK
      <4> QED BY <4>1, <4>2
    <3>3. rotations' \in [1..MaxTokens -> 0..MaxTokens]
      BY <2>14 DEF IInv, TypeOK, AuthAssumption
    <3> QED BY <2>4, <2>8, <2>9, <2>10, <2>12, <3>1, <3>2, <3>3 DEF IInv, TypeOK
  <2>16. EndedOver'
    BY <2>5, <2>9, <2>10 DEF IInv, EndedOver, Held, Active
  <2>17. RowsRight'
    BY <2>7, <2>9 DEF IInv, DataRight, RowsRight, Active, AuthAssumption
  <2>18. Traded'
    <3> SUFFICES ASSUME NEW m \in 1..MaxTokens, rotations'[m] # 0
                 PROVE  /\ rotations'[m] = 1 /\ owner'[m] # {}
                        /\ \A z \in Session : sessions'[z].token # m
      BY DEF Traded
    <3>1. CASE m = p
      <4>1. \A z \in Session \ {s} : sessions[z].token # p
        BY <2>2, <2>13 DEF IInv, TypeOK
      <4> QED BY <2>7, <2>9, <2>13, <2>14, <3>1, <4>1 DEF IInv, TypeOK
    <3>2. CASE m # p
      <4>1. /\ rotations'[m] = rotations[m] /\ rotations[m] = 1 /\ owner[m] # {}
            /\ \A z \in Session : sessions[z].token # m
        BY <2>14, <3>2 DEF IInv, DataRight, Traded, TypeOK
      <4> QED BY <2>7, <2>9, <2>13, <4>1 DEF IInv, TypeOK
    <3> QED BY <3>1, <3>2
  <2>19. AccessHeld'
    BY <2>4, <2>7, <2>8, <2>9 DEF IInv, DataRight, AccessHeld, Held
  <2>20. SessionsMatchAccount'
    BY <2>4, <2>5, <2>7, <2>8, <2>9, <2>10
       DEF IInv, DataRight, SessionsMatchAccount, AccessHeld, Held, Active
  <2>21. AdministratorLeft'
    BY <2>10 DEF IInv, DataRight, AdministratorLeft, NoUsers, Admin
  <2> QED BY <2>12, <2>15, <2>16, <2>17, <2>18, <2>19, <2>20, <2>21 DEF IInv, DataRight
<1> QED BY <1>1, <1>2 DEF Rotate

(***************************************************************************)
(* Sessions that end.                                                      *)
(***************************************************************************)
\* Some sessions are revoked or expire; nothing else about them changes.
Closing(gone) ==
  sessions' = [s \in Session |-> IF s \in gone THEN [sessions[s] EXCEPT !.live = FALSE]
                                 ELSE sessions[s]]

LEMMA ClosingRows ==
  ASSUME IInv, NEW gone \in SUBSET Session, Closing(gone)
  PROVE  /\ sessions' \in [Session -> SessionRow]
         /\ \A s \in Session : /\ sessions'[s].user = sessions[s].user
                               /\ sessions'[s].token = sessions[s].token
                               /\ sessions'[s].hash = sessions[s].hash
                               /\ sessions'[s].role = sessions[s].role
                               /\ sessions'[s].live <=> sessions[s].live /\ s \notin gone
<1>1. sessions \in [Session -> SessionRow]
  BY DEF IInv, TypeOK
<1>2. ASSUME NEW s \in Session
      PROVE  /\ sessions'[s] \in SessionRow
             /\ sessions'[s].user = sessions[s].user /\ sessions'[s].token = sessions[s].token
             /\ sessions'[s].hash = sessions[s].hash /\ sessions'[s].role = sessions[s].role
             /\ sessions'[s].live <=> sessions[s].live /\ s \notin gone
  <2>1. CASE s \in gone
    <3>1. sessions'[s] = [sessions[s] EXCEPT !.live = FALSE] /\ sessions[s] \in SessionRow
      BY <1>1, <2>1 DEF Closing
    <3> QED BY <2>1, <3>1 DEF SessionRow
  <2>2. CASE s \notin gone
    BY <1>1, <2>2 DEF Closing
  <2> QED BY <2>1, <2>2
<1>3. sessions' \in [Session -> SessionRow]
  BY <1>2 DEF Closing
<1> QED BY <1>2, <1>3

\* The accounts may change with it, if whoever is not revoked still agrees with them.
LEMMA ClosingData ==
  ASSUME IInv, NEW gone \in SUBSET Session, Closing(gone),
         UNCHANGED <<access, owner, rotations>>,
         \A s \in Session \ gone : Active(s) => users'[sessions[s].user] = users[sessions[s].user],
         AdministratorLeft'
  PROVE  DataRight'
<1>1. /\ sessions' \in [Session -> SessionRow]
      /\ \A s \in Session : /\ sessions'[s].user = sessions[s].user
                            /\ sessions'[s].token = sessions[s].token
                            /\ sessions'[s].hash = sessions[s].hash
                            /\ sessions'[s].role = sessions[s].role
                            /\ sessions'[s].live <=> sessions[s].live /\ s \notin gone
  BY ClosingRows
<1>2. RowsRight' /\ Traded' /\ AccessHeld'
  BY <1>1 DEF IInv, DataRight, RowsRight, Traded, AccessHeld, Held, Active
<1>3. SessionsMatchAccount'
  BY <1>1 DEF IInv, DataRight, SessionsMatchAccount, AccessHeld, Held, Active
<1> QED BY <1>2, <1>3 DEF DataRight

LEMMA RevokeKept ==
  ASSUME IInv, NEW c \in Call, Revoke(c)
  PROVE  IInv'
<1>1. PICK s \in Session : s = calls[c].session
  BY CallTyped DEF Revoke, Right, Held
<1>2. /\ Closing({s}) /\ ended' = ended \cup {s} /\ Ends(c)
      /\ UNCHANGED <<users, owner, hashes, access, rotations, tombs, updates, faults>>
  BY <1>1 DEF Revoke, Closing, IInv, TypeOK
<1>3. /\ sessions' \in [Session -> SessionRow]
      /\ \A z \in Session : /\ sessions'[z].user = sessions[z].user
                            /\ sessions'[z].token = sessions[z].token
                            /\ sessions'[z].hash = sessions[z].hash
                            /\ sessions'[z].role = sessions[z].role
                            /\ sessions'[z].live <=> sessions[z].live /\ z \notin {s}
  BY <1>2, ClosingRows
<1>4. Held(s) /\ s \in tombs
  BY <1>1, CallTyped DEF Revoke, Right
<1>5. Onward
  BY <1>2, <1>3, <1>4 DEF Onward
<1>6. CallsRight' /\ calls' \in [Call -> CallState]
  BY <1>2, <1>5, Ending, MovesKept DEF Moves
<1>7. AdministratorLeft'
  BY <1>2 DEF IInv, DataRight, AdministratorLeft, NoUsers, Admin
<1>8. DataRight'
  BY <1>2, <1>7, ClosingData
<1>9. EndedOver'
  BY <1>2, <1>3, <1>4 DEF IInv, EndedOver, Held, Active
<1>10. TypeOK'
  BY <1>2, <1>3, <1>6 DEF IInv, TypeOK
<1> QED BY <1>6, <1>8, <1>9, <1>10 DEF IInv

LEMMA ExpireKept ==
  ASSUME IInv, NEW s \in Session, Expire(s)
  PROVE  IInv'
<1>1. /\ Closing({s})
      /\ UNCHANGED <<users, owner, hashes, access, rotations, tombs, calls, updates, faults, ended>>
  BY DEF Expire, Closing, IInv, TypeOK
<1>2. /\ sessions' \in [Session -> SessionRow]
      /\ \A z \in Session : /\ sessions'[z].user = sessions[z].user
                            /\ sessions'[z].token = sessions[z].token
                            /\ sessions'[z].hash = sessions[z].hash
                            /\ sessions'[z].role = sessions[z].role
                            /\ sessions'[z].live <=> sessions[z].live /\ z \notin {s}
  BY <1>1, ClosingRows
<1>3. Onward
  BY <1>1, <1>2 DEF Onward
<1>4. CallsRight'
  BY <1>1, <1>3, RightKept DEF CallsRight
<1>5. AdministratorLeft'
  BY <1>1 DEF IInv, DataRight, AdministratorLeft, NoUsers, Admin
<1>6. DataRight'
  BY <1>1, <1>5, ClosingData
<1>7. EndedOver'
  BY <1>1, <1>2 DEF IInv, EndedOver, Held, Active
<1>8. TypeOK'
  BY <1>1, <1>2 DEF IInv, TypeOK
<1> QED BY <1>4, <1>6, <1>7, <1>8 DEF IInv

\* No request remembers the session whose tombstone lapses.
LEMMA TombLapsesKept ==
  ASSUME IInv, NEW s \in Session, TombLapses(s)
  PROVE  IInv'
<1>1. /\ UNCHANGED <<data, calls, updates, faults, ended>> /\ tombs' = tombs \ {s}
      /\ UNCHANGED <<users, sessions, owner, hashes, access, rotations>>
      /\ \A c \in Call : calls[c].session # s
  BY DEF TombLapses, data
<1>2. TypeOK'
  BY <1>1 DEF IInv, TypeOK
<1>3. CallsRight'
  BY <1>1 DEF IInv, CallsRight, Right, Held, Active
<1>4. EndedOver' /\ DataRight'
  BY <1>1 DEF IInv, EndedOver, DataRight, RowsRight, Traded, AccessHeld, SessionsMatchAccount,
              AdministratorLeft, NoUsers, Admin, Active, Held
<1> QED BY <1>2, <1>3, <1>4 DEF IInv

(***************************************************************************)
(* Changes of an account, with the revocation of all its sessions.         *)
(***************************************************************************)
LEMMA RevokingAll ==
  ASSUME IInv, NEW c \in Call, RevokeAll(c), users' \in [User -> UserRow],
         hashes' \in 0..MaxHashes, users[calls[c].user].exists,
         \A u \in User : users'[u].exists = users[u].exists,
         \A u \in User \ {calls[c].user} : users'[u] = users[u], AdministratorLeft'
  PROVE  IInv'
<1>1. PICK gone : gone = ActiveOf(calls[c].user)
  OBVIOUS
<1>2. gone \in SUBSET Session /\ \A s \in gone : Active(s)
  BY <1>1 DEF ActiveOf
<1>3. /\ Closing(gone)
      /\ UNCHANGED <<access, owner, rotations, tombs, updates, faults, ended>>
  BY <1>1 DEF RevokeAll, Revoked, Closing
<1>4. /\ sessions' \in [Session -> SessionRow]
      /\ \A z \in Session : /\ sessions'[z].user = sessions[z].user
                            /\ sessions'[z].token = sessions[z].token
                            /\ sessions'[z].hash = sessions[z].hash
                            /\ sessions'[z].role = sessions[z].role
                            /\ sessions'[z].live <=> sessions[z].live /\ z \notin gone
  BY <1>2, <1>3, ClosingRows
<1>5. Onward
  BY <1>3, <1>4 DEF Onward
<1>6. PICK r \in UserRow : r = users'[calls[c].user]
  BY CallTyped
<1>7. PICK k : k = [calls[c] EXCEPT !.step = "announce", !.found = gone, !.hash = r.hash,
                                    !.role = r.role]
  OBVIOUS
<1>8. calls' = [calls EXCEPT ![c] = k]
  BY <1>1, <1>6, <1>7, CallTyped DEF RevokeAll, Revoked
<1>9. /\ k \in CallState /\ k.step = "announce" /\ k.user = calls[c].user /\ k.found = gone
      /\ k.op = calls[c].op
  <2>1. "announce" \in Step /\ r.hash \in Nat /\ r.role \in Role
    BY DEF Step, UserRow
  <2> QED BY <1>2, <1>7, <2>1, CallTyped DEF CallState
<1>10. calls' \in [Call -> CallState] /\ calls'[c] = k
  BY <1>8, <1>9, CallTyped
<1>11. Moves(c)
  <2>1. \A s \in gone : Held(s)' /\ ~Active(s)'
    BY <1>2, <1>4 DEF IInv, DataRight, RowsRight, Held, Active
  <2>2. users'[calls[c].user].exists
    BY CallTyped
  <2>3. Right(calls[c])'
    BY <1>9, <1>10, <2>1, <2>2 DEF Right
  <2> QED BY <1>8, <1>10, <2>3, CallTyped DEF Moves
<1>12. CallsRight'
  BY <1>5, <1>11, MovesKept
<1>13. DataRight'
  <2>1. \A s \in Session \ gone : Active(s) => users'[sessions[s].user] = users[sessions[s].user]
    BY <1>1 DEF ActiveOf, IInv, TypeOK, SessionRow
  <2> QED BY <1>2, <1>3, <2>1, ClosingData
<1>14. EndedOver'
  BY <1>3, <1>4 DEF IInv, EndedOver, Held, Active
<1>15. TypeOK'
  BY <1>3, <1>4, <1>10 DEF IInv, TypeOK
<1> QED BY <1>12, <1>13, <1>14, <1>15 DEF IInv

LEMMA CommitPasswordKept ==
  ASSUME IInv, NEW c \in Call, CommitPassword(c)
  PROVE  IInv'
<1>1. CASE Ends(c) /\ UNCHANGED <<data, tombs, updates, faults, ended>>
  BY <1>1, EndKept
<1>2. CASE /\ hashes < MaxHashes /\ users' = [users EXCEPT ![calls[c].user].hash = hashes + 1]
           /\ hashes' = hashes + 1 /\ RevokeAll(c)
  <2>1. PICK u \in User : u = calls[c].user
    BY CallTyped
  <2>2. PICK r : r = [users[u] EXCEPT !.hash = hashes + 1]
    OBVIOUS
  <2>3. hashes + 1 \in Nat /\ hashes' \in 0..MaxHashes /\ users[u] \in UserRow
    BY <1>2 DEF IInv, TypeOK, AuthAssumption
  <2>4. /\ r \in UserRow /\ r.exists = users[u].exists /\ r.active = users[u].active
        /\ r.role = users[u].role
    BY <2>2, <2>3 DEF UserRow
  <2>5. users' = [users EXCEPT ![u] = r]
    BY <1>2, <2>1, <2>2 DEF IInv, TypeOK
  <2>6. /\ users' \in [User -> UserRow] /\ users'[u] = r
        /\ \A v \in User \ {u} : users'[v] = users[v]
    BY <2>4, <2>5 DEF IInv, TypeOK
  <2>7. users[u].exists
    BY <2>1, CallTyped DEF CommitPassword, Right
  <2>8. AdministratorLeft'
    <3>1. \A v \in User : Admin(v)' = Admin(v)
      BY <2>4, <2>6 DEF Admin
    <3>2. NoUsers' = NoUsers
      BY <2>4, <2>6 DEF NoUsers
    <3> QED BY <3>1, <3>2 DEF IInv, DataRight, AdministratorLeft
  <2> QED BY <1>2, <2>1, <2>3, <2>4, <2>6, <2>7, <2>8, RevokingAll
<1> QED BY <1>1, <1>2 DEF CommitPassword

\* What adminUpdateUser makes of an account.
LEMMA Applying ==
  ASSUME NEW r \in UserRow, NEW change \in Change \ {"none"}
  PROVE  /\ Applied(r, change) \in UserRow /\ Applied(r, change).exists = r.exists
         /\ Applied(r, change).hash = r.hash
         /\ change \notin {"demote", "deactivate"} /\ r.active /\ r.role = "admin" =>
              Applied(r, change).active /\ Applied(r, change).role = "admin"
         /\ change = "activate" =>
              Applied(r, change).role = r.role /\ Applied(r, change).active
<1>1. CASE change = "demote"
  <2>1. Applied(r, change) = [r EXCEPT !.role = "user"] /\ "user" \in Role
    BY <1>1 DEF Applied, Role
  <2> QED BY <1>1, <2>1 DEF UserRow
<1>2. CASE change = "promote"
  <2>1. Applied(r, change) = [r EXCEPT !.role = "admin"] /\ "admin" \in Role
    BY <1>2 DEF Applied, Role
  <2> QED BY <1>2, <2>1 DEF UserRow
<1>3. CASE change = "deactivate"
  <2>1. Applied(r, change) = [r EXCEPT !.active = FALSE]
    BY <1>3 DEF Applied
  <2> QED BY <1>3, <2>1 DEF UserRow
<1>4. CASE change = "activate"
  <2>1. Applied(r, change) = [r EXCEPT !.active = TRUE]
    BY <1>4 DEF Applied
  <2> QED BY <1>4, <2>1 DEF UserRow
<1> QED BY <1>1, <1>2, <1>3, <1>4 DEF Change

LEMMA CommitUpdateKept ==
  ASSUME IInv, NEW c \in Call, CommitUpdate(c)
  PROVE  IInv'
<1>1. CASE Ends(c) /\ UNCHANGED <<data, tombs, updates, faults, ended>>
  BY <1>1, EndKept
<1>2. ASSUME Allowed(calls[c].actor, calls[c].user, calls[c].change),
             users' = [users EXCEPT ![calls[c].user] = Applied(@, calls[c].change)],
             UNCHANGED hashes,
             \/ RevokeAll(c)
             \/ /\ calls[c].change = "activate" /\ Ends(c)
                /\ UNCHANGED <<sessions, access, owner, rotations, tombs, updates, faults, ended>>
      PROVE  IInv'
  <2>1. PICK u \in User : u = calls[c].user
    BY CallTyped
  <2>2. PICK change \in Change \ {"none"} : change = calls[c].change
    BY CallTyped DEF CommitUpdate, Right
  <2>3. users[u] \in UserRow /\ users[u].exists
    BY <2>1, CallTyped DEF IInv, TypeOK, CommitUpdate, Right
  <2>4. PICK r : r = Applied(users[u], change)
    OBVIOUS
  <2>5. /\ r \in UserRow /\ r.exists = users[u].exists /\ r.hash = users[u].hash
        /\ change \notin {"demote", "deactivate"} /\ users[u].active /\ users[u].role = "admin" =>
             r.active /\ r.role = "admin"
        /\ change = "activate" => r.role = users[u].role /\ r.active
    BY <2>3, <2>4, Applying
  <2>6. users' = [users EXCEPT ![u] = r]
    BY <1>2, <2>1, <2>2, <2>4
  <2>7. /\ users' \in [User -> UserRow] /\ users'[u] = r
        /\ \A v \in User \ {u} : users'[v] = users[v]
    BY <2>5, <2>6 DEF IInv, TypeOK
  <2>8. AdministratorLeft'
    <3>1. PICK v \in User : Admin(v)
      BY <2>3 DEF IInv, DataRight, AdministratorLeft, NoUsers
    <3>2. CASE \E w \in User \ {u} : Admin(w)
      BY <2>7, <3>2 DEF AdministratorLeft, Admin
    <3>3. CASE ~\E w \in User \ {u} : Admin(w)
      <4>1. v = u /\ Admin(u)
        BY <3>1, <3>3
      <4>2. change \notin {"demote", "deactivate"}
        BY <1>2, <2>1, <2>2, <3>3, <4>1 DEF Allowed, RemovesAdmin
      <4> QED BY <2>3, <2>5, <2>7, <4>1, <4>2 DEF AdministratorLeft, Admin
    <3> QED BY <3>2, <3>3
  <2>9. CASE RevokeAll(c)
    <3>1. hashes' \in 0..MaxHashes
      BY <1>2 DEF IInv, TypeOK
    <3> QED BY <2>1, <2>3, <2>5, <2>7, <2>8, <2>9, <3>1, RevokingAll
  <2>10. CASE /\ change = "activate" /\ Ends(c)
              /\ UNCHANGED <<sessions, access, owner, rotations, tombs, updates, faults, ended>>
    <3>1. Onward
      BY <2>5, <2>7, <2>10 DEF Onward
    <3>2. CallsRight' /\ calls' \in [Call -> CallState]
      BY <2>10, <3>1, Ending, MovesKept DEF Moves
    <3>3. TypeOK'
      BY <1>2, <2>7, <2>10, <3>2 DEF IInv, TypeOK
    <3>4. RowsRight' /\ Traded' /\ AccessHeld' /\ EndedOver'
      BY <2>10 DEF IInv, DataRight, RowsRight, Traded, AccessHeld, EndedOver, Held, Active
    <3>5. SessionsMatchAccount'
      <4>1. \A w \in User : /\ users'[w].exists = users[w].exists
                            /\ users'[w].hash = users[w].hash
                            /\ users'[w].role = users[w].role
                            /\ users[w].active => users'[w].active
        BY <2>5, <2>7, <2>10
      <4> QED BY <2>10, <4>1
              DEF IInv, TypeOK, SessionRow, DataRight, SessionsMatchAccount, Active
    <3> QED BY <2>8, <3>2, <3>3, <3>4, <3>5 DEF IInv, DataRight
  <2> QED BY <1>2, <2>2, <2>9, <2>10
<1> QED BY <1>1, <1>2 DEF CommitUpdate

(***************************************************************************)
(* The theorems.                                                           *)
(***************************************************************************)
LEMMA StepIInv == IInv /\ [Next]_vars => IInv'
<1> SUFFICES ASSUME IInv, [Next]_vars PROVE IInv'
  OBVIOUS
<1>1. ASSUME NEW c \in Call, CallStep(c) PROVE IInv'
  <2>1. CASE Serve(c)
    BY <2>1, EndKept DEF Serve
  <2> QED BY <1>1, <2>1, IssueKept, RefreshUserKept, RotateKept, TombstoneKept, RevokeKept,
             ListKept, TombstonesKept, CommitPasswordKept, CommitUpdateKept, AnnounceKept,
             RedisFailsKept, LookKept DEF CallStep
<1>2. ASSUME NEW c \in Call, Request(c) PROVE IInv'
  <2>1. ASSUME NEW u \in User, Register(c, u) \/ Login(c, u) \/ ChangePassword(c, u) PROVE IInv'
    BY <2>1, RegisterKept, LoginKept, ListingKept
  <2>2. ASSUME NEW s \in Session, NEW n \in 1..MaxTokens, Refresh(c, s, n) \/ Logout(c, s, n)
        PROVE  IInv'
    BY <2>2, RefreshKept, RevocationKept DEF Logout, Op
  <2>3. ASSUME NEW s \in Session, RevokeSession(c, s) PROVE IInv'
    BY <2>3, RevocationKept DEF RevokeSession, Op
  <2>4. ASSUME NEW a \in User, NEW u \in User, AdminResetPassword(c, a, u) PROVE IInv'
    BY <2>4, ListingKept
  <2>5. ASSUME NEW a \in User, NEW u \in User, NEW change \in Change \ {"none"},
               AdminUpdateUser(c, a, u, change)
        PROVE  IInv'
    BY <2>5, UpdateStarts
  <2>6. ASSUME NEW s \in Session, NEW role \in Role, [session |-> s, role |-> role] \in access,
               Check(c, [session |-> s, role |-> role])
        PROVE  IInv'
    BY <2>6, CheckKept
  <2> QED BY <1>2, <2>1, <2>2, <2>3, <2>4, <2>5, <2>6 DEF Request
<1>3. ASSUME NEW s \in Session, Expire(s) \/ TombLapses(s) PROVE IInv'
  BY <1>3, ExpireKept, TombLapsesKept
<1>4. CASE UNCHANGED vars
  BY <1>4 DEF vars, IInv, TypeOK, CallsRight, Right, EndedOver, DataRight, RowsRight, Traded,
              AccessHeld, SessionsMatchAccount, AdministratorLeft, NoUsers, Admin, Active, Held
<1> QED BY <1>1, <1>2, <1>3, <1>4, AdminCreateKept DEF Next

LEMMA SpecIInv == ASSUME AuthAssumption PROVE Spec => []IInv
BY InitIInv, StepIInv, PTL DEF Spec

\* The tables and the requests keep their types, and a refresh token is of one session.
THEOREM TypesKept == ASSUME AuthAssumption PROVE Spec => []TypeOK
<1>1. IInv => TypeOK
  BY DEF IInv
<1> QED BY <1>1, SpecIInv, PTL

\* A live session and its access tokens agree with the account, an administrator is left, and a
\* refresh token is traded once, however requests of any number of clients overlap.
THEOREM AccountsAgree == ASSUME AuthAssumption PROVE Spec => []AccountsHold
<1>1. IInv => AccountsHold
  BY DEF IInv, DataRight, Traded, AccountsHold, TokenTradedOnce
<1> QED BY <1>1, SpecIInv, PTL

\* A request's record is its own.
LEMMA OwnRecord ==
  ASSUME IInv, NEW d \in Call, NEW c \in Call \ {d}, Request(d) \/ CallStep(d)
  PROVE  calls'[c] = calls[c]
<1>1. calls \in [Call -> CallState]
  BY CallTyped
<1>2. CASE Ends(d)
  BY <1>1, <1>2 DEF Ends
<1>3. ASSUME NEW step, GoesTo(d, step) PROVE calls'[c] = calls[c]
  BY <1>1, <1>3 DEF GoesTo
<1>4. ASSUME NEW op, NEW step, NEW u, Starts(d, op, step, u) PROVE calls'[c] = calls[c]
  BY <1>1, <1>4 DEF Starts
<1>5. CASE RevokeAll(d)
  BY <1>1, <1>5 DEF RevokeAll
<1>6. CASE RefreshUser(d) \/ List(d)
  BY <1>1, <1>3, <1>6 DEF RefreshUser, List
<1>7. CASE CallStep(d) /\ ~RefreshUser(d) /\ ~List(d)
  BY <1>2, <1>3, <1>5, <1>7
     DEF CallStep, Issue, Rotate, Tombstone, Revoke, Tombstones, CommitPassword, CommitUpdate,
         Announce, RedisFails, FirstLook, ReadRow, SecondLook, Serve
<1>8. CASE Request(d)
  BY <1>1, <1>4, <1>8
     DEF Request, Register, Login, ChangePassword, Refresh, Logout, RevokeSession, Revocation,
         AdminResetPassword, AdminUpdateUser, Check
<1> QED BY <1>6, <1>7, <1>8

\* isAccessSessionActive grants no request whose session was revoked, in SQLite and in Redis,
\* before its last read, even when Redis answers neither of its questions.
THEOREM RevokedIsRefused == ASSUME AuthAssumption PROVE Spec => [][GrantedBeforeEnded]_vars
<1>1. IInv /\ [Next]_vars => [GrantedBeforeEnded]_vars
  <2> SUFFICES ASSUME IInv, Next, NEW c \in Call, calls[c].step = "second",
                      calls'[c].step = "granted"
               PROVE  calls[c].session \notin ended
    BY DEF GrantedBeforeEnded
  <2>1. SecondLook(c) /\ ~Ends(c)
    <3>1. ASSUME NEW d \in Call, Request(d) \/ CallStep(d) PROVE d = c
      BY <3>1, OwnRecord
    <3>2. ~Request(c)
      BY DEF Request, Register, Login, ChangePassword, Starts, Refresh, Logout, RevokeSession,
             Revocation, AdminResetPassword, AdminUpdateUser, Check
    <3>3. CallStep(c)
      BY <3>1, <3>2 DEF Next, AdminCreate, Expire, TombLapses
    <3>4. ~Ends(c)
      BY Ending
    <3> QED BY <3>3, <3>4
            DEF CallStep, Issue, RefreshUser, Rotate, Tombstone, Revoke, List, Tombstones,
                CommitPassword, CommitUpdate, Announce, RedisFails, FirstLook, ReadRow, Serve
  <2>2. CASE StillActive(calls[c].session)
    BY <2>2, CallTyped DEF StillActive, Right
  <2>3. CASE Active(calls[c].session)
    BY <2>3 DEF IInv, EndedOver
  <2> QED BY <2>1, <2>2, <2>3 DEF SecondLook
<1> QED BY <1>1, SpecIInv, PTL DEF Spec

---------------------------------------------------------------------------

(***************************************************************************)
(* Analytics: every event is counted once, for its user.                   *)
(***************************************************************************)
CONSTANTS Tabs, Visitors, Nobody, StorageMax, MarkLife, ReportPeriod, EventMax, DayMax, FaultKinds,
          FaultMax
VARIABLES day, happened, stored, signedIn, flushes, posts, marks, tallies, failures

Events == INSTANCE Analytics WITH
  Tab <- Tabs, User <- Visitors, NoUser <- Nobody, MaxPending <- StorageMax, Life <- MarkLife,
  Period <- ReportPeriod, MaxEvents <- EventMax, MaxDay <- DayMax, Faults <- FaultKinds,
  MaxFaults <- FaultMax, today <- day, events <- happened, pending <- stored, user <- signedIn,
  flush <- flushes, request <- posts, mark <- marks, counted <- tallies, faults <- failures

\* A request that is being served has set the mark of the event and has not counted it.
MarkedBy(e, r) == posts[r].phase \in {"marking", "counting", "undoing"} /\ e \in posts[r].got

\* The types, and what requests hold of the events.
EventRow == [user : Visitors, day : Nat]
PostRow == [phase : Events!Phase, for : Visitors \cup {Nobody}, sent : SUBSET Events!Id,
            left : SUBSET Events!Id, got : SUBSET Events!Id]
EventsTyped ==
  /\ day \in 0..DayMax /\ failures \in 0..FaultMax
  /\ happened \in Seq(EventRow) /\ Len(happened) <= EventMax
  /\ \A e \in 1..Len(happened) : happened[e].day <= day
  /\ stored \subseteq 1..Len(happened)
  /\ signedIn \in [Tabs -> Visitors \cup {Nobody}] /\ flushes \in [Tabs -> {0} \cup Events!Requests]
  /\ posts \in [Events!Requests -> PostRow]
  /\ marks \in [Events!Id -> 0..MarkLife] /\ tallies \in [Events!Id -> Seq(Nat)]

\* A request.
PostFits(r) ==
  /\ posts[r].sent \subseteq 1..Len(happened)
  /\ posts[r].left \subseteq posts[r].sent /\ posts[r].got \subseteq posts[r].sent
  /\ posts[r].phase = "free" => posts[r] = Events!NoRequest
  /\ posts[r].phase \in {"counting", "ok"} => posts[r].left = {}
  /\ posts[r].phase = "ok" => posts[r].got = {}
  /\ \A e \in posts[r].sent : happened[e].user = posts[r].for
  /\ \A e \in posts[r].got : happened[e].day >= day - 2 * ReportPeriod

\* An event: one request holds it at most, which has set its mark; it was counted so long ago that
\* its mark has expired, unless its mark is there and nobody holds it.
EventFits(e) ==
  /\ \A r, q \in Events!Requests : MarkedBy(e, r) /\ MarkedBy(e, q) => r = q
  /\ (\E r \in Events!Requests : MarkedBy(e, r)) => marks[e] = MarkLife
  /\ \A i \in DOMAIN tallies[e] :
       /\ tallies[e][i] <= day
       /\ \/ day - tallies[e][i] >= MarkLife
          \/ /\ \A r \in Events!Requests : ~MarkedBy(e, r)
             /\ day - tallies[e][i] + marks[e] >= MarkLife
  /\ \A i, j \in DOMAIN tallies[e] : i < j => tallies[e][j] - tallies[e][i] >= MarkLife

\* The inductive invariant.
EventsInv ==
  /\ EventsTyped
  /\ \A r \in Events!Requests : PostFits(r)
  /\ \A e \in Events!Id : EventFits(e)

LEMMA Bounds ==
  ASSUME Events!AnalyticsAssumption
  PROVE  /\ StorageMax \in Nat \ {0} /\ MarkLife \in Nat \ {0} /\ ReportPeriod \in Nat \ {0}
         /\ EventMax \in Nat /\ DayMax \in Nat /\ FaultMax \in Nat
BY DEF Events!AnalyticsAssumption

LEMMA EventsInit ==
  ASSUME Events!AnalyticsAssumption, Events!Init
  PROVE  EventsInv
<1>1. /\ day = 0 /\ failures = 0 /\ happened = <<>> /\ stored = {}
      /\ signedIn = [t \in Tabs |-> Nobody] /\ flushes = [t \in Tabs |-> 0]
      /\ posts = [r \in Events!Requests |-> Events!NoRequest]
      /\ marks = [e \in Events!Id |-> 0] /\ tallies = [e \in Events!Id |-> <<>>]
  BY DEF Events!Init
<1>2. Events!NoRequest \in PostRow
  BY DEF Events!NoRequest, PostRow, Events!Phase
<1>3. happened \in Seq(EventRow) /\ Len(happened) = 0
  BY <1>1
<1>4. <<>> \in Seq(Nat)
  OBVIOUS
<1>5. EventsTyped
  BY <1>1, <1>2, <1>3, <1>4, Bounds DEF EventsTyped
<1>6. /\ Events!NoRequest.sent = {} /\ Events!NoRequest.left = {} /\ Events!NoRequest.got = {}
      /\ Events!NoRequest.phase = "free"
  BY DEF Events!NoRequest
<1>7. \A r \in Events!Requests : posts[r] = Events!NoRequest
  BY <1>1
<1>8. \A r \in Events!Requests : PostFits(r)
  BY <1>6, <1>7 DEF PostFits
<1>9. ASSUME NEW e \in Events!Id PROVE EventFits(e)
  <2>1. tallies[e] = <<>> /\ \A i \in DOMAIN tallies[e] : FALSE
    BY <1>1
  <2>2. \A r \in Events!Requests : ~MarkedBy(e, r)
    BY <1>6, <1>7 DEF MarkedBy
  <2>3. QED
    BY <2>1, <2>2 DEF EventFits
<1>10. QED
  BY <1>5, <1>8, <1>9 DEF EventsInv

\* Nothing happens to an event but that a request that held it may let it go.
LEMMA EventStays ==
  ASSUME NEW e \in Events!Id, EventFits(e), day' = day, marks'[e] = marks[e],
         tallies'[e] = tallies[e], \A q \in Events!Requests : MarkedBy(e, q)' => MarkedBy(e, q)
  PROVE  EventFits(e)'
BY DEF EventFits

\* The events that had happened are there.
Grown ==
  /\ Len(happened) <= Len(happened')
  /\ \A e \in 1..Len(happened) : happened'[e] = happened[e]

Released(r) == \A e \in Events!Id : MarkedBy(e, r)' => MarkedBy(e, r)

\* A request takes a step that neither marks nor counts.
LEMMA PostChanges ==
  ASSUME EventsInv, EventsTyped', NEW r \in Events!Requests, NEW row,
         posts' = [posts EXCEPT ![r] = row], day' = day, marks' = marks, tallies' = tallies,
         Grown, PostFits(r)', Released(r)
  PROVE  EventsInv'
<1>1. /\ posts \in [Events!Requests -> PostRow] /\ happened \in Seq(EventRow)
      /\ happened' \in Seq(EventRow)
      /\ \A q \in Events!Requests : PostFits(q)
      /\ \A e \in Events!Id : EventFits(e)
  BY DEF EventsInv, EventsTyped
<1>2. \A q \in Events!Requests : q # r => posts'[q] = posts[q]
  BY <1>1
<1>3. ASSUME NEW q \in Events!Requests PROVE PostFits(q)'
  <2>1. CASE q = r
    BY <2>1
  <2>2. CASE q # r
    <3>1. posts'[q] = posts[q] /\ PostFits(q)
      BY <1>1, <1>2, <2>2
    <3>2. posts[q].sent \subseteq 1..Len(happened) /\ posts[q].got \subseteq posts[q].sent
      BY <3>1 DEF PostFits
    <3>3. /\ 1..Len(happened) \subseteq 1..Len(happened')
          /\ \A e \in posts[q].sent : happened'[e] = happened[e]
      BY <1>1, <3>2 DEF Grown
    <3>4. QED
      BY <3>1, <3>2, <3>3 DEF PostFits
  <2>3. QED
    BY <2>1, <2>2
<1>4. ASSUME NEW e \in Events!Id PROVE EventFits(e)'
  <2>1. ASSUME NEW q \in Events!Requests, MarkedBy(e, q)' PROVE MarkedBy(e, q)
    <3>1. CASE q = r
      BY <2>1, <3>1 DEF Released
    <3>2. CASE q # r
      BY <1>2, <2>1, <3>2 DEF MarkedBy
    <3>3. QED
      BY <3>1, <3>2
  <2>2. EventFits(e) /\ marks'[e] = marks[e] /\ tallies'[e] = tallies[e]
    BY <1>1
  <2>3. QED
    BY <2>1, <2>2, EventStays
<1>5. QED
  BY <1>3, <1>4 DEF EventsInv

\* A request that begins.
LEMMA FlushStarts ==
  ASSUME Events!AnalyticsAssumption, EventsInv, NEW t \in Tabs, NEW p, NEW es, es = happened',
         p \subseteq 1..Len(happened'), Grown, happened' \in Seq(EventRow),
         \A e \in 1..Len(happened') : happened'[e].day <= day,
         Len(happened') <= EventMax, stored' \subseteq 1..Len(happened'),
         Events!StartFlush(t, p, es), UNCHANGED <<day, signedIn, marks, tallies, failures>>
  PROVE  EventsInv'
<1>1. /\ posts \in [Events!Requests -> PostRow] /\ signedIn \in [Tabs -> Visitors \cup {Nobody}]
      /\ flushes \in [Tabs -> {0} \cup Events!Requests] /\ happened \in Seq(EventRow)
      /\ \A q \in Events!Requests : PostFits(q)
      /\ \A e \in Events!Id : EventFits(e)
  BY DEF EventsInv, EventsTyped
<1>2. CASE UNCHANGED <<flushes, posts>>
  <2>1. EventsTyped'
    BY <1>2 DEF EventsInv, EventsTyped
  <2>2. ASSUME NEW q \in Events!Requests PROVE PostFits(q)'
    <3>1. posts'[q] = posts[q] /\ PostFits(q)
      BY <1>1, <1>2
    <3>2. posts[q].sent \subseteq 1..Len(happened) /\ posts[q].got \subseteq posts[q].sent
      BY <3>1 DEF PostFits
    <3>3. /\ 1..Len(happened) \subseteq 1..Len(happened')
          /\ \A e \in posts[q].sent : happened'[e] = happened[e]
      BY <1>1, <3>2 DEF Grown
    <3>4. QED
      BY <3>1, <3>2, <3>3 DEF PostFits
  <2>3. \A e \in Events!Id : EventFits(e)'
    BY <1>1, <1>2, EventStays DEF MarkedBy
  <2>4. QED
    BY <2>1, <2>2, <2>3 DEF EventsInv
<1>3. CASE ~UNCHANGED <<flushes, posts>>
  <2>1. PICK sent : sent = Events!Mine(t, p, es)
    OBVIOUS
  <2>2. PICK r, row :
          /\ r \in Events!Requests
          /\ row = [phase |-> "marking", for |-> signedIn[t], sent |-> sent, left |-> sent,
                    got |-> {}]
          /\ flushes' = [flushes EXCEPT ![t] = r] /\ posts' = [posts EXCEPT ![r] = row]
    BY <1>3, <2>1 DEF Events!StartFlush
  <2>3. /\ sent \subseteq 1..Len(happened')
        /\ \A e \in sent : happened'[e].user = signedIn[t]
    BY <2>1 DEF Events!Mine
  <2>4. sent \subseteq Events!Id
    <3>1. 1..Len(happened') \subseteq 1..EventMax
      BY Bounds
    <3>2. QED
      BY <2>3, <3>1 DEF Events!Id
  <2>5. row \in PostRow
    BY <1>1, <2>2, <2>4 DEF PostRow, Events!Phase
  <2>6. posts'[r] = row /\ posts' \in [Events!Requests -> PostRow]
    BY <1>1, <2>2, <2>5
  <2>7. flushes' \in [Tabs -> {0} \cup Events!Requests]
    BY <1>1, <2>2
  <2>8. EventsTyped'
    BY <2>6, <2>7 DEF EventsInv, EventsTyped
  <2>9. /\ row.phase = "marking" /\ row.for = signedIn[t] /\ row.sent = sent /\ row.left = sent
        /\ row.got = {}
    BY <2>2
  <2>10. PostFits(r)'
    BY <2>3, <2>6, <2>9 DEF PostFits
  <2>11. Released(r)
    BY <2>6, <2>9 DEF Released, MarkedBy
  <2>12. QED
    BY <2>2, <2>8, <2>10, <2>11, PostChanges
<1>4. QED
  BY <1>2, <1>3

\* A request changes its phase only; what it has got it may keep.
LEMMA PhaseChanges ==
  ASSUME EventsInv, NEW r \in Events!Requests, NEW phase \in Events!Phase \ {"free"},
         posts' = [posts EXCEPT ![r].phase = phase],
         phase \in {"counting", "ok"} => posts[r].left = {},
         phase = "ok" => posts[r].got = {},
         posts[r].phase \in {"marking", "counting", "undoing"},
         failures' \in 0..FaultMax,
         UNCHANGED <<day, happened, stored, signedIn, flushes, marks, tallies>>
  PROVE  EventsInv'
<1>1. /\ posts \in [Events!Requests -> PostRow] /\ happened \in Seq(EventRow) /\ PostFits(r)
  BY DEF EventsInv, EventsTyped
<1>2. PICK row : row = [posts[r] EXCEPT !.phase = phase]
  OBVIOUS
<1>3. posts' = [posts EXCEPT ![r] = row]
  BY <1>1, <1>2
<1>4. /\ row \in PostRow /\ row.phase = phase /\ row.for = posts[r].for /\ row.sent = posts[r].sent
      /\ row.left = posts[r].left /\ row.got = posts[r].got
  BY <1>1, <1>2 DEF PostRow
<1>5. posts'[r] = row /\ posts' \in [Events!Requests -> PostRow]
  BY <1>1, <1>3, <1>4
<1>6. EventsTyped'
  BY <1>5 DEF EventsInv, EventsTyped
<1>7. PostFits(r)'
  BY <1>1, <1>4, <1>5 DEF PostFits
<1>8. Released(r)
  BY <1>4, <1>5 DEF Released, MarkedBy
<1>9. Grown
  BY <1>1 DEF Grown
<1>10. QED
  BY <1>3, <1>6, <1>7, <1>8, <1>9, PostChanges

\* A request is forgotten.
LEMMA PostEnds ==
  ASSUME EventsInv, NEW r \in Events!Requests, posts' = [posts EXCEPT ![r] = Events!NoRequest],
         flushes' \in [Tabs -> {0} \cup Events!Requests], stored' \subseteq stored,
         UNCHANGED <<day, happened, signedIn, marks, tallies, failures>>
  PROVE  EventsInv'
<1>1. posts \in [Events!Requests -> PostRow] /\ happened \in Seq(EventRow)
  BY DEF EventsInv, EventsTyped
<1>2. Events!NoRequest \in PostRow
  BY DEF Events!NoRequest, PostRow, Events!Phase
<1>3. posts'[r] = Events!NoRequest /\ posts' \in [Events!Requests -> PostRow]
  BY <1>1, <1>2
<1>4. EventsTyped'
  BY <1>3 DEF EventsInv, EventsTyped
<1>5. /\ Events!NoRequest.sent = {} /\ Events!NoRequest.left = {} /\ Events!NoRequest.got = {}
      /\ Events!NoRequest.phase = "free"
  BY DEF Events!NoRequest
<1>6. PostFits(r)' /\ Released(r)
  BY <1>3, <1>5 DEF PostFits, Released, MarkedBy
<1>7. Grown
  BY <1>1 DEF Grown
<1>8. QED
  BY <1>4, <1>6, <1>7, PostChanges

LEMMA Marks ==
  ASSUME Events!AnalyticsAssumption, EventsInv, NEW r \in Events!Requests, NEW e \in Events!Id,
         Events!Mark(r, e)
  PROVE  EventsInv'
<1>1. /\ posts \in [Events!Requests -> PostRow] /\ happened \in Seq(EventRow)
      /\ marks \in [Events!Id -> 0..MarkLife] /\ day \in Nat
      /\ \A q \in Events!Requests : PostFits(q)
      /\ \A f \in Events!Id : EventFits(f)
  BY Bounds DEF EventsInv, EventsTyped
<1>2. PICK got, row :
        /\ got = posts[r].got \cup IF Events!Acceptable(e) /\ marks[e] = 0 THEN {e} ELSE {}
        /\ row = [posts[r] EXCEPT !.left = posts[r].left \ {e}, !.got = got]
  OBVIOUS
<1>3. /\ posts[r].phase = "marking" /\ e \in posts[r].left
      /\ marks' = IF Events!Acceptable(e) /\ marks[e] = 0 THEN [marks EXCEPT ![e] = MarkLife]
                  ELSE marks
      /\ posts' = [posts EXCEPT ![r] = row]
      /\ UNCHANGED <<day, happened, stored, signedIn, flushes, tallies, failures>>
  BY <1>1, <1>2 DEF Events!Mark, Events!IsFirst
<1>4. posts[r].left \subseteq posts[r].sent /\ posts[r].got \subseteq posts[r].sent
  BY <1>1 DEF PostFits
<1>5. got \subseteq posts[r].sent
  BY <1>2, <1>3, <1>4
<1>6. /\ row \in PostRow /\ row.phase = "marking" /\ row.for = posts[r].for
      /\ row.sent = posts[r].sent /\ row.left = posts[r].left \ {e} /\ row.got = got
  BY <1>1, <1>2, <1>3, <1>5 DEF PostRow
<1>7. posts'[r] = row /\ posts' \in [Events!Requests -> PostRow]
      /\ \A q \in Events!Requests : q # r => posts'[q] = posts[q]
  BY <1>1, <1>3, <1>6
<1>8. marks' \in [Events!Id -> 0..MarkLife] /\ \A f \in Events!Id : f # e => marks'[f] = marks[f]
  BY <1>1, <1>3, Bounds
<1>9. EventsTyped'
  BY <1>3, <1>7, <1>8 DEF EventsInv, EventsTyped
<1>10. ASSUME NEW q \in Events!Requests PROVE PostFits(q)'
  <2>1. PostFits(q)
    BY <1>1
  <2>2. CASE q = r
    <3>1. Events!Acceptable(e) => happened[e].day >= day - 2 * ReportPeriod
      <4>1. e \in 1..Len(happened)
        BY <1>3, <2>1, <2>2 DEF PostFits
      <4>2. happened[e] \in EventRow
        BY <1>1, <4>1
      <4>3. happened[e].day \in Nat
        BY <4>2 DEF EventRow
      <4>4. QED
        BY <1>1, <4>3, Bounds DEF Events!Acceptable
    <3>2. \A f \in got : happened[f].day >= day - 2 * ReportPeriod
      BY <1>2, <2>1, <2>2, <3>1 DEF PostFits
    <3>3. QED
      BY <1>3, <1>4, <1>5, <1>6, <1>7, <2>1, <2>2, <3>2 DEF PostFits
  <2>3. CASE q # r
    BY <1>3, <1>7, <2>1, <2>3 DEF PostFits
  <2>4. QED
    BY <2>2, <2>3
<1>11. ASSUME NEW f \in Events!Id PROVE EventFits(f)'
  <2>1. EventFits(f)
    BY <1>1
  <2>2. CASE f # e \/ ~(Events!Acceptable(e) /\ marks[e] = 0)
    <3>1. marks'[f] = marks[f] /\ tallies'[f] = tallies[f]
      BY <1>3, <1>8, <2>2
    <3>2. f \in got => f \in posts[r].got
      BY <1>2, <2>2
    <3>3. \A q \in Events!Requests : MarkedBy(f, q)' => MarkedBy(f, q)
      BY <1>3, <1>6, <1>7, <3>2 DEF MarkedBy
    <3>4. QED
      BY <1>3, <2>1, <3>1, <3>3, EventStays
  <2>3. CASE f = e /\ Events!Acceptable(e) /\ marks[e] = 0
    <3>1. marks'[e] = MarkLife
      BY <1>1, <1>3, <2>3
    <3>2. \A q \in Events!Requests : ~MarkedBy(e, q)
      BY <2>1, <2>3, Bounds DEF EventFits
    <3>3. \A q \in Events!Requests : MarkedBy(e, q)' => q = r
      BY <1>7, <3>2 DEF MarkedBy
    <3>4. \A i \in DOMAIN tallies[e] : tallies[e][i] <= day /\ day - tallies[e][i] >= MarkLife
      <4>1. tallies[e] \in Seq(Nat)
        BY DEF EventsInv, EventsTyped
      <4>2. \A i \in DOMAIN tallies[e] : tallies[e][i] \in Nat
        BY <4>1
      <4>3. QED
        BY <1>1, <2>1, <2>3, <4>2, Bounds DEF EventFits
    <3>5. QED
      BY <1>3, <2>1, <2>3, <3>1, <3>3, <3>4 DEF EventFits
  <2>4. QED
    BY <2>2, <2>3
<1>12. QED
  BY <1>9, <1>10, <1>11 DEF EventsInv

LEMMA Counts ==
  ASSUME Events!AnalyticsAssumption, EventsInv, NEW r \in Events!Requests, NEW e \in Events!Id,
         Events!Count(r, e)
  PROVE  EventsInv'
<1>1. /\ posts \in [Events!Requests -> PostRow] /\ day \in Nat
      /\ tallies \in [Events!Id -> Seq(Nat)]
      /\ \A q \in Events!Requests : PostFits(q)
      /\ \A f \in Events!Id : EventFits(f)
  BY Bounds DEF EventsInv, EventsTyped
<1>2. PICK today, left, phase, row :
        /\ today = Events!OfDay(posts[r].got, happened[e].day)
        /\ left = posts[r].got \ today /\ phase = IF left = {} THEN "ok" ELSE "counting"
        /\ row = [posts[r] EXCEPT !.got = left, !.phase = phase]
  OBVIOUS
<1>3. /\ posts[r].phase = "counting"
      /\ tallies' = [f \in Events!Id |-> IF f \in today THEN Append(tallies[f], day)
                                         ELSE tallies[f]]
      /\ posts' = [posts EXCEPT ![r] = row]
      /\ UNCHANGED <<day, happened, stored, signedIn, flushes, marks, failures>>
  BY <1>1, <1>2 DEF Events!Count
<1>4. today \subseteq posts[r].got /\ posts[r].got \subseteq posts[r].sent
  BY <1>1, <1>2 DEF Events!OfDay, PostFits
<1>5. /\ row \in PostRow /\ row.phase = phase /\ row.for = posts[r].for
      /\ row.sent = posts[r].sent /\ row.left = posts[r].left /\ row.got = left
  BY <1>1, <1>2 DEF PostRow, Events!Phase
<1>6. posts'[r] = row /\ posts' \in [Events!Requests -> PostRow]
      /\ \A q \in Events!Requests : q # r => posts'[q] = posts[q]
  BY <1>1, <1>3, <1>5
<1>7. tallies' \in [Events!Id -> Seq(Nat)]
  BY <1>1, <1>3
<1>8. EventsTyped'
  BY <1>3, <1>6, <1>7 DEF EventsInv, EventsTyped
<1>9. ASSUME NEW q \in Events!Requests PROVE PostFits(q)'
  <2>1. PostFits(q)
    BY <1>1
  <2>2. CASE q = r
    BY <1>2, <1>3, <1>4, <1>5, <1>6, <2>1, <2>2 DEF PostFits
  <2>3. CASE q # r
    BY <1>3, <1>6, <2>1, <2>3 DEF PostFits
  <2>4. QED
    BY <2>2, <2>3
<1>10. ASSUME NEW f \in Events!Id PROVE EventFits(f)'
  <2>1. EventFits(f)
    BY <1>1
  <2>2. \A q \in Events!Requests : MarkedBy(f, q)' => MarkedBy(f, q) /\ (q = r => f \notin today)
    BY <1>2, <1>3, <1>5, <1>6 DEF MarkedBy
  <2>3. CASE f \notin today
    <3>1. tallies'[f] = tallies[f] /\ marks'[f] = marks[f]
      BY <1>1, <1>3, <2>3
    <3>2. QED
      BY <1>3, <2>1, <2>2, <3>1, EventStays
  <2>4. CASE f \in today
    <3>1. MarkedBy(f, r)
      BY <1>3, <1>4, <2>4 DEF MarkedBy
    <3>2. marks[f] = MarkLife /\ \A q \in Events!Requests : ~MarkedBy(f, q)'
      BY <2>1, <2>2, <2>4, <3>1 DEF EventFits
    <3>3. PICK old, new : /\ old \in Seq(Nat) /\ old = tallies[f] /\ new = tallies'[f]
                          /\ new = Append(old, day)
      BY <1>1, <1>3, <2>4
    <3>4. /\ \A i \in DOMAIN old : old[i] <= day /\ day - old[i] >= MarkLife /\ old[i] \in Nat
          /\ \A i, j \in DOMAIN old : i < j => old[j] - old[i] >= MarkLife
      BY <1>1, <2>1, <3>1, <3>3 DEF EventFits
    <3>5. /\ \A i \in DOMAIN new : (i \in DOMAIN old /\ new[i] = old[i])
                                   \/ (i = Len(old) + 1 /\ new[i] = day)
          /\ \A i \in DOMAIN old : i \in Nat /\ i <= Len(old)
      BY <1>1, <3>3
    <3>6. ASSUME NEW i \in DOMAIN new
          PROVE  new[i] <= day /\ day - new[i] + MarkLife >= MarkLife
      <4>1. new[i] \in Nat /\ new[i] <= day
        <5>1. CASE i \in DOMAIN old /\ new[i] = old[i]
          BY <3>4, <5>1
        <5>2. CASE new[i] = day
          BY <1>1, <5>2
        <5>3. QED
          BY <3>5, <5>1, <5>2
      <4>2. QED
        BY <1>1, <4>1, Bounds
    <3>7. ASSUME NEW i \in DOMAIN new, NEW j \in DOMAIN new, i < j
          PROVE  new[j] - new[i] >= MarkLife
      <4>1. i \in DOMAIN old
        BY <3>3, <3>5, <3>7
      <4>2. new[i] = old[i]
        BY <3>3, <4>1
      <4>3. QED
        BY <3>4, <3>5, <3>7, <4>1, <4>2
    <3>8. QED
      BY <1>3, <3>2, <3>3, <3>6, <3>7 DEF EventFits
  <2>5. QED
    BY <2>3, <2>4
<1>11. QED
  BY <1>8, <1>9, <1>10 DEF EventsInv

LEMMA Undoes ==
  ASSUME Events!AnalyticsAssumption, EventsInv, NEW r \in Events!Requests, Events!Undo(r)
  PROVE  EventsInv'
<1>1. /\ posts \in [Events!Requests -> PostRow] /\ day \in Nat
      /\ marks \in [Events!Id -> 0..MarkLife]
      /\ \A q \in Events!Requests : PostFits(q)
      /\ \A f \in Events!Id : EventFits(f)
  BY Bounds DEF EventsInv, EventsTyped
<1>2. PICK row : row = [posts[r] EXCEPT !.phase = "failed"]
  OBVIOUS
<1>3. /\ posts[r].phase = "undoing" /\ posts' = [posts EXCEPT ![r] = row]
      /\ marks' = [f \in Events!Id |-> IF f \in posts[r].got THEN 0 ELSE marks[f]]
      /\ UNCHANGED <<day, happened, stored, signedIn, flushes, tallies, failures>>
  BY <1>1, <1>2 DEF Events!Undo
<1>4. /\ row \in PostRow /\ row.phase = "failed" /\ row.for = posts[r].for
      /\ row.sent = posts[r].sent /\ row.left = posts[r].left /\ row.got = posts[r].got
  BY <1>1, <1>2 DEF PostRow, Events!Phase
<1>5. posts'[r] = row /\ posts' \in [Events!Requests -> PostRow]
      /\ \A q \in Events!Requests : q # r => posts'[q] = posts[q]
  BY <1>1, <1>3, <1>4
<1>6. marks' \in [Events!Id -> 0..MarkLife]
  BY <1>1, <1>3, Bounds
<1>7. EventsTyped'
  BY <1>3, <1>5, <1>6 DEF EventsInv, EventsTyped
<1>8. ASSUME NEW q \in Events!Requests PROVE PostFits(q)'
  <2>1. PostFits(q)
    BY <1>1
  <2>2. CASE q = r
    BY <1>3, <1>4, <1>5, <2>1, <2>2 DEF PostFits
  <2>3. CASE q # r
    BY <1>3, <1>5, <2>1, <2>3 DEF PostFits
  <2>4. QED
    BY <2>2, <2>3
<1>9. ASSUME NEW f \in Events!Id PROVE EventFits(f)'
  <2>1. EventFits(f)
    BY <1>1
  <2>2. \A q \in Events!Requests : MarkedBy(f, q)' => MarkedBy(f, q) /\ q # r
    BY <1>4, <1>5 DEF MarkedBy
  <2>3. CASE f \notin posts[r].got
    <3>1. tallies'[f] = tallies[f] /\ marks'[f] = marks[f]
      BY <1>1, <1>3, <2>3
    <3>2. QED
      BY <1>3, <2>1, <2>2, <3>1, EventStays
  <2>4. CASE f \in posts[r].got
    <3>1. MarkedBy(f, r)
      BY <1>3, <2>4 DEF MarkedBy
    <3>2. \A q \in Events!Requests : ~MarkedBy(f, q)'
      BY <2>1, <2>2, <3>1 DEF EventFits
    <3>3. \A i \in DOMAIN tallies[f] : tallies[f][i] <= day /\ day - tallies[f][i] >= MarkLife
      BY <2>1, <3>1 DEF EventFits
    <3>4. QED
      BY <1>3, <2>1, <3>2, <3>3 DEF EventFits
  <2>5. QED
    BY <2>3, <2>4
<1>10. QED
  BY <1>7, <1>8, <1>9 DEF EventsInv

LEMMA DayPasses ==
  ASSUME Events!AnalyticsAssumption, EventsInv, Events!Day
  PROVE  EventsInv'
<1>1. /\ posts \in [Events!Requests -> PostRow] /\ day \in Nat /\ day <= DayMax
      /\ marks \in [Events!Id -> 0..MarkLife] /\ tallies \in [Events!Id -> Seq(Nat)]
      /\ happened \in Seq(EventRow) /\ \A e \in 1..Len(happened) : happened[e].day <= day
      /\ \A q \in Events!Requests : PostFits(q)
      /\ \A f \in Events!Id : EventFits(f)
  BY Bounds DEF EventsInv, EventsTyped
<1>2. /\ day < DayMax /\ \A r \in Events!Requests : posts[r].phase = "free"
      /\ day' = day + 1
      /\ marks' = [e \in Events!Id |-> IF marks[e] > 0 THEN marks[e] - 1 ELSE 0]
      /\ UNCHANGED <<happened, stored, signedIn, flushes, posts, tallies, failures>>
  BY DEF Events!Day
<1>3. /\ marks' \in [Events!Id -> 0..MarkLife] /\ day' \in 0..DayMax
      /\ \A e \in Events!Id : marks'[e] >= marks[e] - 1
  BY <1>1, <1>2, Bounds
<1>4. \A e \in 1..Len(happened) : happened[e].day <= day'
  <2>1. \A e \in 1..Len(happened) : happened[e] \in EventRow
    BY <1>1
  <2>2. \A e \in 1..Len(happened) : happened[e].day \in Nat
    BY <2>1 DEF EventRow
  <2>3. QED
    BY <1>1, <1>2, <2>2
<1>5. EventsTyped'
  BY <1>2, <1>3, <1>4 DEF EventsInv, EventsTyped
<1>6. ASSUME NEW q \in Events!Requests PROVE PostFits(q)'
  <2>1. posts[q] = Events!NoRequest /\ posts'[q] = Events!NoRequest
    BY <1>1, <1>2 DEF PostFits
  <2>2. /\ Events!NoRequest.sent = {} /\ Events!NoRequest.left = {} /\ Events!NoRequest.got = {}
        /\ Events!NoRequest.phase = "free"
    BY DEF Events!NoRequest
  <2>3. QED
    BY <2>1, <2>2 DEF PostFits
<1>7. ASSUME NEW f \in Events!Id PROVE EventFits(f)'
  <2>1. EventFits(f)
    BY <1>1
  <2>2. \A q \in Events!Requests : ~MarkedBy(f, q) /\ ~MarkedBy(f, q)'
    BY <1>2 DEF MarkedBy
  <2>3. \A i \in DOMAIN tallies[f] : tallies[f][i] \in Nat
    BY <1>1
  <2>4. \A i \in DOMAIN tallies[f] :
          /\ tallies[f][i] <= day'
          /\ \/ day' - tallies[f][i] >= MarkLife
             \/ day' - tallies[f][i] + marks'[f] >= MarkLife
    <3>1. ASSUME NEW i \in DOMAIN tallies[f]
          PROVE  /\ tallies[f][i] <= day'
                 /\ \/ day' - tallies[f][i] >= MarkLife
                    \/ day' - tallies[f][i] + marks'[f] >= MarkLife
      <4>1. PICK t \in Nat : t = tallies[f][i]
        BY <2>3
      <4>2. /\ t <= day
            /\ day - t >= MarkLife \/ day - t + marks[f] >= MarkLife
        BY <2>1, <4>1 DEF EventFits
      <4>3. PICK m \in Int, left \in Int : m = marks[f] /\ left = marks'[f] /\ left >= m - 1
        BY <1>1, <1>3
      <4>4. /\ day \in Nat /\ MarkLife \in Nat /\ day' = day + 1
            /\ day - t >= MarkLife \/ day - t + m >= MarkLife
        BY <1>1, <1>2, <4>2, <4>3, Bounds
      <4>5. PICK d \in Nat, now \in Nat : d = day /\ now = day' /\ now = d + 1
        BY <4>4
      <4>6. /\ t <= now
            /\ now - t >= MarkLife \/ now - t + left >= MarkLife
        BY <4>2, <4>3, <4>4, <4>5
      <4>7. QED
        BY <4>1, <4>3, <4>5, <4>6
    <3>2. QED
      BY <3>1
  <2>5. QED
    BY <1>2, <2>1, <2>2, <2>4 DEF EventFits
<1>8. QED
  BY <1>5, <1>6, <1>7 DEF EventsInv

\* An event happens: the storage keeps the last ones.
LEMMA Recorded ==
  ASSUME Events!AnalyticsAssumption, EventsInv, NEW t \in Tabs, NEW online \in BOOLEAN,
         Events!Record(t, online)
  PROVE  /\ EventsInv' /\ Grown
         /\ Len(happened') = Len(happened) + 1
         /\ \A e \in stored \cup {Len(happened')} :
              e > Len(happened') - StorageMax => e \in stored'
<1>1. /\ happened \in Seq(EventRow) /\ stored \subseteq 1..Len(happened) /\ day \in Nat
      /\ \A e \in 1..Len(happened) : happened[e].day <= day
      /\ signedIn \in [Tabs -> Visitors \cup {Nobody}]
  BY Bounds DEF EventsInv, EventsTyped
<1>2. PICK d : d = [user |-> signedIn[t], day |-> day]
  OBVIOUS
<1>3. /\ signedIn[t] # Nobody /\ Len(happened) < EventMax
      /\ happened' = Append(happened, d)
      /\ stored' = Events!Kept(stored \cup {Len(happened) + 1})
      /\ UNCHANGED <<day, signedIn, marks, tallies, failures>>
      /\ \/ online /\ Events!StartFlush(t, stored', happened')
         \/ ~online /\ UNCHANGED <<flushes, posts>>
  BY <1>2 DEF Events!Record
<1>4. d \in EventRow /\ d.day = day
  BY <1>1, <1>2, <1>3 DEF EventRow
<1>5. /\ happened' \in Seq(EventRow) /\ Len(happened') = Len(happened) + 1
      /\ \A e \in 1..Len(happened) : happened'[e] = happened[e]
      /\ happened'[Len(happened) + 1] = d /\ Len(happened) \in Nat
  BY <1>1, <1>3, <1>4
<1>6. Grown /\ Len(happened') <= EventMax
  BY <1>3, <1>5, Bounds DEF Grown
<1>7. \A e \in 1..Len(happened') : happened'[e].day <= day
  <2>1. \A e \in 1..Len(happened') : e \in 1..Len(happened) \/ e = Len(happened) + 1
    BY <1>5
  <2>2. QED
    BY <1>1, <1>4, <1>5, <2>1
<1>8. stored' \subseteq 1..Len(happened')
  <2>1. PICK s : s = stored \cup {Len(happened) + 1}
    OBVIOUS
  <2>2. stored' \subseteq s
    BY Zenon, <1>3, <2>1 DEF Events!Kept
  <2>3. PICK n \in Nat, m \in Nat : n = Len(happened') /\ m = Len(happened) /\ n = m + 1
    BY <1>5
  <2>4. \A e \in 1..m : e \in 1..n
    BY <2>3
  <2>5. n \in 1..n /\ stored \subseteq 1..m /\ s = stored \cup {n}
    BY <1>1, <2>1, <2>3
  <2>6. s \subseteq 1..n
    BY Zenon, <2>4, <2>5
  <2>7. QED
    BY <2>2, <2>3, <2>6
<1>9. EventsInv'
  <2>1. CASE online
    <3>1. PICK p, es : p = stored' /\ es = happened'
      OBVIOUS
    <3>2. Events!StartFlush(t, p, es)
      BY <1>3, <2>1, <3>1
    <3>3. QED
      BY <1>3, <1>5, <1>6, <1>7, <1>8, <3>1, <3>2, FlushStarts
  <2>2. CASE ~online
    <3>1. EventsTyped'
      BY <1>3, <1>5, <1>6, <1>7, <1>8, <2>2 DEF EventsInv, EventsTyped
    <3>2. ASSUME NEW q \in Events!Requests PROVE PostFits(q)'
      <4>1. posts'[q] = posts[q] /\ PostFits(q)
        BY <1>3, <2>2 DEF EventsInv
      <4>2. posts[q].sent \subseteq 1..Len(happened) /\ posts[q].got \subseteq posts[q].sent
        BY <4>1 DEF PostFits
      <4>3. /\ 1..Len(happened) \subseteq 1..Len(happened')
            /\ \A e \in posts[q].sent : happened'[e] = happened[e]
        BY <1>5, <4>2
      <4>4. QED
        BY <1>3, <4>1, <4>2, <4>3 DEF PostFits
    <3>3. \A e \in Events!Id : EventFits(e)'
      BY <1>3, <2>2, EventStays DEF MarkedBy, EventsInv
    <3>4. QED
      BY <3>1, <3>2, <3>3 DEF EventsInv
  <2>3. QED
    BY <2>1, <2>2
<1>10. ASSUME NEW e \in stored \cup {Len(happened')}, e > Len(happened') - StorageMax
       PROVE  e \in stored'
  <2>1. PICK n \in Nat, m \in Nat : n = Len(happened') /\ m = Len(happened) /\ n = m + 1
    BY <1>5
  <2>2. PICK s : s = stored \cup {n}
    OBVIOUS
  <2>3. e \in s /\ s \subseteq 1..n
    <3>1. \A f \in 1..m : f \in 1..n
      BY <2>1
    <3>2. n \in 1..n /\ stored \subseteq 1..m /\ e \in s
      BY <1>1, <1>10, <2>1, <2>2
    <3>3. QED
      BY Zenon, <2>2, <3>1, <3>2
  <2>4. e \in 1..n /\ \A f \in s : f \in Int /\ f <= n
    BY <2>3
  <2>5. PICK later : later = {f \in s : f >= e}
    OBVIOUS
  <2>6. later \subseteq e..n
    <3>1. ASSUME NEW f \in later PROVE f \in e..n
      <4>1. f \in s /\ f >= e
        BY Zenon, <2>5
      <4>2. QED
        BY <2>4, <4>1
    <3>2. QED
      BY <3>1
  <2>7. IsFiniteSet(e..n) /\ Cardinality(e..n) = n - e + 1
    BY <2>4, FS_Interval
  <2>8. IsFiniteSet(later) /\ Cardinality(later) <= Cardinality(e..n)
    BY <2>6, <2>7, FS_Subset
  <2>9. Cardinality(later) \in Nat
    BY <2>8, FS_CardinalityType
  <2>10. Cardinality(later) <= StorageMax
    BY <1>10, <2>1, <2>4, <2>7, <2>8, <2>9, Bounds
  <2>11. stored' = Events!Kept(s)
    BY <1>3, <2>1, <2>2
  <2>12. Events!Cardinality(later) = Cardinality(later)
    BY Zenon DEF Events!Cardinality, Cardinality
  <2>13. QED
    BY Zenon, <2>3, <2>5, <2>10, <2>11, <2>12 DEF Events!Kept
<1>11. QED
  BY <1>5, <1>6, <1>9, <1>10

LEMMA EventsStep ==
  ASSUME Events!AnalyticsAssumption, EventsInv, [Events!Next]_Events!vars
  PROVE  EventsInv'
<1>0. /\ posts \in [Events!Requests -> PostRow] /\ happened \in Seq(EventRow)
      /\ flushes \in [Tabs -> {0} \cup Events!Requests] /\ failures \in Nat
      /\ failures \in 0..FaultMax
      /\ signedIn \in [Tabs -> Visitors \cup {Nobody}]
  BY Bounds DEF EventsInv, EventsTyped
<1>1. ASSUME NEW kind, Events!Fails(kind) PROVE failures' \in 0..FaultMax
  BY <1>0, <1>1, Bounds DEF Events!Fails
<1>2. CASE Events!Day
  BY <1>2, DayPasses
<1>3. ASSUME NEW t \in Tabs, NEW online \in BOOLEAN, Events!Record(t, online) PROVE EventsInv'
  BY <1>3, Recorded
<1>4. ASSUME NEW t \in Tabs, Events!Flush(t) PROVE EventsInv'
  <2>1. /\ Events!StartFlush(t, stored, happened)
        /\ UNCHANGED <<day, happened, stored, signedIn, marks, tallies, failures>>
    BY <1>4 DEF Events!Flush
  <2>2. Grown
    BY <1>0, <2>1 DEF Grown
  <2>3. /\ stored \subseteq 1..Len(happened) /\ Len(happened) <= EventMax
        /\ \A e \in 1..Len(happened) : happened[e].day <= day
    BY DEF EventsInv, EventsTyped
  <2>4. PICK p, es : p = stored /\ es = happened
    OBVIOUS
  <2>5. Events!StartFlush(t, p, es)
    BY <2>1, <2>4
  <2>6. QED
    BY <1>0, <2>1, <2>2, <2>3, <2>4, <2>5, FlushStarts
<1>5. ASSUME NEW t \in Tabs, NEW u \in Visitors \cup {Nobody}, Events!SignIn(t, u)
      PROVE  EventsInv'
  <2>1. /\ signedIn' = [signedIn EXCEPT ![t] = u]
        /\ UNCHANGED <<day, happened, stored, flushes, posts, marks, tallies, failures>>
    BY <1>5 DEF Events!SignIn
  <2>2. signedIn' \in [Tabs -> Visitors \cup {Nobody}]
    BY <1>0, <2>1
  <2>3. EventsTyped'
    BY <2>1, <2>2 DEF EventsInv, EventsTyped
  <2>4. /\ \A q \in Events!Requests : PostFits(q)'
        /\ \A e \in Events!Id : EventFits(e)'
    BY <2>1 DEF EventsInv, PostFits, EventFits, MarkedBy
  <2>5. QED
    BY <2>3, <2>4 DEF EventsInv
<1>6. ASSUME NEW t \in Tabs, NEW ok \in BOOLEAN, Events!Answered(t, ok) PROVE EventsInv'
  <2>1. PICK r \in Events!Requests : r = flushes[t]
    BY <1>0, <1>6 DEF Events!Answered
  <2>2. /\ stored' \subseteq stored /\ flushes' = [flushes EXCEPT ![t] = 0]
        /\ posts' = [posts EXCEPT ![r] = Events!NoRequest]
        /\ UNCHANGED <<day, happened, signedIn, marks, tallies, failures>>
    BY <1>6, <2>1 DEF Events!Answered
  <2>3. flushes' \in [Tabs -> {0} \cup Events!Requests]
    BY <1>0, <2>2
  <2>4. QED
    BY <2>2, <2>3, PostEnds
<1>7. ASSUME NEW t \in Tabs, Events!Lose(t) PROVE EventsInv'
  <2>1. /\ flushes' = [flushes EXCEPT ![t] = 0] /\ failures' \in 0..FaultMax
        /\ UNCHANGED <<day, happened, stored, signedIn, posts, marks, tallies>>
    BY <1>1, <1>7 DEF Events!Lose
  <2>2. flushes' \in [Tabs -> {0} \cup Events!Requests]
    BY <1>0, <2>1
  <2>3. EventsTyped'
    BY <2>1, <2>2 DEF EventsInv, EventsTyped
  <2>4. /\ \A q \in Events!Requests : PostFits(q)'
        /\ \A e \in Events!Id : EventFits(e)'
    BY <2>1 DEF EventsInv, PostFits, EventFits, MarkedBy
  <2>5. QED
    BY <2>3, <2>4 DEF EventsInv
<1>8. ASSUME NEW r \in Events!Requests, Events!Forget(r) PROVE EventsInv'
  <2>1. /\ posts' = [posts EXCEPT ![r] = Events!NoRequest]
        /\ UNCHANGED <<day, happened, stored, signedIn, flushes, marks, tallies, failures>>
    BY <1>8 DEF Events!Forget
  <2>2. QED
    BY <1>0, <2>1, PostEnds
<1>9. ASSUME NEW r \in Events!Requests, NEW e \in Events!Id,
             Events!Mark(r, e) \/ Events!Count(r, e)
      PROVE  EventsInv'
  BY <1>9, Marks, Counts
<1>10. ASSUME NEW r \in Events!Requests, Events!Marked(r) PROVE EventsInv'
  <2>1. PICK phase \in {"ok", "counting"} :
          phase = IF posts[r].got = {} THEN "ok" ELSE "counting"
    OBVIOUS
  <2>2. /\ posts[r].phase = "marking" /\ posts[r].left = {}
        /\ posts' = [posts EXCEPT ![r].phase = phase]
        /\ UNCHANGED <<day, happened, stored, signedIn, flushes, marks, tallies, failures>>
    BY <1>10, <2>1 DEF Events!Marked
  <2>3. phase \in Events!Phase \ {"free"}
    BY DEF Events!Phase
  <2>4. QED
    BY <1>0, <2>1, <2>2, <2>3, PhaseChanges
<1>11. ASSUME NEW r \in Events!Requests, Events!CountFails(r) PROVE EventsInv'
  <2>1. /\ posts[r].phase = "counting" /\ posts' = [posts EXCEPT ![r].phase = "undoing"]
        /\ failures' \in 0..FaultMax
        /\ UNCHANGED <<day, happened, stored, signedIn, flushes, marks, tallies>>
    BY <1>1, <1>11 DEF Events!CountFails
  <2>2. "undoing" \in Events!Phase \ {"free"}
    BY DEF Events!Phase
  <2>3. QED
    BY <2>1, <2>2, PhaseChanges
<1>12. ASSUME NEW r \in Events!Requests,
              Events!MarkFails(r) \/ Events!UndoFails(r) \/ Events!Crash(r)
       PROVE  EventsInv'
  <2>1. /\ posts[r].phase \in {"marking", "counting", "undoing"}
        /\ posts' = [posts EXCEPT ![r].phase = "failed"] /\ failures' \in 0..FaultMax
        /\ UNCHANGED <<day, happened, stored, signedIn, flushes, marks, tallies>>
    BY <1>1, <1>12 DEF Events!MarkFails, Events!UndoFails, Events!Crash
  <2>2. "failed" \in Events!Phase \ {"free"}
    BY DEF Events!Phase
  <2>3. QED
    BY <2>1, <2>2, PhaseChanges
<1>13. ASSUME NEW r \in Events!Requests, Events!Undo(r) PROVE EventsInv'
  BY <1>13, Undoes
<1>14. CASE UNCHANGED Events!vars
  BY <1>14 DEF Events!vars, EventsInv, EventsTyped, PostFits, EventFits, MarkedBy
<1>15. QED
  BY <1>2, <1>3, <1>4, <1>5, <1>6, <1>7, <1>8, <1>9, <1>10, <1>11, <1>12, <1>13, <1>14
     DEF Events!Next

\* Analytics: the storages, the requests, the marks and the rows have their types.
THEOREM EventsTypes ==
  ASSUME Events!AnalyticsAssumption PROVE Events!Spec => []Events!TypeOK
<1>1. EventsInv => Events!TypeOK
  <2> SUFFICES ASSUME EventsInv PROVE Events!TypeOK
    OBVIOUS
  <2>2. 1..Len(happened) \subseteq Events!Id
    BY Bounds DEF EventsInv, EventsTyped, Events!Id
  <2>3. posts \in [Events!Requests -> PostRow] /\ happened \in Seq(EventRow)
    BY DEF EventsInv, EventsTyped
  <2>4. /\ posts \in [Events!Requests ->
                        [phase : Events!Phase, for : Visitors \cup {Nobody},
                         sent : SUBSET Events!Id, left : SUBSET Events!Id, got : SUBSET Events!Id]]
        /\ happened \in Seq([user : Visitors, day : Nat])
    BY Zenon, <2>3 DEF PostRow, EventRow
  <2>5. stored \subseteq Events!Id
    BY <2>2 DEF EventsInv, EventsTyped
  <2>6. QED
    BY Zenon, <2>4, <2>5 DEF EventsInv, EventsTyped, Events!TypeOK
<1>2. Events!Init => EventsInv
  BY EventsInit
<1>3. EventsInv /\ [Events!Next]_Events!vars => EventsInv'
  BY EventsStep
<1>4. QED
  BY <1>1, <1>2, <1>3, PTL DEF Events!Spec

\* Analytics: with any number of tabs, users and events, whatever is sent again and whatever fails
\* between the marks and the rows: an event is counted twice only when its mark has expired, and
\* only for the user who is signed in where it is sent, in a row that the reports of the day read
\* (recordClientEvents, flushProductAnalyticsEvents).
THEOREM EventsAreCountedOnce ==
  ASSUME Events!AnalyticsAssumption
  PROVE  Events!Spec => [](Events!CountedOnce /\ Events!CountedForUser)
<1>1. ASSUME EventsInv PROVE Events!CountedOnce /\ Events!CountedForUser
  <2>1. /\ \A q \in Events!Requests : PostFits(q)
        /\ \A e \in Events!Id : EventFits(e)
    BY <1>1 DEF EventsInv
  <2>2. Events!CountedOnce
    BY <2>1 DEF Events!CountedOnce, EventFits
  <2>3. \A q \in Events!Requests : \A e \in posts[q].got :
          happened[e].user = posts[q].for /\ happened[e].day >= day - 2 * ReportPeriod
    BY <2>1 DEF PostFits
  <2>4. QED
    BY <2>2, <2>3 DEF Events!CountedForUser, Events!ReadFrom
<1>2. Events!Init => EventsInv
  BY EventsInit
<1>3. EventsInv /\ [Events!Next]_Events!vars => EventsInv'
  BY EventsStep
<1>4. QED
  BY <1>1, <1>2, <1>3, PTL DEF Events!Spec

---------------------------------------------------------------------------

\* One tab, and no failures but of increments.
Lone == (\A t, u \in Tabs : t = u) /\ FaultKinds \subseteq {"increment"}

\* An event that the server has counted, or will not accept any more.
Done(e) == tallies[e] # <<>> \/ ~Events!Acceptable(e)

PostSure(r) ==
  /\ posts[r].phase # "free" => \E t \in Tabs : flushes[t] = r
  /\ posts[r].phase \in {"marking", "counting", "ok"} =>
       \A e \in posts[r].sent : e \in posts[r].left \/ e \in posts[r].got \/ Done(e)

MarkSure(e) == marks[e] > 0 => tallies[e] # <<>> \/ \E r \in Events!Requests : MarkedBy(e, r)

\* With a lone tab, a mark says that its event has been counted or is about to be, and whoever
\* waits for an answer has sent what is counted when it comes.
LoneInv ==
  /\ \A r \in Events!Requests : PostSure(r)
  /\ \A e \in Events!Id : MarkSure(e)
  /\ Events!NothingLost

LEMMA NoZero == 0 \notin Events!Requests
BY DEF Events!Requests

LEMMA LoneInit ==
  ASSUME Events!AnalyticsAssumption, Events!Init
  PROVE  LoneInv
<1>1. /\ happened = <<>> /\ posts = [r \in Events!Requests |-> Events!NoRequest]
      /\ marks = [e \in Events!Id |-> 0]
  BY DEF Events!Init
<1>2. Events!NoRequest.phase = "free"
  BY DEF Events!NoRequest
<1>3. \A r \in Events!Requests : PostSure(r)
  BY <1>1, <1>2 DEF PostSure
<1>4. \A e \in Events!Id : MarkSure(e)
  BY <1>1 DEF MarkSure
<1>5. Events!NothingLost
  BY <1>1 DEF Events!NothingLost
<1>6. QED
  BY <1>3, <1>4, <1>5 DEF LoneInv

\* With a lone tab one request is served at a time.
LEMMA OneAtATime ==
  ASSUME Lone, LoneInv, NEW r \in Events!Requests, NEW q \in Events!Requests,
         posts[r].phase # "free", posts[q].phase # "free"
  PROVE  r = q
<1>1. PICK t \in Tabs, u \in Tabs : flushes[t] = r /\ flushes[u] = q
  BY DEF LoneInv, PostSure
<1>2. QED
  BY <1>1 DEF Lone

\* What is done stays done.
LEMMA DoneStays ==
  ASSUME Events!AnalyticsAssumption, EventsInv, [Events!Next]_Events!vars,
         NEW e \in 1..Len(happened), Done(e)
  PROVE  Done(e)'
<1>1. /\ happened \in Seq(EventRow) /\ tallies \in [Events!Id -> Seq(Nat)] /\ day \in Nat
      /\ Len(happened) <= EventMax /\ happened[e].day <= day
  BY Bounds DEF EventsInv, EventsTyped
<1>2. e \in Events!Id
  BY <1>1, Bounds DEF Events!Id
<1>3. happened[e] \in EventRow
  BY <1>1
<1>4. happened[e].day \in Nat
  BY <1>3 DEF EventRow
<1>5. happened' = happened \/ \E d \in EventRow : happened' = Append(happened, d)
  <2>1. ASSUME NEW t \in Tabs, NEW online \in BOOLEAN, Events!Record(t, online)
        PROVE  \E d \in EventRow : happened' = Append(happened, d)
    <3>1. PICK d : d = [user |-> signedIn[t], day |-> day]
      OBVIOUS
    <3>2. signedIn[t] # Nobody /\ happened' = Append(happened, d)
      BY <2>1, <3>1 DEF Events!Record
    <3>3. signedIn[t] \in Visitors
      BY <3>2 DEF EventsInv, EventsTyped
    <3>4. QED
      BY <1>1, <3>1, <3>2, <3>3 DEF EventRow
  <2>2. CASE UNCHANGED Events!vars
    BY <2>2 DEF Events!vars
  <2>3. QED
    BY <2>1, <2>2
       DEF Events!Next, Events!Day, Events!Flush, Events!SignIn, Events!Answered, Events!Lose,
           Events!Forget, Events!Mark, Events!Marked, Events!MarkFails, Events!Count,
           Events!CountFails, Events!Undo, Events!UndoFails, Events!Crash
<1>6. happened'[e] = happened[e]
  BY <1>1, <1>5
<1>7. tallies'[e] = tallies[e] \/ tallies'[e] = Append(tallies[e], day)
  <2>1. ASSUME NEW r \in Events!Requests, NEW f \in Events!Id, Events!Count(r, f)
        PROVE  tallies'[e] = tallies[e] \/ tallies'[e] = Append(tallies[e], day)
    BY <1>2, <2>1 DEF Events!Count
  <2>2. CASE UNCHANGED Events!vars
    BY <2>2 DEF Events!vars
  <2>3. QED
    BY <2>1, <2>2
       DEF Events!Next, Events!Day, Events!Flush, Events!SignIn, Events!Answered, Events!Lose,
           Events!Forget, Events!Mark, Events!Marked, Events!MarkFails, Events!Record,
           Events!CountFails, Events!Undo, Events!UndoFails, Events!Crash
<1>8. day' = day \/ day' = day + 1
  <2>1. CASE UNCHANGED Events!vars
    BY <2>1 DEF Events!vars
  <2>2. QED
    BY <2>1
       DEF Events!Next, Events!Day, Events!Flush, Events!SignIn, Events!Answered, Events!Lose,
           Events!Forget, Events!Mark, Events!Marked, Events!MarkFails, Events!Record,
           Events!Count, Events!CountFails, Events!Undo, Events!UndoFails, Events!Crash
<1>9. tallies[e] # <<>> => tallies'[e] # <<>>
  <2>1. tallies[e] \in Seq(Nat)
    BY <1>1, <1>2
  <2>2. QED
    BY <1>1, <1>7, <2>1
<1>10. ~Events!Acceptable(e) => ~Events!Acceptable(e)'
  BY <1>1, <1>4, <1>6, <1>8, Bounds DEF Events!Acceptable
<1>11. QED
  BY <1>9, <1>10 DEF Done

\* The storage keeps what it has to, if it keeps what it has.
LEMMA StorageKept ==
  ASSUME Events!AnalyticsAssumption, EventsInv, LoneInv, [Events!Next]_Events!vars,
         happened' = happened, NEW gone, stored' = stored \ gone,
         \A e \in gone \cap 1..Len(happened) : Done(e)
  PROVE  Events!NothingLost'
<1>1. ASSUME NEW e \in 1..Len(happened'), e > Len(happened') - StorageMax,
             Events!Acceptable(e)'
      PROVE  e \in stored' \/ tallies'[e] # <<>>
  <2>1. e \in 1..Len(happened) /\ e > Len(happened) - StorageMax
    BY <1>1
  <2>2. e \in stored \/ Done(e)
    BY <2>1 DEF LoneInv, Events!NothingLost, Done
  <2>3. CASE Done(e)
    <3>1. Done(e)'
      BY <2>1, <2>3, DoneStays
    <3>2. QED
      BY <1>1, <3>1 DEF Done
  <2>4. CASE e \in stored /\ ~Done(e)
    BY <2>1, <2>4
  <2>5. QED
    BY <2>2, <2>3, <2>4
<1>2. QED
  BY <1>1 DEF Events!NothingLost

\* The requests are as they were.
LEMMA PostsStay ==
  ASSUME Events!AnalyticsAssumption, EventsInv, LoneInv, [Events!Next]_Events!vars,
         UNCHANGED <<posts, flushes, marks, tallies>>
  PROVE  (\A r \in Events!Requests : PostSure(r)') /\ (\A e \in Events!Id : MarkSure(e)')
<1>1. ASSUME NEW r \in Events!Requests PROVE PostSure(r)'
  <2>1. PostSure(r) /\ PostFits(r)
    BY DEF LoneInv, EventsInv
  <2>2. \A e \in posts[r].sent : Done(e) => Done(e)'
    BY <2>1, DoneStays DEF PostFits
  <2>3. QED
    BY <2>1, <2>2 DEF PostSure
<1>2. ASSUME NEW e \in Events!Id PROVE MarkSure(e)'
  BY DEF LoneInv, MarkSure, MarkedBy
<1>3. QED
  BY <1>1, <1>2

\* A request that begins is the only one.
LEMMA LoneStarts ==
  ASSUME Events!AnalyticsAssumption, Lone, EventsInv, LoneInv, [Events!Next]_Events!vars,
         NEW t \in Tabs, NEW p, NEW es, Events!StartFlush(t, p, es), UNCHANGED <<marks, tallies>>
  PROVE  (\A r \in Events!Requests : PostSure(r)') /\ (\A e \in Events!Id : MarkSure(e)')
<1>1. CASE UNCHANGED <<flushes, posts>>
  BY <1>1, PostsStay
<1>2. CASE ~UNCHANGED <<flushes, posts>>
  <2>1. PICK sent : sent = Events!Mine(t, p, es)
    OBVIOUS
  <2>2. PICK r, row :
          /\ r \in Events!Requests
          /\ row = [phase |-> "marking", for |-> signedIn[t], sent |-> sent, left |-> sent,
                    got |-> {}]
          /\ flushes[t] = 0 /\ posts[r].phase = "free"
          /\ flushes' = [flushes EXCEPT ![t] = r] /\ posts' = [posts EXCEPT ![r] = row]
    BY <1>2, <2>1 DEF Events!StartFlush
  <2>3. /\ row.phase = "marking" /\ row.sent = sent /\ row.left = sent /\ row.got = {}
    BY <2>2
  <2>4. /\ posts \in [Events!Requests -> PostRow]
        /\ flushes \in [Tabs -> {0} \cup Events!Requests]
    BY DEF EventsInv, EventsTyped
  <2>5. posts'[r] = row /\ flushes'[t] = r
        /\ \A q \in Events!Requests : q # r => posts'[q] = posts[q]
    BY <2>2, <2>4
  <2>6. \A q \in Events!Requests : posts[q].phase = "free"
    <3>1. ASSUME NEW q \in Events!Requests, posts[q].phase # "free" PROVE FALSE
      <4>1. PICK u \in Tabs : flushes[u] = q
        BY <3>1 DEF LoneInv, PostSure
      <4>2. u = t
        BY DEF Lone
      <4>3. QED
        BY <2>2, <4>1, <4>2, NoZero
    <3>2. QED
      BY <3>1
  <2>7. ASSUME NEW q \in Events!Requests PROVE PostSure(q)'
    <3>1. CASE q = r
      BY <2>3, <2>5, <3>1 DEF PostSure
    <3>2. CASE q # r
      BY <2>5, <2>6, <3>2 DEF PostSure
    <3>3. QED
      BY <3>1, <3>2
  <2>8. ASSUME NEW e \in Events!Id PROVE MarkSure(e)'
    <3>1. MarkSure(e) /\ \A q \in Events!Requests : ~MarkedBy(e, q)
      BY <2>6 DEF LoneInv, MarkedBy
    <3>2. QED
      BY <3>1 DEF MarkSure
  <2>9. QED
    BY <2>7, <2>8
<1>3. QED
  BY <1>1, <1>2

\* The server serves the only request.
LEMMA LoneServed ==
  ASSUME Events!AnalyticsAssumption, Lone, EventsInv, LoneInv, [Events!Next]_Events!vars,
         NEW r \in Events!Requests, posts[r].phase # "free", posts'[r].phase # "free",
         posts' = [posts EXCEPT ![r] = posts'[r]], posts'[r].sent = posts[r].sent,
         posts'[r].phase \in {"marking", "counting", "ok"} =>
           \A e \in posts[r].sent : e \in posts'[r].left \/ e \in posts'[r].got \/ Done(e)',
         \A e \in Events!Id : marks'[e] > 0 =>
           tallies'[e] # <<>> \/ MarkedBy(e, r)',
         UNCHANGED <<happened, stored, flushes>>
  PROVE  LoneInv'
<1>1. posts \in [Events!Requests -> PostRow] /\ PostSure(r)
  BY DEF EventsInv, EventsTyped, LoneInv
<1>2. \A q \in Events!Requests : q # r => posts'[q] = posts[q] /\ posts[q].phase = "free"
  BY <1>1, OneAtATime
<1>3. ASSUME NEW q \in Events!Requests PROVE PostSure(q)'
  <2>1. CASE q = r
    BY <1>1, <2>1 DEF PostSure
  <2>2. CASE q # r
    BY <1>2, <2>2 DEF PostSure
  <2>3. QED
    BY <2>1, <2>2
<1>4. \A e \in Events!Id : MarkSure(e)'
  BY DEF MarkSure
<1>5. Events!NothingLost'
  <2>1. stored' = stored \ {}
    OBVIOUS
  <2>2. QED
    BY <2>1, StorageKept
<1>6. QED
  BY <1>3, <1>4, <1>5 DEF LoneInv

LEMMA LoneStep ==
  ASSUME Events!AnalyticsAssumption, Lone, EventsInv, LoneInv, [Events!Next]_Events!vars
  PROVE  LoneInv'
<1>0. /\ posts \in [Events!Requests -> PostRow] /\ happened \in Seq(EventRow)
      /\ flushes \in [Tabs -> {0} \cup Events!Requests]
      /\ marks \in [Events!Id -> 0..MarkLife] /\ tallies \in [Events!Id -> Seq(Nat)]
      /\ \A r \in Events!Requests : PostFits(r) /\ PostSure(r)
  BY DEF EventsInv, EventsTyped, LoneInv
<1>1. \A e \in Events!Id : MarkSure(e)
  BY DEF LoneInv
<1>2. ASSUME NEW kind, Events!Fails(kind) PROVE kind = "increment"
  BY <1>2 DEF Events!Fails, Lone
<1>3. \A e \in 1..Len(happened) : Done(e) => Done(e)'
  BY DoneStays
<1>4. CASE Events!Day
  <2>1. /\ \A r \in Events!Requests : posts[r].phase = "free"
        /\ marks' = [e \in Events!Id |-> IF marks[e] > 0 THEN marks[e] - 1 ELSE 0]
        /\ UNCHANGED <<happened, stored, posts, tallies>>
    BY <1>4 DEF Events!Day
  <2>2. \A r \in Events!Requests : PostSure(r)'
    BY <2>1 DEF PostSure
  <2>3. ASSUME NEW e \in Events!Id PROVE MarkSure(e)'
    <3>1. \A r \in Events!Requests : ~MarkedBy(e, r)
      BY <2>1 DEF MarkedBy
    <3>2. marks'[e] > 0 => marks[e] > 0
      BY <1>0, <2>1
    <3>3. QED
      BY <1>1, <2>1, <3>1, <3>2 DEF MarkSure
  <2>4. stored' = stored \ {}
    BY <2>1
  <2>5. Events!NothingLost'
    BY <2>1, <2>4, StorageKept
  <2>6. QED
    BY <2>2, <2>3, <2>5 DEF LoneInv
<1>5. ASSUME NEW t \in Tabs, NEW online \in BOOLEAN, Events!Record(t, online) PROVE LoneInv'
  <2>1. /\ Grown /\ Len(happened') = Len(happened) + 1
        /\ \A e \in stored \cup {Len(happened')} :
             e > Len(happened') - StorageMax => e \in stored'
    BY <1>5, Recorded
  <2>2. UNCHANGED <<marks, tallies>>
    BY <1>5 DEF Events!Record
  <2>3. (\A r \in Events!Requests : PostSure(r)') /\ (\A e \in Events!Id : MarkSure(e)')
    <3>1. CASE online
      <4>1. PICK p, es : p = stored' /\ es = happened'
        OBVIOUS
      <4>2. Events!StartFlush(t, p, es)
        BY <1>5, <3>1, <4>1 DEF Events!Record
      <4>3. QED
        BY <2>2, <4>2, LoneStarts
    <3>2. CASE ~online
      BY <1>5, <2>2, <3>2, PostsStay DEF Events!Record
    <3>3. QED
      BY <3>1, <3>2
  <2>4. ASSUME NEW e \in 1..Len(happened'), e > Len(happened') - StorageMax,
               Events!Acceptable(e)'
        PROVE  e \in stored' \/ tallies'[e] # <<>>
    <3>1. CASE e = Len(happened')
      BY <2>1, <2>4, <3>1
    <3>2. CASE e # Len(happened')
      <4>1. e \in 1..Len(happened) /\ e > Len(happened) - StorageMax
        BY <1>0, <2>1, <2>4, <3>2, Bounds
      <4>2. e \in stored \/ Done(e)
        BY <4>1 DEF LoneInv, Events!NothingLost, Done
      <4>3. CASE Done(e)
        <5>1. Done(e)'
          BY <1>3, <4>1, <4>3
        <5>2. QED
          BY <2>4, <5>1 DEF Done
      <4>4. CASE e \in stored
        BY <2>1, <2>4, <4>4
      <4>5. QED
        BY <4>2, <4>3, <4>4
    <3>3. QED
      BY <3>1, <3>2
  <2>5. Events!NothingLost'
    BY <2>4 DEF Events!NothingLost
  <2>6. QED
    BY <2>3, <2>5 DEF LoneInv
<1>6. ASSUME NEW t \in Tabs, Events!Flush(t) PROVE LoneInv'
  <2>1. /\ Events!StartFlush(t, stored, happened)
        /\ UNCHANGED <<happened, stored, marks, tallies>> /\ stored' = stored \ {}
    BY <1>6 DEF Events!Flush
  <2>2. PICK p, es : p = stored /\ es = happened
    OBVIOUS
  <2>3. Events!StartFlush(t, p, es)
    BY <2>1, <2>2
  <2>4. QED
    BY <2>1, <2>3, LoneStarts, StorageKept DEF LoneInv
<1>7. ASSUME NEW t \in Tabs, NEW ok \in BOOLEAN, Events!Answered(t, ok) PROVE LoneInv'
  <2>1. PICK r \in Events!Requests : r = flushes[t]
    BY <1>0, <1>7 DEF Events!Answered
  <2>2. /\ posts[r].phase = IF ok THEN "ok" ELSE "failed"
        /\ stored' = stored \ (IF ok THEN posts[r].sent ELSE {})
        /\ posts' = [posts EXCEPT ![r] = Events!NoRequest]
        /\ UNCHANGED <<happened, marks, tallies>>
    BY <1>7, <2>1 DEF Events!Answered
  <2>3. \A q \in Events!Requests : q # r => posts[q].phase = "free"
    BY <2>2, OneAtATime
  <2>4. \A q \in Events!Requests : posts'[q].phase = "free"
    BY <1>0, <2>2, <2>3 DEF Events!NoRequest
  <2>5. \A q \in Events!Requests : PostSure(q)'
    BY <2>4 DEF PostSure
  <2>6. \A q \in Events!Requests : posts[q].phase \in {"free", "ok", "failed"}
    BY <2>2, <2>3
  <2>7. \A e \in Events!Id : MarkSure(e)'
    BY <1>1, <2>2, <2>6 DEF MarkSure, MarkedBy
  <2>8. PICK gone : gone = IF ok THEN posts[r].sent ELSE {}
    OBVIOUS
  <2>9. \A e \in gone \cap 1..Len(happened) : Done(e)
    BY <1>0, <2>2, <2>8 DEF PostFits, PostSure
  <2>10. Events!NothingLost'
    BY <2>2, <2>8, <2>9, StorageKept
  <2>11. QED
    BY <2>5, <2>7, <2>10 DEF LoneInv
<1>8. ASSUME NEW r \in Events!Requests, NEW e \in Events!Id, Events!Mark(r, e) PROVE LoneInv'
  <2>1. PICK got, row :
          /\ got = posts[r].got \cup IF Events!Acceptable(e) /\ marks[e] = 0 THEN {e} ELSE {}
          /\ row = [posts[r] EXCEPT !.left = posts[r].left \ {e}, !.got = got]
    OBVIOUS
  <2>2. /\ posts[r].phase = "marking" /\ e \in posts[r].left
        /\ marks' = IF Events!Acceptable(e) /\ marks[e] = 0 THEN [marks EXCEPT ![e] = MarkLife]
                    ELSE marks
        /\ posts' = [posts EXCEPT ![r] = row]
        /\ UNCHANGED <<day, happened, stored, signedIn, flushes, tallies, failures>>
    BY <1>0, <1>8, <2>1 DEF Events!Mark, Events!IsFirst
  <2>3. /\ row.phase = "marking" /\ row.sent = posts[r].sent
        /\ row.left = posts[r].left \ {e} /\ row.got = got
    BY <1>0, <2>1, <2>2 DEF PostRow
  <2>4. posts'[r] = row
    BY <1>0, <2>2
  <2>5. \A f \in Events!Id : MarkedBy(f, r) => MarkedBy(f, r)'
    BY <2>1, <2>3, <2>4 DEF MarkedBy
  <2>6. e \in got \/ Done(e)
    <3>1. CASE marks[e] # 0
      <4>1. tallies[e] # <<>> \/ \E q \in Events!Requests : MarkedBy(e, q)
        <5>1. marks[e] \in Nat
          BY <1>0, Bounds
        <5>2. marks[e] > 0
          BY <3>1, <5>1
        <5>3. QED
          BY <1>1, <5>2 DEF MarkSure
      <4>2. ASSUME NEW q \in Events!Requests, MarkedBy(e, q) PROVE e \in posts[r].got
        BY <2>2, <4>2, OneAtATime DEF MarkedBy
      <4>3. QED
        BY <2>1, <4>1, <4>2 DEF Done
    <3>2. CASE marks[e] = 0
      BY <2>1, <3>2 DEF Done
    <3>3. QED
      BY <3>1, <3>2
  <2>7. ASSUME NEW f \in posts[r].sent PROVE f \in row.left \/ f \in row.got \/ Done(f)'
    <3>1. f \in 1..Len(happened) /\ (f \in posts[r].left \/ f \in posts[r].got \/ Done(f))
      BY <1>0, <2>2 DEF PostFits, PostSure
    <3>2. QED
      BY <1>3, <2>1, <2>3, <2>6, <3>1
  <2>8. ASSUME NEW f \in Events!Id, marks'[f] > 0
        PROVE  tallies'[f] # <<>> \/ MarkedBy(f, r)'
    <3>1. CASE f = e /\ Events!Acceptable(e) /\ marks[e] = 0
      BY <2>1, <2>3, <2>4, <3>1 DEF MarkedBy
    <3>2. CASE ~(f = e /\ Events!Acceptable(e) /\ marks[e] = 0)
      <4>1. marks'[f] = marks[f]
        BY <1>0, <2>2, <3>2
      <4>2. tallies[f] # <<>> \/ \E q \in Events!Requests : MarkedBy(f, q)
        BY <1>1, <2>8, <4>1 DEF MarkSure
      <4>3. \A q \in Events!Requests : MarkedBy(f, q) => q = r
        BY <2>2, OneAtATime DEF MarkedBy
      <4>4. QED
        BY <2>2, <2>5, <4>2, <4>3 DEF Done
    <3>3. QED
      BY <3>1, <3>2
  <2>9. QED
    BY <2>2, <2>3, <2>4, <2>7, <2>8, LoneServed
<1>9. ASSUME NEW r \in Events!Requests, NEW phase \in {"counting", "ok", "undoing", "failed"},
             posts' = [posts EXCEPT ![r].phase = phase],
             posts[r].phase \in {"marking", "counting", "undoing"},
             phase = "ok" => posts[r].got = {},
             marks' = IF phase = "failed"
                      THEN [e \in Events!Id |-> IF e \in posts[r].got THEN 0 ELSE marks[e]]
                      ELSE marks,
             phase \in {"counting", "ok"} => posts[r].phase = "marking",
             UNCHANGED <<day, happened, stored, signedIn, flushes, tallies>>
      PROVE  LoneInv'
  <2>1. PICK row : row = [posts[r] EXCEPT !.phase = phase]
    OBVIOUS
  <2>2. posts' = [posts EXCEPT ![r] = row] /\ posts'[r] = row
    BY <1>0, <1>9, <2>1
  <2>3. /\ row.phase = phase /\ row.sent = posts[r].sent /\ row.left = posts[r].left
        /\ row.got = posts[r].got
    BY <1>0, <2>1 DEF PostRow
  <2>4. ASSUME NEW f \in posts[r].sent, phase \in {"counting", "ok"}
        PROVE  f \in row.left \/ f \in row.got \/ Done(f)'
    <3>1. f \in 1..Len(happened) /\ (f \in posts[r].left \/ f \in posts[r].got \/ Done(f))
      BY <1>0, <1>9, <2>4 DEF PostFits, PostSure
    <3>2. QED
      BY <1>3, <2>3, <3>1
  <2>5. ASSUME NEW f \in Events!Id, marks'[f] > 0
        PROVE  tallies'[f] # <<>> \/ MarkedBy(f, r)'
    <3>1. /\ marks[f] > 0
          /\ phase = "failed" => f \notin posts[r].got
      BY <1>0, <1>9, <2>5
    <3>2. tallies[f] # <<>> \/ \E q \in Events!Requests : MarkedBy(f, q)
      BY <1>1, <3>1 DEF MarkSure
    <3>3. \A q \in Events!Requests : MarkedBy(f, q) => q = r
      BY <1>9, OneAtATime DEF MarkedBy
    <3>4. MarkedBy(f, r) => MarkedBy(f, r)'
      BY <1>9, <2>2, <2>3, <3>1 DEF MarkedBy
    <3>5. QED
      BY <1>9, <3>2, <3>3, <3>4 DEF Done
  <2>6. QED
    BY <1>9, <2>2, <2>3, <2>4, <2>5, LoneServed
<1>10. ASSUME NEW r \in Events!Requests, NEW e \in Events!Id, Events!Count(r, e) PROVE LoneInv'
  <2>1. PICK today, left, phase, row :
          /\ today = Events!OfDay(posts[r].got, happened[e].day)
          /\ left = posts[r].got \ today /\ phase = IF left = {} THEN "ok" ELSE "counting"
          /\ row = [posts[r] EXCEPT !.got = left, !.phase = phase]
    OBVIOUS
  <2>2. /\ posts[r].phase = "counting"
        /\ tallies' = [f \in Events!Id |-> IF f \in today THEN Append(tallies[f], day)
                                           ELSE tallies[f]]
        /\ posts' = [posts EXCEPT ![r] = row]
        /\ UNCHANGED <<day, happened, stored, signedIn, flushes, marks, failures>>
    BY <1>0, <1>10, <2>1 DEF Events!Count
  <2>3. /\ row.phase = phase /\ row.sent = posts[r].sent /\ row.left = posts[r].left
        /\ row.got = left /\ phase \in {"ok", "counting"}
    BY <1>0, <2>1 DEF PostRow
  <2>4. posts'[r] = row
    BY <1>0, <2>2
  <2>5. \A f \in Events!Id : f \in today => tallies'[f] # <<>> /\ Done(f)'
    <3>1. ASSUME NEW f \in Events!Id, f \in today PROVE tallies'[f] # <<>>
      <4>1. tallies'[f] = Append(tallies[f], day) /\ tallies[f] \in Seq(Nat)
        BY <1>0, <2>2, <3>1
      <4>2. QED
        BY <4>1
    <3>2. QED
      BY <3>1 DEF Done
  <2>6. ASSUME NEW f \in posts[r].sent PROVE f \in row.left \/ f \in row.got \/ Done(f)'
    <3>1. /\ f \in 1..Len(happened) /\ f \in Events!Id
          /\ f \in posts[r].left \/ f \in posts[r].got \/ Done(f)
      BY <1>0, <2>2 DEF PostFits, PostSure, PostRow
    <3>2. QED
      BY <1>3, <2>1, <2>3, <2>5, <3>1
  <2>7. ASSUME NEW f \in Events!Id, marks'[f] > 0
        PROVE  tallies'[f] # <<>> \/ MarkedBy(f, r)'
    <3>1. tallies[f] # <<>> \/ \E q \in Events!Requests : MarkedBy(f, q)
      BY <1>1, <2>2, <2>7 DEF MarkSure
    <3>2. \A q \in Events!Requests : MarkedBy(f, q) => q = r
      BY <2>2, OneAtATime DEF MarkedBy
    <3>3. CASE f \in today
      BY <2>5, <3>3
    <3>4. CASE f \notin today
      <4>1. tallies'[f] = tallies[f]
        BY <2>2, <3>4
      <4>2. MarkedBy(f, r) => MarkedBy(f, r)'
        <5>1. MarkedBy(f, r) => f \in left /\ left # {}
          BY <2>1, <3>4 DEF MarkedBy
        <5>2. QED
          BY <2>1, <2>3, <2>4, <5>1 DEF MarkedBy
      <4>3. QED
        BY <3>1, <3>2, <4>1, <4>2 DEF Done
    <3>5. QED
      BY <3>3, <3>4
  <2>8. QED
    BY <2>2, <2>3, <2>4, <2>6, <2>7, LoneServed
<1>11. ASSUME NEW r \in Events!Requests, Events!Marked(r) PROVE LoneInv'
  <2>1. PICK phase \in {"ok", "counting"} :
          phase = IF posts[r].got = {} THEN "ok" ELSE "counting"
    OBVIOUS
  <2>2. /\ posts[r].phase = "marking" /\ posts' = [posts EXCEPT ![r].phase = phase]
        /\ UNCHANGED <<day, happened, stored, signedIn, flushes, marks, tallies>>
    BY <1>11, <2>1 DEF Events!Marked
  <2>3. marks' = IF phase = "failed"
                 THEN [e \in Events!Id |-> IF e \in posts[r].got THEN 0 ELSE marks[e]]
                 ELSE marks
    BY <2>1, <2>2
  <2>4. QED
    BY <1>9, <2>1, <2>2, <2>3
<1>12. ASSUME NEW r \in Events!Requests, Events!CountFails(r) PROVE LoneInv'
  <2>1. /\ posts[r].phase = "counting" /\ posts' = [posts EXCEPT ![r].phase = "undoing"]
        /\ UNCHANGED <<day, happened, stored, signedIn, flushes, marks, tallies>>
    BY <1>12 DEF Events!CountFails
  <2>2. marks' = IF "undoing" = "failed"
                 THEN [e \in Events!Id |-> IF e \in posts[r].got THEN 0 ELSE marks[e]]
                 ELSE marks
    BY <2>1
  <2>3. QED
    BY <1>9, <2>1, <2>2
<1>13. ASSUME NEW r \in Events!Requests, Events!Undo(r) PROVE LoneInv'
  BY <1>9, <1>13 DEF Events!Undo
<1>14. ASSUME NEW r \in Events!Requests,
              Events!MarkFails(r) \/ Events!UndoFails(r) \/ Events!Crash(r)
       PROVE  FALSE
  BY <1>2, <1>14 DEF Events!MarkFails, Events!UndoFails, Events!Crash
<1>15. ASSUME NEW t \in Tabs, Events!Lose(t) PROVE FALSE
  BY <1>2, <1>15 DEF Events!Lose
<1>16. ASSUME NEW r \in Events!Requests, Events!Forget(r) PROVE FALSE
  BY <1>0, <1>16 DEF Events!Forget, PostSure
<1>17. ASSUME NEW t \in Tabs, NEW u \in Visitors \cup {Nobody}, Events!SignIn(t, u)
       PROVE  LoneInv'
  <2>1. UNCHANGED <<happened, posts, flushes, marks, tallies>> /\ stored' = stored \ {}
    BY <1>17 DEF Events!SignIn
  <2>2. QED
    BY <2>1, PostsStay, StorageKept DEF LoneInv
<1>18. CASE UNCHANGED Events!vars
  <2>1. UNCHANGED <<happened, posts, flushes, marks, tallies>> /\ stored' = stored \ {}
    BY <1>18 DEF Events!vars
  <2>2. QED
    BY <2>1, PostsStay, StorageKept DEF LoneInv
<1>19. QED
  BY <1>4, <1>5, <1>6, <1>7, <1>8, <1>10, <1>11, <1>12, <1>13, <1>14, <1>15, <1>16, <1>17, <1>18
     DEF Events!Next

\* Analytics: a lone tab, of whoever signs in and out in it, loses nothing that the storage keeps
\* and the server accepts, however often increments fail. (With two tabs, with a lost answer or
\* with a Redis that fails, events are lost.)
THEOREM LoneTabLosesNothing ==
  ASSUME Events!AnalyticsAssumption, \A t, u \in Tabs : t = u, FaultKinds \subseteq {"increment"}
  PROVE  Events!Spec => []Events!NothingLost
<1>0. Lone
  BY DEF Lone
<1>1. Events!Init => EventsInv /\ LoneInv
  BY EventsInit, LoneInit
<1>2. EventsInv /\ LoneInv /\ [Events!Next]_Events!vars => EventsInv' /\ LoneInv'
  BY <1>0, EventsStep, LoneStep
<1>3. LoneInv => Events!NothingLost
  BY DEF LoneInv
<1>4. QED
  BY <1>1, <1>2, <1>3, PTL DEF Events!Spec

---------------------------------------------------------------------------

(***************************************************************************)
(* BrowserSession: the tabs of a browser and the session they share.       *)
(***************************************************************************)
CONSTANTS Windows, Lossy, Overlap, MaxLogins, MaxRefresh, MaxLoads, LossMax
VARIABLES server, cookie, store, tabs, net, heard, logins, loads, losses, left, wants, revoked,
          behind

Browser == INSTANCE BrowserSession WITH Tab <- Windows, MaxFaults <- LossMax, faults <- losses

StoreRow == [tomb : BOOLEAN, user : BOOLEAN, queued : BOOLEAN]

BrowserTyped ==
  /\ server \in [1..MaxLogins -> 0..MaxRefresh] /\ cookie \in Browser!Cookie
  /\ store \in StoreRow /\ tabs \in [Windows -> Browser!TabState] /\ net \subseteq Browser!Message
  /\ heard \subseteq Windows /\ left \in Browser!Sid /\ revoked \subseteq Browser!Sid
  /\ logins \in Browser!Sid /\ loads \in 0..MaxLoads /\ losses \in 0..LossMax /\ wants \in BOOLEAN

\* What a tab waits for is under way, and will be heard.
Asks(n, t, w) ==
  /\ w \in {"boot", "call"} => \E q \in n : q.tab = t /\ q.kept /\ q.kind = "refresh"
  /\ w = "login" => \E q \in n : q.tab = t /\ q.kept /\ q.kind = "login"

BrowserInv ==
  /\ Browser!BrowserAssumption /\ BrowserTyped
  /\ \A t \in Windows : Asks(net, t, tabs[t].waits)

LEMMA BrowserIs ==
  ASSUME BrowserInv, behind \subseteq Browser!Sid
  PROVE  Browser!TypeOK
<1>1. BrowserTyped /\ \A t \in Windows : Asks(net, t, tabs[t].waits)
  BY DEF BrowserInv
<1>2. ASSUME NEW t \in Windows, tabs[t].waits \in {"boot", "call", "login"}
      PROVE  \E q \in net : q.tab = t /\ q.kept /\ q.kind # "logout"
  <2>1. PICK q \in net : q.tab = t /\ q.kept /\ q.kind \in {"refresh", "login"}
    BY <1>1, <1>2 DEF Asks
  <2> QED BY <2>1
<1> QED BY <1>1, <1>2 DEF BrowserTyped, Browser!TypeOK, StoreRow

LEMMA Carries ==
  ASSUME NEW n, NEW m, NEW t, NEW w, Asks(n, t, w),
         \A q \in n : q.tab = t /\ q.kept /\ q.kind # "logout" =>
           \E r \in m : r.tab = t /\ r.kept /\ r.kind = q.kind
  PROVE  Asks(m, t, w)
<1>1. ASSUME w \in {"boot", "call"}
      PROVE  \E q \in m : q.tab = t /\ q.kept /\ q.kind = "refresh"
  <2>1. PICK q \in n : q.tab = t /\ q.kept /\ q.kind = "refresh"
    BY <1>1 DEF Asks
  <2> QED BY <2>1
<1>2. ASSUME w = "login"
      PROVE  \E q \in m : q.tab = t /\ q.kept /\ q.kind = "login"
  <2>1. PICK q \in n : q.tab = t /\ q.kept /\ q.kind = "login"
    BY <1>2 DEF Asks
  <2> QED BY <2>1
<1> QED BY <1>1, <1>2 DEF Asks

\* A tab that waits for nothing asks for nothing.
LEMMA AsksNone ==
  ASSUME NEW n, NEW t, NEW w, w \in {"none", "me"}
  PROVE  Asks(n, t, w)
BY DEF Asks

LEMMA TabChanges ==
  ASSUME tabs \in [Windows -> Browser!TabState], NEW t \in Windows, NEW row \in Browser!TabState,
         tabs' = [tabs EXCEPT ![t] = row]
  PROVE  /\ tabs' \in [Windows -> Browser!TabState] /\ tabs'[t] = row
         /\ \A u \in Windows : u # t => tabs'[u] = tabs[u]
OBVIOUS

LEMMA Rows ==
  ASSUME Browser!BrowserAssumption
  PROVE  /\ MaxLogins \in Nat /\ MaxRefresh \in Nat \ {0} /\ MaxLoads \in Nat /\ LossMax \in Nat
         /\ 0 \in Browser!Sid /\ Browser!NoCookie \in Browser!Cookie /\ Browser!NoCookie.sid = 0
         /\ Browser!SignedOut \in Browser!TabState /\ Browser!SignedOut.ui = "out"
         /\ Browser!SignedOut.waits = "none" /\ ~Browser!SignedOut.user
BY DEF Browser!BrowserAssumption, Browser!Sid, Browser!NoCookie, Browser!Cookie, Browser!TabState,
       Browser!SignedOut

\* What a step does to the tabs and the requests, one tab at most.
LEMMA TabStep ==
  ASSUME BrowserInv, NEW t \in Windows, NEW row \in Browser!TabState,
         tabs' = [tabs EXCEPT ![t] = row],
         \A u \in Windows : u # t =>
           \A q \in net : q.tab = u /\ q.kept /\ q.kind # "logout" =>
             \E r \in net' : r.tab = u /\ r.kept /\ r.kind = q.kind,
         Asks(net', t, row.waits)
  PROVE  /\ tabs' \in [Windows -> Browser!TabState]
         /\ \A u \in Windows : Asks(net', u, tabs'[u].waits)
<1>1. /\ tabs' \in [Windows -> Browser!TabState] /\ tabs'[t] = row
      /\ \A u \in Windows : u # t => tabs'[u] = tabs[u]
  BY TabChanges DEF BrowserInv, BrowserTyped
<1>2. ASSUME NEW u \in Windows, u # t
      PROVE  Asks(net', u, tabs'[u].waits)
  <2>1. Asks(net, u, tabs[u].waits) /\ tabs'[u] = tabs[u]
    BY <1>1, <1>2 DEF BrowserInv
  <2>2. Asks(net', u, tabs[u].waits)
    BY <1>2, <2>1, Carries
  <2> QED BY <2>1, <2>2
<1> QED BY <1>1, <1>2

LEMMA NetStep ==
  ASSUME BrowserInv, UNCHANGED tabs,
         \A q \in net : q.kept /\ q.kind # "logout" =>
           \E r \in net' : r.tab = q.tab /\ r.kept /\ r.kind = q.kind
  PROVE  /\ tabs' \in [Windows -> Browser!TabState]
         /\ \A u \in Windows : Asks(net', u, tabs'[u].waits)
<1>1. ASSUME NEW u \in Windows
      PROVE  Asks(net', u, tabs[u].waits)
  <2>1. Asks(net, u, tabs[u].waits)
    BY DEF BrowserInv
  <2> QED BY <2>1, Carries
<1> QED BY <1>1 DEF BrowserInv, BrowserTyped

LEMMA BrowserNext ==
  ASSUME BrowserInv, BrowserTyped', \A u \in Windows : Asks(net', u, tabs'[u].waits)
  PROVE  BrowserInv'
<1>1. \A u \in Windows : Asks(net, u, tabs[u].waits)'
  BY DEF Asks
<1> QED BY <1>1 DEF BrowserInv

LEMMA BrowserInit ==
  ASSUME Browser!BrowserAssumption, Browser!Init
  PROVE  BrowserInv
<1>1. BrowserTyped
  <2>1. server \in [1..MaxLogins -> 0..MaxRefresh] /\ store \in StoreRow
    BY Rows DEF Browser!Init, StoreRow
  <2>2. tabs \in [Windows -> Browser!TabState]
    BY Rows DEF Browser!Init
  <2>3. 0 \in 0..MaxLoads /\ 0 \in 0..LossMax
    BY Rows
  <2>4. /\ cookie \in Browser!Cookie /\ net \subseteq Browser!Message /\ heard \subseteq Windows
        /\ left \in Browser!Sid /\ revoked \subseteq Browser!Sid /\ logins \in Browser!Sid
        /\ loads \in 0..MaxLoads /\ losses \in 0..LossMax
    BY Rows, <2>3 DEF Browser!Init
  <2>5. wants \in BOOLEAN
    BY DEF Browser!Init
  <2> QED BY <2>1, <2>2, <2>4, <2>5 DEF BrowserTyped
<1>2. \A t \in Windows : Asks(net, t, tabs[t].waits)
  BY AsksNone DEF Browser!Init, Browser!SignedOut
<1> QED BY <1>1, <1>2 DEF BrowserInv

\* A request that a tab sends.
Sent(t, kind, c) == [tab |-> t, kind |-> kind, cookie |-> c, step |-> "sent", kept |-> TRUE]

LEMMA Sending ==
  ASSUME BrowserInv, NEW t \in Windows, NEW kind \in {"refresh", "logout", "login"},
         Browser!Sends(t, kind)
  PROVE  /\ net' = net \cup {Sent(t, kind, cookie)} /\ net' \subseteq Browser!Message
         /\ \A q \in net : q \in net'
         /\ \A q \in net : q.tab = t => q.kind # kind
         /\ kind = "refresh" => \A w \in {"boot", "call"} : Asks(net', t, w)
         /\ kind = "login" => Asks(net', t, "login")
<1>1. net' = net \cup {Sent(t, kind, cookie)} /\ \A q \in net : q.tab = t => q.kind # kind
  BY DEF Browser!Sends, Sent
<1>2. Sent(t, kind, cookie) \in Browser!Message
  BY DEF BrowserInv, BrowserTyped, Sent, Browser!Message
<1>3. net' \subseteq Browser!Message /\ \A q \in net : q \in net'
  BY <1>1, <1>2 DEF BrowserInv, BrowserTyped
<1>4. Sent(t, kind, cookie) \in net'
  BY <1>1
<1>5. Sent(t, kind, cookie).tab = t /\ Sent(t, kind, cookie).kept
      /\ Sent(t, kind, cookie).kind = kind
  BY DEF Sent
<1>6. kind = "refresh" => \A w \in {"boot", "call"} : Asks(net', t, w)
  BY <1>4, <1>5 DEF Asks
<1>7. kind = "login" => Asks(net', t, "login")
  BY <1>4, <1>5 DEF Asks
<1> QED BY <1>1, <1>3, <1>6, <1>7

LEMMA LoginTyped ==
  ASSUME BrowserInv, NEW t \in Windows, Browser!Login(t)
  PROVE  BrowserInv'
<1>1. net' \subseteq Browser!Message /\ (\A q \in net : q \in net') /\ Asks(net', t, "login")
  BY Sending DEF Browser!Login
<1>2. PICK row : row = [tabs[t] EXCEPT !.waits = "login"]
  OBVIOUS
<1>3. row \in Browser!TabState /\ row.waits = "login"
  BY <1>2 DEF BrowserInv, BrowserTyped, Browser!TabState
<1>4. tabs' = [tabs EXCEPT ![t] = row]
  BY <1>2 DEF Browser!Login, BrowserInv, BrowserTyped
<1>5. tabs' \in [Windows -> Browser!TabState] /\ \A u \in Windows : Asks(net', u, tabs'[u].waits)
  BY <1>1, <1>3, <1>4, TabStep
<1>6. BrowserTyped'
  BY <1>1, <1>5 DEF Browser!Login, BrowserInv, BrowserTyped
<1> QED BY <1>5, <1>6, BrowserNext

\* The requests of a page that is left.
Unheard(t, n) == {IF q.tab = t THEN [q EXCEPT !.kept = FALSE] ELSE q : q \in n}

LEMMA Unhearing ==
  ASSUME NEW t \in Windows, NEW n \in SUBSET Browser!Message
  PROVE  /\ Unheard(t, n) \subseteq Browser!Message
         /\ \A q \in n : q.tab # t => q \in Unheard(t, n)
         /\ \A r \in Unheard(t, n) :
              \/ r \in n /\ r.tab # t
              \/ r.tab = t /\ ~r.kept /\ \E q \in n : q.tab = t /\ r = [q EXCEPT !.kept = FALSE]
<1>1. \A q \in n : [q EXCEPT !.kept = FALSE] \in Browser!Message
                   /\ [q EXCEPT !.kept = FALSE].tab = q.tab
                   /\ ~[q EXCEPT !.kept = FALSE].kept
  BY DEF Browser!Message
<1> QED BY <1>1 DEF Unheard

\* The page starts, and knows the user that was remembered.
Boots(t) == tabs' = [tabs EXCEPT ![t] =
                       [ui |-> "boot", access |-> 0, waits |-> "boot", user |-> store.user]]

LEMMA Loading ==
  ASSUME BrowserInv, NEW t \in Windows, Browser!Load(t)
  PROVE  /\ UNCHANGED <<server, cookie, store, logins, losses, left, wants, revoked>>
         /\ \A q \in net : q.tab = t /\ q.kept => q.kind # "refresh" \/ "answer" \in Lossy
         /\ \/ /\ store.tomb /\ net' = Unheard(t, net)
               /\ tabs' = [tabs EXCEPT ![t] = Browser!SignedOut]
            \/ /\ ~store.tomb /\ Browser!MayRefresh
               /\ net' = Unheard(t, net) \cup {Sent(t, "refresh", cookie)}
               /\ Boots(t)
BY DEF Browser!Load, Unheard, Sent, Browser!Barred, Boots

LEMMA LoadTyped ==
  ASSUME BrowserInv, NEW t \in Windows, Browser!Load(t)
  PROVE  BrowserInv'
<1>1. /\ Unheard(t, net) \subseteq Browser!Message
      /\ \A q \in net : q.tab # t => q \in Unheard(t, net)
  BY Unhearing DEF BrowserInv, BrowserTyped
<1>2. heard' \subseteq Windows /\ loads' \in 0..MaxLoads
  BY Rows DEF Browser!Load, BrowserInv, BrowserTyped
<1>3. UNCHANGED <<server, cookie, store, logins, losses, left, wants, revoked>>
  BY Loading
<1>4. CASE store.tomb /\ net' = Unheard(t, net)
           /\ tabs' = [tabs EXCEPT ![t] = Browser!SignedOut]
  <2>1. PICK row \in Browser!TabState : row = Browser!SignedOut
    BY Rows DEF BrowserInv
  <2>2. tabs' = [tabs EXCEPT ![t] = row] /\ Asks(net', t, row.waits)
    BY <1>4, <2>1, AsksNone DEF Browser!SignedOut
  <2>3. tabs' \in [Windows -> Browser!TabState] /\ \A u \in Windows : Asks(net', u, tabs'[u].waits)
    BY <1>1, <1>4, <2>2, TabStep
  <2>4. BrowserTyped'
    BY <1>1, <1>2, <1>3, <1>4, <2>3 DEF BrowserInv, BrowserTyped
  <2> QED BY <2>3, <2>4, BrowserNext
<1>5. CASE net' = Unheard(t, net) \cup {Sent(t, "refresh", cookie)}
           /\ Boots(t)
  <2>1. PICK row \in Browser!TabState :
          row = [ui |-> "boot", access |-> 0, waits |-> "boot", user |-> store.user]
    BY Rows DEF BrowserInv, BrowserTyped, StoreRow, Browser!TabState
  <2>2. PICK m : m = Sent(t, "refresh", cookie)
    OBVIOUS
  <2>3. m \in Browser!Message /\ m.tab = t /\ m.kept /\ m.kind = "refresh" /\ m \in net'
    BY <1>5, <2>2 DEF BrowserInv, BrowserTyped, Sent, Browser!Message
  <2>4. tabs' = [tabs EXCEPT ![t] = row] /\ Asks(net', t, row.waits)
    BY <1>5, <2>1, <2>3 DEF Asks, Boots
  <2>5. tabs' \in [Windows -> Browser!TabState] /\ \A u \in Windows : Asks(net', u, tabs'[u].waits)
    BY <1>1, <1>5, <2>4, TabStep
  <2>6. net' \subseteq Browser!Message
    BY <1>1, <1>5, <2>2, <2>3
  <2>7. BrowserTyped'
    BY <1>2, <1>3, <2>5, <2>6 DEF BrowserInv, BrowserTyped
  <2> QED BY <2>5, <2>7, BrowserNext
<1> QED BY <1>4, <1>5, Loading

LEMMA UnauthorizedTyped ==
  ASSUME BrowserInv, NEW t \in Windows, Browser!Unauthorized(t)
  PROVE  BrowserInv'
<1>1. /\ net' \subseteq Browser!Message /\ (\A q \in net : q \in net')
      /\ \A w \in {"boot", "call"} : Asks(net', t, w)
  BY Sending DEF Browser!Unauthorized
<1>2. PICK row : row = [tabs[t] EXCEPT !.waits = "call"]
  OBVIOUS
<1>3. row \in Browser!TabState /\ row.waits = "call"
  BY <1>2 DEF BrowserInv, BrowserTyped, Browser!TabState
<1>4. tabs' = [tabs EXCEPT ![t] = row]
  BY <1>2 DEF Browser!Unauthorized, BrowserInv, BrowserTyped
<1>5. tabs' \in [Windows -> Browser!TabState] /\ \A u \in Windows : Asks(net', u, tabs'[u].waits)
  BY <1>1, <1>3, <1>4, TabStep
<1>6. BrowserTyped'
  BY <1>1, <1>5 DEF Browser!Unauthorized, BrowserInv, BrowserTyped
<1> QED BY <1>5, <1>6, BrowserNext

LEMMA ChangeTyped ==
  ASSUME BrowserInv, NEW t \in Windows, Browser!ChangeArticle(t)
  PROVE  BrowserInv'
<1>1. store' \in StoreRow
  BY DEF Browser!ChangeArticle, BrowserInv, BrowserTyped, StoreRow
<1>2. BrowserTyped'
  BY <1>1 DEF Browser!ChangeArticle, BrowserInv, BrowserTyped
<1>3. \A u \in Windows : Asks(net', u, tabs'[u].waits)
  BY DEF Browser!ChangeArticle, BrowserInv
<1> QED BY <1>2, <1>3, BrowserNext

\* A tab whose local state is cleared.
LEMMA Clearing ==
  ASSUME BrowserInv, NEW t \in Windows, NEW next, Browser!Cleared(t, next),
         \A u \in Windows : u # t =>
           \A q \in net : q.tab = u /\ q.kept /\ q.kind # "logout" =>
             \E r \in net' : r.tab = u /\ r.kept /\ r.kind = q.kind
  PROVE  /\ tabs' \in [Windows -> Browser!TabState] /\ store' = next
         /\ tabs' = [tabs EXCEPT ![t] = Browser!SignedOut]
         /\ \A u \in Windows : Asks(net', u, tabs'[u].waits)
<1>1. PICK row \in Browser!TabState : row = Browser!SignedOut
  BY Rows DEF BrowserInv
<1>2. tabs' = [tabs EXCEPT ![t] = row] /\ store' = next
  BY <1>1 DEF Browser!Cleared
<1>3. Asks(net', t, row.waits)
  BY <1>1, AsksNone DEF Browser!SignedOut
<1>4. tabs' \in [Windows -> Browser!TabState] /\ \A u \in Windows : Asks(net', u, tabs'[u].waits)
  BY <1>2, <1>3, TabStep
<1> QED BY <1>1, <1>2, <1>4

LEMMA Forgetting ==
  ASSUME BrowserInv, NEW t \in Windows
  PROVE  /\ Browser!Forgotten(t) \in StoreRow
         /\ [Browser!Forgotten(t) EXCEPT !.tomb = TRUE] \in StoreRow
BY DEF BrowserInv, BrowserTyped, Browser!Forgotten, StoreRow, Browser!TabState

LEMMA LogoutTyped ==
  ASSUME BrowserInv, NEW t \in Windows, Browser!Logout(t)
  PROVE  BrowserInv'
<1>1. net' \subseteq Browser!Message /\ \A q \in net : q \in net'
  BY Sending DEF Browser!Logout
<1>2. PICK next : next = [Browser!Forgotten(t) EXCEPT !.tomb = TRUE]
  OBVIOUS
<1>3. /\ tabs' \in [Windows -> Browser!TabState] /\ store' = next
      /\ \A u \in Windows : Asks(net', u, tabs'[u].waits)
  <2>1. Browser!Cleared(t, next)
    BY <1>2 DEF Browser!Logout
  <2> QED BY <1>1, <2>1, Clearing
<1>4. store' \in StoreRow
  BY <1>2, <1>3, Forgetting
<1>5. heard' \subseteq Windows /\ left' \in Browser!Sid /\ wants' = FALSE
      /\ UNCHANGED <<server, cookie, logins, loads, losses, revoked>>
  BY DEF Browser!Logout, BrowserInv, BrowserTyped, Browser!Cookie
<1>6. BrowserTyped'
  BY <1>1, <1>3, <1>4, <1>5 DEF BrowserInv, BrowserTyped
<1> QED BY <1>3, <1>6, BrowserNext

LEMMA HearTyped ==
  ASSUME BrowserInv, NEW t \in Windows, Browser!HearSignOut(t)
  PROVE  BrowserInv'
<1>1. heard' \subseteq Windows
      /\ UNCHANGED <<server, cookie, net, logins, loads, losses, left, wants, revoked>>
  BY DEF Browser!HearSignOut, BrowserInv, BrowserTyped
<1>2. CASE Browser!Using(t)
  <2>1. PICK next \in StoreRow : next = [Browser!Forgotten(t) EXCEPT !.tomb = TRUE]
    BY Forgetting
  <2>2. /\ tabs' \in [Windows -> Browser!TabState] /\ store' = next
        /\ \A u \in Windows : Asks(net', u, tabs'[u].waits)
    <3>1. Browser!Cleared(t, next) /\ net' = net
      BY <1>2, <2>1 DEF Browser!HearSignOut
    <3> QED BY <3>1, Clearing
  <2>3. BrowserTyped'
    BY <1>1, <2>1, <2>2 DEF BrowserInv, BrowserTyped
  <2> QED BY <2>2, <2>3, BrowserNext
<1>3. CASE ~Browser!Using(t)
  <2>1. UNCHANGED <<tabs, store, net>>
    BY <1>3 DEF Browser!HearSignOut
  <2>2. BrowserTyped' /\ \A u \in Windows : Asks(net', u, tabs'[u].waits)
    BY <1>1, <2>1 DEF BrowserInv, BrowserTyped
  <2> QED BY <2>2, BrowserNext
<1> QED BY <1>2, <1>3

\* The server's answer takes the place of the request.
LEMMA Answering ==
  ASSUME BrowserInv, NEW q \in net, NEW step \in {"ok", "rejected"}, NEW c \in Browser!Cookie,
         Browser!Answered(q, step, c)
  PROVE  /\ net' \subseteq Browser!Message
         /\ \A p \in net : \E r \in net' : r.tab = p.tab /\ r.kept = p.kept /\ r.kind = p.kind
         /\ \E a \in Browser!Message :
              /\ net' = (net \ {q}) \cup {a} /\ a = [q EXCEPT !.step = step, !.cookie = c]
              /\ a.tab = q.tab /\ a.kind = q.kind /\ a.kept = q.kept /\ a.step = step
              /\ a.cookie = c
<1>1. q \in Browser!Message /\ net \subseteq Browser!Message
  BY DEF BrowserInv, BrowserTyped
<1>2. PICK a : a = [q EXCEPT !.step = step, !.cookie = c]
  OBVIOUS
<1>3. /\ a \in Browser!Message /\ a.tab = q.tab /\ a.kind = q.kind /\ a.kept = q.kept
      /\ a.step = step /\ a.cookie = c
  BY <1>1, <1>2 DEF Browser!Message
<1>4. net' = (net \ {q}) \cup {a}
  BY <1>2 DEF Browser!Answered
<1>5. net' \subseteq Browser!Message
  BY <1>1, <1>3, <1>4
<1>6. ASSUME NEW p \in net
      PROVE  \E r \in net' : r.tab = p.tab /\ r.kept = p.kept /\ r.kind = p.kind
  <2>1. CASE p = q
    BY <1>3, <1>4, <2>1
  <2>2. CASE p # q
    BY <1>4, <2>2
  <2> QED BY <2>1, <2>2
<1> QED BY <1>2, <1>3, <1>4, <1>5, <1>6

\* A step of the server.
LEMMA ServerTyped ==
  ASSUME BrowserInv, net' \subseteq Browser!Message,
         \A p \in net : \E r \in net' : r.tab = p.tab /\ r.kept = p.kept /\ r.kind = p.kind,
         server' \in [1..MaxLogins -> 0..MaxRefresh], logins' \in Browser!Sid,
         UNCHANGED <<cookie, store, tabs, heard, loads, losses, left, wants, revoked>>
  PROVE  BrowserInv'
<1>1. /\ tabs' \in [Windows -> Browser!TabState]
      /\ \A u \in Windows : Asks(net', u, tabs'[u].waits)
  <2>1. \A q \in net : q.kept /\ q.kind # "logout" =>
          \E r \in net' : r.tab = q.tab /\ r.kept /\ r.kind = q.kind
    OBVIOUS
  <2> QED BY <2>1, NetStep
<1>2. BrowserTyped'
  BY <1>1 DEF BrowserInv, BrowserTyped
<1> QED BY <1>1, <1>2, BrowserNext

LEMMA ServedRefresh ==
  ASSUME BrowserInv, NEW q \in net, Browser!ServeRefresh(q)
  PROVE  /\ q.kind = "refresh" /\ q.step = "sent"
         /\ UNCHANGED <<cookie, store, tabs, heard, logins, loads, losses, left, wants, revoked>>
         /\ \/ /\ ~Browser!Current(q.cookie) /\ UNCHANGED server
               /\ Browser!Answered(q, "rejected", q.cookie)
            \/ /\ Browser!Current(q.cookie) /\ q.cookie.token < MaxRefresh
               /\ server' = [server EXCEPT ![q.cookie.sid] = @ + 1]
               /\ Browser!Answered(q, "ok", [q.cookie EXCEPT !.token = @ + 1])
BY DEF Browser!ServeRefresh

LEMMA CookieOf ==
  ASSUME BrowserInv, NEW q \in net
  PROVE  /\ q \in Browser!Message /\ q.cookie \in Browser!Cookie
         /\ q.cookie.sid \in 0..MaxLogins /\ q.cookie.token \in 0..MaxRefresh /\ q.tab \in Windows
         /\ Browser!Current(q.cookie) =>
              /\ q.cookie.sid \in 1..MaxLogins /\ server[q.cookie.sid] = q.cookie.token
              /\ q.cookie.token # 0
         /\ q.cookie.token < MaxRefresh => [q.cookie EXCEPT !.token = @ + 1] \in Browser!Cookie
<1>1. q \in Browser!Message
  BY DEF BrowserInv, BrowserTyped
<1>2. q.cookie \in Browser!Cookie /\ q.tab \in Windows
  BY <1>1 DEF Browser!Message
<1>3. q.cookie.sid \in 0..MaxLogins /\ q.cookie.token \in 0..MaxRefresh
  BY <1>2 DEF Browser!Cookie, Browser!Sid
<1>4. Browser!Current(q.cookie) =>
        /\ q.cookie.sid \in 1..MaxLogins /\ server[q.cookie.sid] = q.cookie.token
        /\ q.cookie.token # 0
  BY <1>3, Rows DEF Browser!Current, Browser!Live, BrowserInv
<1>5. q.cookie.token < MaxRefresh => q.cookie.token + 1 \in 0..MaxRefresh
  BY <1>3, Rows DEF BrowserInv
<1>6. q.cookie.token < MaxRefresh => [q.cookie EXCEPT !.token = @ + 1] \in Browser!Cookie
  BY <1>2, <1>5 DEF Browser!Cookie
<1> QED BY <1>1, <1>2, <1>3, <1>4, <1>6

LEMMA ServeRefreshTyped ==
  ASSUME BrowserInv, NEW q \in net, Browser!ServeRefresh(q)
  PROVE  BrowserInv'
<1>1. CASE UNCHANGED server /\ Browser!Answered(q, "rejected", q.cookie)
  <2>1. /\ net' \subseteq Browser!Message
        /\ \A p \in net : \E r \in net' : r.tab = p.tab /\ r.kept = p.kept /\ r.kind = p.kind
    BY <1>1, CookieOf, Answering
  <2>2. server' \in [1..MaxLogins -> 0..MaxRefresh] /\ logins' \in Browser!Sid
    BY <1>1, ServedRefresh DEF BrowserInv, BrowserTyped
  <2> QED BY <2>1, <2>2, ServedRefresh, ServerTyped
<1>2. CASE /\ Browser!Current(q.cookie) /\ q.cookie.token < MaxRefresh
           /\ server' = [server EXCEPT ![q.cookie.sid] = @ + 1]
           /\ Browser!Answered(q, "ok", [q.cookie EXCEPT !.token = @ + 1])
  <2>1. PICK c \in Browser!Cookie : c = [q.cookie EXCEPT !.token = @ + 1]
    BY <1>2, CookieOf
  <2>2. Browser!Answered(q, "ok", c)
    BY <1>2, <2>1
  <2>3. /\ net' \subseteq Browser!Message
        /\ \A p \in net : \E r \in net' : r.tab = p.tab /\ r.kept = p.kept /\ r.kind = p.kind
    BY <2>2, Answering
  <2>4. server' \in [1..MaxLogins -> 0..MaxRefresh] /\ logins' \in Browser!Sid
    <3>1. server \in [1..MaxLogins -> 0..MaxRefresh] /\ logins' = logins
      BY ServedRefresh DEF BrowserInv, BrowserTyped
    <3>2. server[q.cookie.sid] + 1 \in 0..MaxRefresh
      BY <1>2, CookieOf, Rows DEF BrowserInv
    <3>3. server' \in [1..MaxLogins -> 0..MaxRefresh]
      BY <1>2, <3>1, <3>2
    <3> QED BY <3>1, <3>3 DEF BrowserInv, BrowserTyped
  <2> QED BY <2>3, <2>4, ServedRefresh, ServerTyped
<1> QED BY <1>1, <1>2, ServedRefresh

LEMMA ServeLogoutTyped ==
  ASSUME BrowserInv, NEW q \in net, Browser!ServeLogout(q)
  PROVE  BrowserInv'
<1>1. PICK c \in Browser!Cookie : c = Browser!NoCookie
  BY Rows DEF BrowserInv
<1>2. Browser!Answered(q, "ok", c)
  BY <1>1 DEF Browser!ServeLogout
<1>3. /\ net' \subseteq Browser!Message
      /\ \A p \in net : \E r \in net' : r.tab = p.tab /\ r.kept = p.kept /\ r.kind = p.kind
  BY <1>2, Answering
<1>4. server' \in [1..MaxLogins -> 0..MaxRefresh]
  <2>1. server \in [1..MaxLogins -> 0..MaxRefresh] /\ 0 \in 0..MaxRefresh
    BY Rows DEF BrowserInv, BrowserTyped
  <2>2. server' = [server EXCEPT ![q.cookie.sid] = 0] \/ server' = server
    BY DEF Browser!ServeLogout
  <2> QED BY <2>1, <2>2
<1>5. UNCHANGED <<cookie, store, tabs, heard, logins, loads, losses, left, wants, revoked>>
  BY DEF Browser!ServeLogout
<1>6. logins' \in Browser!Sid
  BY <1>5 DEF BrowserInv, BrowserTyped
<1> QED BY <1>3, <1>4, <1>5, <1>6, ServerTyped

LEMMA ServeLoginTyped ==
  ASSUME BrowserInv, NEW q \in net, Browser!ServeLogin(q)
  PROVE  BrowserInv'
<1>1. logins + 1 \in 1..MaxLogins
  BY Rows DEF Browser!ServeLogin, BrowserInv, BrowserTyped, Browser!Sid
<1>2. PICK c \in Browser!Cookie : c = [sid |-> logins + 1, token |-> 1]
  <2>1. logins + 1 \in 0..MaxLogins /\ 1 \in 0..MaxRefresh
    BY <1>1, Rows DEF BrowserInv
  <2> QED BY <2>1 DEF Browser!Cookie, Browser!Sid
<1>3. Browser!Answered(q, "ok", c)
  BY <1>2 DEF Browser!ServeLogin
<1>4. /\ net' \subseteq Browser!Message
      /\ \A p \in net : \E r \in net' : r.tab = p.tab /\ r.kept = p.kept /\ r.kind = p.kind
  BY <1>3, Answering
<1>5. server' \in [1..MaxLogins -> 0..MaxRefresh] /\ logins' \in Browser!Sid
  BY <1>1, Rows DEF Browser!ServeLogin, BrowserInv, BrowserTyped, Browser!Sid
<1>6. UNCHANGED <<cookie, store, tabs, heard, loads, losses, left, wants, revoked>>
  BY DEF Browser!ServeLogin
<1> QED BY <1>4, <1>5, <1>6, ServerTyped

LEMMA RevokedTyped ==
  ASSUME BrowserInv, NEW s \in 1..MaxLogins, Browser!RevokedElsewhere(s)
  PROVE  BrowserInv'
<1>1. server' \in [1..MaxLogins -> 0..MaxRefresh] /\ revoked' \subseteq Browser!Sid
  BY Rows DEF Browser!RevokedElsewhere, BrowserInv, BrowserTyped, Browser!Sid
<1>2. UNCHANGED <<cookie, store, tabs, net, heard, logins, loads, losses, left, wants>>
  BY DEF Browser!RevokedElsewhere
<1>3. BrowserTyped'
  BY <1>1, <1>2 DEF BrowserInv, BrowserTyped
<1>4. \A u \in Windows : Asks(net', u, tabs'[u].waits)
  BY <1>2 DEF BrowserInv
<1> QED BY <1>3, <1>4, BrowserNext

\* An answer arrives in a tab, or is dropped.
LEMMA Arriving ==
  ASSUME BrowserInv, NEW q \in net, net' = net \ {q}
  PROVE  /\ net' \subseteq Browser!Message
         /\ \A u \in Windows : u # q.tab =>
              \A p \in net : p.tab = u /\ p.kept /\ p.kind # "logout" =>
                \E r \in net' : r.tab = u /\ r.kept /\ r.kind = p.kind
         /\ ~q.kept \/ q.kind = "logout" =>
              \A p \in net : p.kept /\ p.kind # "logout" =>
                \E r \in net' : r.tab = p.tab /\ r.kept /\ r.kind = p.kind
BY DEF BrowserInv, BrowserTyped

LEMMA DroppedTyped ==
  ASSUME BrowserInv, NEW q \in net, Browser!Dropped(q)
  PROVE  BrowserInv'
<1>1. /\ net' = net \ {q} /\ ~q.kept
      /\ UNCHANGED <<server, cookie, store, tabs, heard, logins, loads, losses, left>>
      /\ UNCHANGED <<wants, revoked>>
  BY DEF Browser!Dropped, Browser!Arrives
<1>2. /\ tabs' \in [Windows -> Browser!TabState]
      /\ \A u \in Windows : Asks(net', u, tabs'[u].waits)
  BY <1>1, Arriving, NetStep
<1>3. BrowserTyped'
  BY <1>1, <1>2, Arriving DEF BrowserInv, BrowserTyped
<1> QED BY <1>2, <1>3, BrowserNext

LEMMA LoggedInTyped ==
  ASSUME BrowserInv, NEW q \in net, Browser!LoggedIn(q)
  PROVE  BrowserInv'
<1>1. /\ net' = net \ {q} /\ cookie' = q.cookie
      /\ UNCHANGED <<server, heard, logins, loads, losses, left, wants, revoked>>
  BY DEF Browser!LoggedIn, Browser!Arrives
<1>2. PICK row : row = [ui |-> "in", access |-> q.cookie.sid, waits |-> "none", user |-> TRUE]
  OBVIOUS
<1>3. row \in Browser!TabState /\ row.waits = "none"
  BY <1>2, CookieOf DEF Browser!TabState, Browser!Sid
<1>4. tabs' = [tabs EXCEPT ![q.tab] = row]
  BY <1>2 DEF Browser!LoggedIn
<1>5. Asks(net', q.tab, row.waits) /\ q.tab \in Windows
  BY <1>3, AsksNone, CookieOf
<1>6. tabs' \in [Windows -> Browser!TabState] /\ \A u \in Windows : Asks(net', u, tabs'[u].waits)
  BY <1>1, <1>3, <1>4, <1>5, Arriving, TabStep
<1>7. store' \in StoreRow
  BY DEF Browser!LoggedIn, BrowserInv, BrowserTyped, StoreRow
<1>8. BrowserTyped'
  BY <1>1, <1>6, <1>7, CookieOf, Arriving DEF BrowserInv, BrowserTyped
<1> QED BY <1>6, <1>8, BrowserNext

LEMMA LoggedOutTyped ==
  ASSUME BrowserInv, NEW q \in net, Browser!LoggedOut(q)
  PROVE  BrowserInv'
<1>1. /\ net' = net \ {q} /\ cookie' = Browser!NoCookie /\ q.kind = "logout"
      /\ UNCHANGED <<server, tabs, heard, logins, loads, losses, left, wants, revoked>>
  BY DEF Browser!LoggedOut, Browser!Arrives
<1>2. /\ tabs' \in [Windows -> Browser!TabState]
      /\ \A u \in Windows : Asks(net', u, tabs'[u].waits)
  BY <1>1, Arriving, NetStep
<1>3. store' \in StoreRow
  BY DEF Browser!LoggedOut, BrowserInv, BrowserTyped, StoreRow
<1>4. BrowserTyped'
  BY <1>1, <1>2, <1>3, Rows, Arriving DEF BrowserInv, BrowserTyped
<1> QED BY <1>2, <1>4, BrowserNext

LEMMA RefreshedTyped ==
  ASSUME BrowserInv, NEW q \in net, Browser!Refreshed(q)
  PROVE  BrowserInv'
<1>1. /\ net' = net \ {q} /\ cookie' = q.cookie /\ q.kind = "refresh"
      /\ UNCHANGED <<server, store, heard, logins, loads, losses, left, wants, revoked>>
  BY DEF Browser!Refreshed, Browser!Arrives
<1>2. PICK t \in Windows : t = q.tab
  BY CookieOf
<1>3. tabs[t] \in Browser!TabState /\ Asks(net, t, tabs[t].waits)
  BY DEF BrowserInv, BrowserTyped
<1>4. PICK w : w = IF tabs[t].waits \in {"boot", "call"} THEN "me" ELSE tabs[t].waits
  OBVIOUS
<1>5. w \in {"none", "me", "login"}
  BY <1>3, <1>4 DEF Browser!TabState
<1>6. Asks(net', t, w)
  <2>1. CASE w \in {"none", "me"}
    BY <2>1, AsksNone
  <2>2. CASE w = "login"
    <3>1. PICK p \in net : p.tab = t /\ p.kept /\ p.kind = "login"
      BY <1>3, <1>4, <2>2 DEF Asks
    <3>2. p \in net'
      BY <1>1, <3>1
    <3> QED BY <2>2, <3>1, <3>2 DEF Asks
  <2> QED BY <1>5, <2>1, <2>2
<1>7. PICK row : row = [tabs[t] EXCEPT !.access = q.cookie.sid, !.waits = w]
  OBVIOUS
<1>8. row \in Browser!TabState /\ row.waits = w
  BY <1>3, <1>5, <1>7, CookieOf DEF Browser!TabState, Browser!Sid
<1>9. tabs' = [tabs EXCEPT ![t] = row]
  BY <1>2, <1>4, <1>7 DEF Browser!Refreshed, BrowserInv, BrowserTyped, Browser!TabState
<1>10. tabs' \in [Windows -> Browser!TabState] /\ \A u \in Windows : Asks(net', u, tabs'[u].waits)
  <2>1. \A u \in Windows : u # t =>
          \A p \in net : p.tab = u /\ p.kept /\ p.kind # "logout" =>
            \E r \in net' : r.tab = u /\ r.kept /\ r.kind = p.kind
    BY <1>1, <1>2, Arriving
  <2> QED BY <1>6, <1>8, <1>9, <2>1, TabStep
<1>11. BrowserTyped'
  BY <1>1, <1>10, CookieOf, Arriving DEF BrowserInv, BrowserTyped
<1> QED BY <1>10, <1>11, BrowserNext

LEMMA RejectedTyped ==
  ASSUME BrowserInv, NEW q \in net, Browser!Rejected(q)
  PROVE  BrowserInv'
<1>1. /\ net' = net \ {q} /\ cookie' = Browser!NoCookie /\ q.kind = "refresh"
      /\ UNCHANGED <<server, heard, logins, loads, losses, left, wants, revoked>>
  BY DEF Browser!Rejected, Browser!Arrives
<1>2. PICK t \in Windows : t = q.tab
  BY CookieOf
<1>3. tabs[t] \in Browser!TabState /\ Asks(net, t, tabs[t].waits)
  BY DEF BrowserInv, BrowserTyped
<1>4. \A u \in Windows : u # t =>
        \A p \in net : p.tab = u /\ p.kept /\ p.kind # "logout" =>
          \E r \in net' : r.tab = u /\ r.kept /\ r.kind = p.kind
  BY <1>1, <1>2, Arriving
<1>5. CASE tabs[t].waits \in {"boot", "call"}
  <2>1. PICK next \in StoreRow : next = Browser!Forgotten(t)
    BY Forgetting
  <2>2. Browser!Cleared(t, next)
    BY <1>2, <1>5, <2>1 DEF Browser!Rejected
  <2>3. /\ tabs' \in [Windows -> Browser!TabState] /\ store' = next
        /\ \A u \in Windows : Asks(net', u, tabs'[u].waits)
    BY <1>4, <2>2, Clearing
  <2>4. BrowserTyped'
    BY <1>1, <2>1, <2>3, Rows, Arriving DEF BrowserInv, BrowserTyped
  <2> QED BY <2>3, <2>4, BrowserNext
<1>6. CASE tabs[t].waits \notin {"boot", "call"}
  <2>1. PICK row : row = [tabs[t] EXCEPT !.access = 0]
    OBVIOUS
  <2>2. row \in Browser!TabState /\ row.waits = tabs[t].waits
    BY <1>3, <2>1, Rows DEF Browser!TabState, BrowserInv
  <2>3. tabs' = [tabs EXCEPT ![t] = row] /\ store' = store
    BY <1>2, <1>6, <2>1 DEF Browser!Rejected
  <2>4. Asks(net', t, row.waits)
    <3>1. CASE row.waits \in {"none", "me"}
      BY <3>1, AsksNone
    <3>2. CASE row.waits = "login"
      <4>1. PICK p \in net : p.tab = t /\ p.kept /\ p.kind = "login"
        BY <1>3, <2>2, <3>2 DEF Asks
      <4>2. p \in net'
        BY <1>1, <4>1
      <4> QED BY <3>2, <4>1, <4>2 DEF Asks
    <3> QED BY <1>3, <1>6, <2>2, <3>1, <3>2 DEF Browser!TabState
  <2>5. /\ tabs' \in [Windows -> Browser!TabState]
        /\ \A u \in Windows : Asks(net', u, tabs'[u].waits)
    BY <1>4, <2>2, <2>3, <2>4, TabStep
  <2>6. BrowserTyped'
    BY <1>1, <2>3, <2>5, Rows, Arriving DEF BrowserInv, BrowserTyped
  <2> QED BY <2>5, <2>6, BrowserNext
<1> QED BY <1>5, <1>6

LEMMA MeTyped ==
  ASSUME BrowserInv, NEW t \in Windows, Browser!Me(t)
  PROVE  BrowserInv'
<1>1. /\ tabs[t].waits = "me"
      /\ UNCHANGED <<server, cookie, net, heard, logins, loads, losses, left, wants, revoked>>
  BY DEF Browser!Me
<1>2. CASE /\ tabs' = [tabs EXCEPT ![t].ui = "in", ![t].waits = "none", ![t].user = TRUE]
           /\ store' = [store EXCEPT !.user = @ \/ tabs[t].ui # "in"]
  <2>1. PICK row : row = [tabs[t] EXCEPT !.ui = "in", !.waits = "none", !.user = TRUE]
    OBVIOUS
  <2>2. tabs \in [Windows -> Browser!TabState] /\ tabs[t] \in Browser!TabState
    BY DEF BrowserInv, BrowserTyped
  <2>3. row \in Browser!TabState /\ row.waits = "none"
    BY <2>1, <2>2 DEF Browser!TabState
  <2>4. tabs' = [tabs EXCEPT ![t] = row]
    BY <1>2, <2>1, <2>2
  <2>5. Asks(net', t, row.waits)
    BY <2>3, AsksNone
  <2>6. tabs' \in [Windows -> Browser!TabState] /\ \A u \in Windows : Asks(net', u, tabs'[u].waits)
    BY <1>1, <2>3, <2>4, <2>5, TabStep
  <2>7. store' \in StoreRow
    BY <1>2 DEF BrowserInv, BrowserTyped, StoreRow
  <2>8. BrowserTyped'
    BY <1>1, <2>6, <2>7 DEF BrowserInv, BrowserTyped
  <2> QED BY <2>6, <2>8, BrowserNext
<1>3. CASE Browser!Cleared(t, Browser!Forgotten(t))
  <2>1. PICK next \in StoreRow : next = Browser!Forgotten(t)
    BY Forgetting
  <2>2. Browser!Cleared(t, next)
    BY <1>3, <2>1
  <2>3. /\ tabs' \in [Windows -> Browser!TabState] /\ store' = next
        /\ \A u \in Windows : Asks(net', u, tabs'[u].waits)
    BY <1>1, <2>2, Clearing
  <2>4. BrowserTyped'
    BY <1>1, <2>1, <2>3 DEF BrowserInv, BrowserTyped
  <2> QED BY <2>3, <2>4, BrowserNext
<1> QED BY <1>2, <1>3 DEF Browser!Me

\* What a tab does when the network fails.
LEMMA Failing ==
  ASSUME BrowserInv, NEW t \in Windows, Browser!Unavailable(t)
  PROVE  \/ /\ tabs[t].waits = "boot" /\ tabs[t].user /\ store' = store
            /\ tabs' = [tabs EXCEPT ![t].ui = "offline", ![t].waits = "none"]
         \/ /\ tabs[t].waits = "boot" /\ ~tabs[t].user
            /\ Browser!Cleared(t, Browser!Forgotten(t))
         \/ /\ tabs[t].waits # "boot" /\ store' = store
            /\ tabs' = [tabs EXCEPT ![t].waits = "none"]
<1>1. CASE tabs[t].waits = "boot" /\ tabs[t].user
  BY <1>1 DEF Browser!Unavailable
<1>2. CASE tabs[t].waits = "boot" /\ ~tabs[t].user
  BY <1>2 DEF Browser!Unavailable
<1>3. CASE tabs[t].waits # "boot"
  BY <1>3 DEF Browser!Unavailable
<1> QED BY <1>1, <1>2, <1>3

LEMMA LoseTyped ==
  ASSUME BrowserInv, NEW q \in net, Browser!Lose(q)
  PROVE  BrowserInv'
<1>1. /\ net' = net \ {q}
      /\ UNCHANGED <<server, cookie, heard, logins, loads, left, wants, revoked>>
  BY DEF Browser!Lose
<1>2. losses' \in 0..LossMax
  BY Rows DEF Browser!Lose, BrowserInv, BrowserTyped
<1>3. CASE ~(q.kept /\ q.kind # "logout")
  <2>1. UNCHANGED <<tabs, store>>
    BY <1>3 DEF Browser!Lose
  <2>2. ~q.kept \/ q.kind = "logout"
    BY <1>3
  <2>3. /\ tabs' \in [Windows -> Browser!TabState]
        /\ \A u \in Windows : Asks(net', u, tabs'[u].waits)
    BY <1>1, <2>1, <2>2, Arriving, NetStep
  <2>4. BrowserTyped'
    BY <1>1, <1>2, <2>1, <2>3, Arriving DEF BrowserInv, BrowserTyped
  <2> QED BY <2>3, <2>4, BrowserNext
<1>4. CASE q.kept /\ q.kind # "logout"
  <2>1. PICK t \in Windows : t = q.tab
    BY CookieOf
  <2>2. Browser!Unavailable(t)
    BY <1>4, <2>1 DEF Browser!Lose
  <2>3. \A u \in Windows : u # t =>
          \A p \in net : p.tab = u /\ p.kept /\ p.kind # "logout" =>
            \E r \in net' : r.tab = u /\ r.kept /\ r.kind = p.kind
    BY <1>1, <2>1, Arriving
  <2>4. tabs \in [Windows -> Browser!TabState] /\ tabs[t] \in Browser!TabState /\ store \in StoreRow
    BY DEF BrowserInv, BrowserTyped
  <2>5. CASE Browser!Cleared(t, Browser!Forgotten(t))
    <3>1. PICK next \in StoreRow : next = Browser!Forgotten(t)
      BY Forgetting
    <3>2. Browser!Cleared(t, next)
      BY <2>5, <3>1
    <3>3. /\ tabs' \in [Windows -> Browser!TabState] /\ store' = next
          /\ \A u \in Windows : Asks(net', u, tabs'[u].waits)
      BY <2>3, <3>2, Clearing
    <3>4. BrowserTyped'
      BY <1>1, <1>2, <3>1, <3>3, Arriving DEF BrowserInv, BrowserTyped
    <3> QED BY <3>3, <3>4, BrowserNext
  <2>6. ASSUME NEW row \in Browser!TabState, row.waits = "none", tabs' = [tabs EXCEPT ![t] = row],
               store' = store
        PROVE  BrowserInv'
    <3>1. Asks(net', t, row.waits)
      BY <2>6, AsksNone
    <3>2. /\ tabs' \in [Windows -> Browser!TabState]
          /\ \A u \in Windows : Asks(net', u, tabs'[u].waits)
      BY <2>3, <2>6, <3>1, TabStep
    <3>3. BrowserTyped'
      BY <1>1, <1>2, <2>6, <3>2, Arriving DEF BrowserInv, BrowserTyped
    <3> QED BY <3>2, <3>3, BrowserNext
  <2>7. CASE /\ tabs' = [tabs EXCEPT ![t].ui = "offline", ![t].waits = "none"] /\ store' = store
    <3>1. PICK row : row = [tabs[t] EXCEPT !.ui = "offline", !.waits = "none"]
      OBVIOUS
    <3>2. row \in Browser!TabState /\ row.waits = "none" /\ tabs' = [tabs EXCEPT ![t] = row]
      BY <2>4, <2>7, <3>1 DEF Browser!TabState
    <3> QED BY <2>6, <2>7, <3>2
  <2>8. CASE tabs' = [tabs EXCEPT ![t].waits = "none"] /\ store' = store
    <3>1. PICK row : row = [tabs[t] EXCEPT !.waits = "none"]
      OBVIOUS
    <3>2. row \in Browser!TabState /\ row.waits = "none" /\ tabs' = [tabs EXCEPT ![t] = row]
      BY <2>4, <2>8, <3>1 DEF Browser!TabState
    <3> QED BY <2>6, <2>8, <3>2
  <2> QED BY <2>2, <2>5, <2>7, <2>8, Failing
<1> QED BY <1>3, <1>4

LEMMA BrowserStep ==
  ASSUME BrowserInv, [Browser!Next]_Browser!vars
  PROVE  BrowserInv'
<1>1. CASE UNCHANGED Browser!vars
  BY <1>1 DEF Browser!vars, BrowserInv, BrowserTyped, Asks
<1>2. CASE \E t \in Windows : \/ Browser!Login(t) \/ Browser!Load(t) \/ Browser!Unauthorized(t)
                              \/ Browser!ChangeArticle(t) \/ Browser!Logout(t)
                              \/ Browser!HearSignOut(t) \/ Browser!Me(t)
  BY <1>2, LoginTyped, LoadTyped, UnauthorizedTyped, ChangeTyped, LogoutTyped, HearTyped, MeTyped
<1>3. CASE \E s \in 1..MaxLogins : Browser!RevokedElsewhere(s)
  BY <1>3, RevokedTyped
<1>4. CASE \E q \in net : Browser!ServeRefresh(q) \/ Browser!ServeLogout(q) \/ Browser!ServeLogin(q)
                          \/ Browser!Dropped(q)
  BY <1>4, ServeRefreshTyped, ServeLogoutTyped, ServeLoginTyped, DroppedTyped
<1>5. CASE \E q \in net : Browser!LoggedIn(q) \/ Browser!LoggedOut(q) \/ Browser!Refreshed(q)
                          \/ Browser!Rejected(q) \/ Browser!Lose(q)
  BY <1>5, LoggedInTyped, LoggedOutTyped, RefreshedTyped, RejectedTyped, LoseTyped
<1> QED BY <1>1, <1>2, <1>3, <1>4, <1>5 DEF Browser!Next, Browser!Step

LEMMA BrowserHolds == Browser!BrowserAssumption => (Browser!Spec => []BrowserInv)
<1>1. ASSUME Browser!BrowserAssumption
      PROVE  Browser!Spec => []BrowserInv
  <2>1. Browser!Init => BrowserInv
    BY <1>1, BrowserInit
  <2>2. BrowserInv /\ [Browser!Next]_Browser!vars => BrowserInv'
    BY BrowserStep
  <2> QED BY <2>1, <2>2, PTL DEF Browser!Spec
<1> QED BY <1>1

\* The browser's tabs, requests and stores keep their types, and what a tab waits for is still
\* under way, whatever overlaps and is lost.
THEOREM TabTypes == Browser!BrowserAssumption => (Browser!Spec => []Browser!TypeOK)
<1>1. ASSUME Browser!BrowserAssumption
      PROVE  Browser!Spec => []Browser!TypeOK
  <2>1. Browser!Behind \subseteq Browser!Sid
    BY <1>1 DEF Browser!Behind, Browser!Sid, Browser!BrowserAssumption
  <2>2. Browser!Init => BrowserInv /\ behind \subseteq Browser!Sid
    BY <1>1, BrowserInit DEF Browser!Init
  <2>3. BrowserInv /\ behind \subseteq Browser!Sid /\ [Browser!Next]_Browser!vars
          => BrowserInv' /\ (behind \subseteq Browser!Sid)'
    BY <2>1, BrowserStep DEF Browser!Next, Browser!vars, Browser!Sid
  <2>4. BrowserInv /\ behind \subseteq Browser!Sid => Browser!TypeOK
    BY BrowserIs
  <2> QED BY <2>2, <2>3, <2>4, PTL DEF Browser!Spec
<1> QED BY <1>1

---------------------------------------------------------------------------
\* Sign-ins and sign-outs that do not overlap with anything else.

\* At most one refresh of a tab will be heard, and none when its answer is being used.
Single(n, ts) ==
  \A q \in n : q.kind = "refresh" /\ q.kept =>
    /\ ts[q.tab].waits # "me"
    /\ \A r \in n : r.kind = "refresh" /\ r.kept /\ r.tab = q.tab => r = q

Placed(row) ==
  /\ row.ui = "out" => row.waits \in {"none", "login"}
  /\ row.ui = "boot" => row.waits \in {"boot", "me"}
  /\ row.waits = "boot" => row.ui = "boot"

\* A sign-in or sign-out is the only request under way.
SignsAlone(n, ts, user, w) ==
  \A q \in n : q.kind # "refresh" =>
    /\ n = {q}
    /\ q.kind = "logout" => ~user /\ \A t \in Windows : ts[t].waits = "none"
    /\ q.kind = "login" => w /\ \A t \in Windows : ts[t].waits \in {"none", "login"}

\* After a sign-out no page starts, or none gets anywhere.
Shut(ts, tomb) == tomb /\ \A t \in Windows : ts[t].ui # "boot"
Gone(n, ts, c, user) ==
  /\ c.sid = 0 /\ ~user
  /\ \A t \in Windows : ts[t].waits # "me" /\ (ts[t].ui = "boot" => ~ts[t].user)
  /\ \A q \in n : q.kind = "refresh" => q.cookie.sid = 0 /\ q.step # "ok"

Turns(n, ts, c, tomb, user, w) ==
  /\ Single(n, ts) /\ \A t \in Windows : Placed(ts[t])
  /\ SignsAlone(n, ts, user, w)
  /\ w \/ Shut(ts, tomb) \/ Gone(n, ts, c, user)

TurnInv == Turns(net, tabs, cookie, store.tomb, store.user, wants)

LEMMA TurnIs ==
  ASSUME TurnInv
  PROVE  /\ Single(net, tabs) /\ \A t \in Windows : Placed(tabs[t])
         /\ SignsAlone(net, tabs, store.user, wants)
         /\ wants \/ Shut(tabs, store.tomb) \/ Gone(net, tabs, cookie, store.user)
BY DEF TurnInv, Turns

LEMMA TurnNext ==
  ASSUME Single(net', tabs'), \A t \in Windows : Placed(tabs'[t]),
         SignsAlone(net', tabs', store'.user, wants'),
         wants' \/ Shut(tabs', store'.tomb) \/ Gone(net', tabs', cookie', store'.user)
  PROVE  TurnInv'
BY DEF TurnInv, Turns, Single, Placed, SignsAlone, Shut, Gone

\* Requests that are refreshes only leave no sign-in or sign-out.
LEMMA NoSigns ==
  ASSUME NEW n, NEW ts, NEW user, NEW w, \A q \in n : q.kind = "refresh"
  PROVE  SignsAlone(n, ts, user, w)
BY DEF SignsAlone

LEMMA RefreshesOnly ==
  ASSUME NEW n, NEW ts, NEW user, NEW w, SignsAlone(n, ts, user, w), NEW q \in n,
         q.kind = "refresh"
  PROVE  \A r \in n : r.kind = "refresh"
BY DEF SignsAlone

LEMMA QuietTurn ==
  ASSUME ~Overlap, Browser!MaySign
  PROVE  net = {} /\ \A t \in Windows : tabs[t].waits = "none"
BY DEF Browser!MaySign, Browser!Quiet

LEMMA RefreshTurn ==
  ASSUME BrowserInv, ~Overlap, Browser!MayRefresh
  PROVE  \A q \in net : q.kind = "refresh"
BY DEF Browser!MayRefresh, Browser!OnItsWay, BrowserInv, BrowserTyped, Browser!Message

LEMMA OneTab ==
  ASSUME BrowserInv, NEW t \in Windows
  PROVE  /\ tabs \in [Windows -> Browser!TabState] /\ tabs[t] \in Browser!TabState
         /\ store \in StoreRow
BY DEF BrowserInv, BrowserTyped

LEMMA TurnInit ==
  ASSUME Browser!Init
  PROVE  TurnInv
<1>1. \A t \in Windows : tabs[t] = Browser!SignedOut
  BY DEF Browser!Init
<1>2. net = {} /\ cookie.sid = 0 /\ store.user = FALSE
  BY DEF Browser!Init, Browser!NoCookie
<1> QED BY <1>1, <1>2 DEF TurnInv, Turns, Single, Placed, SignsAlone, Gone, Browser!SignedOut

LEMMA LoginTurn ==
  ASSUME BrowserInv, TurnInv, ~Overlap, NEW t \in Windows, Browser!Login(t)
  PROVE  TurnInv'
<1>1. net = {} /\ \A u \in Windows : tabs[u].waits = "none"
  BY QuietTurn DEF Browser!Login
<1>2. PICK m : m = Sent(t, "login", cookie)
  OBVIOUS
<1>3. net' = {m} /\ m.kind = "login"
  BY <1>1, <1>2 DEF Browser!Login, Browser!Sends, Sent
<1>4. wants' /\ tabs[t].ui = "out"
  BY DEF Browser!Login
<1>5. /\ tabs'[t].ui = "out" /\ tabs'[t].waits = "login"
      /\ \A u \in Windows : u # t => tabs'[u] = tabs[u]
  BY <1>4, OneTab DEF Browser!Login, Browser!TabState
<1>6. Single(net', tabs')
  BY <1>3 DEF Single
<1>7. \A u \in Windows : Placed(tabs'[u])
  BY <1>5, TurnIs DEF Placed
<1>8. SignsAlone(net', tabs', store'.user, wants')
  BY <1>1, <1>3, <1>4, <1>5 DEF SignsAlone
<1> QED BY <1>4, <1>6, <1>7, <1>8, TurnNext

LEMMA LogoutTurn ==
  ASSUME BrowserInv, TurnInv, ~Overlap, NEW t \in Windows, Browser!Logout(t)
  PROVE  TurnInv'
<1>1. net = {} /\ \A u \in Windows : tabs[u].waits = "none"
  BY QuietTurn DEF Browser!Logout
<1>2. PICK m : m = Sent(t, "logout", cookie)
  OBVIOUS
<1>3. net' = {m} /\ m.kind = "logout"
  BY <1>1, <1>2 DEF Browser!Logout, Browser!Sends, Sent
<1>4. /\ tabs'[t].ui = "out" /\ tabs'[t].waits = "none"
      /\ \A u \in Windows : u # t => tabs'[u] = tabs[u]
  BY OneTab DEF Browser!Logout, Browser!Cleared, Browser!SignedOut
<1>5. store'.tomb = TRUE /\ store'.user = FALSE
  BY OneTab DEF Browser!Logout, Browser!Cleared, Browser!Forgotten, StoreRow
<1>6. Single(net', tabs')
  BY <1>3 DEF Single
<1>7. \A u \in Windows : Placed(tabs'[u])
  BY <1>4, TurnIs DEF Placed
<1>8. SignsAlone(net', tabs', store'.user, wants')
  BY <1>1, <1>3, <1>4, <1>5 DEF SignsAlone
<1>9. \A u \in Windows : tabs'[u].ui # "boot"
  BY <1>1, <1>4, TurnIs DEF Placed
<1>10. Shut(tabs', store'.tomb)
  BY <1>5, <1>9 DEF Shut
<1> QED BY <1>6, <1>7, <1>8, <1>10, TurnNext

LEMMA LoadTurn ==
  ASSUME BrowserInv, TurnInv, ~Overlap, NEW t \in Windows, Browser!Load(t)
  PROVE  TurnInv'
<1>1. /\ \A r \in Unheard(t, net) :
           \/ r \in net /\ r.tab # t
           \/ r.tab = t /\ ~r.kept /\ \E q \in net : q.tab = t /\ r = [q EXCEPT !.kept = FALSE]
      /\ net \subseteq Browser!Message
  BY Unhearing DEF BrowserInv, BrowserTyped
<1>2. UNCHANGED <<cookie, store, wants>>
  BY Loading
<1>3. \A r \in Unheard(t, net) : \E q \in net :
        r.kind = q.kind /\ r.cookie = q.cookie /\ r.step = q.step /\ r.tab = q.tab
  <2>1. \A q \in net : /\ [q EXCEPT !.kept = FALSE].kind = q.kind
                       /\ [q EXCEPT !.kept = FALSE].cookie = q.cookie
                       /\ [q EXCEPT !.kept = FALSE].step = q.step
                       /\ [q EXCEPT !.kept = FALSE].tab = q.tab
    BY <1>1 DEF Browser!Message
  <2>2. ASSUME NEW r \in Unheard(t, net), ~(r \in net)
        PROVE  \E q \in net : r.kind = q.kind /\ r.cookie = q.cookie /\ r.step = q.step
                              /\ r.tab = q.tab
    <3>1. PICK q \in net : r = [q EXCEPT !.kept = FALSE]
      BY <1>1, <2>2
    <3> QED BY <2>1, <3>1
  <2> QED BY <2>2
<1>4. CASE store.tomb /\ net' = Unheard(t, net)
           /\ tabs' = [tabs EXCEPT ![t] = Browser!SignedOut]
  <2>1. /\ tabs'[t].ui = "out" /\ tabs'[t].waits = "none"
        /\ \A u \in Windows : u # t => tabs'[u] = tabs[u]
    BY <1>4, OneTab DEF Browser!SignedOut
  <2>2. Single(net', tabs')
    <3>1. ASSUME NEW q \in net', q.kind = "refresh", q.kept
          PROVE  /\ q \in net /\ tabs'[q.tab].waits # "me"
                 /\ \A r \in net' : r.kind = "refresh" /\ r.kept /\ r.tab = q.tab => r = q
      <4>1. q \in net /\ q.tab # t /\ q.tab \in Windows
        BY <1>1, <1>4, <3>1, CookieOf
      <4>2. tabs'[q.tab] = tabs[q.tab]
        BY <2>1, <4>1
      <4>3. \A r \in net' : r.kept => r \in net
        BY <1>1, <1>4
      <4> QED BY <3>1, <4>1, <4>2, <4>3, TurnIs DEF Single
    <3> QED BY <3>1 DEF Single
  <2>3. \A u \in Windows : Placed(tabs'[u])
    BY <2>1, TurnIs DEF Placed
  <2>4. SignsAlone(net', tabs', store'.user, wants')
    <3>1. ASSUME NEW r \in net', r.kind # "refresh"
          PROVE  /\ net' = {r}
                 /\ r.kind = "logout" => ~store'.user /\ \A u \in Windows : tabs'[u].waits = "none"
                 /\ r.kind = "login" =>
                      wants' /\ \A u \in Windows : tabs'[u].waits \in {"none", "login"}
      <4>1. PICK q \in net : r.kind = q.kind
        BY <1>3, <1>4, <3>1
      <4>2. /\ net = {q}
            /\ (q.kind = "logout" => ~store.user /\ \A u \in Windows : tabs[u].waits = "none")
            /\ (q.kind = "login" => wants /\ \A u \in Windows : tabs[u].waits \in {"none", "login"})
        BY <3>1, <4>1, TurnIs DEF SignsAlone
      <4>3. net' = {IF q.tab = t THEN [q EXCEPT !.kept = FALSE] ELSE q}
        BY <1>4, <4>2 DEF Unheard
      <4>4. net' = {r}
        BY <3>1, <4>3
      <4> QED BY <1>2, <2>1, <4>1, <4>2, <4>4
    <3> QED BY <3>1 DEF SignsAlone
  <2>5. wants' \/ Shut(tabs', store'.tomb) \/ Gone(net', tabs', cookie', store'.user)
    <3>1. Shut(tabs, store.tomb) => Shut(tabs', store'.tomb)
      BY <1>2, <2>1 DEF Shut
    <3>2. Gone(net, tabs, cookie, store.user) => Gone(net', tabs', cookie', store'.user)
      BY <1>2, <1>3, <1>4, <2>1 DEF Gone
    <3> QED BY <1>2, <3>1, <3>2, TurnIs
  <2> QED BY <2>2, <2>3, <2>4, <2>5, TurnNext
<1>5. CASE /\ ~store.tomb /\ Browser!MayRefresh
           /\ net' = Unheard(t, net) \cup {Sent(t, "refresh", cookie)}
           /\ Boots(t)
  <2>1. /\ tabs'[t].ui = "boot" /\ tabs'[t].waits = "boot" /\ tabs'[t].user = store.user
        /\ \A u \in Windows : u # t => tabs'[u] = tabs[u]
    BY <1>5, OneTab DEF Boots
  <2>2. PICK m : m = Sent(t, "refresh", cookie)
    OBVIOUS
  <2>3. /\ m.tab = t /\ m.kind = "refresh" /\ m.cookie = cookie /\ m.step = "sent"
        /\ net' = Unheard(t, net) \cup {m}
    BY <1>5, <2>2 DEF Sent
  <2>4. Single(net', tabs')
    <3>1. \A r \in net' : r.kept => r = m \/ (r \in net /\ r.tab # t)
      BY <1>1, <2>3
    <3>2. ASSUME NEW q \in net', q.kind = "refresh", q.kept
          PROVE  /\ tabs'[q.tab].waits # "me"
                 /\ \A r \in net' : r.kind = "refresh" /\ r.kept /\ r.tab = q.tab => r = q
      <4>1. CASE q = m
        BY <2>1, <2>3, <3>1, <4>1
      <4>2. CASE q # m
        <5>1. q \in net /\ q.tab # t /\ q.tab \in Windows
          BY <3>1, <3>2, <4>2, CookieOf
        <5>2. tabs'[q.tab] = tabs[q.tab]
          BY <2>1, <5>1
        <5> QED BY <2>3, <3>1, <3>2, <5>1, <5>2, TurnIs DEF Single
      <4> QED BY <4>1, <4>2
    <3> QED BY <3>2 DEF Single
  <2>5. \A u \in Windows : Placed(tabs'[u])
    BY <2>1, TurnIs DEF Placed
  <2>6. \A r \in net' : r.kind = "refresh"
    BY <1>3, <1>5, <2>3, RefreshTurn
  <2>7. SignsAlone(net', tabs', store'.user, wants')
    BY <2>6, NoSigns
  <2>8. wants' \/ Gone(net', tabs', cookie', store'.user)
    <3>1. wants \/ Gone(net, tabs, cookie, store.user)
      BY <1>5, TurnIs DEF Shut
    <3>2. Gone(net, tabs, cookie, store.user) => Gone(net', tabs', cookie', store'.user)
      BY <1>2, <1>3, <2>1, <2>3 DEF Gone
    <3> QED BY <1>2, <3>1, <3>2
  <2> QED BY <2>4, <2>5, <2>7, <2>8, TurnNext
<1> QED BY <1>4, <1>5, Loading

LEMMA UnauthorizedTurn ==
  ASSUME BrowserInv, TurnInv, ~Overlap, NEW t \in Windows, Browser!Unauthorized(t)
  PROVE  TurnInv'
<1>1. \A q \in net : q.kind = "refresh"
  BY RefreshTurn DEF Browser!Unauthorized
<1>2. PICK m : m = Sent(t, "refresh", cookie)
  OBVIOUS
<1>3. /\ m.tab = t /\ m.kind = "refresh" /\ m.cookie = cookie /\ m.step = "sent"
      /\ net' = net \cup {m} /\ \A q \in net : q.tab # t
  BY <1>1, <1>2 DEF Browser!Unauthorized, Browser!Sends, Sent
<1>4. /\ tabs[t].ui \in {"in", "offline"} /\ tabs'[t].ui = tabs[t].ui /\ tabs'[t].waits = "call"
      /\ \A u \in Windows : u # t => tabs'[u] = tabs[u]
  BY OneTab DEF Browser!Unauthorized, Browser!Using, Browser!TabState
<1>5. UNCHANGED <<cookie, store, wants>>
  BY DEF Browser!Unauthorized
<1>6. Single(net', tabs')
  <2>1. ASSUME NEW q \in net', q.kind = "refresh", q.kept
        PROVE  /\ tabs'[q.tab].waits # "me"
               /\ \A r \in net' : r.kind = "refresh" /\ r.kept /\ r.tab = q.tab => r = q
    <3>1. CASE q = m
      BY <1>3, <1>4, <3>1
    <3>2. CASE q # m
      <4>1. q \in net /\ q.tab # t /\ q.tab \in Windows
        BY <1>3, <2>1, <3>2, CookieOf
      <4>2. tabs'[q.tab] = tabs[q.tab]
        BY <1>4, <4>1
      <4> QED BY <1>3, <2>1, <4>1, <4>2, TurnIs DEF Single
    <3> QED BY <3>1, <3>2
  <2> QED BY <2>1 DEF Single
<1>7. \A u \in Windows : Placed(tabs'[u])
  BY <1>4, TurnIs DEF Placed
<1>8. SignsAlone(net', tabs', store'.user, wants')
  BY <1>1, <1>3, NoSigns
<1>9. wants' \/ Shut(tabs', store'.tomb) \/ Gone(net', tabs', cookie', store'.user)
  <2>1. Shut(tabs, store.tomb) => Shut(tabs', store'.tomb)
    BY <1>4, <1>5 DEF Shut
  <2>2. Gone(net, tabs, cookie, store.user) => Gone(net', tabs', cookie', store'.user)
    BY <1>3, <1>4, <1>5 DEF Gone
  <2> QED BY <1>5, <2>1, <2>2, TurnIs
<1> QED BY <1>6, <1>7, <1>8, <1>9, TurnNext

LEMMA ChangeTurn ==
  ASSUME BrowserInv, TurnInv, NEW t \in Windows, Browser!ChangeArticle(t)
  PROVE  TurnInv'
<1>1. /\ UNCHANGED <<net, tabs, cookie, wants>> /\ store'.tomb = store.tomb
      /\ store'.user = store.user
  BY OneTab DEF Browser!ChangeArticle, StoreRow
<1> QED BY <1>1 DEF TurnInv, Turns, Single, Placed, SignsAlone, Shut, Gone

LEMMA HearTurn ==
  ASSUME BrowserInv, TurnInv, NEW t \in Windows, Browser!HearSignOut(t)
  PROVE  TurnInv'
<1>1. CASE UNCHANGED <<net, tabs, store, cookie, wants>>
  BY <1>1 DEF TurnInv, Turns, Single, Placed, SignsAlone, Shut, Gone
<1>2. CASE Browser!Using(t)
  <2>1. /\ UNCHANGED <<net, cookie, wants>> /\ store'.tomb = TRUE /\ store'.user = FALSE
        /\ tabs'[t].ui = "out" /\ tabs'[t].waits = "none"
        /\ \A u \in Windows : u # t => tabs'[u] = tabs[u]
    BY <1>2, OneTab, Rows DEF Browser!HearSignOut, Browser!Cleared, Browser!Forgotten, StoreRow,
                              BrowserInv
  <2>2. Single(net', tabs')
    <3>1. \A q \in net : tabs[q.tab].waits # "me" => tabs'[q.tab].waits # "me"
      BY <2>1, CookieOf
    <3> QED BY <2>1, <3>1, TurnIs DEF Single
  <2>3. \A u \in Windows : Placed(tabs'[u])
    BY <2>1, TurnIs DEF Placed
  <2>4. SignsAlone(net', tabs', store'.user, wants')
    BY <2>1, TurnIs DEF SignsAlone
  <2>5. wants' \/ Shut(tabs', store'.tomb) \/ Gone(net', tabs', cookie', store'.user)
    <3>1. Shut(tabs, store.tomb) => Shut(tabs', store'.tomb)
      BY <2>1 DEF Shut
    <3>2. Gone(net, tabs, cookie, store.user) => Gone(net', tabs', cookie', store'.user)
      BY <2>1 DEF Gone
    <3> QED BY <2>1, <3>1, <3>2, TurnIs
  <2> QED BY <2>2, <2>3, <2>4, <2>5, TurnNext
<1>3. Browser!Using(t) \/ UNCHANGED <<net, tabs, store, cookie, wants>>
  BY DEF Browser!HearSignOut
<1> QED BY <1>1, <1>2, <1>3

\* An answer is the request again, from the same tab.
LEMMA AnswerTurn ==
  ASSUME BrowserInv, TurnInv, NEW q \in net, NEW m, net' = (net \ {q}) \cup {m},
         m.tab = q.tab, m.kind = q.kind, m.kept = q.kept,
         UNCHANGED <<cookie, store, tabs, wants>>,
         m.kind = "refresh" /\ q.cookie.sid = 0 => m.cookie.sid = 0 /\ m.step # "ok"
  PROVE  TurnInv'
<1>1. Single(net', tabs)
  <2>1. ASSUME NEW r \in net', r.kind = "refresh", r.kept
        PROVE  /\ tabs[r.tab].waits # "me"
               /\ \A p \in net' : p.kind = "refresh" /\ p.kept /\ p.tab = r.tab => p = r
    <3>1. CASE r = m
      BY <2>1, <3>1, TurnIs DEF Single
    <3>2. CASE r \in net /\ r # q
      BY <2>1, <3>2, TurnIs DEF Single
    <3> QED BY <3>1, <3>2
  <2> QED BY <2>1 DEF Single
<1>2. SignsAlone(net', tabs, store.user, wants)
  <2>1. ASSUME NEW r \in net', r.kind # "refresh"
        PROVE  net = {q} /\ net' = {m} /\ r = m /\ q.kind # "refresh"
    <3>1. CASE r = m
      BY <2>1, <3>1, TurnIs DEF SignsAlone
    <3>2. CASE r \in net /\ r # q
      BY <2>1, <3>2, TurnIs DEF SignsAlone
    <3> QED BY <3>1, <3>2
  <2> QED BY <2>1, TurnIs DEF SignsAlone
<1>3. wants \/ Shut(tabs, store.tomb) \/ Gone(net', tabs, cookie, store.user)
  BY TurnIs DEF Gone
<1> QED BY <1>1, <1>2, <1>3, TurnIs, TurnNext

LEMMA ServerTurn ==
  ASSUME BrowserInv, TurnInv, NEW q \in net,
         Browser!ServeRefresh(q) \/ Browser!ServeLogout(q) \/ Browser!ServeLogin(q)
  PROVE  TurnInv'
<1>1. ASSUME NEW st, NEW c, Browser!Answered(q, st, c), UNCHANGED <<cookie, store, tabs, wants>>,
             q.kind = "refresh" /\ q.cookie.sid = 0 => c.sid = 0 /\ st # "ok"
      PROVE  TurnInv'
  <2>1. PICK m : m = [q EXCEPT !.step = st, !.cookie = c]
    OBVIOUS
  <2>2. m.tab = q.tab /\ m.kind = q.kind /\ m.kept = q.kept /\ m.step = st /\ m.cookie = c
    BY <2>1, CookieOf DEF Browser!Message
  <2>3. net' = (net \ {q}) \cup {m}
    BY <1>1, <2>1 DEF Browser!Answered
  <2> QED BY <1>1, <2>2, <2>3, AnswerTurn
<1>2. CASE Browser!ServeRefresh(q)
  <2>1. CASE Browser!Answered(q, "rejected", q.cookie)
    BY <1>1, <1>2, <2>1, ServedRefresh
  <2>2. CASE /\ Browser!Current(q.cookie)
             /\ Browser!Answered(q, "ok", [q.cookie EXCEPT !.token = @ + 1])
    <3>1. q.cookie.sid # 0
      BY <2>2, CookieOf
    <3> QED BY <1>1, <1>2, <2>2, <3>1, ServedRefresh
  <2> QED BY <1>2, <2>1, <2>2, ServedRefresh
<1>3. CASE Browser!ServeLogout(q)
  BY <1>1, <1>3 DEF Browser!ServeLogout
<1>4. CASE Browser!ServeLogin(q)
  BY <1>1, <1>4 DEF Browser!ServeLogin
<1> QED BY <1>2, <1>3, <1>4

LEMMA RevokedTurn ==
  ASSUME BrowserInv, TurnInv, NEW s \in 1..MaxLogins, Browser!RevokedElsewhere(s)
  PROVE  TurnInv'
<1>1. UNCHANGED <<net, tabs, cookie, store, wants>>
  BY DEF Browser!RevokedElsewhere
<1> QED BY <1>1 DEF TurnInv, Turns, Single, Placed, SignsAlone, Shut, Gone

\* A message that leaves takes the only sign-in or sign-out with it, and the refresh of its tab.
LEMMA LeavesTurn ==
  ASSUME BrowserInv, TurnInv, NEW q \in net, net' = net \ {q}, NEW t \in Windows, t = q.tab,
         NEW ts, \A u \in Windows : u # t => ts[u] = tabs[u],
         ts[t].waits # "me" \/ (q.kept /\ q.kind = "refresh") \/ ts[t] = tabs[t]
  PROVE  /\ Single(net', ts)
         /\ \A ss, user, w : SignsAlone(net', ss, user, w)
<1>1. Single(net', ts)
  <2>1. ASSUME NEW r \in net', r.kind = "refresh", r.kept
        PROVE  /\ ts[r.tab].waits # "me"
               /\ \A p \in net' : p.kind = "refresh" /\ p.kept /\ p.tab = r.tab => p = r
    <3>1. r \in net /\ r # q /\ r.tab \in Windows
      BY <2>1, CookieOf
    <3>2. \A p \in net : p.kind = "refresh" /\ p.kept /\ p.tab = r.tab => p = r
      BY <2>1, <3>1, TurnIs DEF Single
    <3>3. tabs[r.tab].waits # "me"
      BY <2>1, <3>1, TurnIs DEF Single
    <3>4. ts[r.tab].waits # "me"
      BY <3>1, <3>2, <3>3
    <3> QED BY <3>2, <3>4
  <2> QED BY <2>1 DEF Single
<1>2. \A r \in net' : r.kind = "refresh"
  BY TurnIs DEF SignsAlone
<1> QED BY <1>1, <1>2, NoSigns

LEMMA DroppedTurn ==
  ASSUME BrowserInv, TurnInv, NEW q \in net, Browser!Dropped(q)
  PROVE  TurnInv'
<1>1. net' = net \ {q} /\ UNCHANGED <<cookie, store, tabs, wants>> /\ q.tab \in Windows
  BY CookieOf DEF Browser!Dropped, Browser!Arrives
<1>2. Single(net', tabs) /\ SignsAlone(net', tabs, store.user, wants)
  BY <1>1, LeavesTurn
<1>3. Gone(net, tabs, cookie, store.user) => Gone(net', tabs, cookie, store.user)
  BY <1>1 DEF Gone
<1> QED BY <1>1, <1>2, <1>3, TurnIs, TurnNext

LEMMA LoggedInTurn ==
  ASSUME BrowserInv, TurnInv, NEW q \in net, Browser!LoggedIn(q)
  PROVE  TurnInv' /\ wants'
<1>1. /\ net' = net \ {q} /\ q.kind = "login" /\ q.tab \in Windows /\ wants' = wants
  BY CookieOf DEF Browser!LoggedIn, Browser!Arrives
<1>2. wants
  BY <1>1, TurnIs DEF SignsAlone
<1>3. /\ tabs'[q.tab].ui = "in" /\ tabs'[q.tab].waits = "none"
      /\ \A u \in Windows : u # q.tab => tabs'[u] = tabs[u]
  BY <1>1, OneTab DEF Browser!LoggedIn
<1>4. Single(net', tabs') /\ SignsAlone(net', tabs', store'.user, wants')
  BY <1>1, <1>3, LeavesTurn
<1>5. \A u \in Windows : Placed(tabs'[u])
  BY <1>3, TurnIs DEF Placed
<1> QED BY <1>1, <1>2, <1>4, <1>5, TurnNext

LEMMA LoggedOutTurn ==
  ASSUME BrowserInv, TurnInv, NEW q \in net, Browser!LoggedOut(q)
  PROVE  TurnInv'
<1>1. /\ net' = net \ {q} /\ q.kind = "logout" /\ cookie'.sid = 0
      /\ UNCHANGED <<tabs, wants>> /\ store'.user = store.user /\ q.tab \in Windows
  BY CookieOf, OneTab DEF Browser!LoggedOut, Browser!Arrives, Browser!NoCookie, StoreRow
<1>2. net = {q} /\ ~store.user /\ \A t \in Windows : tabs[t].waits = "none"
  BY <1>1, TurnIs DEF SignsAlone
<1>3. Gone(net', tabs', cookie', store'.user)
  BY <1>1, <1>2, TurnIs DEF Gone, Placed
<1>4. Single(net', tabs) /\ SignsAlone(net', tabs, store'.user, wants)
  BY <1>1, LeavesTurn
<1> QED BY <1>1, <1>3, <1>4, TurnIs, TurnNext

LEMMA RefreshedTurn ==
  ASSUME BrowserInv, TurnInv, NEW q \in net, Browser!Refreshed(q)
  PROVE  TurnInv'
<1>1. /\ net' = net \ {q} /\ q.kind = "refresh" /\ q.kept /\ q.step = "ok" /\ q.tab \in Windows
      /\ UNCHANGED <<store, wants>>
  BY CookieOf DEF Browser!Refreshed, Browser!Arrives
<1>2. PICK w : w = IF tabs[q.tab].waits \in {"boot", "call"} THEN "me" ELSE tabs[q.tab].waits
  OBVIOUS
<1>3. /\ tabs'[q.tab].ui = tabs[q.tab].ui /\ tabs'[q.tab].waits = w
      /\ \A u \in Windows : u # q.tab => tabs'[u] = tabs[u]
  BY <1>1, <1>2, OneTab DEF Browser!Refreshed, Browser!TabState
<1>4. Single(net', tabs') /\ SignsAlone(net', tabs', store'.user, wants')
  BY <1>1, <1>3, LeavesTurn
<1>5. Placed(tabs'[q.tab])
  BY <1>1, <1>2, <1>3, TurnIs DEF Placed
<1>6. \A u \in Windows : Placed(tabs'[u])
  BY <1>3, <1>5, TurnIs
<1>7. wants \/ Shut(tabs, store.tomb)
  BY <1>1, TurnIs DEF Gone
<1>8. Shut(tabs, store.tomb) => Shut(tabs', store'.tomb)
  BY <1>1, <1>3 DEF Shut
<1> QED BY <1>1, <1>4, <1>6, <1>7, <1>8, TurnNext

LEMMA RejectedTurn ==
  ASSUME BrowserInv, TurnInv, NEW q \in net, Browser!Rejected(q)
  PROVE  TurnInv'
<1>1. /\ net' = net \ {q} /\ q.kind = "refresh" /\ q.kept /\ q.tab \in Windows
      /\ cookie'.sid = 0 /\ UNCHANGED wants
  BY CookieOf DEF Browser!Rejected, Browser!Arrives, Browser!NoCookie
<1>2. /\ store'.tomb = store.tomb /\ (~store.user => ~store'.user)
      /\ \/ tabs'[q.tab].ui = "out" /\ tabs'[q.tab].waits = "none"
         \/ /\ tabs'[q.tab].ui = tabs[q.tab].ui /\ tabs'[q.tab].waits = tabs[q.tab].waits
            /\ tabs'[q.tab].user = tabs[q.tab].user
      /\ \A u \in Windows : u # q.tab => tabs'[u] = tabs[u]
  <2>1. CASE tabs[q.tab].waits \in {"boot", "call"}
    <3>1. Browser!Cleared(q.tab, Browser!Forgotten(q.tab))
      BY <2>1 DEF Browser!Rejected
    <3> QED BY <1>1, <3>1, OneTab
            DEF Browser!Cleared, Browser!SignedOut, Browser!Forgotten, StoreRow
  <2>2. CASE tabs[q.tab].waits \notin {"boot", "call"}
    <3>1. tabs' = [tabs EXCEPT ![q.tab].access = 0] /\ store' = store
      BY <2>2 DEF Browser!Rejected
    <3> QED BY <1>1, <3>1, OneTab DEF Browser!TabState
  <2> QED BY <2>1, <2>2
<1>3. Single(net', tabs') /\ SignsAlone(net', tabs', store'.user, wants')
  BY <1>1, <1>2, LeavesTurn
<1>4. \A u \in Windows : Placed(tabs'[u])
  BY <1>1, <1>2, TurnIs DEF Placed
<1>5. Shut(tabs, store.tomb) => Shut(tabs', store'.tomb)
  <2>1. \A u \in Windows : tabs[u].ui # "boot" => tabs'[u].ui # "boot"
    BY <1>1, <1>2
  <2> QED BY <1>2, <2>1 DEF Shut
<1>6. Gone(net, tabs, cookie, store.user) => Gone(net', tabs', cookie', store'.user)
  <2>1. \A u \in Windows : /\ tabs[u].waits # "me" => tabs'[u].waits # "me"
                           /\ tabs'[u].ui = "boot" =>
                                tabs[u].ui = "boot" /\ tabs'[u].user = tabs[u].user
    BY <1>1, <1>2
  <2> QED BY <1>1, <1>2, <2>1 DEF Gone
<1> QED BY <1>1, <1>3, <1>4, <1>5, <1>6, TurnIs, TurnNext

LEMMA MeTurn ==
  ASSUME BrowserInv, TurnInv, NEW t \in Windows, Browser!Me(t)
  PROVE  /\ TurnInv' /\ \A u \in Windows : u # t => tabs'[u] = tabs[u]
         /\ tabs[t].ui \in {"boot", "out"} => wants' \/ tabs'[t].ui = "out"
<1>1. tabs[t].waits = "me" /\ UNCHANGED <<net, cookie, wants>>
  BY DEF Browser!Me
<1>2. /\ store'.tomb = store.tomb /\ tabs'[t].ui \in {"in", "out"} /\ tabs'[t].waits = "none"
      /\ \A u \in Windows : u # t => tabs'[u] = tabs[u]
  <2>1. CASE /\ tabs' = [tabs EXCEPT ![t].ui = "in", ![t].waits = "none", ![t].user = TRUE]
             /\ store' = [store EXCEPT !.user = @ \/ tabs[t].ui # "in"]
    BY <2>1, OneTab DEF Browser!TabState, StoreRow
  <2>2. CASE Browser!Cleared(t, Browser!Forgotten(t))
    BY <2>2, OneTab DEF Browser!Cleared, Browser!SignedOut, Browser!Forgotten, StoreRow
  <2> QED BY <2>1, <2>2 DEF Browser!Me
<1>3. Single(net', tabs')
  <2>1. \A q \in net : tabs[q.tab].waits # "me" => tabs'[q.tab].waits # "me"
    BY <1>2, CookieOf
  <2> QED BY <1>1, <2>1, TurnIs DEF Single
<1>4. \A u \in Windows : Placed(tabs'[u])
  BY <1>2, TurnIs DEF Placed
<1>5. \A q \in net : q.kind = "refresh"
  <2>1. ASSUME NEW q \in net, q.kind # "refresh"
        PROVE  FALSE
    <3>1. q.kind \in {"logout", "login"}
      BY <2>1, CookieOf DEF Browser!Message
    <3>2. \A u \in Windows : tabs[u].waits \in {"none", "login"}
      BY <3>1, TurnIs DEF SignsAlone
    <3> QED BY <1>1, <3>2
  <2> QED BY <2>1
<1>6. SignsAlone(net', tabs', store'.user, wants')
  BY <1>1, <1>5, NoSigns
<1>7. wants \/ Shut(tabs, store.tomb)
  BY <1>1, TurnIs DEF Gone
<1>8. Shut(tabs, store.tomb) => Shut(tabs', store'.tomb)
  BY <1>2 DEF Shut
<1>9. tabs[t].ui \in {"boot", "out"} => wants
  BY <1>1, <1>7, TurnIs DEF Shut, Placed
<1> QED BY <1>1, <1>2, <1>3, <1>4, <1>6, <1>7, <1>8, <1>9, TurnNext

LEMMA LoseTurn ==
  ASSUME BrowserInv, TurnInv, NEW q \in net, Browser!Lose(q)
  PROVE  /\ TurnInv'
         /\ \A u \in Windows : tabs[u].ui \in {"boot", "out"} =>
              tabs'[u].ui \in {"boot", "out"} \/ wants'
<1>1. net' = net \ {q} /\ UNCHANGED <<cookie, wants>> /\ q.tab \in Windows
  BY CookieOf DEF Browser!Lose
<1>2. CASE UNCHANGED <<tabs, store>>
  <2>1. Single(net', tabs) /\ SignsAlone(net', tabs, store.user, wants)
    BY <1>1, LeavesTurn
  <2>2. Gone(net, tabs, cookie, store.user) => Gone(net', tabs, cookie, store.user)
    BY <1>1 DEF Gone
  <2> QED BY <1>1, <1>2, <2>1, <2>2, TurnIs, TurnNext
<1>3. CASE q.kept /\ q.kind # "logout"
  <2> DEFINE t == q.tab
  <2>1. /\ store'.tomb = store.tomb /\ (~store.user => ~store'.user)
        /\ \A u \in Windows : u # t => tabs'[u] = tabs[u]
        /\ tabs'[t].waits = "none"
        /\ \/ tabs[t].ui = "boot" /\ tabs[t].user /\ tabs'[t].ui = "offline"
           \/ tabs'[t].ui = "out"
           \/ /\ tabs[t].waits # "boot" /\ tabs'[t].ui = tabs[t].ui
              /\ tabs'[t].user = tabs[t].user
    <3>1. Browser!Unavailable(t)
      BY <1>3 DEF Browser!Lose
    <3>2. CASE /\ tabs[t].waits = "boot" /\ tabs[t].user /\ store' = store
               /\ tabs' = [tabs EXCEPT ![t].ui = "offline", ![t].waits = "none"]
      BY <1>1, <3>2, OneTab, TurnIs DEF Browser!TabState, Placed
    <3>3. CASE Browser!Cleared(t, Browser!Forgotten(t))
      BY <1>1, <3>3, OneTab DEF Browser!Cleared, Browser!SignedOut, Browser!Forgotten, StoreRow
    <3>4. CASE /\ tabs[t].waits # "boot" /\ store' = store
               /\ tabs' = [tabs EXCEPT ![t].waits = "none"]
      BY <1>1, <3>4, OneTab DEF Browser!TabState
    <3> QED BY <1>1, <3>1, <3>2, <3>3, <3>4, Failing
  <2>2. Single(net', tabs') /\ SignsAlone(net', tabs', store'.user, wants')
    BY <1>1, <2>1, LeavesTurn
  <2>3. tabs[t].waits # "me"
    <3>1. CASE q.kind = "refresh"
      BY <1>3, <3>1, TurnIs DEF Single
    <3>2. CASE q.kind = "login"
      BY <1>1, <3>2, TurnIs DEF SignsAlone
    <3> QED BY <1>3, <3>1, <3>2, CookieOf DEF Browser!Message
  <2>4. Placed(tabs'[t])
    BY <1>1, <2>1, <2>3, TurnIs DEF Placed
  <2>5. \A u \in Windows : Placed(tabs'[u])
    BY <2>1, <2>4, TurnIs
  <2>6. Shut(tabs, store.tomb) => Shut(tabs', store'.tomb)
    <3>1. \A u \in Windows : tabs[u].ui # "boot" => tabs'[u].ui # "boot"
      BY <1>1, <2>1
    <3> QED BY <2>1, <3>1 DEF Shut
  <2>7. Gone(net, tabs, cookie, store.user) => Gone(net', tabs', cookie', store'.user)
    <3>1. \A u \in Windows : /\ tabs[u].waits # "me" => tabs'[u].waits # "me"
                             /\ tabs'[u].ui = "boot" =>
                                  tabs[u].ui = "boot" /\ tabs'[u].user = tabs[u].user
      BY <1>1, <2>1
    <3> QED BY <1>1, <2>1, <3>1 DEF Gone
  <2>8. tabs[t].ui = "boot" /\ tabs[t].user => wants
    BY <1>1, TurnIs DEF Shut, Gone
  <2>9. \A u \in Windows : tabs[u].ui \in {"boot", "out"} =>
          tabs'[u].ui \in {"boot", "out"} \/ wants'
    BY <1>1, <2>1, <2>8
  <2> QED BY <1>1, <2>2, <2>5, <2>6, <2>7, <2>9, TurnIs, TurnNext
<1> QED BY <1>2, <1>3 DEF Browser!Lose

LEMMA TurnStep ==
  ASSUME BrowserInv, TurnInv, ~Overlap, [Browser!Next]_Browser!vars
  PROVE  TurnInv'
<1>1. CASE UNCHANGED Browser!vars
  BY <1>1 DEF Browser!vars, TurnInv, Turns, Single, Placed, SignsAlone, Shut, Gone
<1>2. CASE \E t \in Windows : \/ Browser!Login(t) \/ Browser!Load(t) \/ Browser!Unauthorized(t)
                              \/ Browser!ChangeArticle(t) \/ Browser!Logout(t)
                              \/ Browser!HearSignOut(t) \/ Browser!Me(t)
  BY <1>2, LoginTurn, LoadTurn, UnauthorizedTurn, ChangeTurn, LogoutTurn, HearTurn, MeTurn
<1>3. CASE \E s \in 1..MaxLogins : Browser!RevokedElsewhere(s)
  BY <1>3, RevokedTurn
<1>4. CASE \E q \in net : Browser!ServeRefresh(q) \/ Browser!ServeLogout(q) \/ Browser!ServeLogin(q)
                          \/ Browser!Dropped(q)
  BY <1>4, ServerTurn, DroppedTurn
<1>5. CASE \E q \in net : Browser!LoggedIn(q) \/ Browser!LoggedOut(q) \/ Browser!Refreshed(q)
                          \/ Browser!Rejected(q) \/ Browser!Lose(q)
  BY <1>5, LoggedInTurn, LoggedOutTurn, RefreshedTurn, RejectedTurn, LoseTurn
<1> QED BY <1>1, <1>2, <1>3, <1>4, <1>5 DEF Browser!Next, Browser!Step

LEMMA SticksStep ==
  ASSUME BrowserInv, TurnInv, ~Overlap, [Browser!Next]_Browser!vars
  PROVE  Browser!SignOutSticks \/ UNCHANGED Browser!vars
<1>1. ASSUME NEW u \in Windows, tabs[u].ui \in {"boot", "out"}, Browser!Next
      PROVE  tabs'[u].ui \in {"boot", "out"} \/ wants'
  <2>1. CASE \E t \in Windows : Browser!Login(t) \/ Browser!Unauthorized(t)
    BY <1>1, <2>1, OneTab DEF Browser!Login, Browser!Unauthorized, Browser!TabState
  <2>2. CASE \E t \in Windows : Browser!Load(t)
    BY <1>1, <2>2, Loading, OneTab DEF Boots, Browser!SignedOut
  <2>3. CASE \E t \in Windows : Browser!Logout(t) \/ Browser!HearSignOut(t)
    BY <1>1, <2>3, OneTab DEF Browser!Logout, Browser!HearSignOut, Browser!Cleared,
                              Browser!SignedOut
  <2>4. CASE \E t \in Windows : Browser!ChangeArticle(t)
    BY <1>1, <2>4 DEF Browser!ChangeArticle
  <2>5. CASE \E t \in Windows : Browser!Me(t)
    <3>1. PICK t \in Windows : Browser!Me(t)
      BY <2>5
    <3> QED BY <1>1, <3>1, MeTurn
  <2>6. CASE \E s \in 1..MaxLogins : Browser!RevokedElsewhere(s)
    BY <1>1, <2>6 DEF Browser!RevokedElsewhere
  <2>7. CASE \E q \in net : Browser!ServeRefresh(q) \/ Browser!ServeLogout(q)
                            \/ Browser!ServeLogin(q) \/ Browser!Dropped(q) \/ Browser!LoggedOut(q)
    <3>1. UNCHANGED tabs
      BY <2>7 DEF Browser!ServeRefresh, Browser!ServeLogout, Browser!ServeLogin, Browser!Dropped,
                  Browser!LoggedOut
    <3> QED BY <1>1, <3>1
  <2>8. CASE \E q \in net : Browser!LoggedIn(q)
    BY <2>8, LoggedInTurn
  <2>9. CASE \E q \in net : Browser!Refreshed(q)
    BY <1>1, <2>9, OneTab DEF Browser!Refreshed, Browser!TabState
  <2>10. CASE \E q \in net : Browser!Rejected(q)
    BY <1>1, <2>10, OneTab DEF Browser!Rejected, Browser!Cleared, Browser!SignedOut,
                               Browser!TabState
  <2>11. CASE \E q \in net : Browser!Lose(q)
    BY <1>1, <2>11, LoseTurn
  <2> QED BY <1>1, <2>1, <2>2, <2>3, <2>4, <2>5, <2>6, <2>7, <2>8, <2>9, <2>10, <2>11
             DEF Browser!Next, Browser!Step
<1>2. ASSUME Browser!Next
      PROVE  Browser!SignOutSticks
  <2>1. ASSUME NEW u \in Windows, ~Browser!Using(u), Browser!Using(u)'
        PROVE  wants'
    <3>1. tabs[u].ui \in {"boot", "out"}
      BY <2>1, OneTab DEF Browser!Using, Browser!TabState
    <3>2. tabs'[u].ui \in {"in", "offline"}
      BY <2>1 DEF Browser!Using
    <3> QED BY <1>1, <1>2, <3>1, <3>2
  <2> QED BY <2>1 DEF Browser!SignOutSticks
<1> QED BY <1>2

\* After a sign-out no tab comes back signed in until the user signs in, not by a reload, another
\* tab, or an answer on its way, whatever the network loses: as long as sign-ins and sign-outs do
\* not overlap with other requests.
THEOREM SignOutsLast ==
  Browser!BrowserAssumption /\ ~Overlap =>
    (Browser!Spec => [][Browser!SignOutSticks]_(Browser!vars))
<1>1. ASSUME Browser!BrowserAssumption, ~Overlap
      PROVE  Browser!Spec => [][Browser!SignOutSticks]_(Browser!vars)
  <2>1. Browser!Init => TurnInv
    BY TurnInit
  <2>2. BrowserInv /\ TurnInv /\ [Browser!Next]_Browser!vars => TurnInv'
    BY <1>1, TurnStep
  <2>3. BrowserInv /\ TurnInv /\ [Browser!Next]_Browser!vars
          => [Browser!SignOutSticks]_(Browser!vars)
    BY <1>1, SticksStep
  <2>4. Browser!Spec => []BrowserInv
    BY <1>1, BrowserHolds
  <2> QED BY <2>1, <2>2, <2>3, <2>4, PTL DEF Browser!Spec
<1> QED BY <1>1

---------------------------------------------------------------------------
\* When, besides, no answer is lost once the server has given it: the tokens of a session.

Alive(sv, s) == s # 0 /\ sv[s] # 0

\* A cookie is of a session that was opened, and of no token yet to come.
KnownTo(sv, lg, c) == c.sid <= lg /\ (Alive(sv, c.sid) => c.token <= sv[c.sid])

TokensKnown(sv, n, c, lg) ==
  /\ \A s \in 1..MaxLogins : s > lg => sv[s] = 0
  /\ KnownTo(sv, lg, c) /\ \A q \in n : KnownTo(sv, lg, q.cookie)

Issued(q) == q.kind # "logout" /\ q.step = "ok"

\* A token on its way to the browser is the current one, and no other request carries it.
NewestIssued(sv, n, c) ==
  \A q \in n : Issued(q) /\ Alive(sv, q.cookie.sid) =>
    /\ q.cookie.token = sv[q.cookie.sid] /\ c # q.cookie
    /\ \A r \in n : r # q => r.cookie # q.cookie

\* The browser has the current token of its session, or it is on its way.
Followed(sv, n, c) ==
  Alive(sv, c.sid) =>
    \/ sv[c.sid] = c.token
    \/ \E q \in n : q.kind = "refresh" /\ q.step = "ok" /\ q.cookie.sid = c.sid

\* Every answer to a refresh will be heard; a sign-in is not refused.
HeardAll(n) ==
  \A q \in n : (q.kind = "refresh" => q.kept) /\ (q.kind = "login" => q.step # "rejected")

\* A sign-out ends the session the browser was in, and the tombstone stays until it has.
LeftEnds(sv, n, l, w, tomb) ==
  /\ \A q \in n : q.kind = "logout" =>
       IF q.step = "sent" THEN l = q.cookie.sid /\ (Alive(sv, l) => sv[l] = q.cookie.token)
       ELSE ~Alive(sv, l)
  /\ w \/ tomb \/ ~Alive(sv, l)

Leaves(sv, n, c, lg, l, w, tomb) ==
  /\ TokensKnown(sv, n, c, lg) /\ NewestIssued(sv, n, c) /\ Followed(sv, n, c) /\ HeardAll(n)
  /\ LeftEnds(sv, n, l, w, tomb)

LeaveInv == Leaves(server, net, cookie, logins, left, wants, store.tomb)

LEMMA LeaveIs ==
  ASSUME LeaveInv
  PROVE  /\ TokensKnown(server, net, cookie, logins) /\ NewestIssued(server, net, cookie)
         /\ Followed(server, net, cookie) /\ HeardAll(net)
         /\ LeftEnds(server, net, left, wants, store.tomb)
BY DEF LeaveInv, Leaves

LEMMA LeaveNext ==
  ASSUME TokensKnown(server', net', cookie', logins'), NewestIssued(server', net', cookie'),
         Followed(server', net', cookie'), HeardAll(net'),
         LeftEnds(server', net', left', wants', store'.tomb)
  PROVE  LeaveInv'
<1>1. Leaves(server', net', cookie', logins', left', wants', store'.tomb)
  BY DEF Leaves
<1>2. LeaveInv' <=> Leaves(server', net', cookie', logins', left', wants', store'.tomb)
  BY DEF LeaveInv, Leaves, TokensKnown, NewestIssued, Followed, HeardAll, LeftEnds, KnownTo, Alive
<1> QED BY <1>1, <1>2

\* The numbers of the sessions.
LEMMA SessionIds ==
  ASSUME BrowserInv
  PROVE  /\ MaxLogins \in Nat /\ logins \in 0..MaxLogins /\ cookie.sid \in 0..MaxLogins
         /\ cookie.token \in 0..MaxRefresh /\ cookie \in Browser!Cookie
         /\ server \in [1..MaxLogins -> 0..MaxRefresh]
         /\ MaxRefresh \in Nat /\ left \in 0..MaxLogins
BY Rows DEF BrowserInv, BrowserTyped, Browser!Sid, Browser!Cookie

LEMMA LeaveInit ==
  ASSUME Browser!BrowserAssumption, Browser!Init
  PROVE  LeaveInv
<1>1. /\ net = {} /\ cookie.sid = 0 /\ logins = 0 /\ left = 0
      /\ server = [s \in 1..MaxLogins |-> 0]
  BY DEF Browser!Init, Browser!NoCookie
<1> QED BY <1>1, Rows DEF LeaveInv, Leaves, TokensKnown, NewestIssued, Followed, HeardAll, LeftEnds,
                          KnownTo, Alive

\* A request sent by a browser that has no sign-in or sign-out under way.
LEMMA AskLeaves ==
  ASSUME BrowserInv, LeaveInv, NEW m, net' = net \cup {m}, m.kind \in {"refresh", "login"}, m.kept,
         m.cookie = cookie, m.step = "sent", UNCHANGED <<server, cookie, logins, left>>,
         store'.tomb = store.tomb, ~wants' => ~wants
  PROVE  LeaveInv'
<1>1. TokensKnown(server, net', cookie, logins)
  BY LeaveIs DEF TokensKnown
<1>2. NewestIssued(server, net', cookie)
  BY LeaveIs DEF NewestIssued, Issued
<1>3. Followed(server, net', cookie)
  BY LeaveIs DEF Followed
<1>4. HeardAll(net')
  BY LeaveIs DEF HeardAll
<1>5. LeftEnds(server, net', left, wants', store.tomb)
  BY LeaveIs DEF LeftEnds
<1> QED BY <1>1, <1>2, <1>3, <1>4, <1>5, LeaveNext

LEMMA LoginLeaves ==
  ASSUME BrowserInv, LeaveInv, NEW t \in Windows, Browser!Login(t)
  PROVE  LeaveInv'
<1>1. PICK m : m = Sent(t, "login", cookie)
  OBVIOUS
<1>2. /\ m.kind = "login" /\ m.cookie = cookie /\ m.step = "sent" /\ m.kept
      /\ net' = net \cup {m}
  BY <1>1 DEF Browser!Login, Browser!Sends, Sent
<1>3. UNCHANGED <<server, cookie, logins, left, store>> /\ wants'
  BY DEF Browser!Login
<1> QED BY <1>2, <1>3, AskLeaves

LEMMA UnauthorizedLeaves ==
  ASSUME BrowserInv, LeaveInv, NEW t \in Windows, Browser!Unauthorized(t)
  PROVE  LeaveInv'
<1>1. PICK m : m = Sent(t, "refresh", cookie)
  OBVIOUS
<1>2. /\ m.kind = "refresh" /\ m.cookie = cookie /\ m.step = "sent" /\ m.kept
      /\ net' = net \cup {m}
  BY <1>1 DEF Browser!Unauthorized, Browser!Sends, Sent
<1>3. UNCHANGED <<server, cookie, logins, left, store, wants>>
  BY DEF Browser!Unauthorized
<1> QED BY <1>2, <1>3, AskLeaves

LEMMA LogoutLeaves ==
  ASSUME BrowserInv, LeaveInv, ~Overlap, NEW t \in Windows, Browser!Logout(t)
  PROVE  LeaveInv'
<1>1. PICK m : m = Sent(t, "logout", cookie)
  OBVIOUS
<1>2. /\ m.kind = "logout" /\ m.cookie = cookie /\ m.step = "sent"
      /\ net = {} /\ net' = {m}
  BY <1>1, QuietTurn DEF Browser!Logout, Browser!Sends, Sent
<1>3. UNCHANGED <<server, cookie, logins>> /\ left' = cookie.sid
  BY DEF Browser!Logout
<1>4. store'.tomb = TRUE
  BY OneTab DEF Browser!Logout, Browser!Cleared, Browser!Forgotten, StoreRow
<1>5. TokensKnown(server, net', cookie, logins)
  BY <1>2, LeaveIs DEF TokensKnown
<1>6. NewestIssued(server, net', cookie) /\ HeardAll(net')
  BY <1>2 DEF NewestIssued, Issued, HeardAll
<1>7. Alive(server, cookie.sid) => server[cookie.sid] = cookie.token
  BY <1>2, LeaveIs DEF Followed
<1>8. Followed(server, net', cookie)
  BY <1>7 DEF Followed
<1>9. LeftEnds(server, net', cookie.sid, wants', TRUE)
  BY <1>2, <1>7 DEF LeftEnds
<1> QED BY <1>3, <1>4, <1>5, <1>6, <1>8, <1>9, LeaveNext

\* A step in which the browser changes neither its requests nor its cookie.
LEMMA StillLeaves ==
  ASSUME LeaveInv, UNCHANGED <<server, cookie, net, logins, left, wants>>,
         store'.tomb = store.tomb \/ store'.tomb
  PROVE  LeaveInv'
<1>1. LeftEnds(server, net, left, wants, store'.tomb)
  BY LeaveIs DEF LeftEnds
<1> QED BY <1>1, LeaveIs, LeaveNext

LEMMA InsideLeaves ==
  ASSUME BrowserInv, LeaveInv, NEW t \in Windows,
         Browser!ChangeArticle(t) \/ Browser!HearSignOut(t) \/ Browser!Me(t)
  PROVE  LeaveInv'
<1>1. CASE Browser!ChangeArticle(t)
  BY <1>1, StillLeaves, OneTab DEF Browser!ChangeArticle, StoreRow
<1>2. CASE Browser!HearSignOut(t)
  BY <1>2, StillLeaves, OneTab DEF Browser!HearSignOut, Browser!Cleared, Browser!Forgotten, StoreRow
<1>3. CASE Browser!Me(t)
  <2>1. store'.tomb = store.tomb
    BY <1>3, OneTab DEF Browser!Me, Browser!Cleared, Browser!Forgotten, StoreRow
  <2> QED BY <1>3, <2>1, StillLeaves DEF Browser!Me
<1> QED BY <1>1, <1>2, <1>3

LEMMA CookieEq ==
  ASSUME NEW a \in Browser!Cookie, NEW b \in Browser!Cookie, a.sid = b.sid, a.token = b.token
  PROVE  a = b
BY DEF Browser!Cookie

\* A sign-in or sign-out takes another form, or its answer the place of a request.
LEMMA MaskLeaves ==
  ASSUME BrowserInv, LeaveInv, NEW q, net = {q}, NEW m, net' = {m}, q.kind # "refresh",
         m.kind = q.kind, m.cookie = q.cookie, m.step = q.step,
         UNCHANGED <<server, cookie, store, logins, left, wants>>
  PROVE  LeaveInv'
<1>1. TokensKnown(server, net', cookie, logins)
  BY LeaveIs DEF TokensKnown
<1>2. NewestIssued(server, net', cookie) /\ HeardAll(net')
  BY LeaveIs DEF NewestIssued, Issued, HeardAll
<1>3. Followed(server, net', cookie)
  BY LeaveIs DEF Followed
<1>4. LeftEnds(server, net', left, wants, store.tomb)
  BY LeaveIs DEF LeftEnds
<1> QED BY <1>1, <1>2, <1>3, <1>4, LeaveNext

LEMMA LoadLeaves ==
  ASSUME BrowserInv, TurnInv, LeaveInv, ~Overlap, "answer" \notin Lossy,
         NEW t \in Windows, Browser!Load(t)
  PROVE  LeaveInv'
<1>1. UNCHANGED <<server, cookie, store, logins, left, wants>>
  BY Loading
<1>2. \A q \in net : q.kind = "refresh" => q.tab # t
  BY Loading, LeaveIs DEF HeardAll
<1>3. CASE \A q \in net : q.kind = "refresh"
  <2>1. Unheard(t, net) = net
    BY <1>2, <1>3 DEF Unheard
  <2>2. CASE net' = Unheard(t, net)
    BY <1>1, <2>1, <2>2, StillLeaves
  <2>3. CASE net' = Unheard(t, net) \cup {Sent(t, "refresh", cookie)}
    <3>1. PICK m : m = Sent(t, "refresh", cookie)
      OBVIOUS
    <3>2. /\ m.kind = "refresh" /\ m.cookie = cookie /\ m.step = "sent" /\ m.kept
          /\ net' = net \cup {m}
      BY <2>1, <2>3, <3>1 DEF Sent
    <3> QED BY <1>1, <3>2, AskLeaves
  <2> QED BY <2>2, <2>3, Loading
<1>4. CASE \E q \in net : q.kind # "refresh"
  <2>1. PICK q \in net : q.kind # "refresh"
    BY <1>4
  <2>2. net = {q} /\ q \in Browser!Message
    BY <2>1, CookieOf, TurnIs DEF SignsAlone
  <2>3. net' = Unheard(t, net)
    BY <2>1, Loading, RefreshTurn
  <2>4. PICK m : m = IF q.tab = t THEN [q EXCEPT !.kept = FALSE] ELSE q
    OBVIOUS
  <2>5. m.kind = q.kind /\ m.cookie = q.cookie /\ m.step = q.step
    BY <2>2, <2>4 DEF Browser!Message
  <2>6. net' = {m}
    BY <2>2, <2>3, <2>4 DEF Unheard
  <2> QED BY <1>1, <2>1, <2>2, <2>5, <2>6, MaskLeaves
<1> QED BY <1>3, <1>4

LEMMA RefusedLeaves ==
  ASSUME BrowserInv, TurnInv, LeaveInv, NEW q \in net, q.kind = "refresh", q.step = "sent", NEW m,
         net' = (net \ {q}) \cup {m}, m.kind = q.kind, m.kept = q.kept, m.step = "rejected",
         m.cookie = q.cookie, UNCHANGED <<server, cookie, store, logins, left, wants>>
  PROVE  LeaveInv'
<1>1. TokensKnown(server, net', cookie, logins)
  BY LeaveIs DEF TokensKnown
<1>2. NewestIssued(server, net', cookie) /\ HeardAll(net')
  BY LeaveIs DEF NewestIssued, Issued, HeardAll
<1>3. Followed(server, net', cookie)
  BY LeaveIs DEF Followed
<1>4. LeftEnds(server, net', left, wants, store.tomb)
  BY LeaveIs DEF LeftEnds
<1> QED BY <1>1, <1>2, <1>3, <1>4, LeaveNext

LEMMA RotatedLeaves ==
  ASSUME BrowserInv, TurnInv, LeaveInv, NEW q \in net, q.kind = "refresh", q.step = "sent", NEW m,
         net' = (net \ {q}) \cup {m}, m.kind = q.kind, m.kept = q.kept, m.step = "ok",
         Browser!Current(q.cookie), q.cookie.token < MaxRefresh,
         server' = [server EXCEPT ![q.cookie.sid] = @ + 1],
         m.cookie.sid = q.cookie.sid, m.cookie.token = q.cookie.token + 1,
         UNCHANGED <<cookie, store, logins, left, wants>>
  PROVE  LeaveInv'
<1> DEFINE s == q.cookie.sid
<1>1. /\ s \in 1..MaxLogins /\ server[s] = q.cookie.token /\ server[s] # 0 /\ server[s] \in Nat
      /\ q.cookie \in Browser!Cookie
  <2>1. /\ s \in 1..MaxLogins /\ server[s] = q.cookie.token /\ q.cookie.token # 0
        /\ q.cookie \in Browser!Cookie /\ q.cookie.token \in 0..MaxRefresh
    BY CookieOf
  <2> QED BY <2>1, SessionIds
<1>2. server'[s] = server[s] + 1 /\ \A u \in 1..MaxLogins : u # s => server'[u] = server[u]
  BY <1>1, SessionIds
<1>3. \A u \in 0..MaxLogins : Alive(server', u) <=> Alive(server, u)
  BY <1>1, <1>2, SessionIds DEF Alive
<1>4. ASSUME NEW c, c.sid \in 0..MaxLogins, c.token \in 0..MaxRefresh, KnownTo(server, logins, c)
      PROVE  KnownTo(server', logins, c) /\ (c.sid = s => c.token < server'[s])
  <2>1. c.sid <= logins /\ (Alive(server, c.sid) => c.token <= server[c.sid])
    BY <1>4 DEF KnownTo
  <2>2. Alive(server, s)
    BY <1>1 DEF Alive
  <2>3. CASE c.sid = s
    BY <1>1, <1>2, <1>4, <2>1, <2>2, <2>3 DEF KnownTo
  <2>4. CASE c.sid # s /\ c.sid # 0
    <3>1. server'[c.sid] = server[c.sid]
      BY <1>2, <1>4, <2>4, SessionIds
    <3> QED BY <2>1, <2>4, <3>1 DEF KnownTo, Alive
  <2>5. CASE c.sid # s /\ c.sid = 0
    BY <2>1, <2>5 DEF KnownTo, Alive
  <2> QED BY <2>3, <2>4, <2>5
<1>5. ASSUME NEW r \in net
      PROVE  KnownTo(server', logins, r.cookie) /\ (r.cookie.sid = s => r.cookie.token < server'[s])
  BY <1>4, CookieOf, LeaveIs DEF TokensKnown
<1>6. KnownTo(server', logins, cookie) /\ (cookie.sid = s => cookie.token < server'[s])
  BY <1>4, SessionIds, LeaveIs DEF TokensKnown
<1>7. KnownTo(server', logins, m.cookie) /\ m.cookie.token = server'[s]
  <2>1. s <= logins
    BY <1>5 DEF KnownTo
  <2> QED BY <1>1, <1>2, <2>1 DEF KnownTo
<1>8. TokensKnown(server', net', cookie, logins)
  <2>1. \A u \in 1..MaxLogins : u > logins => server'[u] = 0
    <3>1. s <= logins
      BY <1>5 DEF KnownTo
    <3> QED BY <1>1, <1>2, <3>1, SessionIds, LeaveIs DEF TokensKnown
  <2> QED BY <1>5, <1>6, <1>7, <2>1 DEF TokensKnown
<1>9. NewestIssued(server', net', cookie)
  <2>1. ASSUME NEW r \in net', Issued(r), Alive(server', r.cookie.sid)
        PROVE  /\ r.cookie.token = server'[r.cookie.sid] /\ cookie # r.cookie
               /\ \A p \in net' : p # r => p.cookie # r.cookie
    <3>1. CASE r = m
      <4>1. \A p \in net : p.cookie # m.cookie
        BY <1>1, <1>5, <1>7, <1>2
      <4>2. server'[s] \in Nat
        BY <1>1, <1>2
      <4>3. cookie # m.cookie
        BY <1>6, <1>7, <4>2, SessionIds
      <4> QED BY <1>7, <3>1, <4>1, <4>3
    <3>2. CASE r # m
      <4>1. r \in net /\ r # q
        BY <3>2
      <4>2. r.cookie.sid \in 0..MaxLogins /\ Alive(server, r.cookie.sid)
        BY <1>3, <2>1, <4>1, CookieOf
      <4>3. /\ r.cookie.token = server[r.cookie.sid] /\ cookie # r.cookie
            /\ \A p \in net : p # r => p.cookie # r.cookie
        BY <2>1, <4>1, <4>2, LeaveIs DEF NewestIssued
      <4>4. r.cookie.sid # s
        <5>1. q.cookie # r.cookie
          BY <4>1, <4>3
        <5>2. q.cookie.sid # r.cookie.sid \/ q.cookie.token # r.cookie.token
          BY <4>1, <5>1, CookieOf, CookieEq
        <5> QED BY <1>1, <4>3, <5>2
      <4>5. server'[r.cookie.sid] = server[r.cookie.sid]
        BY <1>2, <4>2, <4>4 DEF Alive
      <4> QED BY <4>3, <4>4, <4>5
    <3> QED BY <3>1, <3>2
  <2> QED BY <2>1 DEF NewestIssued
<1>10. Followed(server', net', cookie)
  <2>1. ASSUME Alive(server', cookie.sid)
        PROVE  \/ server'[cookie.sid] = cookie.token
               \/ \E r \in net' : r.kind = "refresh" /\ r.step = "ok" /\ r.cookie.sid = cookie.sid
    <3>1. CASE cookie.sid = s
      BY <3>1
    <3>2. CASE cookie.sid # s
      <4>1. Alive(server, cookie.sid) /\ server'[cookie.sid] = server[cookie.sid]
        BY <1>2, <1>3, <2>1, <3>2, SessionIds DEF Alive
      <4> QED BY <4>1, LeaveIs DEF Followed
    <3> QED BY <3>1, <3>2
  <2> QED BY <2>1 DEF Followed
<1>11. HeardAll(net')
  BY LeaveIs DEF HeardAll
<1>12. LeftEnds(server', net', left, wants, store.tomb)
  <2>1. \A r \in net : r.kind = "refresh"
    BY RefreshesOnly, TurnIs
  <2>2. Alive(server', left) <=> Alive(server, left)
    BY <1>3, SessionIds
  <2> QED BY <2>1, <2>2, LeaveIs DEF LeftEnds
<1> QED BY <1>8, <1>9, <1>10, <1>11, <1>12, LeaveNext

LEMMA ServeRefreshLeaves ==
  ASSUME BrowserInv, TurnInv, LeaveInv, NEW q \in net, Browser!ServeRefresh(q)
  PROVE  LeaveInv'
<1>1. /\ q.kind = "refresh" /\ q.step = "sent" /\ q \in Browser!Message
      /\ UNCHANGED <<cookie, store, logins, left, wants>>
  BY ServedRefresh, CookieOf
<1>2. CASE UNCHANGED server /\ Browser!Answered(q, "rejected", q.cookie)
  <2>1. PICK m : m = [q EXCEPT !.step = "rejected", !.cookie = q.cookie]
    OBVIOUS
  <2>2. m.kind = q.kind /\ m.kept = q.kept /\ m.step = "rejected" /\ m.cookie = q.cookie
    BY <1>1, <2>1 DEF Browser!Message
  <2>3. net' = (net \ {q}) \cup {m}
    BY <1>2, <2>1 DEF Browser!Answered
  <2> QED BY <1>1, <1>2, <2>2, <2>3, RefusedLeaves
<1>3. CASE /\ Browser!Current(q.cookie) /\ q.cookie.token < MaxRefresh
           /\ server' = [server EXCEPT ![q.cookie.sid] = @ + 1]
           /\ Browser!Answered(q, "ok", [q.cookie EXCEPT !.token = @ + 1])
  <2>1. PICK c : c = [q.cookie EXCEPT !.token = @ + 1]
    OBVIOUS
  <2>2. c.sid = q.cookie.sid /\ c.token = q.cookie.token + 1
    BY <2>1, CookieOf DEF Browser!Cookie
  <2>3. PICK m : m = [q EXCEPT !.step = "ok", !.cookie = c]
    OBVIOUS
  <2>4. m.kind = q.kind /\ m.kept = q.kept /\ m.step = "ok" /\ m.cookie = c
    BY <1>1, <2>3 DEF Browser!Message
  <2>5. net' = (net \ {q}) \cup {m}
    BY <1>3, <2>1, <2>3 DEF Browser!Answered
  <2> QED BY <1>1, <1>3, <2>2, <2>4, <2>5, RotatedLeaves
<1> QED BY <1>2, <1>3, ServedRefresh

\* A session that ends.
LEMMA EndsKnown ==
  ASSUME BrowserInv, NEW s \in 1..MaxLogins, NEW sv, sv = [server EXCEPT ![s] = 0], NEW c,
         c.sid \in 0..MaxLogins, KnownTo(server, logins, c)
  PROVE  /\ KnownTo(sv, logins, c)
         /\ Alive(sv, c.sid) => Alive(server, c.sid) /\ sv[c.sid] = server[c.sid]
<1>1. sv[s] = 0 /\ \A u \in 1..MaxLogins : u # s => sv[u] = server[u]
  BY SessionIds
<1>2. Alive(sv, c.sid) => Alive(server, c.sid) /\ sv[c.sid] = server[c.sid]
  BY <1>1, SessionIds DEF Alive
<1> QED BY <1>2 DEF KnownTo

LEMMA RevokedLeaves ==
  ASSUME BrowserInv, LeaveInv, NEW s \in 1..MaxLogins, server' = [server EXCEPT ![s] = 0],
         UNCHANGED <<cookie, store, net, logins, left, wants>>
  PROVE  LeaveInv'
<1>1. server'[s] = 0 /\ \A u \in 1..MaxLogins : u # s => server'[u] = server[u]
  BY SessionIds
<1>2. \A u \in 0..MaxLogins : Alive(server', u) => Alive(server, u) /\ server'[u] = server[u]
  BY <1>1, SessionIds DEF Alive
<1>3. KnownTo(server', logins, cookie)
  BY SessionIds, LeaveIs, EndsKnown DEF TokensKnown
<1>4. \A q \in net : KnownTo(server', logins, q.cookie)
  BY CookieOf, LeaveIs, EndsKnown DEF TokensKnown
<1>5. TokensKnown(server', net, cookie, logins)
  BY <1>1, <1>3, <1>4, LeaveIs DEF TokensKnown
<1>6. NewestIssued(server', net, cookie)
  <2>1. ASSUME NEW q \in net, Issued(q), Alive(server', q.cookie.sid)
        PROVE  /\ q.cookie.token = server'[q.cookie.sid] /\ cookie # q.cookie
               /\ \A r \in net : r # q => r.cookie # q.cookie
    <3>1. Alive(server, q.cookie.sid) /\ server'[q.cookie.sid] = server[q.cookie.sid]
      BY <1>2, <2>1, CookieOf
    <3> QED BY <2>1, <3>1, LeaveIs DEF NewestIssued
  <2> QED BY <2>1 DEF NewestIssued
<1>7. Followed(server', net, cookie)
  BY <1>2, SessionIds, LeaveIs DEF Followed
<1>8. LeftEnds(server', net, left, wants, store.tomb)
  BY <1>2, SessionIds, LeaveIs DEF LeftEnds
<1> QED BY <1>5, <1>6, <1>7, <1>8, LeaveIs, LeaveNext

LEMMA ServeLogoutLeaves ==
  ASSUME BrowserInv, TurnInv, LeaveInv, NEW q \in net, Browser!ServeLogout(q)
  PROVE  LeaveInv'
<1>1. PICK m : m = [q EXCEPT !.step = "ok", !.cookie = Browser!NoCookie]
  OBVIOUS
<1>2. /\ q.kind = "logout" /\ q.step = "sent" /\ q \in Browser!Message /\ net = {q}
      /\ UNCHANGED <<cookie, store, logins, left, wants>>
  BY CookieOf, TurnIs DEF Browser!ServeLogout, SignsAlone
<1>3. m.kind = "logout" /\ m.step = "ok" /\ m.cookie = Browser!NoCookie
  BY <1>1, <1>2 DEF Browser!Message
<1>4. net' = {m}
  BY <1>1, <1>2 DEF Browser!ServeLogout, Browser!Answered
<1>5. server' = IF Browser!Current(q.cookie) THEN [server EXCEPT ![q.cookie.sid] = 0] ELSE server
  BY DEF Browser!ServeLogout, Browser!SignsOut
<1>6. left = q.cookie.sid /\ (Alive(server, left) => server[left] = q.cookie.token)
  BY <1>2, LeaveIs DEF LeftEnds
<1>7. \A u \in 0..MaxLogins : Alive(server', u) => Alive(server, u) /\ server'[u] = server[u]
  <2>1. CASE Browser!Current(q.cookie)
    BY <1>5, <2>1, CookieOf, SessionIds DEF Alive
  <2>2. CASE ~Browser!Current(q.cookie)
    BY <1>5, <2>2
  <2> QED BY <2>1, <2>2
<1>8. ~Alive(server', left)
  <2>1. CASE Browser!Current(q.cookie)
    BY <1>5, <1>6, <2>1, CookieOf, SessionIds DEF Alive
  <2>2. CASE ~Browser!Current(q.cookie)
    BY <1>5, <1>6, <2>2 DEF Browser!Current, Browser!Live, Alive
  <2> QED BY <2>1, <2>2
<1>9. \A u \in 1..MaxLogins : u > logins => server'[u] = 0
  <2>1. \A u \in 1..MaxLogins : u > logins => server[u] = 0
    BY LeaveIs DEF TokensKnown
  <2> QED BY <1>5, <2>1, SessionIds
<1>10. KnownTo(server', logins, cookie)
  <2>1. KnownTo(server, logins, cookie)
    BY LeaveIs DEF TokensKnown
  <2> QED BY <1>7, <2>1, SessionIds DEF KnownTo
<1>11. KnownTo(server', logins, m.cookie)
  BY <1>3, SessionIds DEF KnownTo, Browser!NoCookie, Alive
<1>12. TokensKnown(server', net', cookie, logins)
  BY <1>4, <1>9, <1>10, <1>11 DEF TokensKnown
<1>13. NewestIssued(server', net', cookie) /\ HeardAll(net')
  BY <1>3, <1>4 DEF NewestIssued, Issued, HeardAll
<1>14. Followed(server', net', cookie)
  BY <1>2, <1>7, SessionIds, LeaveIs DEF Followed
<1>15. LeftEnds(server', net', left, wants, store.tomb)
  BY <1>3, <1>4, <1>8 DEF LeftEnds
<1> QED BY <1>2, <1>12, <1>13, <1>14, <1>15, LeaveNext

LEMMA ServeLoginLeaves ==
  ASSUME BrowserInv, TurnInv, LeaveInv, NEW q \in net, Browser!ServeLogin(q)
  PROVE  LeaveInv'
<1>1. PICK c : c = [sid |-> logins + 1, token |-> 1]
  OBVIOUS
<1>2. PICK m : m = [q EXCEPT !.step = "ok", !.cookie = c]
  OBVIOUS
<1>3. /\ q.kind = "login" /\ q \in Browser!Message /\ net = {q} /\ wants
      /\ logins < MaxLogins /\ logins' = logins + 1
      /\ UNCHANGED <<cookie, store, left, wants>>
  BY CookieOf, TurnIs DEF Browser!ServeLogin, SignsAlone
<1>4. m.kind = "login" /\ m.step = "ok" /\ m.cookie.sid = logins + 1 /\ m.cookie.token = 1
  BY <1>1, <1>2, <1>3 DEF Browser!Message
<1>5. net' = {m}
  BY <1>1, <1>2, <1>3 DEF Browser!ServeLogin, Browser!Answered
<1>6. /\ logins + 1 \in 1..MaxLogins /\ server'[logins + 1] = 1
      /\ \A u \in 1..MaxLogins : u # logins + 1 => server'[u] = server[u]
  BY <1>3, SessionIds DEF Browser!ServeLogin
<1>7. cookie.sid <= logins /\ (Alive(server, cookie.sid) => cookie.token <= server[cookie.sid])
  BY LeaveIs DEF TokensKnown, KnownTo
<1>8. cookie.sid # 0 => server'[cookie.sid] = server[cookie.sid]
  BY <1>6, <1>7, SessionIds
<1>9. TokensKnown(server', net', cookie, logins')
  <2>1. \A u \in 1..MaxLogins : u > logins + 1 => server'[u] = 0
    <3>1. \A u \in 1..MaxLogins : u > logins => server[u] = 0
      BY LeaveIs DEF TokensKnown
    <3> QED BY <1>6, <3>1, SessionIds
  <2>2. KnownTo(server', logins + 1, cookie)
    BY <1>7, <1>8, SessionIds DEF KnownTo, Alive
  <2>3. KnownTo(server', logins + 1, m.cookie)
    BY <1>4, <1>6, SessionIds DEF KnownTo
  <2> QED BY <1>3, <1>5, <2>1, <2>2, <2>3 DEF TokensKnown
<1>10. NewestIssued(server', net', cookie)
  <2>1. cookie # m.cookie
    BY <1>4, <1>7, SessionIds
  <2> QED BY <1>4, <1>5, <1>6, <2>1 DEF NewestIssued
<1>11. Followed(server', net', cookie)
  <2>1. \A r \in net : r.kind # "refresh"
    BY <1>3
  <2> QED BY <1>8, <2>1, LeaveIs DEF Followed, Alive
<1>12. HeardAll(net') /\ LeftEnds(server', net', left, wants, store.tomb)
  BY <1>3, <1>4, <1>5 DEF HeardAll, LeftEnds
<1> QED BY <1>3, <1>9, <1>10, <1>11, <1>12, LeaveNext

\* A message is gone that brought no token.
LEMMA TakenLeaves ==
  ASSUME BrowserInv, LeaveInv, NEW q \in net, net' = net \ {q},
         ~(q.kind = "refresh" /\ q.step = "ok"), UNCHANGED <<server, cookie, logins, left, wants>>,
         store'.tomb = store.tomb
  PROVE  LeaveInv'
<1>1. TokensKnown(server, net', cookie, logins)
  BY LeaveIs DEF TokensKnown
<1>2. NewestIssued(server, net', cookie) /\ HeardAll(net')
  BY LeaveIs DEF NewestIssued, HeardAll
<1>3. Followed(server, net', cookie)
  BY LeaveIs DEF Followed
<1>4. LeftEnds(server, net', left, wants, store.tomb)
  BY LeaveIs DEF LeftEnds
<1> QED BY <1>1, <1>2, <1>3, <1>4, LeaveNext

\* The browser takes a token that was issued.
LEMMA TokenLeaves ==
  ASSUME BrowserInv, LeaveInv, NEW q \in net, net' = net \ {q}, Issued(q), cookie' = q.cookie,
         UNCHANGED <<server, logins, left, wants>>, store'.tomb = store.tomb \/ wants
  PROVE  LeaveInv'
<1>1. TokensKnown(server, net', q.cookie, logins)
  BY LeaveIs DEF TokensKnown
<1>2. NewestIssued(server, net', q.cookie) /\ HeardAll(net')
  BY LeaveIs DEF NewestIssued, HeardAll
<1>3. Followed(server, net', q.cookie)
  BY LeaveIs DEF Followed, NewestIssued
<1>4. LeftEnds(server, net', left, wants, store'.tomb)
  BY LeaveIs DEF LeftEnds
<1> QED BY <1>1, <1>2, <1>3, <1>4, LeaveNext

\* The cookie is deleted.
LEMMA EmptyLeaves ==
  ASSUME BrowserInv, LeaveInv, NEW q \in net, net' = net \ {q}, cookie' = Browser!NoCookie,
         UNCHANGED <<server, logins, left, wants>>,
         store'.tomb = store.tomb \/ (q.kind = "logout" /\ q.step # "sent")
  PROVE  LeaveInv'
<1>1. PICK c : c = Browser!NoCookie
  OBVIOUS
<1>2. c.sid = 0 /\ cookie' = c
  BY <1>1 DEF Browser!NoCookie
<1>3. TokensKnown(server, net', c, logins)
  BY <1>2, SessionIds, LeaveIs DEF TokensKnown, KnownTo, Alive
<1>4. NewestIssued(server, net', c) /\ HeardAll(net')
  BY <1>2, LeaveIs DEF NewestIssued, HeardAll, Alive
<1>5. Followed(server, net', c)
  BY <1>2 DEF Followed, Alive
<1>6. LeftEnds(server, net', left, wants, store'.tomb)
  BY LeaveIs DEF LeftEnds
<1> QED BY <1>2, <1>3, <1>4, <1>5, <1>6, LeaveNext

LEMMA AnswerLeaves ==
  ASSUME BrowserInv, TurnInv, LeaveInv, NEW q \in net,
         \/ Browser!Dropped(q) \/ Browser!LoggedIn(q) \/ Browser!LoggedOut(q)
         \/ Browser!Refreshed(q) \/ Browser!Rejected(q)
  PROVE  LeaveInv'
<1>1. net' = net \ {q} /\ q.step # "sent" /\ UNCHANGED <<server, logins, left, wants>>
  BY DEF Browser!Dropped, Browser!LoggedIn, Browser!LoggedOut, Browser!Refreshed, Browser!Rejected,
         Browser!Arrives
<1>2. q \in Browser!Message
  BY CookieOf
<1>3. CASE Browser!Dropped(q)
  <2>1. ~q.kept /\ UNCHANGED <<cookie, store>>
    BY <1>3 DEF Browser!Dropped
  <2>2. q.kind # "refresh"
    BY <2>1, LeaveIs DEF HeardAll
  <2> QED BY <1>1, <2>1, <2>2, TakenLeaves
<1>4. CASE Browser!LoggedIn(q)
  <2>1. q.kind = "login" /\ cookie' = q.cookie /\ wants
    BY <1>4, TurnIs DEF Browser!LoggedIn, SignsAlone
  <2>2. Issued(q)
    BY <1>1, <1>2, <2>1, LeaveIs DEF HeardAll, Issued, Browser!Message
  <2> QED BY <1>1, <2>1, <2>2, TokenLeaves
<1>5. CASE Browser!LoggedOut(q)
  BY <1>1, <1>5, EmptyLeaves DEF Browser!LoggedOut
<1>6. CASE Browser!Refreshed(q)
  <2>1. Issued(q) /\ cookie' = q.cookie /\ UNCHANGED store
    BY <1>6 DEF Browser!Refreshed, Issued
  <2> QED BY <1>1, <2>1, TokenLeaves
<1>7. CASE Browser!Rejected(q)
  <2>1. cookie' = Browser!NoCookie /\ store'.tomb = store.tomb
    <3>1. store' = store \/ store' = Browser!Forgotten(q.tab)
      BY <1>7 DEF Browser!Rejected, Browser!Cleared
    <3>2. Browser!Forgotten(q.tab).tomb = store.tomb
      BY OneTab DEF Browser!Forgotten, StoreRow
    <3>3. cookie' = Browser!NoCookie
      BY <1>7 DEF Browser!Rejected
    <3> QED BY <3>1, <3>2, <3>3
  <2> QED BY <1>1, <2>1, EmptyLeaves
<1> QED BY <1>3, <1>4, <1>5, <1>6, <1>7

LEMMA LoseLeaves ==
  ASSUME BrowserInv, LeaveInv, "answer" \notin Lossy, NEW q \in net, Browser!Lose(q)
  PROVE  LeaveInv'
<1>1. net' = net \ {q} /\ q.step = "sent" /\ UNCHANGED <<server, cookie, logins, left, wants>>
  BY DEF Browser!Lose
<1>2. store'.tomb = store.tomb
  <2>1. CASE UNCHANGED <<tabs, store>>
    BY <2>1
  <2>2. CASE Browser!Unavailable(q.tab)
    BY <2>2, CookieOf, Failing, OneTab DEF Browser!Cleared, Browser!Forgotten, StoreRow
  <2> QED BY <2>1, <2>2 DEF Browser!Lose
<1> QED BY <1>1, <1>2, TakenLeaves

LEMMA LeaveStep ==
  ASSUME BrowserInv, TurnInv, LeaveInv, ~Overlap, "answer" \notin Lossy,
         [Browser!Next]_Browser!vars
  PROVE  LeaveInv'
<1>1. CASE UNCHANGED Browser!vars
  BY <1>1, StillLeaves DEF Browser!vars
<1>2. CASE \E t \in Windows : Browser!Login(t) \/ Browser!Load(t) \/ Browser!Unauthorized(t)
                              \/ Browser!Logout(t)
  BY <1>2, LoginLeaves, LoadLeaves, UnauthorizedLeaves, LogoutLeaves
<1>3. CASE \E t \in Windows : Browser!ChangeArticle(t) \/ Browser!HearSignOut(t) \/ Browser!Me(t)
  BY <1>3, InsideLeaves
<1>4. CASE \E s \in 1..MaxLogins : Browser!RevokedElsewhere(s)
  BY <1>4, RevokedLeaves DEF Browser!RevokedElsewhere
<1>5. CASE \E q \in net : Browser!ServeRefresh(q) \/ Browser!ServeLogout(q) \/ Browser!ServeLogin(q)
  BY <1>5, ServeRefreshLeaves, ServeLogoutLeaves, ServeLoginLeaves
<1>6. CASE \E q \in net : Browser!Dropped(q) \/ Browser!LoggedIn(q) \/ Browser!LoggedOut(q)
                          \/ Browser!Refreshed(q) \/ Browser!Rejected(q)
  BY <1>6, AnswerLeaves
<1>7. CASE \E q \in net : Browser!Lose(q)
  BY <1>7, LoseLeaves
<1> QED BY <1>1, <1>2, <1>3, <1>4, <1>5, <1>6, <1>7 DEF Browser!Next, Browser!Step

\* A sign-out that has been confirmed has ended the session of the browser on the server: as long
\* as sign-ins and sign-outs do not overlap with other requests and an answer that the server has
\* given reaches the browser.
THEOREM SignOutsRevoke ==
  Browser!BrowserAssumption /\ ~Overlap /\ "answer" \notin Lossy =>
    (Browser!Spec => []Browser!SignOutRevokes)
<1>1. ASSUME Browser!BrowserAssumption, ~Overlap, "answer" \notin Lossy
      PROVE  Browser!Spec => []Browser!SignOutRevokes
  <2>1. Browser!Init => TurnInv /\ LeaveInv
    BY <1>1, TurnInit, LeaveInit
  <2>2. BrowserInv /\ TurnInv /\ LeaveInv /\ [Browser!Next]_Browser!vars => TurnInv' /\ LeaveInv'
    BY <1>1, TurnStep, LeaveStep
  <2>3. LeaveInv => Browser!SignOutRevokes
    BY LeaveIs DEF LeftEnds, Alive, Browser!SignOutRevokes, Browser!Live
  <2>4. Browser!Spec => []BrowserInv
    BY <1>1, BrowserHolds
  <2> QED BY <2>1, <2>2, <2>3, <2>4, PTL DEF Browser!Spec
<1> QED BY <1>1
=============================================================================

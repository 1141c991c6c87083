---------------------------- MODULE ImportQuota ----------------------------
(***************************************************************************)
(* The limits on OPML imports: the fixed window of enforceRateLimit and    *)
(* the daily cap, a counter in Redis under the user and the UTC day, which *)
(* an import takes a slot of before it begins and gives back when it is    *)
(* refused or fails.                                                       *)
(*                                                                         *)
(* One user's imports at once, of one or more processes; each command to   *)
(* Redis is a step.  What an import does to feeds and categories is        *)
(* Categories'.                                                            *)
(***************************************************************************)
EXTENDS Integers, FiniteSets

CONSTANTS
  Calls,       \* imports that may be under way at once
  Limit,       \* OPML_IMPORT_DAILY_LIMIT
  WindowMax,   \* RATE_LIMITS.feedImport.maxRequests
  Days,        \* bound: days with imports
  MaxCalls,    \* bound: imports that are asked for
  MaxFails,    \* bound: imports that fail
  MaxFaults    \* bound: crashes of a process and failures of Redis

ImportQuotaAssumption ==
  /\ Limit \in Nat \ {0} /\ WindowMax \in Nat \ {0} /\ Days \in Nat \ {0}
  /\ {MaxCalls, MaxFails, MaxFaults} \subseteq Nat

Day == 1..Days
Gone == MaxCalls + 1   \* a counter that is not there: no counter gets as far

VARIABLES
  day,      \* today; Days + 1: no more imports
  count,    \* the counter of each day
  lasting,  \* days whose counter has no time to live
  window,   \* requests counted in the window
  call,     \* each import: where it is, and the day it took its slot on or frees
  done,     \* history: imports that succeeded with a slot of the day
  wronged,  \* history: an import was turned away by a counter below one
  calls, fails, faults

vars == <<day, count, lasting, window, call, done, wronged, calls, fails, faults>>
bounds == <<calls, fails, faults>>

Idle == [at |-> "idle", day |-> 0]

\* Types; a counter that counts has a time to live.
TypeOK ==
  /\ day \in 1..Days + 1
  /\ \A d \in Day : count[d] \in -MaxCalls..Gone
  /\ lasting \subseteq {d \in Day : count[d] < 1}
  /\ window \in 0..MaxCalls /\ done \in [Day -> 0..MaxCalls]
  /\ \A c \in Calls :
       /\ call[c].at \in {"idle", "asks", "imports", "full", "failed", "empties"}
       /\ call[c].at \in {"imports", "full", "failed", "empties"} <=> call[c].day # 0

Init ==
  /\ day = 1 /\ count = [d \in Day |-> Gone] /\ lasting = {}
  /\ window = 0 /\ call = [c \in Calls |-> Idle]
  /\ done = [d \in Day |-> 0] /\ wronged = FALSE
  /\ calls = 0 /\ fails = 0 /\ faults = 0

Value(d) == IF count[d] = Gone THEN 0 ELSE count[d]

\* INCREMENT_WITH_TTL_SCRIPT: the first one gives the counter its time to live.
Incremented(d) ==
  /\ count' = [count EXCEPT ![d] = Value(d) + 1]
  /\ lasting' = IF Value(d) = 0 THEN lasting \ {d} ELSE lasting

\* DECR: a counter that was not there has no time to live.
Decremented(d) ==
  /\ count' = [count EXCEPT ![d] = Value(d) - 1]
  /\ lasting' = IF count[d] = Gone THEN lasting \cup {d} ELSE lasting

At(c, place, d) == call' = [call EXCEPT ![c] = [at |-> place, day |-> d]]

Fault == faults < MaxFaults /\ faults' = faults + 1 /\ UNCHANGED <<calls, fails>>

(***************************************************************************)
(* The import.                                                             *)
(***************************************************************************)
\* enforceRateLimit
Ask(c) ==
  /\ call[c] = Idle /\ day \in Day /\ calls < MaxCalls /\ calls' = calls + 1
  /\ window' = window + 1
  /\ IF window' <= WindowMax THEN At(c, "asks", 0) ELSE UNCHANGED call
  /\ UNCHANGED <<day, count, lasting, done, wronged, fails, faults>>

\* Mutant of Over: one too many.
OverByOne(n) == n > Limit + 1

Over(n) == n > Limit

\* incrementDailyCount: a counter below one is taken for an error.
Reserve(c) ==
  /\ call[c].at = "asks" /\ day \in Day
  /\ Incremented(day)
  /\ LET n == count'[day] IN
     /\ CASE n < 1 -> At(c, "idle", 0)
          [] Over(n) -> At(c, "full", day)
          [] OTHER -> At(c, "imports", day)
     /\ wronged' = (wronged \/ n < 1)
  /\ UNCHANGED <<day, window, done, bounds>>

\* Redis is not there, or its answer is lost: the import is turned away.
ReserveFails(c) ==
  /\ call[c].at = "asks" /\ day \in Day /\ Fault
  /\ Incremented(day) \/ UNCHANGED <<count, lasting>>
  /\ At(c, "idle", 0)
  /\ UNCHANGED <<day, window, done, wronged>>

Succeed(c) ==
  /\ call[c].at = "imports"
  /\ done' = [done EXCEPT ![call[c].day] = @ + 1]
  /\ At(c, "idle", 0)
  /\ UNCHANGED <<day, count, lasting, window, wronged, bounds>>

\* Mutant of Fail: the slot is kept.
FailKeeps(c) ==
  /\ call[c].at = "imports" /\ fails < MaxFails /\ fails' = fails + 1
  /\ At(c, "idle", 0)
  /\ UNCHANGED <<day, count, lasting, window, done, wronged, calls, faults>>

Fail(c) ==
  /\ call[c].at = "imports" /\ fails < MaxFails /\ fails' = fails + 1
  /\ At(c, "failed", call[c].day)
  /\ UNCHANGED <<day, count, lasting, window, done, wronged, calls, faults>>

\* releaseDailyCount, on the counter of today.
Release(c) ==
  /\ call[c].at \in {"full", "failed"} /\ day \in Day
  /\ Decremented(day)
  /\ IF count'[day] <= 0 THEN At(c, "empties", day) ELSE At(c, "idle", 0)
  /\ UNCHANGED <<day, window, done, wronged, bounds>>

\* Redis is not there, or its answer is lost.
ReleaseFails(c) ==
  /\ call[c].at \in {"full", "failed"} /\ day \in Day /\ Fault
  /\ Decremented(day) \/ UNCHANGED <<count, lasting>>
  /\ At(c, "idle", 0)
  /\ UNCHANGED <<day, window, done, wronged>>

\* The counter at or below zero is deleted, by a command of its own.
Empty(c) ==
  /\ call[c].at = "empties"
  /\ count' = [count EXCEPT ![call[c].day] = Gone] /\ lasting' = lasting \ {call[c].day}
  /\ At(c, "idle", 0)
  /\ UNCHANGED <<day, window, done, wronged, bounds>>

\* The process ends, or the deletion fails.
Crash(c) ==
  /\ call[c] # Idle /\ Fault
  /\ At(c, "idle", 0)
  /\ UNCHANGED <<day, count, lasting, window, done, wronged>>

(***************************************************************************)
(* Time.                                                                   *)
(***************************************************************************)
WindowEnds ==
  /\ window > 0 /\ window' = 0
  /\ UNCHANGED <<day, count, lasting, call, done, wronged, bounds>>

\* After the last day only imports that no counter is read for are under way.
Midnight ==
  /\ day \in Day /\ day' = day + 1
  /\ day = Days => \A c \in Calls : call[c].at \in {"idle", "empties"}
  /\ UNCHANGED <<count, lasting, window, call, done, wronged, bounds>>

\* A counter lives for 48 hours.
Expire(d) ==
  /\ d < day /\ count[d] # Gone /\ d \notin lasting
  /\ count' = [count EXCEPT ![d] = Gone]
  /\ UNCHANGED <<day, lasting, window, call, done, wronged, bounds>>

Step(c) == Reserve(c) \/ Succeed(c) \/ Release(c) \/ Empty(c)

Next ==
  \/ \E c \in Calls :
       \/ Ask(c) \/ Reserve(c) \/ ReserveFails(c)
       \/ Succeed(c) \/ Fail(c)
       \/ Release(c) \/ ReleaseFails(c) \/ Empty(c) \/ Crash(c)
  \/ WindowEnds \/ Midnight
  \/ \E d \in Day : Expire(d)

Spec == Init /\ [][Next]_vars

(***************************************************************************)
(* Properties.                                                             *)
(***************************************************************************)
Importing(d) == {c \in Calls : call[c] = [at |-> "imports", day |-> d]}

\* No more imports of a day succeed, or may, than the limit allows.
CapHolds == \A d \in Day : done[d] + Cardinality(Importing(d)) <= Limit

\* The counter of today counts only imports that succeeded, are under way, or
\* are about to give their slot back.
NoSlotLost ==
  day \in Day =>
    Value(day) <=
      done[day] + Cardinality({c \in Calls : call[c].at \in {"imports", "full", "failed"}
                                                         /\ call[c].day = day})

\* No counter is kept for good.
CountersExpire == <>[](\A d \in Day : count[d] = Gone)

\* What the code does not keep (see README).
\* An import that is refused or fails gives back the slot that it took.
OwnSlotFreed ==
  \A c \in Calls :
   call[c].at \in {"full", "failed"} /\ call'[c] # call[c] /\ count' # count =>
     count'[call[c].day] = Value(call[c].day) - 1

\* Only an unreachable Redis turns an import away before the limit.
TurnedAwayForCause == ~wronged
=============================================================================

------------------------------- MODULE Worker -------------------------------
(***************************************************************************)
(* The worker process: what it starts, in order and within one turn, which *)
(* of its loops make way for which, and how it stops.  A loop's body runs  *)
(* at once when the loop is started and then at each interval, unless it   *)
(* is still running or the loop makes way for one that is.                 *)
(*                                                                         *)
(* Of the pipelines one is started: the legacy one has loops on timers     *)
(* like the rest, v2 has four loops that an AbortController ends.          *)
(***************************************************************************)
EXTENDS Integers, Sequences

CONSTANTS
  V2,        \* FEED_PIPELINE_MODE is v2
  Drain,     \* DRAIN_TIMEOUT_MS, in polls
  Signals    \* bound on the SIGINTs and SIGTERMs

WorkerAssumption == V2 \in BOOLEAN /\ Drain \in Nat /\ Signals \in Nat

\* The loops on timers, in the order in which they are started.
Order ==
  IF V2 THEN <<"enrich", "sessions", "mutations", "warmer">>
  ELSE <<"queued", "due", "enrich", "retention", "sessions", "mutations", "warmer">>
Durable == IF V2 THEN {"schedule", "fetch", "delivery", "cleanup"} ELSE {}
Timed == {Order[i] : i \in DOMAIN Order}

\* The coordinators' flags, which the shutdown waits for.
Coordinated == {"queued", "due", "enrich"}

VARIABLES
  timers,    \* the loops whose interval is set
  running,   \* the loops whose body runs
  stopping,  \* whether the controller of the v2 loops has aborted
  down,      \* a gracefulShutdown per signal: its step and the polls it has waited for
  closed,    \* whether Redis and the database are closed
  process    \* "up" or "exited"

vars == <<timers, running, stopping, down, closed, process>>

TypeOK ==
  /\ timers \subseteq Timed /\ running \subseteq Timed \cup Durable
  /\ stopping \in BOOLEAN /\ closed \in BOOLEAN /\ process \in {"up", "exited"}
  /\ down \in Seq([step : {"durable", "drain", "closing"}, polls : 0..Drain])
  /\ Len(down) <= Signals

\* Mutant of MakesWayFor: only scheduled syncs look at the others.
MakesWayForLess(l) == IF l = "due" THEN {"queued", "enrich"} ELSE {}

\* shouldPause.
MakesWayFor(l) ==
  CASE l = "queued" -> {"enrich"}
    [] l = "due" -> {"queued", "enrich"}
    [] l = "enrich" -> {"queued", "due"}
    [] l = "warmer" -> Coordinated
    [] OTHER -> {}

\* The first look at expired articles is after an interval.
AtOnce(l) == l # "retention"

\* The bodies that run after the first n loops were started.
Begun[n \in 0..Len(Order)] ==
  IF n = 0 THEN Durable
  ELSE LET l == Order[n]
           before == Begun[n - 1]
       IN IF AtOnce(l) /\ MakesWayFor(l) \cap before = {} THEN before \cup {l} ELSE before

Init ==
  /\ timers = Timed /\ running = Begun[Len(Order)]
  /\ stopping = FALSE /\ down = <<>> /\ closed = FALSE /\ process = "up"

\* An interval has passed.
Tick(l) ==
  /\ process = "up"
  /\ l \in timers \ running /\ MakesWayFor(l) \cap running = {}
  /\ running' = running \cup {l}
  /\ UNCHANGED <<timers, stopping, down, closed, process>>

\* runNonOverlappingLoop waits, and is not aborted.
DurableTick(l) ==
  /\ process = "up" /\ l \in Durable \ running /\ ~stopping
  /\ running' = running \cup {l}
  /\ UNCHANGED <<timers, stopping, down, closed, process>>

\* The body ends, well or not: whatever it throws is caught.
Ends(l) ==
  /\ process = "up" /\ l \in running
  /\ running' = running \ {l}
  /\ UNCHANGED <<timers, stopping, down, closed, process>>

\* Mutant of Signal: the timers are left for the process to end.
SignalKeepsTimers ==
  /\ process = "up" /\ Len(down) < Signals
  /\ stopping' = TRUE
  /\ down' = Append(down, [step |-> "durable", polls |-> 0])
  /\ UNCHANGED <<timers, running, closed, process>>

\* gracefulShutdown begins; a second signal begins it a second time.
Signal ==
  /\ process = "up" /\ Len(down) < Signals
  /\ timers' = {} /\ stopping' = TRUE
  /\ down' = Append(down, [step |-> "durable", polls |-> 0])
  /\ UNCHANGED <<running, closed, process>>

\* stop: the v2 loops have ended, however long that took.
DurableStopped(i) ==
  /\ process = "up" /\ down[i].step = "durable" /\ running \cap Durable = {}
  /\ down' = [down EXCEPT ![i].step = "drain"]
  /\ UNCHANGED <<timers, running, stopping, closed, process>>

\* waitForInFlightSyncs looks and goes on waiting.
Poll(i) ==
  /\ process = "up" /\ down[i].step = "drain"
  /\ running \cap Coordinated # {} /\ down[i].polls < Drain
  /\ down' = [down EXCEPT ![i].polls = @ + 1]
  /\ UNCHANGED <<timers, running, stopping, closed, process>>

\* Mutant of Drained: manual refreshes are forgotten.
DrainedScheduled(i) == running \cap {"due", "enrich"} = {} \/ down[i].polls = Drain

Drained(i) == running \cap Coordinated = {} \/ down[i].polls = Drain

\* closeRedis and closeDb.
Close(i) ==
  /\ process = "up" /\ down[i].step = "drain" /\ Drained(i)
  /\ closed' = TRUE
  /\ down' = [down EXCEPT ![i].step = "closing"]
  /\ UNCHANGED <<timers, running, stopping, process>>

Exit(i) ==
  /\ process = "up" /\ down[i].step = "closing"
  /\ process' = "exited" /\ running' = {} /\ timers' = {}
  /\ UNCHANGED <<stopping, down, closed>>

\* An uncaught exception, or the end of the container's patience.
Killed ==
  /\ process = "up"
  /\ process' = "exited" /\ running' = {} /\ timers' = {}
  /\ UNCHANGED <<stopping, down, closed>>

\* The container is started again.
Restart ==
  /\ process = "exited"
  /\ timers' = Timed /\ running' = Begun[Len(Order)]
  /\ stopping' = FALSE /\ down' = <<>> /\ closed' = FALSE /\ process' = "up"

Stops(i) == DurableStopped(i) \/ Poll(i) \/ Close(i) \/ Exit(i)

Next ==
  \/ \E l \in Timed : Tick(l)
  \/ \E l \in Durable : DurableTick(l)
  \/ \E l \in Timed \cup Durable : Ends(l)
  \/ Signal \/ Killed \/ Restart
  \/ \E i \in DOMAIN down : Stops(i)

Spec == Init /\ [][Next]_vars

\* The bodies of the v2 loops end, and promises and timers are served; those of the timed loops
\* may hang.
FairSpec ==
  /\ Spec
  /\ WF_vars(\E l \in Durable : Ends(l))
  /\ WF_vars(\E i \in DOMAIN down : Stops(i))

(***************************************************************************)
(* Properties.                                                             *)
(***************************************************************************)
\* Articles are not enriched while feeds are synced, from the start of the process on.
NoneBeside == "enrich" \in running => running \cap {"queued", "due"} = {}

\* Redis and the database are closed under a sync or an enrichment only if it has been waited for
\* as long as a shutdown waits, and under a loop of v2 never.
ClosedQuiet ==
  closed => /\ running \cap Durable = {}
            /\ running \cap Coordinated # {} => \E i \in DOMAIN down : down[i].polls = Drain

\* A signal ends the process, even if a sync or an enrichment hangs.
ShutdownEnds == down # <<>> ~> process = "exited"
=============================================================================

----------------------------- MODULE FeedHealth -----------------------------
(***************************************************************************)
(* What the fetches of the sources of one origin do to their rows:         *)
(* feed_sources counts the failures in a row, opens and closes a circuit   *)
(* and pauses; feed_origins does the same for failures that are the        *)
(* origin's own.                                                           *)
(*                                                                         *)
(* A claim reads both rows when it begins and writes them when it ends, by *)
(* finishFetchJob, which refuses a claim that has lost its lease.  Between *)
(* the two, claims of other sources write the origin's row: one request is *)
(* sent to an origin at a time, but any number of bodies are parsed.       *)
(* There is no clock: the claims of FetchJobs wait for what is kept here   *)
(* as the seconds from the last outcome.                                   *)
(***************************************************************************)
EXTENDS FetchPolicy

CONSTANTS
  Source,      \* the sources of one origin
  Kinds,       \* bound: the kinds of failure that happen
  Headers,     \* what publishers may send as Retry-After
  MaxFailures  \* bound on the failures in a row

HealthAssumption == Kinds \subseteq Kind /\ Headers \subseteq Int /\ MaxFailures \in Nat

VARIABLES
  source,  \* feed_sources
  origin,  \* the row of feed_origins
  claim    \* the step of a source's claim, and the rows it has read

vars == <<source, origin, claim>>

Circuit == {"closed", "open"}
SourceRow == [failures : Nat, circuit : Circuit, state : {"active", "paused"}, wait : Nat,
              error : Kind \cup {"none", "discovery_required"}]
OriginRow == [failures : Nat, circuit : Circuit, block : Nat]

NewSource == [failures |-> 0, circuit |-> "closed", state |-> "active", wait |-> 0,
              error |-> "none"]
NewOrigin == [failures |-> 0, circuit |-> "closed", block |-> 0]
NoClaim == [step |-> "none", src |-> NewSource, org |-> NewOrigin]

TypeOK ==
  /\ source \in [Source -> SourceRow]
  /\ origin \in OriginRow
  /\ claim \in [Source -> [step : {"none", "fetching", "parsing"}, src : SourceRow,
                           org : OriginRow]]

Init ==
  /\ source = [s \in Source |-> NewSource]
  /\ origin = NewOrigin
  /\ claim = [s \in Source |-> NoClaim]

(***************************************************************************)
(* The steps of a claim.                                                   *)
(***************************************************************************)
\* findFetchJobContext, with a request or, for a job that has a snapshot, without.
Begin(s, step) ==
  /\ claim[s].step = "none" /\ source[s].failures < MaxFailures /\ origin.failures < MaxFailures
  /\ step = "fetching" => \A r \in Source : claim[r].step # "fetching"
  /\ claim' = [claim EXCEPT ![s] = [step |-> step, src |-> source[s], org |-> origin]]
  /\ UNCHANGED <<source, origin>>

ReceiveBody(s) ==
  /\ claim[s].step = "fetching"
  /\ claim' = [claim EXCEPT ![s].step = "parsing"]
  /\ UNCHANGED <<source, origin>>

\* The claim ends: its lease was lost, the process stopped, or the snapshot is tried again.
Abandon(s) ==
  /\ claim[s].step # "none"
  /\ claim' = [claim EXCEPT ![s] = NoClaim]
  /\ UNCHANGED <<source, origin>>

Ends(s, step, src, org) ==
  /\ claim[s].step = step
  /\ source' = [source EXCEPT ![s] = src]
  /\ origin' = org
  /\ claim' = [claim EXCEPT ![s] = NoClaim]

Healthy == [NewSource EXCEPT !.wait = NextFetchDelay("active", 0, 0)]

CompleteParsed(s) == Ends(s, "parsing", Healthy, NewOrigin)

\* completeUnchanged: the origin's block and circuit stay as they are.
NotModified(s) == Ends(s, "fetching", Healthy, [origin EXCEPT !.failures = 0])

\* completeDiscovery: the failures and the circuit stay as they are.
Discover(s) ==
  Ends(s, "parsing",
       [source[s] EXCEPT !.state = "paused", !.wait = Week, !.error = "discovery_required"],
       origin)

(***************************************************************************)
(* failClaim.                                                              *)
(***************************************************************************)
\* Mutant of FailedSource: a source that is not paused any more has its circuit closed.
FailedSourceForgets(s, kind, header) ==
  LET failures == claim[s].src.failures + 1 IN
  [failures |-> failures,
   circuit |-> IF CircuitOpens(kind, failures) THEN "open" ELSE "closed",
   state |-> IF StateAfter(kind, failures) = "paused" THEN "paused" ELSE "active",
   wait |-> FailureDelay(kind, failures, header, 0, 0),
   error |-> kind]

\* The policy is asked without jitter or blocks; an open circuit is not kept as a state.
FailedSource(s, kind, header) ==
  LET failures == claim[s].src.failures + 1 IN
  [failures |-> failures,
   circuit |-> IF CircuitOpens(kind, failures) THEN "open" ELSE claim[s].src.circuit,
   state |-> IF StateAfter(kind, failures) = "paused" THEN "paused" ELSE "active",
   wait |-> FailureDelay(kind, failures, header, 0, 0),
   error |-> kind]

OriginWide(kind) == kind \in Transport \cup {"limited", "unavailable"}

\* A failure of the source alone blocks the origin for what Retry-After says, or unblocks it.
FailedOrigin(s, kind, header) ==
  LET failures == claim[s].org.failures + 1 IN
  IF OriginWide(kind)
  THEN [failures |-> failures,
        circuit |-> IF CircuitOpens(kind, failures) THEN "open" ELSE claim[s].org.circuit,
        block |-> FailureDelay(kind, failures, header, 0, 0)]
  ELSE [claim[s].org EXCEPT !.block = IF kind \in Status /\ RetryAfter(header)
                                      THEN header ELSE 0]

\* What can fail at a step: the body is too large for the request or for the parser.
Fails(s, step, kind, header) ==
  /\ kind \in IF step = "fetching" THEN Status \cup Transport \cup {"oversize"} ELSE Rejected
  /\ Ends(s, step, FailedSource(s, kind, header), FailedOrigin(s, kind, header))

Next ==
  \E s \in Source :
    \/ \E step \in {"fetching", "parsing"} : Begin(s, step)
    \/ ReceiveBody(s) \/ Abandon(s) \/ CompleteParsed(s) \/ NotModified(s) \/ Discover(s)
    \/ \E step \in {"fetching", "parsing"}, kind \in Kinds, header \in Headers :
         Fails(s, step, kind, header)

Spec == Init /\ [][Next]_vars

(***************************************************************************)
(* Properties.                                                             *)
(***************************************************************************)
\* Whatever a publisher sends, and in whatever order failures of several kinds come, a source
\* that failed waits for a quarter of an hour at least and a leap year at most, and an origin
\* is never blocked for longer.
WaitsBounded ==
  /\ \A s \in Source : source[s].failures > 0 => source[s].wait \in MinInterval..MaxRetryAfter
  /\ origin.block <= MaxRetryAfter

\* A source that is paused, or has failed eight times in a row, is left alone for a week.
LongFailureRests ==
  \A s \in Source : source[s].state = "paused" \/ source[s].failures >= 8 =>
                     source[s].wait >= Week

\* A circuit that is closed belongs to a source, or an origin, that has failed less than eight
\* times in a row, although the origin's row is written from what claims read before.
ClosedIsHealthy ==
  /\ \A s \in Source : source[s].circuit = "closed" => source[s].failures < 8
  /\ origin.circuit = "closed" => origin.failures < 8

\* Only a fetch that succeeds closes a source's circuit or lets its failures be forgotten.
OnlySuccessForgives ==
  \A s \in Source :
    \/ source[s].circuit = "open" /\ source'[s].circuit = "closed"
    \/ source'[s].failures < source[s].failures
    => source'[s] = Healthy

\* The same failure once more never shortens the wait, unless the publisher says otherwise.
WaitsGrow ==
  \A s \in Source :
    /\ source'[s].failures > source[s].failures
    /\ source'[s].error = source[s].error /\ source[s].error \notin {"limited", "unavailable"}
    => source'[s].wait >= source[s].wait
=============================================================================

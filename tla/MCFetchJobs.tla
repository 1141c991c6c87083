----------------------------- MODULE MCFetchJobs -----------------------------
(***************************************************************************)
(* Instances of FetchJobs for TLC.  A job id is <<source, number>>.        *)
(***************************************************************************)
EXTENDS FetchJobs, TLC

CONSTANTS SharedOrigin,  \* TRUE: all sources live on one origin
          IdsPerSource, Crashes, Stalls, Errors, Stops

MCOrigin == IF SharedOrigin THEN {"o"} ELSE Source
MCOriginOf == [s \in Source |-> IF SharedOrigin THEN "o" ELSE s]
MCJob == Source \X (1..IdsPerSource)
MCSourceOf == [j \in MCJob |-> j[1]]
MCMaxFaults == [k \in FaultKind |->
  CASE k = "crash" -> Crashes [] k = "stall" -> Stalls
    [] k = "error" -> Errors [] k = "stop" -> Stops]

WorkerSymmetry == Permutations(Worker)

\* FreshId chooses from one id when IdsPerSource = 1, so sources are interchangeable
\* wherever all or none of them are fickle.
RowSymmetry == WorkerSymmetry \cup (IF IdsPerSource = 1 THEN Permutations(Source) ELSE {})
=============================================================================

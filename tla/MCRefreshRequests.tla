------------------------- MODULE MCRefreshRequests -------------------------
(***************************************************************************)
(* Instances of RefreshRequests for TLC.                                   *)
(***************************************************************************)
EXTENDS RefreshRequests, TLC

CONSTANT Jobs

MCJob == 1..Jobs

\* Feeds, and manual requests, are interchangeable: only job ids are ordered.
IdSymmetry == Permutations(Feed) \cup Permutations(Manual)
============================================================================

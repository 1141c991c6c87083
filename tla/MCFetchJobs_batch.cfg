SPECIFICATION Spec
CONSTANTS
  Worker = {w1}
  Source = {s1, s2, s3, s4}
  SharedOrigin = FALSE
  Fickle = {}
  IdsPerSource = 1
  MaxAttempts = 2
  NetworkConcurrency = 2
  Lease = 2
  StartGap = 1
  Interval = 2
  Pause = 4
  FailureDelays = {3}
  OriginWaits = {3}
  Epoch = 2
  Horizon = 2
  Crashes = 0
  Stalls = 0
  Errors = 0
  Stops = 1
  w1 = w1
  NoOwner = NoOwner
  Gone = Gone
  s1 = s1
  s2 = s2
  s3 = s3
  s4 = s4
  Origin <- MCOrigin
  OriginOf <- MCOriginOf
  Job <- MCJob
  SourceOf <- MCSourceOf
  MaxFaults <- MCMaxFaults
SYMMETRY RowSymmetry
INVARIANTS
  BatchesHold

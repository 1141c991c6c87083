SPECIFICATION Spec
CONSTANTS
  Worker = {w1, w2}
  Source = {s1}
  SharedOrigin = TRUE
  Fickle = {s1}
  IdsPerSource = 2
  MaxAttempts = 2
  NetworkConcurrency = 2
  Lease = 2
  StartGap = 1
  Interval = 2
  Pause = 4
  FailureDelays = {3}
  OriginWaits = {1, 3}
  Epoch = 2
  Horizon = 5
  Crashes = 0
  Stalls = 1
  Errors = 1
  Stops = 0
  w1 = w1
  w2 = w2
  NoOwner = NoOwner
  Gone = Gone
  s1 = s1
  Origin <- MCOrigin
  OriginOf <- MCOriginOf
  Job <- MCJob
  SourceOf <- MCSourceOf
  MaxFaults <- MCMaxFaults
SYMMETRY RowSymmetry
PROPERTIES
  LeaseNotStolen
  CadenceKept

SPECIFICATION Spec
CONSTANTS
  Worker = {w1, w2}
  Source = {s1, s2}
  SharedOrigin = TRUE
  Fickle = {s1}
  IdsPerSource = 1
  MaxAttempts = 2
  NetworkConcurrency = 2
  Lease = 2
  StartGap = 1
  Interval = 1
  Pause = 3
  FailureDelays = {2}
  OriginWaits = {2}
  Epoch = 2
  Horizon = 4
  Crashes = 1
  Stalls = 0
  Errors = 0
  Stops = 0
  w1 = w1
  w2 = w2
  NoOwner = NoOwner
  Gone = Gone
  s1 = s1
  s2 = s2
  Origin <- MCOrigin
  OriginOf <- MCOriginOf
  Job <- MCJob
  SourceOf <- MCSourceOf
  MaxFaults <- MCMaxFaults
SYMMETRY WorkerSymmetry
INVARIANTS
  TypeOK
  LeaseHeld
  OriginSingleFlight
PROPERTIES
  RequestsRespectBlocks

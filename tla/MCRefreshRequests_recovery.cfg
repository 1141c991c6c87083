SPECIFICATION FairSpec
CONSTANTS
  Feed = {f1}
  Manual = {r1}
  Jobs = 2
  MaxAttempts = 2
  MaxDeliveryAttempts = 2
  MaxFaults = 1
  f1 = f1
  r1 = r1
  None = None
  Job <- MCJob
INVARIANTS
  CompletedMeansDelivered
PROPERTIES
  ManualSettles

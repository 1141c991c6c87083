SPECIFICATION FairSpec
CONSTANTS
  Feed = {f1, f2}
  Manual = {}
  Jobs = 2
  MaxAttempts = 2
  MaxDeliveryAttempts = 2
  MaxFaults = 0
  f1 = f1
  f2 = f2
  None = None
  Job <- MCJob
INVARIANTS
  TypeOK
  AnswersHold
PROPERTIES
  CreationSettles

SPECIFICATION Spec
CONSTANTS
  Feed = {f1}
  Manual = {}
  Jobs = 1
  MaxAttempts = 2
  MaxDeliveryAttempts = 2
  MaxFaults = 1
  f1 = f1
  None = None
  Job <- MCJob
SYMMETRY IdSymmetry
INVARIANTS
  NoItemStranded

SPECIFICATION FairSpec
CONSTANTS
  Tab = {t1, t2}
  Item = {i1}
  None = None
  WebLocks = TRUE
  Late = FALSE
  MaxIntents = 3
  MaxOthers = 1
  MaxFaults = 2
PROPERTIES
  KeepsPromise
  OutboxDrains
CHECK_DEADLOCK FALSE

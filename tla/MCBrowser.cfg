SPECIFICATION Spec
CONSTANTS
  None = None
  Unknown = Unknown
  Baseline = Baseline
  a1 = a1
  a2 = a2
  t1 = t1
  t2 = t2
  t3 = t3
  c1 = c1
  c2 = c2
  k1 = k1
SYMMETRY Symmetry
INVARIANTS
  TypesHold
  PagesWhole
  Agrees
  DraftKept
PROPERTIES
  OnlyForCause
  MovesLand
CHECK_DEADLOCK FALSE

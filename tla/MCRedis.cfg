SPECIFICATION Spec
CONSTANTS
  None = None
  Api = Api
  f1 = f1
  f2 = f2
  f3 = f3
  r1 = r1
  u1 = u1
  u2 = u2
  w1 = w1
  w2 = w2
  w3 = w3
  w4 = w4
  a1 = a1
  a2 = a2
  c1 = c1
  c2 = c2
  c3 = c3
  s1 = s1
  s2 = s2
  s3 = s3
SYMMETRY Symmetry
INVARIANTS
  TypesHold
  LimitsHold
  RefreshKept
  ListFresh

  
CHECK_DEADLOCK FALSE

SPECIFICATION Spec
CONSTANTS
  None = None
  a = a
  b = b
  g1 = g1
  g2 = g2
  p1 = p1
  p2 = p2
  f1 = f1
  f2 = f2
  o1 = o1
  o2 = o2
  s1 = s1
  s2 = s2
  s3 = s3
  s4 = s4
  h1 = h1
  j1 = j1
  j2 = j2
INVARIANTS
  TypesHold
  ArticlesOfSource
PROPERTIES
  NeverGoesBack
  OnlyAsked
  BackoffHolds
  ActiveKept
CHECK_DEADLOCK FALSE

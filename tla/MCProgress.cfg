SPECIFICATION FairSpec
CONSTANTS
  None = None
  Unknown = Unknown
  Baseline = Baseline
  Api = Api
  f1 = f1
  f2 = f2
  s1 = s1
  s2 = s2
  s3 = s3
  s4 = s4
  u1 = u1
  u2 = u2
  w1 = w1
  w2 = w2
  a1 = a1
  a2 = a2
  o1 = o1
  o2 = o2
  p1 = p1
  b1 = b1
  g1 = g1
  j1 = j1
  j2 = j2
  h1 = h1
  t1 = t1
  t2 = t2
  c1 = c1
  c2 = c2
PROPERTIES
  SyncHappens
  IngestionEnds
  ClientsServed
CHECK_DEADLOCK FALSE

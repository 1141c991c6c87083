SPECIFICATION Spec
CONSTANTS
  None = None
  Root = Root
  NoUser = NoUser
  t1 = t1
  t2 = t2
  c1 = c1
  c2 = c2
  u1 = u1
  u2 = u2
  s1 = s1
  s2 = s2
  k1 = k1
  k2 = k2
  k3 = k3
  f1 = f1
  n1 = n1
  n2 = n2
  q1 = q1
  q2 = q2
  api = api
  command = command
  ra = ra
  rb = rb
SYMMETRY Symmetry
INVARIANTS
  TypesHold
  AccountsHold
  EventsCounted
PROPERTIES
  TreeHolds
  GrantedBeforeEnded
  MigratedRight
CHECK_DEADLOCK FALSE

SPECIFICATION Spec
CONSTANTS
  None = None
  t1 = t1
  t2 = t2
  n1 = n1
  n2 = n2
  r1 = r1
  r2 = r2
  f1 = f1
  f2 = f2
  f3 = f3
  k1 = k1
  k2 = k2
  w1 = w1
  h1 = h1
  Tenants = {t1, t2}
  Numbers = {n1, n2}
  Rows = {r1, r2}
  Flows = {f1, f2, f3}
  Callbacks = {k1, k2}
  Clerks = {w1}
  Hooks = {h1}
INVARIANTS
  TypeOK
  KnownNumberIsRouted
  RoutedToItsNumber
  ChannelsAreBounded
CONSTRAINTS
  CallbacksOverlapEarly
  ThirdStateReconnects
SYMMETRY Interchangeable
CHECK_DEADLOCK FALSE

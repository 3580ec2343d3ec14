SPECIFICATION Spec
CONSTANTS
  None = None
  t1 = t1
  t2 = t2
  n1 = n1
  n2 = n2
  r1 = r1
  r2 = r2
  f1 = f1
  f2 = f2
  f3 = f3
  k1 = k1
  k2 = k2
  w1 = w1
  h1 = h1
  Tenants = {t1}
  Numbers = {n1, n2}
  Rows = {r1}
  Flows = {f1}
  Callbacks = {k1}
  Clerks = {}
  Hooks = {}
INVARIANTS
  DiscoveryFillsOwnId
CHECK_DEADLOCK FALSE

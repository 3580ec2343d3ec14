SPECIFICATION RouteSpec
CONSTANTS
  None = None
  a = a
  m1 = m1
  m2 = m2
  q1 = q1
  Convos = {a}
  Msgs = {m1, m2}
  Questions = {q1}
  Kinds = {"remark", "offscope", "order", "orderAddress"}
  MaxTries = 1
  Workers = 1
  Ttl = 2
  MaxTime = 5
INVARIANTS
  OrderIsPursued
SYMMETRY Interchangeable
CHECK_DEADLOCK FALSE

SPECIFICATION SessionSpec
CONSTANTS
  s1 = s1
  s2 = s2
  r1 = r1
  r2 = r2
  d1 = d1
  d2 = d2
  Sids = {s1, s2}
  Requests = {r1, r2}
  Sweeps = {d1, d2}
  SessionTtl = 3
  AccessTtl = 2
  MaxTime = 4
INVARIANTS
  SessionTypeOK
  LogoutEverywhere
PROPERTIES
  NoResurrection
SYMMETRY Interchangeable
CHECK_DEADLOCK FALSE

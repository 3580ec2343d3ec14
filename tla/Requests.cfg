SPECIFICATION FairSpec
CONSTANTS
  Ids = {1, 2, 3, 4, 5}
  Take = 2
  MsTicks = 2
  MaxTime = 4
  Convos = {1, 2, 3}
  Limit = 1
  MaxMs = 2
  i1 = i1
  i2 = i2
  i3 = i3
  t1 = t1
  t2 = t2
  Threads = {t1, t2}
  Window = 1
  MaxMessages = 2
  Horizon = 3
  Deliveries = {i1, i2, i3}
  None = None
  k1 = k1
  k2 = k2
  c1 = c1
  c2 = c2
  d1 = d1
  d2 = d2
  d3 = d3
  Keys = {k1, k2}
  Calls = {c1, c2}
  DataSources = {d1, d2, d3}
  MaxBoots = 1
INVARIANTS
  InboxTypeOK
  NothingTwice
  SkipsOnlyWithinMs
  QuietIsListed
  ListedOnce
  StaleOnlyIfMissed
  OverviewAddsUp
  PoolTypeOK
  NoUseAfterClose
  PoolsAreBounded
PROPERTIES
  HistoryEnds
  ShutdownFinishes
CHECK_DEADLOCK FALSE

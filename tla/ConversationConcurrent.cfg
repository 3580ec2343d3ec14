SPECIFICATION Spec
CONSTANTS
  m1 = m1
  m2 = m2
  c1 = c1
  c2 = c2
  r1 = r1
  r2 = r2
  u1 = u1
  None = None
  Inbounds = {m1, m2}
  TextInbounds = {m1, m2}
  StaffCalls = {c1}
  Staff = {u1}
  Requests = {r1, r2}
  KnownContact = FALSE
  FaultKinds = {}
  MaxFaults = 0
  StaffOps = {"markAsRead", "handoffToHuman", "resumeAi", "sendHumanMessage"}
  MaxAttempts = 2
  MaxInFlight = 2
INVARIANTS
  TypeOK
  UnreadNeverOvercounts
  StoredIsQueued
PROPERTIES
  TakeoverHolds
  InboundOnceSpec
SYMMETRY Interchangeable

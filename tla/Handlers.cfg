SPECIFICATION Spec
CONSTANTS
  x1 = x1
  x2 = x2
  x3 = x3
  e1 = e1
  e2 = e2
  l1 = l1
  w1 = w1
  n1 = n1
  a = a
  q1 = q1
  Nobody = Nobody
  Calls = {x1, x2, x3}
  Logins = {l1}
  Emails = {e1, e2}
  MaxSlug = 2
  FaultKinds = {"crash", "db", "delete", "lost"}
  MaxFaults = 2
  Null = Null
  Signals = {x1, x2, x3}
  Clerks = {w1}
  Names = {n1}
  MaxInFlight = 2
  MaxRenames = 1
  None = None
  Convos = {a}
  Msgs = {x1, x2, x3}
  Questions = {q1}
  Kinds = {"offscope", "remark", "question", "greeting", "sensitive", "order", "orderAddress"}
  MaxTries = 2
  Workers = 2
  Ttl = 2
  MaxTime = 5
INVARIANTS
  TypeOK
  RegisteredIsComplete
  FailedLeavesNothing
  ProfilesAreOwn
  OpenLeadsAreBounded
  NamesInSync
  OneAnswerPerTry
  AtMostTwoDirected
  EditsComeThrough
PROPERTIES
  AnswersStay
CONSTRAINT FewRetries
SYMMETRY Interchangeable
CHECK_DEADLOCK FALSE

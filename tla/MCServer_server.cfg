SPECIFICATION ServerSpec
CONSTANTS
  a = a
  URL = {a}
  MaxId = 1
  None = None
  LockFor = 1
  ClaimBatch = 1
  KeepItems = 2
  KeepFor = 1
  EvictAfter = 1
  Workers = {w1}
  Callers = {c1}
  Budget = 0
  DocSize = 2
  OkWaits = {1}
  ErrWaits = {1}
  MaxNow = 2
  MaxPublished = 2
  MaxLimit = 1
  Host <- NoHost
CHECK_DEADLOCK FALSE
INVARIANTS
  ServerTypeOK
  AnswerIsWhole
  ColdAnswerIsWarm
PROPERTIES
  ImplementsPoller

SPECIFICATION Spec
CONSTANTS
  a = a
  b = b
  URL = {a}
  MaxId = 1
  None = None
  LockFor = 1
  ClaimBatch = 1
  KeepItems = 1
  KeepFor = 2
  EvictAfter = 9
  Workers = {w1}
  Callers = {c1}
  Budget = 0
  DocSize = 1
  OkWaits = {1}
  ErrWaits = {1}
  MaxNow = 4
  MaxPublished = 0
  Host <- OneHost
CHECK_DEADLOCK FALSE
INVARIANTS
  RegisteredIsScheduled

SPECIFICATION Spec
CONSTANTS
  a = a
  b = b
  URL = {a, b}
  MaxId = 1
  None = None
  LockFor = 1
  ClaimBatch = 1
  KeepItems = 1
  KeepFor = 2
  EvictAfter = 2
  Workers = {w1}
  Callers = {}
  Budget = 0
  DocSize = 1
  OkWaits = {1}
  ErrWaits = {1}
  MaxNow = 4
  MaxPublished = 1
  Host <- TwoHosts
CHECK_DEADLOCK FALSE
INVARIANTS
  ItemsAlwaysOfOwnFeed

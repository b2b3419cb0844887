SPECIFICATION Spec
CONSTANTS
  a = a
  b = b
  URL = {a, b}
  MaxId = 1
  None = None
  LockFor = 1
  ClaimBatch = 1
  KeepItems = 1
  KeepFor = 1
  EvictAfter = 1
  Workers = {w1}
  Callers = {c1}
  Budget = 0
  DocSize = 1
  OkWaits = {1}
  ErrWaits = {1}
  MaxNow = 2
  MaxPublished = 2
  Host <- SameHost
SYMMETRY Alike
CHECK_DEADLOCK FALSE
INVARIANTS
  TypeOK
  LeaseExclusive
  LocksExpire
  ItemsOfOwnFeed
  ValidatorCoversItems
  FreshAsOfLastOK
PROPERTIES
  ForgottenOnlyByRetention
  ImplementsCache

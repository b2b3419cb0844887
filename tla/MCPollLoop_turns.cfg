SPECIFICATION Spec
CONSTANTS
  Feed = {f1, f2}
  Worker = {w1}
  Caller = {c1}
  ClaimBatch = 1
  LockFor = 1
  Waits = {1, 2}
  None = None
  MaxFaults = 2
INVARIANTS
  TypeOK
PROPERTIES
  PolledForEver
  WarmsUp
  ShutdownEnds
  StoreOpenForPolls

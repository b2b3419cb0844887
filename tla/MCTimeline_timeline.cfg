SPECIFICATION Spec
CONSTANTS
  Id = {1, 2, 3, 4, 5}
  Time = {0, 1, 2}
  Hash = {h1}
  Title = {t1, t2}
  NoHash = NoHash
  Window = 1
  OverFetch = 2
  MaxLimit = 2
CHECK_DEADLOCK FALSE
INVARIANTS
  TypeOK
  NoTwoCopies
  Represented
  KeptAsSpecified
  

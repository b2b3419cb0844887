SPECIFICATION FairSpec
CONSTANTS
  Fetcher = {g1, g2, g3}
  Hostname = {h1, h2}
  Slot = {s1, s2}
  Gap = 2
  None = None
INVARIANTS
  TypeOK
  OneRequestPerHost
  Spaced
PROPERTIES
  Served

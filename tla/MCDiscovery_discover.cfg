SPECIFICATION Spec
CONSTANTS
  Host = {"site", "cdn"}
  Path = {"page", "feed", "rss"}
  Wellformed <- MCWellformed
  Addr = {public, private}
  Allowed = {public}
  MaxRedirects = 2
  Targets <- MCTargets
  Body <- MCBody
  None = None
  Feed = Feed
  Start <- MCStart
  ProbePaths <- MCProbes
  MaxCandidates = 2
CHECK_DEADLOCK FALSE
INVARIANTS
  TypeOK
  Guarded
  Candidates
  NothingMissed
PROPERTIES
  Ends

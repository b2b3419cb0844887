SPECIFICATION Spec
CONSTANTS
  x = x
  y = y
  Article = {x, y}
  Entry <- MCEntry
  KeepItems = 2
  KeepFor = 2
  Ahead = 1
  None = None
  MaxNow = 4
  MaxEdits = 3
SYMMETRY Articles
CHECK_DEADLOCK FALSE
INVARIANTS
  TypeOK
  StoredOnce
PROPERTIES
  QuietUnlessNew

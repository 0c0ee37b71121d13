SPECIFICATION FairSpec
CONSTANTS
  c1 = c1
  c2 = c2
  b1 = b1
  x1 = x1
  Local = Local
  NoUrl = NoUrl
  None = None
  Listers = {c1, c2}
  Builtins = {x1}
  Bases = {b1}
  Priorities = {0}
  MaxLines = 5
  MaxRows = 6
  MaxEdits = 1
  MaxCuts = 1
  MaxOverlaps = 1
CHECK_DEADLOCK FALSE
INVARIANTS TypeOK EndpointsKept NothingTwice
PROPERTY EventuallySingle

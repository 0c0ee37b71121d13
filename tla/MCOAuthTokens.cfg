\* A client request and the refresh button, a rotating issuer, answers lost.
SPECIFICATION Spec
CONSTANTS
  r1 = r1
  r2 = r2
  m = m
  None = None
  Requests = {r1, m}
  Manual = {m}
  Rotating = TRUE
  Lossy = TRUE
  MaxGrants = 2
INVARIANTS
  TypeOK
  UsableUnlessLost
  NeverRepeatsRefused
  RowOfOneLogin
CHECK_DEADLOCK FALSE

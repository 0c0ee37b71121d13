\* One route request for a combo of two models, with a fair scheduler.
SPECIFICATION FairSpec
CONSTANTS
  p1 = p1
  p2 = p2
  a1 = a1
  a2 = a2
  r1 = r1
  r2 = r2
  None = None
  Requests = {r1}
  Providers = {p1, p2}
  Accounts = {a1, a2}
  Owner <- MCOwner
  Rank <- MCRank
  Priority <- MCPriority
  Direct = {p2}
  OAuth = {a1}
  Keyed = {a2}
  RoundRobin = {p1}
  Protected = {p1}
  Matching <- Combo
  Serving <- Everywhere
  Guessed <- LastGuessed
  Raw = {}
  Cached = {r1}
  Operated = {a2}
  CircuitTicks = 1
  RateTicks = 2
INVARIANTS
  StaleOnlyByOthers
PROPERTIES
  EventuallyAnswered
CHECK_DEADLOCK FALSE

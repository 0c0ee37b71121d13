\* Two requests, one through route and one through proxy_raw_to_provider.
SPECIFICATION Spec
CONSTANTS
  p1 = p1
  p2 = p2
  a1 = a1
  a2 = a2
  r1 = r1
  r2 = r2
  None = None
  Requests = {r1, r2}
  Providers = {p1}
  Accounts = {a1, a2}
  Owner <- MCOwner
  Rank <- MCRank
  Priority <- MCPriority1
  Direct = {}
  OAuth = {a1}
  Keyed = {a2}
  RoundRobin = {p1}
  Protected = {p1}
  Matching <- OnlyFirst
  Serving <- Everywhere
  Guessed <- NoGuess
  Raw = {r2}
  Cached = {r1}
  Operated = {a2}
  CircuitTicks = 1
  RateTicks = 1
INVARIANTS
  TypeOK
  WalkInOrder
  BlockedOnlyIfCalled
PROPERTIES
  Contract
  ClearedOnlyBySuccess
CHECK_DEADLOCK FALSE

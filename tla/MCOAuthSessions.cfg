\* Two sessions, a callback and a post, crashes.
SPECIFICATION FairSpec
CONSTANTS
  s1 = s1
  s2 = s2
  b1 = b1
  b2 = b2
  m = m
  a1 = a1
  None = None
  Sessions = {s1, s2}
  Completers = {b1, m}
  Accounts = {a1}
  Reconnects <- MCReconnects
  Local = {s1, s2}
  Posted = {m}
  Life = 2
  Crashes = TRUE
INVARIANTS
  TypeOK
  LinkedOnce
  ConsumedIsHandled
PROPERTIES
  PortReleased
CHECK_DEADLOCK FALSE

SPECIFICATION FairSpec
CONSTANTS
  p1 = p1
  p2 = p2
  c1 = c1
  Programs = {p1, p2}
  Clients = {c1}
  Ways <- MCWays
  Files <- MCFiles
  MaxMishaps = 1
INVARIANTS TypeOK ReadyToServe PasswordIsWhole 
PROPERTIES EventuallyUp

SPECIFICATION LogFairSpec
CONSTANTS
  r1 = r1
  r2 = r2
  i1 = i1
  chunk = chunk
  None = None
  TimedOut = TimedOut
  Requests = {r1, r2}
  Ids = {i1}
  Id <- SameId
  Chunks = {chunk}
  Answers <- OneChunk
  Idle = 3
  Limit = 5
INVARIANTS LogTypeOK OwnNumbers
 

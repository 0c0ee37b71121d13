SPECIFICATION FairSpec
CONSTANTS
  r1 = r1
  r2 = r2
  text = text
  end = end
  None = None
  TimedOut = TimedOut
  Requests = {r1, r2}
  Readers = {r2}
  Writers = {r1, r2}
  Chunks = {text, end}
  Marked = {end}
  Answers <- TwoAnswers
  Idle = 3
  Life = 4
  Limit = 5
INVARIANTS TypeOK 
PROPERTIES ServedInTime AllEnd

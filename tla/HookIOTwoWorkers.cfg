SPECIFICATION FairSpec
CONSTANTS
  w1 = w1 w2 = w2 c1 = c1 c2 = c2
  Workers = {w1, w2}
  Cos = {c1, c2}
  Home <- OnTwo
  MaxCalls = 1
  None = None
PROPERTY TimeoutReturns
CHECK_DEADLOCK FALSE

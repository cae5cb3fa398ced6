SPECIFICATION FairSpec
CONSTANTS
  w1 = w1 w2 = w2 c1 = c1 c2 = c2
  Workers = {w1, w2}
  Cos = {c1, c2}
  Home <- OnTwo
  MaxCalls = 2
  None = None
INVARIANTS ResumedOnce OwnTimeout NoTimerLeft
PROPERTIES TimeoutReturnsAtHome ReadyResumes
CHECK_DEADLOCK FALSE

SPECIFICATION FairSpec
CONSTANTS
  main = main w1 = w1
  Workers <- OneThread
  ThreadWorkers <- OwnedByThread
  Posters = {p1}
  Funcs = {f1}
  Cos = {c1, c2, c3}
  MaxNaps = 1
  None = None
PROPERTY SleepersFinish
CHECK_DEADLOCK FALSE

SPECIFICATION SchSpec
CONSTANTS
  main = main w1 = w1
  Workers <- OneThread
  ThreadWorkers <- OwnedByOne
  Main = main
  JoinThread = join
  EarlyStop = FALSE
  Posters = {p1}
  Funcs = {f1}
  Cos = {c1, c2, c3}
  MaxNaps = 1
  None = None
INVARIANTS OneWaker SpareIsDone QuitAfterAllExit
PROPERTIES TaskRuns StopTerminates SleepersFinishUnlessTaken
CHECK_DEADLOCK FALSE

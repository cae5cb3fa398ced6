SPECIFICATION Spec
CONSTANTS
  main = main w1 = w1
  Workers <- OneThread
  ThreadWorkers <- OwnedByThread
  Posters = {p1}
  Funcs = {f1, f2}
  Cos = {c1, c2, c3}
  MaxNaps = 1
  None = None
PROPERTY RunsInOrder
SYMMETRY FuncSymmetry
CHECK_DEADLOCK FALSE

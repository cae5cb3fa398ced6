SPECIFICATION Spec
CONSTANTS
  Cos = {c1, c2, c3}
  FirstFd = 3
  LastFd = 4
  Timeouts <- MCTimeouts
  RecvTimeout = 1500
  MaxCustom = 1
  Null = Null
INVARIANTS Tracked SettingsKept WorkerNotBlocked ConnectHonest AbortOnlyWithoutFd
SYMMETRY CoSymmetry
CHECK_DEADLOCK FALSE

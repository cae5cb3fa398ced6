SPECIFICATION TimerSpec
CONSTANTS
  Timers = {1, 3}
  Addresses = {0, 2, 4}
  Intervals = {0, 1, 2}
  MaxTime = 3
  MaxQueue = 3
  Awake = Awake
  Forever = Forever
INVARIANTS TimerTypeOK SetConsistent NoOversleep CancelIsFinal
PROPERTY HandsOutDue
CHECK_DEADLOCK FALSE

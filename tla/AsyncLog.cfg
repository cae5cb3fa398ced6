SPECIFICATION Spec
CONSTANTS
  Threads = {t1, t2}
  MaxLines = 3
  Sizes = {1, 2, 3}
  BufferSize = 2
  MaxFileSize = 3
  CheckRollPerN = 2
  Null = Null
INVARIANTS TypeOK HeldIsAlive
PROPERTIES FifoLog LineWritten LastWrite
CHECK_DEADLOCK FALSE

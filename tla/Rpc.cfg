SPECIFICATION Spec
CONSTANTS
  A = A B = B
  kCheapPrepend = 3
  kInitSize = 4
  Base = 16
  kHeaderLen = 2
  kMaxMessageLen = 60
  Types = {A, B}
  NameOf <- Names
  Payloads <- Bytes
  NoMsg = NoMsg
  ReadMax = 8
  Answer <- Replies
INVARIANTS RightMessage ReceivedIffWhole BufferExact
PROPERTY EveryCallEnds
CHECK_DEADLOCK FALSE

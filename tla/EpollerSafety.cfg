SPECIFICATION FairSpec
CONSTANTS
  Fds = {2, 5}
  Types = {IN, OUT}
  Waiters = {c1, c2}
  ForeignClose = TRUE
  None = None
INVARIANTS TypeOK AssertionsHold PendingCount HandedBackOnce
PROPERTY WatchedResumes

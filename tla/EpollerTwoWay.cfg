SPECIFICATION FairSpec
CONSTANTS
  Fds = {5}
  Types = {IN, OUT}
  Waiters = {c1, c2}
  ForeignClose = FALSE
  None = None
PROPERTY IOResumes

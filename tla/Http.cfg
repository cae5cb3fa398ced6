SPECIFICATION Spec
CONSTANTS
  Uris = {"/a"}
  Patterns = {"/*", "/b*"}
  Matches <- Globs
  Requests <- Asked
  MaxLoad = 4
  BodyOf <- Bodies
INVARIANTS ParsedIsSent CleanStart GlobalsCurrent
PROPERTY GoodAnswered
CHECK_DEADLOCK FALSE

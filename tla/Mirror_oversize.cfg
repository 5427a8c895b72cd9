CONSTANTS
  Token = {a, b}
  NCtx = 4
  DraftLen = 2
  MaxFeed = 2
  MaxHeals = 2
  MaxCps = 2
  Scenarios <- MCOversize
SPECIFICATION Spec
INVARIANTS RowsAreMains
CHECK_DEADLOCK FALSE

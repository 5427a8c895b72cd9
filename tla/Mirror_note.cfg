CONSTANTS
  Token = {a, b}
  NCtx = 4
  DraftLen = 2
  MaxFeed = 2
  MaxHeals = 2
  MaxCps = 2
  Scenarios <- MCNote
SPECIFICATION Spec
INVARIANTS CoversMain
CHECK_DEADLOCK FALSE

CONSTANTS
  Token = {a, b}
  NCtx = 4
  DraftLen = 2
  MaxFeed = 2
  MaxHeals = 2
  MaxCps = 2
  Scenarios <- MCScenarios
SYMMETRY MCSymmetry
SPECIFICATION Spec
INVARIANTS CoversMain RowsAreMains OneRowPerHeal
PROPERTIES DecodeHeals
CHECK_DEADLOCK FALSE

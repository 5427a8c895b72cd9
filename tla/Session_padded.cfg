CONSTANTS
  Token <- Kinds
  NRsSeq = 0
  NCtx = 18
  Limit = 17
  Line = 10
  MaxAuto = 1
  MaxPrompts = 3
  Scenarios <- MCPadded
SPECIFICATION Spec
INVARIANTS Lockstep
CHECK_DEADLOCK FALSE

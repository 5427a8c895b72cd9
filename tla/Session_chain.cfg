CONSTANTS
  Token <- Kinds
  NRsSeq = 0
  NCtx = 15
  Limit = 14
  Line = 13
  MaxAuto = 1
  MaxPrompts = 3
  Scenarios <- MCChain
SPECIFICATION Spec
INVARIANTS DepthCapped
CHECK_DEADLOCK FALSE

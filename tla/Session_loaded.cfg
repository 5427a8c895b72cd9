CONSTANTS
  Token <- Kinds
  NRsSeq = 0
  NCtx = 9
  Limit = 7
  Line = 5
  MaxAuto = 1
  MaxPrompts = 3
  Scenarios <- MCLoaded
SPECIFICATION Spec
INVARIANTS RecurrentInStep
CHECK_DEADLOCK FALSE

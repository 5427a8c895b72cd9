CONSTANTS
  Token <- Kinds
  NRsSeq = 0
  NCtx = 10
  Limit = 9
  Line = 6
  MaxAuto = 1
  MaxPrompts = 4
  Scenarios <- MCTwice
SPECIFICATION Spec
INVARIANTS RecurrentInStep
CHECK_DEADLOCK FALSE

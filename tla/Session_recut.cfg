CONSTANTS
  Token <- Kinds
  NRsSeq = 0
  NCtx = 13
  Limit = 12
  Line = 6
  MaxAuto = 1
  MaxPrompts = 2
  Scenarios <- MCRecut
SPECIFICATION Spec
INVARIANTS CheckpointsLive
CHECK_DEADLOCK FALSE

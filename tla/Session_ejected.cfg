CONSTANTS
  Token <- Kinds
  NRsSeq = 0
  NCtx = 12
  Limit = 10
  Line = 9
  MaxAuto = 1
  MaxPrompts = 3
  Scenarios <- MCEjected
SPECIFICATION Spec
INVARIANTS CheckpointsLive
CHECK_DEADLOCK FALSE

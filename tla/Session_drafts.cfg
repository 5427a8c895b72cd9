CONSTANTS
  Token <- Kinds
  NRsSeq = 2
  NCtx = 9
  Limit = 7
  Line = 5
  MaxAuto = 1
  MaxPrompts = 3
  Scenarios <- MCUndo
SPECIFICATION Spec
INVARIANTS CheckpointsLive
CHECK_DEADLOCK FALSE

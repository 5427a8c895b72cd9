CONSTANTS
  Token <- Kinds
  NRsSeq = 0
  NCtx = 8
  Limit = 6
  Line = 4
  MaxAuto = 1
  MaxPrompts = 3
  Scenarios <- MCTurns
SPECIFICATION FairSpec
INVARIANTS Lockstep RecurrentInStep CheckpointsLive OneSlotPerCheckpoint
PROPERTIES ImplementsConversation TurnEnds
CHECK_DEADLOCK FALSE

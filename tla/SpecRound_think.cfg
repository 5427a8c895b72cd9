CONSTANTS
  Token <- MCToken
  Eog <- MCEog
  Dist <- MCDist
  NRsSeq = 1
  DraftLen = 1
  Limit = 6
  NCtx = 8
  HasThink = TRUE
SPECIFICATION Spec
INVARIANT ExitLockstep
PROPERTY ImplementsPlainDecoding
CHECK_DEADLOCK FALSE

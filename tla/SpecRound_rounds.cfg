CONSTANTS
  Token <- MCToken
  Eog <- MCEog
  Dist <- MCDist
  NRsSeq = 3
  DraftLen = 3
  Limit = 6
  NCtx = 8
  HasThink = FALSE
SPECIFICATION FairSpec
INVARIANTS TypeOK ExitLockstep SampleSound RollbackInWindow RoundsNotedOnce HookCheckpoint
PROPERTIES ImplementsPlainDecoding Terminates
CHECK_DEADLOCK FALSE

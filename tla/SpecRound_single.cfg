CONSTANTS
  Token <- MCToken
  Eog <- MCEog
  Dist <- MCDist
  NRsSeq = 1
  DraftLen = 1
  Limit = 6
  NCtx = 8
  HasThink = FALSE
SPECIFICATION Spec
INVARIANT RoundsNotedOnce
CHECK_DEADLOCK FALSE

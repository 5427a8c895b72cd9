CONSTANTS
  Token <- MCToken
  Eog <- MCEog
  Dist <- MCDist
  NRsSeq = 2
  DraftLen = 2
  Limit = 6
  NCtx = 8
  HasThink = TRUE
SPECIFICATION Spec
INVARIANT SampleSound
CHECK_DEADLOCK FALSE

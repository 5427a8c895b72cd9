CONSTANTS
  Token = {sys, a, b}
  System = sys
  NRsSeq = 1
  NCtx = 6
  CanaryMax = 2
  Overshoot = 0
  MaxRetries = 1
  NBatch = 2
  MaxTurns = 2
  Scenarios <- MCShort
SPECIFICATION Spec
INVARIANTS RestoredExactly
CHECK_DEADLOCK FALSE

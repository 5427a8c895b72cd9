CONSTANTS
  Buf = 1
  MaxOutput = 1
  Scenarios <- MCEarly
SPECIFICATION Spec
INVARIANT FailureIsSaid
CHECK_DEADLOCK FALSE

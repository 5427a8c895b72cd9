CONSTANTS
  Buf = 1
  MaxOutput = 2
  Scenarios <- MCNul
SPECIFICATION Spec
INVARIANT TailArrives
CHECK_DEADLOCK FALSE

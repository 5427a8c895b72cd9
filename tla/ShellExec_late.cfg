CONSTANTS
  Buf = 1
  MaxOutput = 1
  Scenarios <- MCLate
SPECIFICATION FairSpec
PROPERTY Responsive
CHECK_DEADLOCK FALSE

CONSTANTS
  Buf = 3
  MaxOutput = 2
  Scenarios <- MCQuiet
SPECIFICATION FairSpec
INVARIANTS TypeOK TailArrives CodeIsReal NothingLeft
PROPERTIES Finishes InterruptEnds
CHECK_DEADLOCK FALSE

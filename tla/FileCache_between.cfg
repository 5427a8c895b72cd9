CONSTANTS
  a = a
  b = b
  c = c
  x = x
  y = y
  Name <- MCName
  FileOf <- MCFileOf
  Text <- MCText
  Size <- MCSize
  Torn = Torn
  Absent = Absent
  MaxClock = 2
  MaxSeen = 3
  MaxRead = 2
  MaxCps = 2
  Scenarios <- MCBetween
SPECIFICATION Spec
PROPERTY NoFalseHit
CHECK_DEADLOCK FALSE

CONSTANTS
  Lim = {l1, l2}
  Port = {p1}
  MaxServers = 2
  MaxFaults = 0
  MaxInode = 1
  Scenarios <- MCRace
SPECIFICATION Spec
PROPERTY KeepsHealthy
CHECK_DEADLOCK FALSE

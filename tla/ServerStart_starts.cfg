CONSTANTS
  Lim = {l1, l2}
  Port = {p1, p2}
  MaxServers = 2
  MaxFaults = 2
  MaxInode = 3
  Scenarios <- MCScenarios
SPECIFICATION FairSpec
INVARIANT OneReader
PROPERTIES ReusedServes ReadyListens ViewerThere KeepsHealthyAlone Heals
CHECK_DEADLOCK FALSE

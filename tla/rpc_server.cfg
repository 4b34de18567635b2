SPECIFICATION FairSpec
CONSTANTS
  Conns = {k1, k2, k3}
  MaxThreads = 2
  MemServer = TRUE
  ClientsLeave = TRUE
CHECK_DEADLOCK FALSE
INVARIANTS StoppedIsQuiet
PROPERTIES StopReturns

SPECIFICATION Spec
CONSTANTS
  Threads = {t1, t2}
  None = none
  Requests <- MCRequests
  Prealloc <- MCPrealloc
  DefaultChunk = 1
  PageSize = 2
  DramSize = 2
  SsdSize = 2
  NumSsd = 2
  MaxIds = 2
  MaxBlocks = 3
  MaxFaults = 1
  MaxExtras = 2
SYMMETRY Symmetric
CHECK_DEADLOCK FALSE
INVARIANTS PoolConsistent ReadsOwnData
PROPERTY ReturnsIdleChunks

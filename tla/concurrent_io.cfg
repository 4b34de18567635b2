SPECIFICATION FairSpec
CONSTANTS
  s1 = s1
  s2 = s2
  Submitters = {s1, s2}
  Program <- MCMix
  NumQueues = 2
  NumWorkers = 1
  MaxInflight = 3
  WaitOn <- MCWaitOn
  Closes = TRUE
INVARIANTS BooksBalance FifoPerChunk
PROPERTIES BatchesComplete CallsReturn
CHECK_DEADLOCK FALSE

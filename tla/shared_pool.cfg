SPECIFICATION Spec
CONSTANTS
  DevSize = 2
  MemSize = 2
  Chunks = 1
  ChunkSize = 1
  ShareSize = 2
  Exps = {"s1", "s5", "s6"}
  MaxFaults = 1
CHECK_DEADLOCK FALSE
INVARIANTS ReadersSeeWrites PatternsSurvive ReleasedInTurn
PROPERTIES AllEnd

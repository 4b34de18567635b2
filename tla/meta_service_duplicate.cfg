SPECIFICATION Spec
CONSTANTS
  a = a
  b = b
  c = c
  d = d
  NoKey = NoKey
  Keys = {a, b, c, d}
  Hash <- MCHash
  InitCap = 4
  MaxCap = 8
  MaxIds = 7
  MaxRefs = 1
  InitChunks = 2
CHECK_DEADLOCK FALSE
INVARIANTS UniqueNames

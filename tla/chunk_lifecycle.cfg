SPECIFICATION RemoteSpec
CONSTANTS
  c1 = c1
  c2 = c2
  v1 = v1
  v2 = v2
  Clients = {c1, c2}
  NodeOf <- MCNodeOf
  Offsets = {0}
  MaxIds = 3
  MaxFaults = 2
  NumPieces = 2
  Values = {v1, v2}
SYMMETRY Symmetry
INVARIANTS NothingLeaks HoldingsSound RemoteIOSound

SPECIFICATION Spec
CONSTANTS
  i1 = i1
  i2 = i2
  Peer = {p1, p2}
  Piece = {i1}
  Chunk = {0, 1}
  PieceOf <- MCPieceOfOne
  NoPeer = NoPeer
  MaxWindow = 1
  ChokeWindow = 1
  BeginPieces = 0
  MaxDup = 2
  Corrupt = {p1}
  Missizing = {p1}
  Excludable = {}
  DiskMayFail = TRUE
INVARIANTS ValidIsOnDisk
PROPERTIES OnlyMissizedLeaks

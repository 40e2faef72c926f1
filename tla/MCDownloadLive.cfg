SPECIFICATION LiveSpec
CONSTANTS
  i1 = i1
  i2 = i2
  Peer = {p1}
  Piece <- MCPieces
  Chunk = {0, 1}
  PieceOf <- MCPieceOfEach
  NoPeer = NoPeer
  MaxWindow = 2
  ChokeWindow = 1
  BeginPieces = 0
  MaxDup = 2
  Corrupt = {}
  Missizing = {}
  Excludable = {i1}
  DiskMayFail = FALSE
PROPERTIES ReservationEnds InterestRevives SeedCompletes

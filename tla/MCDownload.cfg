SPECIFICATION Spec
CONSTANTS
  i1 = i1
  i2 = i2
  Peer = {p1, p2}
  Piece = {i1}
  Chunk = {0, 1}
  PieceOf <- MCPieceOfOne
  NoPeer = NoPeer
  MaxWindow = 2
  ChokeWindow = 1
  BeginPieces = 0
  MaxDup = 2
  Corrupt = {}
  Missizing = {}
  Excludable = {i1}
  DiskMayFail = FALSE
SYMMETRY PeerSymmetry
INVARIANTS AskedOnce CountersExact AvailabilityExact

SPECIFICATION MCSpec
CONSTANTS
  Byte = {0, 1, 2}
  Fresh = 0
  Sizes = {0, 1, 2, 3}
  Header = 2
  MaxLength = 1
  Capacity = 3
  Chunks = 5
  Settings = {"day", "night"}
  Hours = {0, 1}
  Minutes = {0, 2}
  MaxEntries = 2
  Hashes = {"a", "b"}
  PiecesOf <- MCPiecesOf
  Says <- MCSays
  MaxEvents = 1
  MaxId = 2
  InUse = {"answers"}
INVARIANTS
  PeersReported
CHECK_DEADLOCK FALSE

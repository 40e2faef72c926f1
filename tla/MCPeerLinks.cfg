SPECIFICATION LiveSpec
CONSTANTS
  Host = {h1, h2}
  Piece = {1, 2}
  PeerLimit = 2
  Blocked = {h2}
  MaxRequests = 2
  MaxOut = 1
INVARIANTS PeerToldRight
PROPERTIES NewsArrives RequestsEnd

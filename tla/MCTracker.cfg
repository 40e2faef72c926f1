SPECIFICATION Spec
CONSTANTS
  File = {1}
  Host = {h1, h2}
  User = {u1, u2}
  AutoRegister = FALSE
  Anonymous = TRUE
  CanLeech = {u1, u2}
  Waits = {}
  Deletable = {1}
  Removable = {u1}
  DbMayFail = TRUE
  MayCrash = TRUE
  NoUser = NoUser
  NoPeer = NoPeer
  u1 = u1
  u2 = u2
  TorrentsLimit <- OneTorrent
  PeersLimit <- OnePeer
SYMMETRY SomeHosts
INVARIANTS
  FileCountsExact
  NeverOvercharged
PROPERTIES
  UserCountsFollowPeers
  LimitPassedByKnownHostsOnly
  ActiveUsersArePeers

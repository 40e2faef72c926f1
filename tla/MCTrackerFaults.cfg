SPECIFICATION LiveSpec
CONSTANTS
  File = {1, 2}
  Host = {h1}
  User = {u1}
  AutoRegister = TRUE
  Anonymous = FALSE
  CanLeech = {u1}
  Waits = {u1}
  Deletable = {}
  Removable = {}
  DbMayFail = TRUE
  MayCrash = TRUE
  NoUser = NoUser
  NoPeer = NoPeer
  u1 = u1
  u2 = u2
  TorrentsLimit <- OneTorrent
  PeersLimit <- OnePeer
INVARIANTS
  ClashOnlyUnread
PROPERTIES
  OnlyFailedWritesForget
  StatsWritten

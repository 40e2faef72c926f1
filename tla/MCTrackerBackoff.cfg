SPECIFICATION BackoffSpec
CONSTANTS
  a = a
  Url = {a}
  Protocol <- OneUdp
  FirstList <- OneTracker
  Lists = {}
  Intervals = {}
  LocalFailures = FALSE
  HttpBase = 300
  UdpBase = 60
  LongestWait = 3600
  ShortestInterval = 300
  Timeout = 15
  Tick = 60
  MaxAttempts = 31
  Doublings = 5
PROPERTY
  ResendsLate

SPECIFICATION LiveSpec
CONSTANTS
  a = a
  b = b
  c = c
  Url = {a, b, c}
  Protocol <- WithBad
  FirstList <- BadInBetween
  Lists <- Edits
  Intervals = {0, 420}
  LocalFailures = TRUE
  HttpBase = 300
  UdpBase = 60
  LongestWait = 3600
  ShortestInterval = 300
  Timeout = 15
  Tick = 60
  MaxAttempts = 3
INVARIANTS
  OnlyEditsCrash
PROPERTIES
  PromoteOnlyAnswered
  Paced
  EveryTrackerTried
CHECK_DEADLOCK FALSE

SPECIFICATION OneSpec
CONSTANTS
  t1 = t1
  t2 = t2
  one = one
  both = both
  Torrent = {t1, t2}
  Spans <- Spread
  ByUrl = {t2}
  PerTurn = 1
  Losable = {t1}
INVARIANTS KnownIsOnDisk LeftExact
PROPERTIES PauseHolds
CHECK_DEADLOCK FALSE

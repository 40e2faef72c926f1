SPECIFICATION LiveSpec
CONSTANTS
  Torrent = {t1, t2}
  TorrentLimit = 1
  MaxTurns = 1
  MaxHttp = 2
PROPERTIES QueueMoves ChecksEnd StopEnds ResumesAsLeft

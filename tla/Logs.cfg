SPECIFICATION LogsSpec
CONSTANTS
  RingLines = 2
  SubBuffer = 1
  MergedBuffer = 1
  MaxLines = 3
  Backlogs = {0, 2}
  RotateMax = 2
  Retain = 1
  MaxBatch = 3
  MaxLine = 2
  MaxOut = 5
  MaxFaults = 1
INVARIANTS LossAnnounced ChannelSafe OutputKept
PROPERTIES KeepsFeed LinesArrive DeletedEnds LinesCaught
CHECK_DEADLOCK FALSE

SPECIFICATION FairSpec
CONSTANTS
  MaxPings = 4
  Capacity = 1
  Deadlines <- LongDeadlines
  PathDepth = 2
  Segments = 1
  PingIds = 13
PROPERTIES
  SilentIsDropped
CHECK_DEADLOCK FALSE

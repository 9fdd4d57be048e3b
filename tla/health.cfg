SPECIFICATION FairSpec
CONSTANTS
  MaxPings = 4
  Capacity = 2
  Deadlines <- ShortDeadlines
  PathDepth = 2
  Segments = 3
  PingIds = 13
INVARIANTS
  PongProves
PROPERTIES
  SilentIsDropped
  CapIsReleased
CHECK_DEADLOCK FALSE

SPECIFICATION FairSpec
CONSTANTS
  h1 = h1
  h2 = h2
  s1 = s1
  s2 = s2
  Handler <- Handlers
  Sid <- Sids
  MaxSessions = 1
  Arrivals <- Asks
INVARIANTS
  WithinCapacity
  SingleTarget
  StillJoinable
  NoFalseBlame
PROPERTIES
  ReplyNotCut
  DeadIsReleased
CHECK_DEADLOCK FALSE

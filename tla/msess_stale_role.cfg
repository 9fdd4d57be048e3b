SPECIFICATION Spec
CONSTANTS
  Mode = "selector"
  NSub = 3
  Byte <- Bytes
  Data <- NoData
  Window = 2
  SegmentSize = 1
  AckEvery = 2
  Capacity = 1
  Finishers = {}
  Closers = {}
  MaxKills = 2
  MaxResets = 0
  MaxJoins = 2
  MaxSwitches = 0
  MaxRescues = 0
INVARIANTS
  CarriesBothWays
CHECK_DEADLOCK FALSE

SPECIFICATION Spec
CONSTANTS
  Mode = "selector"
  NSub = 2
  Byte <- Bytes
  Data <- Upload1
  Window = 1
  SegmentSize = 1
  AckEvery = 2
  Capacity = 1
  Finishers = {}
  Closers = {}
  MaxKills = 1
  MaxResets = 0
  MaxJoins = 1
  MaxSwitches = 1
  MaxRescues = 0
INVARIANTS
  OneCarrier
  CarriesBothWays
CHECK_DEADLOCK FALSE

SPECIFICATION FairSpec
CONSTANTS
  Mode = "selector"
  NSub = 2
  Byte <- Bytes
  Data <- Download1
  Window = 1
  SegmentSize = 1
  AckEvery = 2
  Capacity = 1
  Finishers = {"server"}
  Closers = {}
  MaxKills = 1
  MaxResets = 0
  MaxJoins = 1
  MaxSwitches = 0
  MaxRescues = 0
PROPERTIES
  Delivery
  EveryByteAcked
CHECK_DEADLOCK FALSE

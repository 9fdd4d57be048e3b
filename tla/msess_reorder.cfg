SPECIFICATION Spec
CONSTANTS
  Mode = "bond"
  NSub = 2
  Byte <- Bytes
  Data <- Upload4
  Window = 3
  SegmentSize = 1
  AckEvery = 2
  Capacity = 1
  Finishers = {"client"}
  Closers = {}
  MaxKills = 0
  MaxResets = 0
  MaxJoins = 1
  MaxSwitches = 0
  MaxRescues = 1
INVARIANTS
  DeliveredInOrder
  AckedIsConsumed
  WindowRespected
PROPERTIES
  ImplementsByteStream
CHECK_DEADLOCK FALSE

SPECIFICATION Spec
CONSTANTS
  Mode = "bond"
  NSub = 1
  Byte <- Bytes
  Data <- Upload1
  Window = 1
  SegmentSize = 1
  AckEvery = 2
  Capacity = 1
  Finishers = {"server"}
  Closers = {"client"}
  MaxKills = 1
  MaxResets = 1
  MaxJoins = 1
  MaxSwitches = 0
  MaxRescues = 0
INVARIANTS
  FinishedIsDelivered
  EndsAfterDelivery
CHECK_DEADLOCK FALSE

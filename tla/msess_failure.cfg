SPECIFICATION Spec
CONSTANTS
  Mode = "bond"
  NSub = 2
  Byte <- Bytes
  Data <- Upload2
  Window = 1
  SegmentSize = 1
  AckEvery = 2
  Capacity = 1
  Finishers = {"client"}
  Closers = {}
  MaxKills = 1
  MaxResets = 0
  MaxJoins = 1
  MaxSwitches = 0
  MaxRescues = 0
INVARIANTS
  NothingForgotten
  OneFin
  EofMeansAll
CHECK_DEADLOCK FALSE

INIT RInit
NEXT RNext
CONSTANTS
  Conds <- MCConds
  Names = {"n"}
  Users = {"u"}
  Proxies = {"x"}
  History = 2
  Starts <- MCStarts
INVARIANTS
  TreePerSet RedrawnAlike SavedAsDrawn
PROPERTIES
  UntouchedStays
CHECK_DEADLOCK FALSE

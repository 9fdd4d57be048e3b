INIT ConsoleInit
NEXT ConsoleNext
CONSTANTS
  Scenes <- NodePages
  Rendered = 2
  Questions = 3
  RowIds = {1, 2, 3}
  SortKey <- MCSortKey
  Sizes = {1, 2}
  Forests <- MCForests
  Logins = 2
  Outs = 2
  Elsewhere = 1
  Flows = 2
  Tokens = 2
  JobSteps = 3
  FieldEdits = 2
  NodeEntries <- MCEntries
  Typed <- MCTyped
  Links <- MCLinks
  ScaleMeshes <- MCScaleMeshes
  Meshes <- MCMeshes
  Me = "me"
  MyName = "me"
  MeshLooks = 1
  DotKeys = {"a", "b"}
  OwnActs = 2
  OtherActs = 1
  CanvasFails = 1
  Devices <- MCDevices
  PanActs = 5
  MaxZoom = 3
  Nics <- MCNics
  Subs <- MCSubs
  NewNames = {"n"}
  NicActs = 2
  NicOthers = 1
  IfaceLists <- MCIfaceLists
  Views <- MCViews
  Stored0 <- MCStored
  PathTexts <- MCPathTexts
  TargetOf <- MCTargetOf
  Several = {"a"}
  UserActs = 3
  LogLines = 2
  LogRestarts = 1
  LogRing = 2
  LogMax = 2
  LogPage = 1
  AuditPages = 3
  AuditLoads = 4
  AuditFilters = 2
  ImpNodes <- MCImpNodes
  HandFiles <- MCHandFiles
  ImpFails = 2
  FormSets <- MCFormSets
  FormEdits = 1
  CondDepth = 2
  LayoutConfigs <- MCLayoutConfigs
  Plans <- MCPlans
  Coming = {1, 2}
  PictureLooks = 3
CHECK_DEADLOCK FALSE
INVARIANT GraphWithinList

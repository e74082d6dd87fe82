SPECIFICATION Spec
CONSTANTS
  NULL = NULL
  Unreadable = Unreadable
  Atoi <- MCAtoi
  Lower <- MCLower
  Split <- MCSplit
  Worlds <- MCWorlds
  Options <- MCOptions
  Requests <- MCRequests
  MaxPid = 5
  Allow <- OneByOne
INVARIANTS Serving ConfigLayers PairsMatch
PROPERTIES RestartStarts StopStops
CHECK_DEADLOCK FALSE

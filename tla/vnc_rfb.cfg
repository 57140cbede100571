CONSTANTS
  Scripts <- MCScripts
  FrameSizes = {1, 4, 16, 64}
  BufSize = 16
  MaxBuf = 136
  Servers <- MCServers
  Stored = {"none", "password"}
  MaxUpdates = 1
  MaxSubmits = 2
  Rects = {r1, r2}
  MaxContexts = 1
  MaxOps = 4
  MaxPerUpdate = 3
  Breaks = TRUE
SPECIFICATION RfbSpec
INVARIANTS
  
  NoneLeft
  InTurn
  TornDown
  DrawnInOrder
PROPERTIES
  Settles
  UpdatesShown
CHECK_DEADLOCK FALSE

\* Claims: requests of two nodes in nested blocks, a job, a process that dies and its
\* PID used again. Upload: each kind of target, torn writes, deaths between any two
\* steps, a lost file, a taken name, a compute whose record goes; the client stops at
\* any moment.
SPECIFICATION RequestsSpec
CONSTANTS
  Procs <- MCProcs
  WebProcs <- MCProcs
  Nodes = {"A", "B"}
  NodeOf <- MCNodeOf
  PidOf <- MCPidOf
  Clock <- MCClock
  Threads <- MCThreads
  ProcOf <- MCProcOf
  Jobs = {"j"}
  Keys = {"compute", "instance"}
  Wants <- MCWants
  JobWants <- MCJobWants
  Timeout = 0
  Delay = 1
  TTL = 3
  MaxDepth = 2
  MaxTime = 3
  Requests = {"r1", "r2"}
  Keeper = "housekeeping"
  Setups <- UploadSetups
  Chunks = 2
  Size = 3
  Sizes = {1, 2}
  MaxArrivals = 3
  MaxFaults = 2
INVARIANTS BlocksExclude StoredIsSent AckedIsKept NothingLeft
PROPERTIES UploadEnds ForeignKept EndsForCause
CHECK_DEADLOCK FALSE

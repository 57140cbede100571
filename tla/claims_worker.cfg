\* The job worker's housekeeping ends an idle upload: its block has no timeout.
CONSTANTS
  Procs <- UploadProcs
  WebProcs = {"web1"}
  Nodes = {"A", "B"}
  NodeOf <- MCNodeOf
  PidOf <- MCPidOf
  Clock <- MCClock
  Threads = {"t1", "t2"}
  ProcOf <- UploadProcOf
  Jobs = {}
  Keys = {"upload"}
  Wants <- UploadWants
  JobWants <- MCJobWants
  Timeout = 1
  Delay = 1
  TTL = 4
  MaxDepth = 1
  MaxTime = 6
SPECIFICATION ClaimsSpec
INVARIANTS BlocksExclude

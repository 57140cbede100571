\* A cancelled migration and a job of the same VM.
CONSTANTS
  a1 = a1
  a2 = a2
  b1 = b1
  Jobs = {2, 3}
  Workers = {a1}
  Hosts <- MCHosts
  HostOf <- MCHostOf
  Resources <- MCResources
  Computes <- MCComputes
  Wanted <- MCWanted
  Cancellable = {2}
  HookWaits = {2}
  AnyErrorCancels = {2}
  TimeLimited = {}
  InRequest = {}
  Concurrency = 2
  ControlThreads = 2
  HooksMayFail = FALSE
  NoWorker = NoWorker
  Request = Request
SPECIFICATION Spec
INVARIANT HoldsWhatItChanges

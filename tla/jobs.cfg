\* Restart, take-over and lost leases; two jobs of one VM; the slots of a compute; a job of a request.
CONSTANTS
  a1 = a1
  a2 = a2
  b1 = b1
  Jobs = {1, 2, 3, 4}
  Workers = {a1, a2, b1}
  Hosts <- MCHosts
  HostOf <- MCHostOf
  Resources <- MCResources
  Computes <- MCComputes
  Wanted <- MCWanted
  Cancellable = {1}
  HookWaits = {1}
  AnyErrorCancels = {1}
  TimeLimited = {1}
  InRequest = {4}
  Concurrency = 2
  ControlThreads = 2
  HooksMayFail = TRUE
  NoWorker = NoWorker
  Request = Request
SPECIFICATION Spec
ACTION_CONSTRAINT Bounded
INVARIANTS TouchingHolds Attended Inv EffectsExclude HostShare
PROPERTIES RunsOnce OnlyHolderWrites ImplementsLifecycle

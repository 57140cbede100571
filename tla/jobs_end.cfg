\* Every job ends, over a restart of the worker.
CONSTANTS
  a1 = a1
  a2 = a2
  b1 = b1
  Jobs = {1}
  Workers = {a1, a2}
  Hosts <- MCHosts
  HostOf <- MCHostOf
  Resources <- MCResources
  Computes <- MCComputes
  Wanted <- MCWanted
  Cancellable = {1}
  HookWaits = {}
  AnyErrorCancels = {1}
  TimeLimited = {}
  InRequest = {}
  Concurrency = 2
  ControlThreads = 2
  HooksMayFail = FALSE
  NoWorker = NoWorker
  Request = Request
SPECIFICATION LiveSpec
PROPERTIES JobsEnd CancelEnds

\* A cancel hook that waits for libvirt's work, on the host the recovery of its own job needs.
CONSTANTS
  a1 = a1
  a2 = a2
  b1 = b1
  Jobs = {1}
  Workers = {a1}
  Hosts <- MCHosts
  HostOf <- MCHostOf
  Resources <- MCResources
  Computes <- MCComputes
  Wanted <- MCWanted
  Cancellable = {1}
  HookWaits = {1}
  AnyErrorCancels = {}
  TimeLimited = {}
  InRequest = {}
  Concurrency = 2
  ControlThreads = 2
  HooksMayFail = FALSE
  NoWorker = NoWorker
  Request = Request
SPECIFICATION LiveSpec
PROPERTIES JobsEnd

\* One hint, then refreshes that move on to another revision.
CONSTANTS
  Callers = {a}
  Refresher = refresher
  Watcher = watcher
  None = None
  Calls = {"refresh", "invalidate", "status"}
  Revisions = {"r1", "r2"}
  Streams = {"s"}
  MaxTime = 3
  SourceTimes = {1, 2}
  MaxSequence = 1
  FreshFor = 2
  MaxStaleness = 2
  MaxFutureSkew = 0
  MinRefreshInterval = 1
  ConvergenceWindow = 2
  MaxWaiters = 1
  MaxProviderLoads = 1
  MaxConcurrentProviderLoads = 1
  MaxInvalidationStreams = 1
  AllowStaleBootstrap = FALSE
  PolicyStaleness = 1
  HasCache = FALSE
  HasWatcher = FALSE
SPECIFICATION Spec
INVARIANT BreachIsUnmet
CHECK_DEADLOCK FALSE

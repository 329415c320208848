\* Two goroutines that load (Bootstrap with a cache fallback, Refresh), evaluate
\* and stop the fleet, over a clock long enough for a snapshot to pass both limits.
CONSTANTS
  Callers = {a, b}
  Refresher = refresher
  Watcher = watcher
  None = None
  Calls = {"bootstrap", "refresh", "evaluate", "shutdown", "invalidate", "status"}
  Revisions = {"r1"}
  Streams = {"s"}
  MaxTime = 3
  SourceTimes = {0, 1, 2}
  MaxSequence = 1
  FreshFor = 1
  MaxStaleness = 3
  MaxFutureSkew = 1
  MinRefreshInterval = 1
  ConvergenceWindow = 2
  MaxWaiters = 1
  MaxProviderLoads = 1
  MaxConcurrentProviderLoads = 1
  MaxInvalidationStreams = 1
  AllowStaleBootstrap = TRUE
  PolicyStaleness = 2
  HasCache = TRUE
  HasWatcher = FALSE
SYMMETRY Symmetry
SPECIFICATION Spec
CHECK_DEADLOCK FALSE
PROPERTIES ActiveAdvances NoRevival

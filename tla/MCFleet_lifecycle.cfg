\* Two goroutines of the application, both loops, two load attempts through one
\* slot; liveness, so no symmetry.  A stopped fleet may stop for good.
CONSTANTS
  Callers = {a, b}
  Refresher = refresher
  Watcher = watcher
  None = None
  Calls = {"start", "refresh", "shutdown"}
  Revisions = {"r1"}
  Streams = {"s"}
  MaxTime = 1
  SourceTimes = {1}
  MaxSequence = 1
  FreshFor = 1
  MaxStaleness = 1
  MaxFutureSkew = 0
  MinRefreshInterval = 1
  ConvergenceWindow = 2
  MaxWaiters = 1
  MaxProviderLoads = 2
  MaxConcurrentProviderLoads = 1
  MaxInvalidationStreams = 1
  AllowStaleBootstrap = FALSE
  PolicyStaleness = 1
  HasCache = FALSE
  HasWatcher = TRUE
SPECIFICATION FairSpec
INVARIANTS TypeOK FlightExact ShutdownQuiet
PROPERTIES ShutdownCompletes CallsReturn
CHECK_DEADLOCK FALSE

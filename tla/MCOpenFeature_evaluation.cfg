CONSTANTS
  Limits <- MCLimits
  MinutesPerDay = 3
  Zones <- MCZones
  Digest <- MCDigest
  LastParsed <- MCLastParsed
  Scenarios <- MCScenarios
  Home = "home"
  AdapterLimits <- MCAdapterLimits
  Heap <- MCHeap
  MaxInt64 <- MCMaxInt64
  Shutters = {s1, s2, s3}
SPECIFICATION Spec
INVARIANTS
  TypeOK
  AcceptedIsSound
  RefusalHasCause
  EvaluationAgrees
  EvaluationTotal
  TenantScoped
  ScheduleExact
  PortableEvaluation
  TransferComplete
  PreflightExact
  ShutdownOnce

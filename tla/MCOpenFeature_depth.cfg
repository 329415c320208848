CONSTANTS
  Limits <- MCShallowLimits
  MinutesPerDay = 3
  Zones <- MCZones
  Digest <- MCDigest
  LastParsed <- MCLastParsed
  Scenarios <- MCLines
  Home = "home"
  AdapterLimits <- MCAdapterLimits
  Heap <- MCHeap
  MaxInt64 <- MCMaxInt64
  Shutters = {s1}
SPECIFICATION Spec
INVARIANTS
  ExcessDepthRejected

SPECIFICATION Spec
CONSTANTS
  Tenants = {t1}
  Clients = {c1, c2}
  MaxStorageRetries = 1
  MaxRevision = 3
  k1 = k1
  g1 = g1
  None = None
  Keys = {k1}
  GroupKeys = {}
  Definitions <- PlainDefinitions
  GroupDefinitions = {}
  Documents <- OneFeature
  Times = {}
  MaxFeatures = 1
  MaxGroups = 0
  MaxGroupDepth = 0
  MaxEvaluationDepth = 0
  MaxAuditEntries = 0
  MaxStagedChanges = 1
  MaxVersion = 2
  MaxStages = 1
SYMMETRY Symmetry
INVARIANTS
  TypeOK
  WritesOnce
  ConflictsAreProgress
PROPERTIES
  KeepsContract

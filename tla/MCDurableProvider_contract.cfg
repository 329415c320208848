SPECIFICATION Spec
CONSTANTS
  Tenants = {t1}
  Clients = {c1}
  MaxStorageRetries = 1
  MaxRevision = 3
  k1 = k1
  g1 = g1
  None = None
  Keys = {k1}
  GroupKeys = {g1}
  Definitions <- GroupedDefinitions
  GroupDefinitions <- PlainGroup
  Documents = {}
  Times = {}
  MaxFeatures = 1
  MaxGroups = 1
  MaxGroupDepth = 0
  MaxEvaluationDepth = 0
  MaxAuditEntries = 0
  MaxStagedChanges = 1
  MaxVersion = 2
  MaxStages = 1
INVARIANTS SharedContract

SPECIFICATION HSpec
CONSTANTS
  Tenants = {t1}
  k1 = k1
  k2 = k2
  g1 = g1
  g2 = g2
  g3 = g3
  None = None
  Keys = {k1}
  GroupKeys = {g1, g2, g3}
  Definitions <- PlainDefinitions
  GroupDefinitions <- GroupChoices
  Documents <- GroupDocuments
  Times = {}
  MaxFeatures = 1
  MaxGroups = 3
  MaxGroupDepth = 1
  MaxEvaluationDepth = 1
  MaxAuditEntries = 2
  MaxStagedChanges = 0
  MaxVersion = 2
  MaxStages = 0
INVARIANTS
  GroupForest
  AuditCurrent

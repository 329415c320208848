SPECIFICATION HSpec
CONSTANTS
  Tenants = {t1}
  k1 = k1
  k2 = k2
  g1 = g1
  g2 = g2
  g3 = g3
  None = None
  Keys = {k1, k2}
  GroupKeys = {}
  Definitions <- StageDefinitions
  GroupDefinitions = {}
  Documents <- StageDocuments
  Times = {1, 2}
  MaxFeatures = 2
  MaxGroups = 0
  MaxGroupDepth = 0
  MaxEvaluationDepth = 1
  MaxAuditEntries = 0
  MaxStagedChanges = 2
  MaxVersion = 3
  MaxStages = 2
INVARIANTS TypeOK StageUnchanged
PROPERTIES VersionTracksChange

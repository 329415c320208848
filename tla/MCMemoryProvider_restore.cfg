SPECIFICATION HSpec
CONSTANTS
  Tenants = {t1}
  k1 = k1
  k2 = k2
  g1 = g1
  g2 = g2
  g3 = g3
  None = None
  Keys = {k1}
  GroupKeys = {g1}
  Definitions <- PlainDefinitions
  GroupDefinitions <- GroupChoices
  Documents = {}
  Times = {1}
  MaxFeatures = 1
  MaxGroups = 1
  MaxGroupDepth = 1
  MaxEvaluationDepth = 1
  MaxAuditEntries = 2
  MaxStagedChanges = 1
  MaxVersion = 4
  MaxStages = 1
INVARIANTS AssignedGroupsStored

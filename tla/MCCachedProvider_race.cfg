SPECIFICATION Spec
CONSTANTS
  Nil = Nil
  Callers = {c1, c2, c3}
  States = {s1, s2, s3}
  Tenants = {1}
  MaxTenants = 1
  MaxSequence = 2
  MaxStaleness = 1
  MaxOutageStaleness = 2
  FailOpen = TRUE
  Instants = {0}
  MaxVersion = 2
SYMMETRY Symmetry
CHECK_DEADLOCK FALSE
INVARIANTS
  TypeOK
  MutationFence
  TrackingExact
PROPERTIES
  PublicationOrder
  EarlierFetchSurvives

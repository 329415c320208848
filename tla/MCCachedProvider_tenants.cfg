SPECIFICATION Spec
CONSTANTS
  Nil = Nil
  Callers = {c1, c2}
  States = {s1, s2}
  Tenants = {1, 2}
  MaxTenants = 1
  MaxSequence = 1
  MaxStaleness = 1
  MaxOutageStaleness = 2
  FailOpen = TRUE
  Instants = {0, 2}
  MaxVersion = 2
SYMMETRY Symmetry
CHECK_DEADLOCK FALSE
INVARIANTS
  RetentionBound
  ReadYourWrites

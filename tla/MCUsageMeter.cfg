CONSTANTS
  s1 = s1
  s2 = s2
  j1 = j1
  Calls = {s1, s2, j1}
  MaxRuns <- MCMaxRuns
  Limit = 3
  Tokens = {0, 1, 2}
  Months = 2
  MaxFaults = 1
SPECIFICATION Spec
SYMMETRY Symmetry
INVARIANTS
  TypeOK
  CacheCoversLedger
  OvercountExpires
PROPERTIES
  AdmittedOnlyBelowLimit
  RefusedOnlyAboveHalf
CHECK_DEADLOCK FALSE

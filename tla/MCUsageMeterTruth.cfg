CONSTANTS
  s1 = s1
  s2 = s2
  j1 = j1
  Calls = {s1, s2, j1}
  MaxRuns <- MCMaxRuns
  Limit = 3
  Tokens = {0, 1, 2}
  Months = 1
  MaxFaults = 0
SPECIFICATION FairSpec
PROPERTY LedgerIsSourceOfTruth
CHECK_DEADLOCK FALSE

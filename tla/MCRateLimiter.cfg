CONSTANTS
  k1 = k1
  k2 = k2
  r1 = r1
  r2 = r2
  r3 = r3
  r4 = r4
  Requests = {r1, r2, r3, r4}
  ApiKeys = {k1, k2}
  KeyOf <- MCKeyOf
  RequestsPerMin <- MCRequestsPerMin
  MaxResends = 1
SPECIFICATION FairSpec
INVARIANTS
  TypeOK
  GrantsBounded
  OpenEndedOnlyByFault
PROPERTIES
  RetryAfterIsTold
  CleanWindowsClose
  MeetsContract
CHECK_DEADLOCK FALSE

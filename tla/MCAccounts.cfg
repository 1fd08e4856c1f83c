CONSTANTS
  Registrations = {r1, r2}
  Logins = {l1, l2}
  Sessions = {s1, s2, s3, s4}
  Others = {s3, s4}
  Calls = {c1, c2}
  Emails = {e1, e2}
  Passwords = {p1, p2}
  NoRow = NoRow
  MaxRequests = 8
  MaxFaults = 1
SPECIFICATION MCSpec
SYMMETRY Symmetry
INVARIANTS
  TypeOK
  LateRegistrationConflicts
  RegisteredCanLogIn
  OwnersOnly
  RevokedKeyIsInert
CHECK_DEADLOCK FALSE

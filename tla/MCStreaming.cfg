CONSTANT MaxChunks = 5
SPECIFICATION Spec
INVARIANTS
  TypeOK
  DoneMeansWhole
  EndIsTold
  AbortIsNoticed
CHECK_DEADLOCK FALSE

CONSTANTS
  e1 = e1
  Jobs = {e1}
  Attempts = 3
  MaxStalled = 1
  MaxFaults = 4
SPECIFICATION FairSpec
INVARIANTS
  TypeOK
  RowBeforeJob
  RepeatedOnlyByFault
  TriesAreCounted
  EndIsRecorded
  RevokedIsQuiet
PROPERTIES
  FinalStatusStays
  PendingIsResolved
  MeetsContract
CHECK_DEADLOCK FALSE

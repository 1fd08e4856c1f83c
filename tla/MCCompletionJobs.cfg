CONSTANTS
  j1 = j1
  p1 = p1
  Jobs = {j1}
  Attempts = 3
  MaxStalled = 1
  Polls = {p1}
SPECIFICATION FairSpec
INVARIANTS
  TypeOK
  AnnouncedOncePerStall
  ChargedTwiceOnlyByFault
  FailedEventIsFinal
PROPERTIES
  EveryJobSettles
  MeetsContract
CHECK_DEADLOCK FALSE

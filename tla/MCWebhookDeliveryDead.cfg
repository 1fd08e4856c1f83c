CONSTANTS
  e1 = e1
  Jobs = {e1}
  Attempts = 2
  MaxStalled = 0
  MaxFaults = 1
SPECIFICATION FairSpec
PROPERTY ExhaustedIsDeadLetter
CHECK_DEADLOCK FALSE

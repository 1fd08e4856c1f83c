CONSTANTS
  j1 = j1
  p1 = p1
  Jobs = {j1}
  Attempts = 3
  MaxStalled = 1
  Polls = {p1}
SPECIFICATION FairSpec
INVARIANT CompletedExactlyOnce
CHECK_DEADLOCK FALSE

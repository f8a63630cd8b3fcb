CONSTANTS
  f1 = f1  f2 = f2
  Friends = {f1, f2}
  Nobody = Nobody
  MaxOpens = 3
  MaxKeys = 2
  Scenarios <- MCViewers
SPECIFICATION FairSpec
CHECK_DEADLOCK FALSE
INVARIANTS MessagesAreReadable QuietReportsAreWhole CalmTransfersPayTheShown
PROPERTY TimelineSettles

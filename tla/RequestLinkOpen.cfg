CONSTANTS
  p1 = p1  p2 = p2
  Payers = {p1, p2}
  Nobody = Nobody
SPECIFICATION FairSpec
CHECK_DEADLOCK FALSE
PROPERTY OpenedLinkLoads

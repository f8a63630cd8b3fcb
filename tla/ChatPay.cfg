CONSTANTS
  p1 = p1  p2 = p2
  Pays = {p1, p2}
  Nobody = Nobody
  Scenarios <- MCChatPays
SPECIFICATION FairSpec
CHECK_DEADLOCK FALSE
INVARIANTS PaidRequestWasPaid CalmPaidOnce
PROPERTIES ProcessingEnds CalmExecutedIsPaid

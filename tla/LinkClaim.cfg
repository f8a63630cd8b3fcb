CONSTANTS
  c1 = c1  c2 = c2  c3 = c3
  Claims = {c1, c2, c3}
  Nobody = Nobody
  Scenarios <- MCAll
SPECIFICATION FairSpec
CHECK_DEADLOCK FALSE
INVARIANTS ClaimedLinkWasPaid CalmOneClaimIsPaid
PROPERTIES ClaimingEnds PaidLinkIsClaimed

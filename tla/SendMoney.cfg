CONSTANTS
  d1 = d1  d2 = d2
  Drafts = {d1, d2}
  Nothing = Nothing
  MaxQuotes = 3
  MaxSubmits = 2
  Settings <- MCPages
SPECIFICATION FairPaySpec
CHECK_DEADLOCK FALSE
INVARIANTS PayTypeOK PaidOnceUnlessLost ToldPaidIsPaid
PROPERTY LatestIsTold

CONSTANTS
  t1 = t1  t2 = t2
  Transfers = {t1, t2}
  MaxBlock = 5
  NoState = NoState
  Scenarios <- MCEvents
SPECIFICATION FairSyncSpec
CHECK_DEADLOCK FALSE
INVARIANTS NothingIsSkipped
PROPERTIES SettledIsRecorded RefinesFeed

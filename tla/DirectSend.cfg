CONSTANTS
  r1 = r1  r2 = r2  h1 = h1  h2 = h2  k1 = k1  q1 = q1  q2 = q2  i1 = i1
  None = None
  Requests = {r1, r2}
  Hashes = {h1, h2}
  TransferKeys = {k1}
  Quotes = {q1, q2}
  IdemKeys = {i1}
  Scenarios <- MCScenarios
  MissThreshold = 2
SPECIFICATION FairSpec
CHECK_DEADLOCK FALSE
INVARIANTS OneBroadcastPerIdempotencyKey QuoteBacksOneRecord SuccessIsOnChain CalmFailedIsNotExecuted
PROPERTIES CalmSuccessIsFinal RecordedTransferSettles

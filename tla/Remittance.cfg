CONSTANTS
  alice = alice  carol = carol
  Accounts = {alice, carol}
  Contracts = {carol}
  Deployer = carol
  Zero = Zero
  Funds = 2
  MaxId = 2
  MaxTime = 1
SPECIFICATION FairSpec
CHECK_DEADLOCK FALSE
INVARIANTS Solvency
PROPERTIES RefinesLedger FundsAreNotTrapped

CONSTANTS
  r1 = r1  r2 = r2  r3 = r3  r4 = r4
  Requests = {r1, r2, r3, r4}
  First = First
  Limit = 2
  Scenarios <- MCAccounts
SPECIFICATION Spec
CHECK_DEADLOCK FALSE
SYMMETRY MCSymmetry
INVARIANTS SerialSessionsKnowThePassword SerialSecretsAreUsedOnce SerialLockout
PROPERTIES ReplacedPasswordStaysReplaced SerialEndedSessionsStayEnded

CONSTANTS
  a = a  b = b  n1 = n1  n2 = n2
  People = {a, b}
  Phones = {n1, n2}
  None = None
  Scenarios <- MCAll
SPECIFICATION Spec
SYMMETRY Same
CHECK_DEADLOCK FALSE
INVARIANTS RegisteredWasConfirmed ActsOnTheSubmitted CalmPageShowsItsAccount
PROPERTIES CalmFreshSignInSurvives

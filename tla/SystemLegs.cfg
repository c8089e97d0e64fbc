SPECIFICATION Spec
CONSTANTS
  MaxHistory = 3
  MaxAsked = 3
  MaxDeaths = 1
INVARIANTS
  SystemOfFour
CHECK_DEADLOCK FALSE

SPECIFICATION Spec
CONSTANTS
  a = a
  b = b
  c = c
  Callers = {c1}
  RunIds = {"btts", "cards", "later", "tuned"}
  Ids = {a, b, c}
  Cutoffs = {1, 2}
  Requests <- SerialRequests
  MaxCalls = 3
  MaxCrashes = 0
INVARIANTS
  ReplayAccepted

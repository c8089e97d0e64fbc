SPECIFICATION Spec
CONSTANTS
  a = a
  b = b
  c = c
  Callers = {c1, c2}
  RunIds = {"btts", "cards"}
  Ids = {a, b}
  Cutoffs = {1}
  Requests <- ThreadRequests
  MaxCalls = 2
  MaxCrashes = 0
INVARIANTS
  ChainIntact

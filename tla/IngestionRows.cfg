SPECIFICATION Spec
CONSTANTS
  Inputs = {"a", "b", "c"}
  MatchIds = {1, 2, 3, 4}
  Rows <- Extracts
  IngestRunIds = {"r1", "r2", "r3"}
  Sources = {"s1", "s2"}
  Jobs <- Calls
  MaxRejection = 25
  MaxIngests = 2
  MaxCrashes = 0
INVARIANTS
  RowsAccounted

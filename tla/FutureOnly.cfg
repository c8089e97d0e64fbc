SPECIFICATION Spec
CONSTANTS
  SeasonRows = 3
  Holdout = 5
  MinFolds = 2
  MinRows = 4
INVARIANTS
  FutureOnly
CHECK_DEADLOCK FALSE

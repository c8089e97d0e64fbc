SPECIFICATION Spec
CONSTANTS
  Matches <- TwoMatches
  Proc = {1, 2}
  MaxRuns = 3
INVARIANTS
  OutcomeAfterPrediction
CHECK_DEADLOCK FALSE

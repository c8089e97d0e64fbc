SPECIFICATION Spec
CONSTANTS
  e1 = e1
  e2 = e2
  Events = {e1, e2}
  Kickoff <- Kickoff2
  Batches <- Batches2
  NoEvent = NoEvent
  Modes = {"shadow", "dry-run"}
  MaxAttempts = 2
  CircuitFailureThreshold = 2
  CircuitCooldown = 1
  Workers = {w1}
  MaxClock = 3
  MaxIterations = 3
  MaxInterrupts = 1
  MaxKills = 1
INVARIANTS
  ProcessedOnlyAfterOutcome
  StateFileAgrees

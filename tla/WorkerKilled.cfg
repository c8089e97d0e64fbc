SPECIFICATION FairSpec
CONSTANTS
  e1 = e1
  e2 = e2
  Events = {e2}
  Kickoff <- Kickoff1
  Batches <- Batches1
  NoEvent = NoEvent
  Modes = {"shadow"}
  MaxAttempts = 2
  CircuitFailureThreshold = 2
  CircuitCooldown = 1
  Workers = {w1}
  MaxClock = 1
  MaxIterations = 3
  MaxInterrupts = 0
  MaxKills = 1
PROPERTIES
  CrashRecovered

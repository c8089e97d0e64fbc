SPECIFICATION RecordsSpec
CONSTANTS
  a = a
  b = b
  c = c
  k1 = k1
  k2 = k2
  k3 = k3
  Callers = {c1}
  RunIds = {"btts", "cards", "later", "tuned"}
  Ids = {a, b, c}
  Cutoffs = {1, 2}
  Requests <- SerialRequests
  MaxCalls = 4
  MaxCrashes = 2
  SharedRequests <- ThreadRequests
  MaxThreadCalls = 3
  MaxThreadDeaths = 1
  Adapters = {a1}
  Keys = {k1, k2, k3}
  Markets = {"btts", "cards"}
  Notifications <- Signals
  Configs <- SerialConfigs
  MaxSends = 3
  MaxAdapterDeaths = 1
  MaxLost = 1
  Inputs = {"a", "b", "c"}
  MatchIds = {1, 2, 3, 4}
  Rows <- Extracts
  IngestRunIds = {"r1", "r2", "r3"}
  Sources = {"s1", "s2"}
  Jobs <- Calls
  MaxRejection = 25
  MaxIngests = 3
  MaxIngestDeaths = 1
  Processes = {p1, p2}
  Matches = {1, 2}
  Responses <- Lists
  Ttl = 1
  MaxFixtures = 1
  MaxTime = 1
  MaxRuns = 2
  MaxDeaths = 1
  MaxChanges = 1
  MaxBackups = 1
SYMMETRY ProcessSymmetry
INVARIANTS
  ChainIntact
  RecordMatchesArtifact
  AnswersAgree
  ResumedUnlessTorn
  PlansCovered
  BreaksContained
  DuplicatesExplained
  AttemptsInOrder
  DeliveriesAccounted
  OneInputPerMatch
  ManifestsStayValid
  RerunsAgree
  RowsLinked
  
  CountsAccounted
  AnalysesExplained
PROPERTIES
  ImplementsLog
  SettledIsFinal

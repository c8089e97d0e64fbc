SPECIFICATION LabSpec
CONSTANTS
  Events = {1, 2, 3}
  IdempotencyKey <- K
  BatchSize = 2
  BaseBackoff = 1
  MaxBackoff = 2
  MaxBackoffPower = 2
  MaxFaults = 2
  OddsRows = 4
  OddsFlawed = 1
  SeasonRows = 3
  Holdout = 5
  MinFolds = 2
  MinRows = 4
  HoldoutEdits = 2
  HoldoutStarts = 2
  FeatureMatches = {1, 2, 3, 4}
  Kickoffs = {1, 2, 4}
  NextSeason = 4
  Fixtures <- Pairings
  RefereeOf <- Referees
  Sparse <- Gaps
  EventTimes = {1, 2, 3}
  Windows = {1, 2}
  FatigueDays = 2
  RefereeWindow = 2
  ApiThreads = {1, 2}
  ApiRequests = 2
  ApiDeaths = 1
  ReadinessRows = 3
  ReadinessRuns = 2
  LedgerMatches <- TwoMatches
  LedgerProcesses = {1, 2}
  LedgerRuns = 3
  AccaHistory = 3
  AccaAsked = 3
  AccaDeaths = 1
  SourceCallers <- Calls
  SourceInterval = 2
  SourceMaxAge = 1
  SourceTimeout = 1
  SourceTime = 6
  WinTasks = {1, 2, 3}
  WinTries = 2
  WinFaults = 2
INVARIANTS
  NothingLost
  ComparisonSound
  NoLookahead
  ReportsSound
  PublishedAgree
  PointInTime
  AnswersAccountable
  ReadinessSound
  LedgerHonest
  AccumulatorsSound
  EstimatesExplained
  FetchesSound
PROPERTIES
  EverythingSettles
CHECK_DEADLOCK FALSE

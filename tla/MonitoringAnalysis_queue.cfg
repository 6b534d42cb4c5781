SPECIFICATION FairSpec
CONSTANTS
  m1 = m1
  m2 = m2
  u1 = u1
  Machine = {m1, m2}
  Monitors = {m1}
  Analyzers = {m1, m2}
  User = {u1}
  Modes <- AllCollect
  MaxActions = 1
  ThresholdCount = 2
  MaxRetry = 1
  MaxSession = 1
  MaxRequest = 1
  MaxDelete = 1
  MaxFailure = 0
  MaxCrash = 0
  AnalyzerStarts = TRUE
INVARIANTS
  CompletedMeansDecided
  ReportsExist
PROPERTIES
  QueueDrains
CHECK_DEADLOCK FALSE

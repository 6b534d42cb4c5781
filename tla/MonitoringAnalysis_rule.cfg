SPECIFICATION MonitoringSpec
CONSTANTS
  m1 = m1
  m2 = m2
  u1 = u1
  Machine = {m1, m2}
  Monitors = {m1, m2}
  Analyzers = {}
  User = {u1}
  Modes <- KillThenAnalyze
  MaxActions = 1
  ThresholdCount = 1
  MaxRetry = 1
  MaxSession = 2
  MaxRequest = 0
  MaxDelete = 0
  MaxFailure = 1
  MaxCrash = 1
  AnalyzerStarts = TRUE
INVARIANTS
  ActionsBounded
  StopsOnce
PROPERTIES
  ImplementsLifecycle
  EventuallyStopped
CHECK_DEADLOCK FALSE

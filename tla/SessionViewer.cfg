SPECIFICATION MCSpec
CONSTANTS
  MaxSession = 2
  MaxStage = 1
  Slots = 2
  MaxFault = 1
  Diagnoser = {"d1", "d2"}
  CollectorStatuses = {"Complete", "Error", "Cancelled", "InProgress"}
  AnalyzerStatuses = {"NotRequested", "Complete", "InProgress"}
  Requests = {"r1", "r2", "r3"}
  CoreRequests = {"c1", "c2"}
  HasThread = {"r1"}
  HasActivity = {"r1", "r2", "c1"}
  Elsewhere = {"r3"}
  Unfinished = {}
  MaxGets = 2
INVARIANTS
  TypeOK
  ListCoherent
  DownloadedIsCurrent
  RefreshedAsGenerated
  SummaryTruthful
  ShowsWhatIsActive
PROPERTIES
  Settles
CHECK_DEADLOCK FALSE

SPECIFICATION Spec
CONSTANTS
  i1 = i1
  i2 = i2
  Free = Free
  NoThread = NoThread
  Instance = {i1, i2}
  Runner = {i1, i2}
  Worker = {w1}
  MaxSession = 1
  TargetSets <- TargetsBoth
  MaxAge = 1
  MaxCrash = 1
  MaxMoveFail = 0
  AtomicWrites = TRUE
  Modes = {"CollectAndAnalyze"}
  Stalls = FALSE
INVARIANTS
  WriterHoldsLock
  CompleteMeansAnalyzed
PROPERTIES
  LogsKept
  FinishedNeverRestarts
  ClosedWhenFinished
SYMMETRY Machines
CHECK_DEADLOCK FALSE

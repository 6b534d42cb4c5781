SPECIFICATION Spec
CONSTANTS
  i1 = i1
  i2 = i2
  Free = Free
  NoThread = NoThread
  Instance = {i1, i2}
  Runner = {i1, i2}
  Worker = {w1}
  MaxSession = 1
  TargetSets <- TargetsBoth
  MaxAge = 0
  MaxCrash = 0
  MaxMoveFail = 0
  AtomicWrites = TRUE
  Modes = {"CollectAndAnalyze"}
  Stalls = FALSE
INVARIANTS
  NotLost
CHECK_DEADLOCK FALSE

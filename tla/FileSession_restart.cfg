SPECIFICATION FairSpec
CONSTANTS
  i1 = i1
  i2 = i2
  Free = Free
  NoThread = NoThread
  Instance = {i1, i2}
  Runner = {i1, i2}
  Worker = {w1}
  MaxSession = 1
  TargetSets <- TargetsFirst
  MaxAge = 3
  MaxCrash = 1
  MaxMoveFail = 1
  AtomicWrites = FALSE
  Modes = {"CollectAndAnalyze"}
  Stalls = FALSE
INVARIANTS
  TaskTracked
  OneLocation
PROPERTIES
  EventuallyClosed
CHECK_DEADLOCK FALSE

SPECIFICATION Spec
CONSTANTS
  i1 = i1
  i2 = i2
  Free = Free
  NoThread = NoThread
  Instance = {i1, i2}
  Runner = {i1}
  Worker = {w1, w2}
  MaxSession = 2
  TargetSets <- TargetsFirst
  MaxAge = 0
  MaxCrash = 1
  MaxMoveFail = 0
  AtomicWrites = TRUE
  Modes = {"Collect", "CollectAndAnalyze"}
  Stalls = FALSE
INVARIANTS
  AtMostOneActive
PROPERTIES
  ImplementsLifecycle
CHECK_DEADLOCK FALSE

SPECIFICATION Spec
CONSTANTS
  i1 = i1
  i2 = i2
  Instance = {i1, i2}
  Runner = {i2}
  MaxSession = 1
  Targets <- TargetsBoth
  Automatic = {}
  CollectOnly = {}
  MaxPosts = 3
  MaxDelete = 0
  MaxAge = 1
  MaxCrash = 1
INVARIANTS
  OneLauncher
  CompleteMeansAnalyzed
PROPERTIES
  CompleteWhenAllIn
  LogsKept
CHECK_DEADLOCK FALSE

SPECIFICATION FairSpec
CONSTANTS
  i1 = i1
  i2 = i2
  Instance = {i1, i2}
  Runner = {i1}
  MaxSession = 2
  Targets <- TargetsFirst
  Automatic = {1}
  CollectOnly = {2}
  MaxPosts = 2
  MaxDelete = 1
  MaxAge = 0
  MaxCrash = 1
PROPERTIES
  StatusKeepsResults
  ImplementsLifecycle
  QueuedIsAnalyzed
CHECK_DEADLOCK FALSE

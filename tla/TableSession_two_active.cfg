SPECIFICATION Spec
CONSTANTS
  i1 = i1
  i2 = i2
  Instance = {i1, i2}
  Runner = {i1, i2}
  MaxSession = 2
  Targets <- TargetsBoth
  Automatic = {}
  CollectOnly = {}
  MaxPosts = 2
  MaxDelete = 0
  MaxAge = 0
  MaxCrash = 0
INVARIANTS
  AtMostOneActive
CHECK_DEADLOCK FALSE

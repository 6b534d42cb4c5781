SPECIFICATION FairSpec
CONSTANTS
  i1 = i1
  i2 = i2
  Instance = {i1, i2}
  Runner = {i1, i2}
  MaxSession = 1
  Targets <- TargetsFirst
  Automatic = {}
  CollectOnly = {}
  MaxPosts = 2
  MaxDelete = 0
  MaxAge = 2
  MaxCrash = 1
PROPERTIES
  EventuallyClosed
CHECK_DEADLOCK FALSE

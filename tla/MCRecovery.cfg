SPECIFICATION RecoverySpec
CONSTANTS
  None = None
  Consumers = {c1}
  DedupKeys = {k1}
  MaxMessages = 2
  MaxAttempts = 1
  MaxRevivals = 1
  MaxDepth = 1
  Prefetch = 2
  Admins = {a1}
  AdminOps = {"enable", "upgrade"}
  Replicas = 2
  CrashThreshold = 3
  WindowElapses = FALSE
  MaxInstances = 3
  MaxVersion = 2
PROPERTIES
  EveryMessageSettles RefusalEnds
  CrashIsHandled CrashLoopEnds
CHECK_DEADLOCK FALSE

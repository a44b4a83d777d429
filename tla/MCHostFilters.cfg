SPECIFICATION HostSpec
CONSTANTS
  a1 = a1
  Admins = {a1}
  AdminOps = {"enable"}
  Replicas = 1
  CrashThreshold = 2
  WindowElapses = FALSE
  MaxInstances = 3
  MaxVersion = 1
INVARIANT RegisteredWithFilters
CHECK_DEADLOCK FALSE

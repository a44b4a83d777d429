SPECIFICATION CrashesSpec
CONSTANTS
  c1 = c1
  c2 = c2
  a1 = a1
  a2 = a2
  None = None
  Consumers = {c1, c2}
  DedupKeys = {}
  MaxMessages = 2
  MaxAttempts = 2
  MaxRevivals = 0
  MaxDepth = 1
  Prefetch = 1
  Admins = {a1, a2}
  AdminOps = {"enable", "disable", "upgrade", "rescan"}
  Replicas = 1
  CrashThreshold = 2
  WindowElapses = TRUE
  MaxInstances = 2
  MaxVersion = 1
SYMMETRY Symmetry
INVARIANTS
  RecoveryTypeOK
  DeliveryIsBounded
  HoldsItsPrefetch
PROPERTIES
  RegistrationIsSound
  ImplementsAtLeastOnce
CHECK_DEADLOCK FALSE

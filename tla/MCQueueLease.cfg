CONSTANTS
  c1 = c1
  c2 = c2
  k1 = k1
  None = None
  Consumers = {c1, c2}
  DedupKeys = {}
  MaxMessages = 1
  MaxAttempts = 2
  MaxRevivals = 0
  MaxDepth = 1
  Prefetch = 1
SPECIFICATION Spec
PROPERTY LeaseIsExclusive
CHECK_DEADLOCK FALSE

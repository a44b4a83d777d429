SPECIFICATION BreakerSpec
CONSTANTS
  FilterCalls = {f1, f2, f3}
  BackendCalls = {}
  FailureThreshold = 2
  OpenDuration = 1
  HalfOpenSuccesses = 2
PROPERTY ProbeIsAllowed

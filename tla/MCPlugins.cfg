SPECIFICATION PluginsSpec
CONSTANTS
  Requests = {r1, r2, r3}
  FilterCalls = {f1, f2}
  BackendCalls = {b1}
  FailureThreshold = 2
  OpenDuration = 1
  HalfOpenSuccesses = 2
  j1 = j1
  j2 = j2
  Jobs = {j1, j2}
  FiresIn <- SmallFiresIn
  TicksPerMinute = 2
  Hour = 1
  MaxMinute = 3
  Plugins = {p1, p2}
  Calls = {c1, c2, c3}
  TxIds = {t1, t2, t3}
  MaxOpen = 2
  NoPlugin = NoPlugin
  q1 = q1
  q2 = q2
  q3 = q3
  Reserves = {q1, q2}
  Restocks = {q3}
  Qty <- SmallQty
  Items <- SmallItems
  MaxReserveAttempts = 2
  MaxRestockAttempts = 2
  MaxVersion = 2
  NoOne = NoOne
  Packages <- SmallPackages
  Sizes = {1, 3}
  CoreMax = 0
  PluginMax = 2
  DefaultMaxMessageBytes = 4
  MaxMessages = 1
INVARIANTS
  PluginsTypeOK
  InstanceIsSafe
  RunsOfFailuresTrip
  TxIsSafe
  ProcessIsOrderly
PROPERTIES
  JobsFireInTheirMinute
  StockAddsUp
  DrainTerminates
  HealthyIsLetBack
  AbandonedIsRolledBack
  EveryRequestIsAnswered
CHECK_DEADLOCK FALSE

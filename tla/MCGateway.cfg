CONSTANTS
  r1 = r1
  app = app
  idp = idp
  Requests = {r1}
  Plugins = {app, idp}
  Generations <- SmallGenerations
  Chain <- SmallChain
  Entries = {app, "elsewhere"}
  Bodies = {"small", "large", "over"}
  Replies = {0, 700}
SPECIFICATION GatewaySpec
INVARIANTS
  ReservationsAreExact
  BackendIsGuarded
  LogKnowsWhatWasSent
PROPERTIES
  OnlyClientsHoldDrains
CHECK_DEADLOCK FALSE

CONSTANTS
  r1 = r1
  app = app
  idp = idp
  Requests = {r1}
  Plugins = {app, idp}
  Generations <- SmallGenerations
  Chain <- SmallChain
  Entries = {app}
  Bodies = {"small"}
  Replies = {200}
SPECIFICATION GatewaySpec
INVARIANTS
  DrainWaitsForCalls
CHECK_DEADLOCK FALSE

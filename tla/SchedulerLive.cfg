SPECIFICATION Spec
CONSTANTS
  c1 = c1
  c2 = c2
  Conversations <- TwoLanes
  MaxTurns = 2
  Origins = {"USER", "CRON"}
  UserPool = 1
  SystemPool = 1
INVARIANTS
  TypeOK
  ShutdownLeavesNothing
PROPERTIES
  EveryHandleResolves
  ShutdownFinishes
  CancelIsDelivered

SPECIFICATION FairSpec
CONSTANTS
  None = None
  gateway = gateway
  tui = tui
  shell = shell
  j1 = j1
  j2 = j2
  alice = alice
  bob = bob
  topic = topic
  Daemon = {gateway, tui}
  Cli = {shell}
  Up = {gateway}
  Job = {j1, j2}
  Request <- MCRequest
  Initial <- MCInitial
  Routes <- MCRoutes
  TTL = 2
  Window = 0
  SilentLimit = 2
  LockWait = 1
  MaxTime = 5
  MaxCalls = 2
INVARIANTS
  OneLiveOwner
  NoLeakedClaim
  OnlyEndedStall
PROPERTIES
  ForeignClaimsKept
  DueJobIsTaken
CHECK_DEADLOCK FALSE

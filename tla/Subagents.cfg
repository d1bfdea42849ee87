SPECIFICATION Spec
CONSTANTS
  s1 = s1
  s2 = s2
  h1 = h1
  h2 = h2
  NoSession = NoSession
  Sessions = {s1, s2}
  Handlers = {h1, h2}
  MaxAgents = 2
  MaxConcurrent = 1
  MaxSpawns = 2
INVARIANTS
  StopReachesAll
  CloseLeavesNothing
  SandboxesClosed
PROPERTIES
  StopsEnd
CHECK_DEADLOCK FALSE

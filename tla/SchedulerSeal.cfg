SPECIFICATION Spec
CONSTANTS
  c1 = c1
  c2 = c2
  Conversations <- OneLane
  MaxTurns = 2
  Origins = {"USER"}
  UserPool = 1
  SystemPool = 1
PROPERTY SealStopsStarts

SPECIFICATION Safety
CONSTANTS
  c1 = c1
  c2 = c2
  Conversations <- OneLane
  MaxTurns = 3
  Origins = {"USER", "CRON"}
  UserPool = 1
  SystemPool = 1
INVARIANTS
  OneOwner
  NoStrandedWork
  AppendOrder
  TerminalBeforeResult
  OutcomeStaysInConversation
PROPERTIES
  KeepsLedger

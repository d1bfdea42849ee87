SPECIFICATION Safety
CONSTANTS
  h1 = h1
  h2 = h2
  tui = tui
  Conversations = {tui}
  Session = tui
  MaxQuestions = 1
  Callers = {h1, h2}
  MaxTurns = 2
  HubMax = 1
INVARIANTS
  OneCancelError
CHECK_DEADLOCK FALSE

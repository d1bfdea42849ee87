SPECIFICATION Spec
CONSTANTS
  h1 = h1
  h2 = h2
  tui = tui
  Conversations = {tui}
  Session = tui
  MaxQuestions = 2
  Callers = {h1, h2}
  MaxTurns = 3
  HubMax = 1
INVARIANTS
  SlotFollowsTurn
  StreamsKeptApart
  AnswersTheQuestion
PROPERTIES
  EventsInOrder
  CancelFreesSlot
  HangupEndsTurns
CHECK_DEADLOCK FALSE

SPECIFICATION Spec
CONSTANTS
  None = None
  Writer = {w1, w2}
  Meta = {"blank", "titled"}
  Blank = "blank"
  MaxMsg = 3
  MaxEpoch = 2
SYMMETRY Symmetry
INVARIANTS
  TypeOK
  SavedTurnsSurvive
  NoResurrection
  NoDuplicates
  CurrentViewIsStored
PROPERTY
  EpochFencesHistory
CHECK_DEADLOCK FALSE

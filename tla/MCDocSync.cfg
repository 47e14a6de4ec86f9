SPECIFICATION Spec
CONSTANTS
  Texts <- MCTexts
  MaxLen = 4
  MaxEdit = 3
  MaxBatch = 3
INVARIANTS
  TextMirrored
  NeverOutOfBounds
CHECK_DEADLOCK FALSE

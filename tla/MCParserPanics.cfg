SPECIFICATION FrontSpec
CONSTANTS
  Fuel = 8
  Inputs <- MCOpenArrays
  Texts <- NoTexts
INVARIANTS
  NeverPanics
CHECK_DEADLOCK FALSE

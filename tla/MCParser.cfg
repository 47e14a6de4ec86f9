SPECIFICATION FrontSpec
CONSTANTS
  Fuel = 8
  Inputs <- MCInputs
  Texts <- MCTexts
INVARIANTS
  LosslessTree
  Binds
  CommentsBelong
  Accepts
  PanicsAreErrors
  Matched
  TokensMatch
  ErrorsTell
  TreeIsText
CHECK_DEADLOCK FALSE

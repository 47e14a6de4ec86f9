SPECIFICATION Spec
CONSTANTS
  Keys = {a}
  Main = Main
  Workers = {w1, w2}
  MaxText = 1
  MaxFile = 2
  MaxQueue = 2
  None = None
SYMMETRY MCSymmetry
INVARIANTS
  MissingUrlHasCause
  DivergenceHasCause
CHECK_DEADLOCK FALSE

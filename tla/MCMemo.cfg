SPECIFICATION Spec
CONSTANTS
  a = a
  b = b
  w1 = w1
  w2 = w2
  Paths = {a, b}
  Included <- MCTwo
  OnDisk = {a, b}
  Volatile = {b}
  Workers = {w1, w2}
  MaxText = 2
  MaxFile = 3
  MaxVersion = 1
  None = None
INVARIANTS
  EditAppliesSettings
  ReaderNoticesDeletion
  
SYMMETRY MCSymmetry
CHECK_DEADLOCK FALSE

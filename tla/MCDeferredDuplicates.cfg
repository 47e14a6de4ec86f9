SPECIFICATION Spec
CONSTANTS
  file = file
  f = f
  g = g
  n = n
  t1 = t1
  t2 = t2
  Sites <- MCSites
  File = file
  Parent <- MCParent
  Types = {t1, t2}
  Programs <- MCPrograms
  None = None
INVARIANT NoDuplicates
CHECK_DEADLOCK FALSE

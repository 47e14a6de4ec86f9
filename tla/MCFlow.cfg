SPECIFICATION Spec
CONSTANTS
  zero = zero
  one = one
  yes = yes
  no = no
  base = base
  derived = derived
  Kinds <- MCKinds
  DataOf <- MCDataOf
  Supers <- MCSupers
  FalsyData = {zero, no}
  True = yes
  None = None
  Values <- MCValues
  Families <- MCFamilies
  MaxDepth = 2
INVARIANTS
  TypesCanonical
  WrongHasCause
  JumpsReported
CHECK_DEADLOCK FALSE

SPECIFICATION FairSpec
CONSTANTS
  f1 = f1
  f2 = f2
  s1 = s1
  Files <- MCFiles
  Initial <- MCInitial
  Shards = 2
  ShardOf <- MCApart
  Includes <- MCIncludes
  Scanners = {w1}
  Viewers = {w2}
  MaxEdit = 2
  None = None
INVARIANTS
  ScanIsComplete
PROPERTIES
  ScanEnds
  WriteEnds
CHECK_DEADLOCK FALSE

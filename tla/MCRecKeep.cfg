SPECIFICATION Spec
CONSTANTS
  Records = {g1, g2, g3, bad}
  Bad = {bad}
  NoResign = {g1}
  NoRec = NoRec
  SizeCluster = 2
  SizeTable = 2
  MaxlenJob = 1
  MaxId = 4
  MaxCrash = 2
CHECK_DEADLOCK FALSE
INVARIANTS
  ArchivesWhole
  RestartFindsItsPool
  NoDuplicateInOneLife
  EmaFollowsStore
PROPERTIES
  ImplementsRecStore

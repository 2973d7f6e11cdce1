SPECIFICATION Spec
CONSTANTS
  Records = {g1, g2}
  Bad = {}
  NoResign = {g1}
  NoRec = NoRec
  SizeCluster = 2
  SizeTable = 1
  MaxlenJob = 1
  MaxId = 3
  MaxCrash = 2
CHECK_DEADLOCK FALSE
INVARIANT
  EncoderOpenForAppend

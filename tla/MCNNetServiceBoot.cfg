SPECIFICATION Spec
CONSTANTS
  Engines = {e1, e2}
  SizeBatch = 2
  MaxWait = 1
  LateBoot = TRUE
  MaxWght = 1
  MaxSubmit = 1
INVARIANT
  ResetFindsServiceIdle

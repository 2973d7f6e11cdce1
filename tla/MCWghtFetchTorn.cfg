SPECIFICATION Spec
CHECK_DEADLOCK FALSE
CONSTANTS
  MaxWght = 2
  NBlock <- MCNBlock
  MaxRetry = 2
  KillTears = TRUE
  MaxKill = 2
  MaxFail = 3
  MaxRollback = 1
PROPERTY
  ResumeWorks

SPECIFICATION MCSpec
CONSTANTS
  maxconn_sec = 2
  maxconn_min = 3
  cutconn_min = 3
  Second = 1
  Minute = 4
  max_accept = 1
  ClockStepsBack = TRUE
  MaxNow = 6
  MaxRefused = 1
  MaxCounted = 5
  Addrs = {a1, a2}
  ListLines = 2
  Ticks = 3
  NoFile = NoFile
  LenTot = 2
  LogLines = 7
  MaxLives = 3
  NoPw = NoPw
  MaxNo = 2
CHECK_DEADLOCK FALSE
INVARIANT RateLimited
INVARIANT StaleOnlyIfMissed
INVARIANT LinesKept
INVARIANT ServedIsKnown
PROPERTY DeniedOverLimit

SPECIFICATION Spec
CONSTANTS
  maxconn_sec = 2
  maxconn_min = 2
  cutconn_min = 3
  Second = 1
  Minute = 4
  max_accept = 2
  ClockStepsBack = FALSE
  MaxNow = 4
  MaxRefused = 2
  MaxCounted = 4
INVARIANT
  OpenSocketsBounded

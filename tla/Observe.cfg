SPECIFICATION Spec
CONSTANTS
  HALF = 4
  Bases <- LowAndHigh
  MAX_SESS = 2
  MAX_TOKEN = 1
  MAX_VER = 4
  NET = 2
  FAILURES = TRUE
INVARIANT
  AckedMeansSubscribed
PROPERTIES
  NeverBackwards
  CatchesUp
CHECK_DEADLOCK FALSE

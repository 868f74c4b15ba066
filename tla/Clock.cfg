SPECIFICATION Spec
CONSTANTS
  W = 5
  SHIFT = 4
  Steps <- OneOrThree
  TIMEOUT = 2
  INTERVAL = 1
  RETRY_MAX = 7
  OFFLINE_TIMES = 2
  FAR = 14
  PING = 5
  Intervals <- FiveOrTwo
INVARIANTS
  TimeoutAgrees
  DueAgrees
  RetryAgrees

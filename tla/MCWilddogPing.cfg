SPECIFICATION FairSpec
CONSTANTS
  PING_INTERVAL = 19
  PING_DELTA = 8
  MAX_PING_INTERVAL = 165
INVARIANTS
  PingInv
  IntervalBounded
PROPERTIES
  KeepsPinging
  LongUntilAnswered

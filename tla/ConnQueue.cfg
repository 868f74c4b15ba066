SPECIFICATION Spec
CONSTANTS
  NUM_REQ = 3
  NUM_AUTH = 0
  MAX_COUNT = 1
  Kinds = {"get", "on", "off"}
  Urls = {u, v}
  REENTRANT = FALSE
  LONG_UPTIME = FALSE
  AuthAnswers = {"OK"}
  PingAnswers = {}
  RETRANSMIT_INTERVAL = 1
  RETRANSMITE_TIME = 1
  SESSION_OFFLINE_TIMES = 1
  MAX_RETRY_TIME_INTERVAL = 1
  REQ_QUEUE_NUM = 1
  TIMEOUT_LIMIT = 0
  PING_INTERVAL = 1
  PING_DELTA = 0
  MAX_PING_INTERVAL = 1
  u = u
  v = v
SYMMETRY Paths
INVARIANTS
  TypeOK
  CountBookkeeping
  CalledOnce
PROPERTY
  RequestsKept

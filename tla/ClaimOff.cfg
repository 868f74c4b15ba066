SPECIFICATION Spec
CONSTANTS
  NUM_REQ = 2
  NUM_AUTH = 0
  MAX_COUNT = 1
  Kinds = {"get", "on", "off"}
  Urls = {"u", "v"}
  REENTRANT = FALSE
  LONG_UPTIME = FALSE
  AuthAnswers = {"OK", "OTHER"}
  PingAnswers = {}
  RETRANSMIT_INTERVAL = 1
  RETRANSMITE_TIME = 1
  SESSION_OFFLINE_TIMES = 1
  MAX_RETRY_TIME_INTERVAL = 1
  REQ_QUEUE_NUM = 2
  TIMEOUT_LIMIT = 1
  PING_INTERVAL = 1
  PING_DELTA = 0
  MAX_PING_INTERVAL = 1
PROPERTIES
  OffRemovesItsObserver

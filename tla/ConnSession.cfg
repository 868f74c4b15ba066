SPECIFICATION FairSpec
CONSTANTS
  NUM_REQ = 1
  NUM_AUTH = 1
  MAX_COUNT = 2
  Kinds = {"get", "on"}
  Urls = {"u"}
  REENTRANT = FALSE
  LONG_UPTIME = TRUE
  AuthAnswers = {"OK", "BAD_REQUEST", "PRECONDITION_FAIL", "OTHER", "SERVER_ERR", "BAD_PAYLOAD"}
  PingAnswers = {"OK", "BAD_REQUEST", "UNAUTHORIZED", "PRECONDITION_FAIL", "OTHER"}
  RETRANSMIT_INTERVAL = 1
  RETRANSMITE_TIME = 2
  SESSION_OFFLINE_TIMES = 2
  MAX_RETRY_TIME_INTERVAL = 2
  REQ_QUEUE_NUM = 1
  TIMEOUT_LIMIT = 1
  PING_INTERVAL = 1
  PING_DELTA = 0
  MAX_PING_INTERVAL = 1
INVARIANTS
  SessionConsistent
  AuthedIsOnline
  BackoffConsistent
  NothingForgotten
PROPERTIES
  KeepsTrying
  AcknowledgedIsQuiet
  RequestsEnd

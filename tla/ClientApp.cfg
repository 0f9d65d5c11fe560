SPECIFICATION FairSpec
CONSTANTS
  MAX_LOGS = 3
  MAX_SERVER_MSGS = 1
  AnswerLengths = {2, 4}
  MaxTyped = 1
  MaxSent = 3
  CONNECTED = CONNECTED
  DISCONNECTED = DISCONNECTED
INVARIANTS TypeOK Listens AbortsAfterLostNick
PROPERTIES NewestStay Drains
CHECK_DEADLOCK FALSE

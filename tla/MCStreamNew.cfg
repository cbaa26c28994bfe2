\* A page holds every notification; nothing needs to fail.
SPECIFICATION StreamLive
CONSTANTS
  Limit = 2
  StreamRetryMax = 2
  LoadAttempts = 1
  MaxCreated = 2
  MaxSignIns = 1
PROPERTIES
  NewIsShown
CHECK_DEADLOCK FALSE

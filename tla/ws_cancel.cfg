SPECIFICATION FairSpec
CONSTANTS
  Nobody = Nobody
  Senders = {}
  Closers = {}
  WriteTimeout = TRUE
  ReadTimeout = TRUE
  PingInterval = TRUE
  AutoPong = TRUE
  MaxIn = 1
  MaxSends = 1
PROPERTIES CancelEndsGoroutines
CHECK_DEADLOCK FALSE

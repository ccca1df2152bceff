SPECIFICATION FairSpec
CONSTANTS
  Nobody = Nobody
  Senders = {s1}
  Closers = {}
  WriteTimeout = TRUE
  ReadTimeout = FALSE
  PingInterval = FALSE
  AutoPong = TRUE
  MaxIn = 1
  MaxSends = 1
PROPERTIES WriteErrorEndsListen
CHECK_DEADLOCK FALSE

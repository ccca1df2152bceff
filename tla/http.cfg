SPECIFICATION FairSpec
CONSTANTS
  Methods = {"GET", "POST", "PUT"}
  Statuses = {200, 301, 303, 307}
  MaxRetries = 1
  MaxRedirects = 2
  RetryDelay = TRUE
INVARIANTS SocketsAccounted RequestFollowsTrail
PROPERTIES CallReturns
CHECK_DEADLOCK FALSE

SPECIFICATION FairSpec
CONSTANTS
  Users = {u1}
  MaxReconnects <- Unlimited
  ReconnectDelay = TRUE
  PingInterval = FALSE
  MaxDials = 2
  MaxMessages = 0
PROPERTIES ManualCloseStays
CHECK_DEADLOCK FALSE

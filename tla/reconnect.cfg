SPECIFICATION FairSpec
CONSTANTS
  Users = {u1}
  MaxReconnects = 1
  ReconnectDelay = TRUE
  PingInterval = TRUE
  MaxDials = 3
  MaxMessages = 1
INVARIANTS DialBound CurrentFresh  CallbackOrder
PROPERTIES CancelReturns LossIsNoticed
CHECK_DEADLOCK FALSE

SPECIFICATION Spec
CONSTANTS
  Nobody = Nobody
  Senders = {s1}
  Closers = {c1}
  WriteTimeout = TRUE
  ReadTimeout = TRUE
  PingInterval = FALSE
  AutoPong = TRUE
  MaxIn = 2
  MaxSends = 2
INVARIANTS FramesWhole OneFrameAfterClose OneLateMessage SocketAccounted
CHECK_DEADLOCK FALSE

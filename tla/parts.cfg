SPECIFICATION FairSpec
CONSTANTS
  C1 = C1
  C2 = C2
  K1 = K1
  K2 = K2
  L1 = L1
  L2 = L2
  A1 = A1
  R1 = R1
  E1 = E1
  E2 = E2
  Components = {"reader", "body", "stream", "events", "emitter", "debouncer", "tcp", "database", "paging"}
  MaxPayload = 2
  Lengths = {1, 3}
  MaxFrames = 3
  MaxContent = 3
  Limits = {0, 2}
  Base = 4
  Width = 2
  MaxFrame = 3
  Capacities = {0, 1, 3}
  Strings <- MCStrings
  MaxStrings = 3
  Adders = {A1}
  Reporters = {R1}
  Closers = {K1, K2}
  Listeners = {L1, L2}
  Chunks = {1, 2}
  Capacity = 1
  MaxAdds = 2
  MaxID = 2
  Emits = {E1, E2}
  MaxCalls = 3
  Timeout = TRUE
  MaxIn = 1
  Clients = {C1, C2}
  Configs <- Configurations
  DbClosers = {K1, K2}
  BatchLen = 2
  MaxExpires = 1
  MaxTries = 1
  MaxTicks = 1
  RowIDs <- MCRowIDs
  Limit = 2
  MaxChanges = 3
INVARIANTS MessagesInOrder BodyExplained StringsInOrder ChunksInOrder OnceRunsOnce SilenceExplained BatchAtomic SettingsStay WalkComplete
PROPERTIES CloseReleasesAll LatestCallRuns CancelEndsListen CallsReturn MaintenanceStops
CHECK_DEADLOCK FALSE

SPECIFICATION FairSpec
CONSTANTS
  MaxHeader = 5
  MaxRead = 3
  MaxPayload = 2
INVARIANTS TunnelGranted NothingLost
PROPERTIES DialKept DialReturns
CHECK_DEADLOCK FALSE

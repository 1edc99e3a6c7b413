CONSTANTS
  s1 = s1  s2 = s2  k1 = k1  k2 = k2
  MaxElapsed = 4
  InitialDelay = 1
  MaxFetch = 1
  Late = 1
  Payload <- MCPayload
  Horizon = 7
  Transfer <- MCTransfer
  Crashes = 1
SPECIFICATION BridgeSpec
CHECK_DEADLOCK FALSE
INVARIANT StopsInTime

CONSTANTS
  Routers = {1, 2, 3}
  Neighbours <- Line
  HopCount <- LineHops
  RIP_MAX_HOP = 3
  FAILED_LIMIT = 1
  MAX_Q_SIZE = 2
  MaxCrashes = 1
  MaxUnread = 0
SPECIFICATION Spec
INVARIANTS TypeOK DirectMeansAdjacent NeverUnderstates ForwardingDescends QuietMeansExact
PROPERTIES Relaxes SettledStays

CONSTANTS
  Routers = {1, 2}
  Neighbours <- Pair
  HopCount <- LineHops
  RIP_MAX_HOP = 3
  FAILED_LIMIT = 1
  MAX_Q_SIZE = 2
  MaxCrashes = 0
  MaxUnread = 0
SPECIFICATION FairSpec
PROPERTIES RunningNeighboursBecomeDirect

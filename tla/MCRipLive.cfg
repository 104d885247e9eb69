CONSTANTS
  Routers = {1, 2, 3}
  Neighbours <- Line
  HopCount <- LineHops
  RIP_MAX_HOP = 3
  FAILED_LIMIT = 0
  MAX_Q_SIZE = 4
  MaxCrashes = 1
  MaxUnread = 0
SPECIFICATION RunningSpec
PROPERTIES Converges

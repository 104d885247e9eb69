CONSTANTS
  MaxStarts = 2
  MaxRows = 1
  MaxBacklog = 1
  MaxFd = 2
SPECIFICATION FairSpec
PROPERTY ProcessesPackets
CHECK_DEADLOCK FALSE

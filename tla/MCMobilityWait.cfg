CONSTANTS
  m1 = m1
  m2 = m2
  n1 = n1
  n2 = n2
  Mobiles = {m1}
  Nets = {n1, n2}
  Home = home
  Off = off
  Nobody = nobody
  NoSocket = none
  AddressCount = 2
  Path <- OneWay
  MaxMsgs = 1
  MaxIP = 0
  MaxLost = 0
SPECIFICATION FairSpec
PROPERTY WaitEnds
CHECK_DEADLOCK FALSE

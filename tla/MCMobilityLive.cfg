CONSTANTS
  m1 = m1
  m2 = m2
  n1 = n1
  n2 = n2
  Mobiles = {m1}
  Nets = {n1, n2}
  Home = home
  Off = off
  Nobody = nobody
  NoSocket = none
  AddressCount = 2
  Path <- HomeBetween
  MaxMsgs = 1
  MaxIP = 1
  MaxLost = 1
SPECIFICATION FairSpec
PROPERTIES RegisteredThroughHomeAgent 
CHECK_DEADLOCK FALSE

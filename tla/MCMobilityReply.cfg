CONSTANTS
  m1 = m1
  m2 = m2
  n1 = n1
  n2 = n2
  Mobiles = {m1}
  Nets = {n1, n2}
  Home = home
  Off = off
  Nobody = nobody
  NoSocket = none
  AddressCount = 3
  Path <- OneWay
  MaxMsgs = 2
  MaxIP = 0
  MaxLost = 0
SPECIFICATION Spec
PROPERTY ReplyMeansLocationKnown
CHECK_DEADLOCK FALSE

CONSTANTS
  m1 = m1
  m2 = m2
  n1 = n1
  n2 = n2
  Mobiles = {m1, m2}
  Nets = {n1}
  Home = home
  Off = off
  Nobody = nobody
  NoSocket = none
  AddressCount = 2
  Path <- Shared
  MaxMsgs = 1
  MaxIP = 0
  MaxLost = 0
SPECIFICATION ColdSpec
INVARIANTS TypeOK BindingsWereGranted
PROPERTIES Registers 
CHECK_DEADLOCK FALSE

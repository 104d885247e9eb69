CONSTANTS
  Routers <- MCRouters
  Home <- MCHome
  Foreign <- MCForeign
  Mobiles <- MCMobiles
  Cn <- MCCn
  Destinations <- MCDestinations
  Offered <- MCOffered
  Temporary <- MCTemporary
  NextHop <- MCNextHop
  Garbage <- MCGarbage
  LIFE_TIME <- MCLifeTime
  Distances <- MCDistances
  MaxWire = 1
  MaxIP = 1
SPECIFICATION Spec
INVARIANTS TypeOK ReadAsMeant BoundWhereAsked AnswersGoToSender

CONSTANTS
  MobileUnits = {m1, m2}
  NoOne = NoOne
  Garbage = Garbage
  MAX_CARE_OF_ADDRESS = 2
  LIFE_TIME = 1
SPECIFICATION Spec
PROPERTIES FlaggedOnlyWhenExpired

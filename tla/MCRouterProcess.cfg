CONSTANTS
  MaxStarts = 2
  MaxRows = 1
  MaxBacklog = 1
  MaxFd = 2
SPECIFICATION FairSpec
INVARIANTS TypeOK SendersClose MutualExclusion
PROPERTIES OnlyCurrentSpeaks RouterReturns ListensAgain
CHECK_DEADLOCK FALSE

SPECIFICATION FairSpec
CONSTANTS
  Word = 256
  CoarseSecs = 4
  CallsPerPeriod = 2
  MaxTicks = 9
  MaxTries = 6
  Acks <- OrdinaryAcks
  MemFails = FALSE
PROPERTY LeaseUsedFully

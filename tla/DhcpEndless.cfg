SPECIFICATION FairSpec
CONSTANTS
  Word = 256
  CoarseSecs = 4
  CallsPerPeriod = 1
  MaxTicks = 9
  MaxTries = 6
  Acks <- EndlessAcks
  MemFails = FALSE
PROPERTY LeaseUsedFully

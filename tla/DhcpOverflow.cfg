SPECIFICATION Spec
CONSTANTS
  Word = 256
  CoarseSecs = 4
  CallsPerPeriod = 2
  MaxTicks = 9
  MaxTries = 6
  Acks <- OverflowAcks
  MemFails = FALSE
INVARIANT SafePeriods

SPECIFICATION FairSpec
CONSTANTS
  Cyclic = {"coarse", "fine"}
  Interval <- MCInterval
  Pool = 4
  Step = 2
  Modulus = 26
  MaxLag = 2
  Polled <- DnsOnly
  Threshold <- MCThreshold
  Width <- MCWidth
INVARIANTS TypeOK TimersKept ExpiresOnTime PolledOnTime
PROPERTY CyclicKeepsRunning

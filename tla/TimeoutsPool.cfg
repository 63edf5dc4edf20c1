SPECIFICATION Spec
CONSTANTS
  Cyclic = {"reass", "arp", "coarse", "fine", "dns"}
  Interval <- MCInterval
  Pool = 6
  Step = 2
  Modulus = 32
  MaxLag = 1
  Polled <- NoCounters
  Threshold <- MCThreshold
  Width <- MCWidth
INVARIANT MqttTimerRuns

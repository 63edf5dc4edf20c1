SPECIFICATION FairSpec
CONSTANTS
  Step = 2
  Modulus = 9
  ReconnectWait = 4
  PublishTicks = 1
  RingSize = 15
  MaxRequests = 4
  ConnectLen = 2
  PublishLen = 5
  SubscribeLen = 1
  PingLen = 1
PROPERTY ConnectSettles

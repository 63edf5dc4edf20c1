SPECIFICATION Spec
CONSTANTS
  RingSize = 256
  MaxRequests = 4
  ReqTimeout = 6
  ConnectTimeout = 20
  KeepAlive = 12
  ConnectLen = 34
  PublishLen = 82
  SubscribeLen = 17
  PingLen = 2
  MaxHeld = 512
INVARIANT RingLenCorrect

SPECIFICATION Spec
CONSTANTS
  RingSize = 5
  MaxRequests = 4
  ReqTimeout = 3
  ConnectTimeout = 2
  KeepAlive = 2
  ConnectLen = 1
  PublishLen = 3
  SubscribeLen = 2
  PingLen = 1
  MaxHeld = 10
INVARIANTS TypeOK RequestTime SendsWhatWasPut
PROPERTY LengthLostOnlyWhenFull

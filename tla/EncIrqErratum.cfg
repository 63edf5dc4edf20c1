SPECIFICATION FairSpec
CONSTANTS
  MaxPkt = 2
  MaxCounter = 2
PROPERTY PacketsTaken

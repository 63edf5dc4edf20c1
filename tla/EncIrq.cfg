SPECIFICATION FairSpec
CONSTANTS
  MaxPkt = 2
  MaxCounter = 2
INVARIANTS TypeOK NoLostWakeup TxExclusive CompletionKept ReadsArrivedPacket EnabledLinkClearable
PROPERTIES FlagsServiced TxReleased

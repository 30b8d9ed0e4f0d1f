SPECIFICATION FairSpec
CONSTANTS
  a = a
  b = b
  DevA = a
  DevB = b
  NoPacket = NoPacket
  QueueLimit = 2
  MaxSends <- SixOne
  EtherTypes <- IPv4Only
  ConfigProtocol = 33
  Compressing <- OneEnd
  FlowControl = TRUE
  ReceiveErrors = FALSE
INVARIANT
  AtMostOneDiscard
PROPERTIES
  FlowControlHolds
  FirstDequeueWakes
  StoppedIsWoken
CHECK_DEADLOCK FALSE

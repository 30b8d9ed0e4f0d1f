SPECIFICATION FairSpec
CONSTANTS
  a = a
  b = b
  DevA = a
  DevB = b
  NoPacket = NoPacket
  QueueLimit = 2
  MaxSends <- FourOne
  EtherTypes <- IPv4And6
  ConfigProtocol = 33
  Compressing <- BothEnds
  FlowControl = FALSE
  ReceiveErrors = TRUE
INVARIANTS
  TypeOK
  TxMachine
  NoStrandedFrame
  InOrder
  Conservation
  CompressionSticks
  OthersUnaltered
PROPERTY
  ImplementsFifoLink
CHECK_DEADLOCK FALSE

SPECIFICATION Spec
CONSTANTS
  a = a
  b = b
  DevA = a
  DevB = b
  NoPacket = NoPacket
  QueueLimit = 2
  MaxSends <- TwoEach
  EtherTypes <- IPv4And6
  ConfigProtocol = 33
  Compressing <- BothEnds
  FlowControl = FALSE
  ReceiveErrors = FALSE
INVARIANT
  ProtocolDefined
CHECK_DEADLOCK FALSE

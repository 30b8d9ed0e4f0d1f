SPECIFICATION TimedSpec
CONSTANTS
  a = a
  b = b
  DevA = a
  DevB = b
  NoPacket = NoPacket
  QueueLimit = 2
  MaxSends <- FiveNone
  EtherTypes <- IPv4Only
  ConfigProtocol = 33
  Compressing <- NoDevice
  FlowControl = TRUE
  ReceiveErrors = FALSE
  TxTimes <- FrameTimes
  Gaps <- FrameGaps
  Delay = 3
INVARIANTS
  WireInEventOrder
  CompletionIsCurrent
  FramesDoNotOverlap
  Punctual
  WokenWithinAFrame
PROPERTY
  ImplementsDevices
CHECK_DEADLOCK FALSE

SPECIFICATION Spec
CONSTANTS
  Limits <- PacketsAndBytes
  Mtu = 8
  PacketSizes <- ShortAndMtu
  Overheads <- PppAndLzs
  MaxSends = 5
INVARIANTS
  CountersAgree
  StoppedIsServed
PROPERTIES
  OnlyLongFramesDiscarded
  StoppedQueueIsWoken
CHECK_DEADLOCK FALSE

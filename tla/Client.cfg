SPECIFICATION FairClientSpec
CONSTANTS
  ClientCounts <- Boundaries
  ClientPacketSize = 4
  FillSizes <- AnyFill
  Rows = 8
  RowBytes = 4
  U32 = 32
  SendBound = 40
INVARIANTS
  EventHasSocket
  SendPlan
  RowsFitOnce
  CopyFits
  SizesAgree
PROPERTY
  AllSent
CHECK_DEADLOCK FALSE

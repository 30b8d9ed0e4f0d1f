SPECIFICATION ClientSpec
CONSTANTS
  ClientCounts <- AllRows
  ClientPacketSize = 4
  FillSizes <- NoFill
  Rows = 8
  RowBytes = 4
  U32 = 32
  SendBound = 40
INVARIANT
  RowsInArray
CHECK_DEADLOCK FALSE

SPECIFICATION ClientSpec
CONSTANTS
  ClientCounts <- OneRowLess
  ClientPacketSize = 4
  FillSizes <- NoFill
  Rows = 8
  RowBytes = 4
  U32 = 32
  SendBound = 40
INVARIANT
  RowsAreRandom
CHECK_DEADLOCK FALSE

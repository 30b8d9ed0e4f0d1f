SPECIFICATION Spec
CONSTANTS
  MaxLength = 14
  Pad = 8
  MinStream = 9
  Expansion = 9
  HeaderBytes = 2
  Beyond = 2
  U32 = 1024
INVARIANT
  OriginalReturned
CHECK_DEADLOCK FALSE

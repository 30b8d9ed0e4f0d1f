SPECIFICATION FairSpec
CONSTANTS
  PatternSizes <- Patterns
  DataSizes <- AllSizes
  U32 = 16
  MaxCalls = 3
INVARIANTS
  InsideBuffer
  Repeated
PROPERTY
  Returns
CHECK_DEADLOCK FALSE

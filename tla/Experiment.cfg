SPECIFICATION Spec
CONSTANTS
  ClientCounts <- ClientThree
  ClientPacketSize = 4
  FillSizes <- NoFill
  Rows = 3
  RowBytes = 4
  U32 = 64
  SendBound = 9
  ServerCounts <- ServerAny
  ServerPacketSize = 1
  U16 = 5
  Threshold = 8
  Interval = 3
  Delays <- AnyPath
  ClientStart = 4
  OtherStartSets <- AloneProjectOrLate
  StopTime = 44
  Sleep = 50
  EventCosts <- BusyHost
  MaxLosses = 2
INVARIANTS
  OwnPauseInNoWindow
  PausesCancel
  NoFalseAlarm
  MeasuredInTime
  SparePacketOpensWindow
  FirstTrainEnds
  PauseNeverDetected
  DetectedIsMeasured
CHECK_DEADLOCK FALSE

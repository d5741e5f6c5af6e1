SPECIFICATION FairSpec
CONSTANTS
  Byte <- MCByte
  MaxSize = 1
  MaxBytes = 7
INVARIANTS
  TypeOK
  BufferBounded
  BufferIsTail
  FramesSound
  EventsOrdered
  FramesComplete
  LinesSound
PROPERTY ScanReturns
CHECK_DEADLOCK FALSE

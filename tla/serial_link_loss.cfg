SPECIFICATION LinkSpec
CONSTANTS
  Byte <- LossyByte
  MaxSize = 1
  MaxBytes = 40
  MaxMessages = 6
  MaxWire = 5
  Payload <- LossyPayload
  TextByte <- LossyText
  DevStart1 = 148
  DevStart2 = 195
  MaxLoss = 1
INVARIANTS Resynchronises FramesAreGenuine StaysInStep
CHECK_DEADLOCK FALSE

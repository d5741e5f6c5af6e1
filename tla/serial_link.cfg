SPECIFICATION LinkFairSpec
CONSTANTS
  Byte <- CleanByte
  MaxSize = 2
  MaxBytes = 40
  MaxMessages = 5
  MaxWire = 6
  Payload <- CleanPayload
  TextByte <- CleanText
  DevStart1 = 148
  DevStart2 = 195
  MaxLoss = 0
PROPERTIES ImplementsChannel FramesDelivered LinesDelivered
CHECK_DEADLOCK FALSE

SPECIFICATION PlaySpec
CONSTANTS
  Size = 32
  Bytes <- MCBytes
  MaxLen = 5
  Frame = 5
  CanSpeak = TRUE
INVARIANTS PlayTypeOK LoadFits
PROPERTIES RingIsFifo LoadsOldest FramesInOrder
CHECK_DEADLOCK FALSE

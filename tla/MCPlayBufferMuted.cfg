SPECIFICATION PlaySpec
CONSTANTS
  Size = 32
  Bytes <- MCBytes
  MaxLen = 5
  Frame = 5
  CanSpeak = FALSE
INVARIANT SaveFits
CHECK_DEADLOCK FALSE

SPECIFICATION Spec
CONSTANTS
  Cmds <- MCCmds
  Lens = {1, 2}
  MaxSent = 1
  Strays <- MCStrays
PROPERTY FirstPacketInTime
CHECK_DEADLOCK FALSE

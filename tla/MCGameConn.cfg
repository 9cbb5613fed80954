SPECIFICATION Spec
CONSTANTS
  Cmds <- MCCmds
  Lens = {1, 2}
  MaxSent = 3
  Strays <- MCStrays
INVARIANTS TypeOK HandledAsSent
PROPERTIES LimitOnlyForFirst HeaderInTime LostConnectionEnds
CHECK_DEADLOCK FALSE

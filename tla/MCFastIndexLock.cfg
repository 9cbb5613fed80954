SPECIFICATION Spec
CONSTANTS
  Conns = {c1, c2}
  Deleters = {d1}
  Players = {p1}
  Nobody = Nobody
  MaxCount = 3
INVARIANT TypeOK
PROPERTIES Implements LockReleased
CHECK_DEADLOCK FALSE

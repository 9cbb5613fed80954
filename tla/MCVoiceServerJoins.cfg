SPECIFICATION Spec
CONSTANTS
  Conns = {c1, c2}
  Workers = {w1}
  PlayerIDs = {id1, id2}
  GroupIDs = {gid1, gid2}
  Players = {p1, p2, p3}
  Groups = {g1, g2}
  Addrs = {a1}
  Nobody = Nobody
  MaxCount = 2
  Lost = 0
  MaxTime = 0
  MaxBusy = 2
  SpeakBits = {TRUE}
  AttrFlags <- MCNoAttr
INVARIANTS GroupIsolation PlacesAreTrue AnswersAreTrue DiesOnlyWhenFull
PROPERTIES OccupiedSlotKept TurnsAwayOnlyWhenFull
SYMMETRY MCSymmetry
CHECK_DEADLOCK FALSE

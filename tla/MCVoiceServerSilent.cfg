SPECIFICATION Spec
CONSTANTS
  Conns = {c1}
  Workers = {w1}
  PlayerIDs = {id1, id2}
  GroupIDs = {gid1}
  Players = {p1, p2}
  Groups = {g1}
  Addrs = {a1}
  Nobody = Nobody
  MaxCount = 2
  Lost = 0
  MaxTime = 1
  MaxBusy = 2
  SpeakBits = {TRUE}
  AttrFlags <- MCNoAttr
PROPERTIES EvictedOnlyWhenSilent
SYMMETRY MCSymmetry
CHECK_DEADLOCK FALSE

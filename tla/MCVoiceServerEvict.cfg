SPECIFICATION Spec
CONSTANTS
  Conns = {c1}
  Workers = {w1, w2}
  PlayerIDs = {id1, id2}
  GroupIDs = {gid1, gid2}
  Players = {p1, p2, p3}
  Groups = {g1, g2}
  Addrs = {a1}
  Nobody = Nobody
  MaxCount = 3
  Lost = 1
  MaxTime = 2
  MaxBusy = 3
  SpeakBits = {TRUE}
  AttrFlags <- MCNoAttr
INVARIANTS TypeOK SlotsHandedOutOnce AckStaysInGroup Alive PlacesAreTrue 
SYMMETRY MCSymmetry
CHECK_DEADLOCK FALSE

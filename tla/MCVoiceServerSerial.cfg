SPECIFICATION Spec
CONSTANTS
  Conns = {c1}
  Workers = {w1}
  PlayerIDs = {id1, id2}
  GroupIDs = {gid1, gid2}
  Players = {p1, p2, p3}
  Groups = {g1, g2}
  Addrs = {a1, a2}
  Nobody = Nobody
  MaxCount = 3
  Lost = 1
  MaxTime = 2
  MaxBusy = 1
  SpeakBits = {TRUE, FALSE}
  AttrFlags <- MCAttrFlags
INVARIANTS ViewsAgree CountIsMembers LatestAckWorks
PROPERTIES ImplementsRoster
SYMMETRY MCSymmetry
CHECK_DEADLOCK FALSE

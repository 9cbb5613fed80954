------------------------- MODULE VoiceServerProofs -------------------------
(***************************************************************************)
(* Proofs about VoiceServer, for any number of connections, datagrams,     *)
(* players and groups: the index table by itself (FastIndex), that the     *)
(* server uses it as FastIndex says, its types, and that voice never       *)
(* crosses groups.                                                         *)
(*                                                                         *)
(* The argument for the last rests on what never changes: the player ID    *)
(* and the group of a player object, and the ID of a group object.  The    *)
(* invariant says that every pointer, in the maps or held by a goroutine,  *)
(* leads to an object of the identity it was taken for, also when another  *)
(* goroutine has removed that object or put a second one beside it.        *)
(***************************************************************************)
EXTENDS VoiceServer, TLAPS

-----------------------------------------------------------------------------
(***************************************************************************)
(* The index table.                                                        *)
(*                                                                         *)
(* Its types, and that an Add takes no slot in use.                        *)
(***************************************************************************)
\* One step of the table keeps its types, whatever the connections race on: a
\* cursor stored late is still a slot plus one, and a lost Count++ is still a count.
LEMMA IndexTypeStep ==
  ASSUME IndexTypeOK, [IndexNext]_indexVars
  PROVE  IndexTypeOK'
<1> USE FastIndexAssumption DEF FastIndexAssumption, IndexTypeOK, NotAdding, AddSteps, NotFound, Slots
<1>1. ASSUME NEW c \in Conns, Admit(c)
      PROVE  IndexTypeOK'
  BY <1>1 DEF Admit
<1>2. ASSUME NEW c \in Conns, Abandon(c)
      PROVE  IndexTypeOK'
  BY <1>2 DEF Abandon
<1>3. ASSUME NEW c \in Conns, NEW v \in Players, Claim(c, v)
      PROVE  IndexTypeOK'
  BY <1>3 DEF Claim
<1>4. ASSUME NEW c \in Conns, NEW v \in Players, FindNone(c, v)
      PROVE  IndexTypeOK'
  BY <1>4 DEF FindNone
<1>5. ASSUME NEW c \in Conns, ProbePastEnd(c)
      PROVE  IndexTypeOK'
  BY <1>5 DEF ProbePastEnd
<1>6. ASSUME NEW c \in Conns, LoadCount(c)
      PROVE  IndexTypeOK'
  BY <1>6 DEF LoadCount
<1>7. ASSUME NEW c \in Conns, StoreCount(c)
      PROVE  IndexTypeOK'
  <2>1. adding[c] \in [step : AddSteps, value : Players \cup {Nobody},
                       pos : Slots \cup {NotFound}, seen : Nat]
    OBVIOUS
  <2>2. Count' \in Nat
    BY <1>7, <2>1 DEF StoreCount
  <2>3. QED
    BY <1>7, <2>2 DEF StoreCount
<1>8. ASSUME NEW c \in Conns, StoreCursor(c)
      PROVE  IndexTypeOK'
  <2>1. adding[c] \in [step : AddSteps, value : Players \cup {Nobody},
                       pos : Slots \cup {NotFound}, seen : Nat]
    OBVIOUS
  <2>2. nextAddPos' \in 0 .. MaxCount
    BY <1>8, <2>1 DEF StoreCursor
  <2>3. QED
    BY <1>8, <2>2 DEF StoreCursor
<1>9. ASSUME NEW c \in Conns, Return(c)
      PROVE  IndexTypeOK'
  BY <1>9 DEF Return
<1>10. ASSUME NEW s \in Slots, DelByIndex(s)
       PROVE  IndexTypeOK'
  BY <1>10 DEF DelByIndex
<1>11. CASE UNCHANGED indexVars
  BY <1>11 DEF indexVars
<1>12. QED
  BY <1>1, <1>2, <1>3, <1>4, <1>5, <1>6, <1>7, <1>8, <1>9, <1>10, <1>11
     DEF IndexNext, AddStep

\* A table without players, and no Add under way.
LEMMA IndexTypeFirst == IndexInit => IndexTypeOK
<1> SUFFICES ASSUME IndexInit
             PROVE  IndexTypeOK
  OBVIOUS
<1> USE FastIndexAssumption DEF FastIndexAssumption, IndexInit
<1>1. list \in [Slots -> Players \cup {Nobody}]
  OBVIOUS
<1>2. NotAdding \in [step : AddSteps, value : Players \cup {Nobody},
                    pos : Slots \cup {NotFound}, seen : Nat]
  BY DEF NotAdding, AddSteps
<1>3. /\ Count \in Nat
      /\ nextAddPos \in 0 .. MaxCount
  OBVIOUS
<1>4. adding \in [Conns -> [step : AddSteps, value : Players \cup {Nobody},
                          pos : Slots \cup {NotFound}, seen : Nat]]
  BY <1>2, Zenon
<1>5. QED
  BY <1>1, <1>3, <1>4 DEF IndexTypeOK

\* The table keeps its types for any number of connections and any capacity, and
\* with them the cursor never moves further than one past the end.
THEOREM IndexTypeCorrect == IndexSpec => []IndexTypeOK
<1>1. IndexTypeOK /\ [IndexNext]_indexVars => IndexTypeOK'
  BY IndexTypeStep
<1>2. QED
  BY <1>1, IndexTypeFirst, PTL DEF IndexSpec

-----------------------------------------------------------------------------
\* No Add takes the slot of a player that is still in the table, for any
\* number of connections and any interleaving of their unlocked writes: only
\* Claim writes a player, and it writes where it found nil.
THEOREM SlotsAreSafe == IndexSpec => OccupiedSlotKept
<1> DEFINE Kept == \A s \in Slots : list[s] # Nobody => list'[s] \in {list[s], Nobody}
<1>1. IndexTypeOK /\ [IndexNext]_indexVars => [Kept]_indexVars
  <2> SUFFICES ASSUME IndexTypeOK, [IndexNext]_indexVars
               PROVE  Kept
    OBVIOUS
  <2>1. ASSUME NEW c \in Conns, NEW v \in Players, Claim(c, v)
        PROVE  Kept
    BY <2>1 DEF Claim, FirstFree, IndexTypeOK
  <2>2. ASSUME NEW s \in Slots, DelByIndex(s)
        PROVE  Kept
    BY <2>2 DEF DelByIndex, IndexTypeOK
  <2>3. CASE list' = list
    BY <2>3
  <2>4. QED
    BY <2>1, <2>2, <2>3
       DEF IndexNext, AddStep, indexVars, Admit, Abandon, FindNone, ProbePastEnd,
           LoadCount, StoreCount, StoreCursor, Return
<1>2. QED
  BY <1>1, IndexTypeCorrect, PTL DEF IndexSpec, OccupiedSlotKept

-----------------------------------------------------------------------------
(***************************************************************************)
(* The server.                                                             *)
(***************************************************************************)

\* An object the program has allocated.
Known(p) == p \in Players /\ player[p].PlayerID # Nobody

HaveGroups == \A p \in Players : Known(p) => player[p].GroupID # Nobody

Published == \A id \in PlayerIDs : PlayerList[id] # Nobody =>
               Known(PlayerList[id]) /\ player[PlayerList[id]].PlayerID = id

Indexed == \A s \in Slots : list[s] # Nobody => Known(list[s])

Filed == \A gid \in GroupIDs : GroupList[gid] # Nobody =>
           group[GroupList[gid]].GroupID = gid

Joined(g, id) ==
  LET p == group[g].PlayerList[id]
  IN  p # Nobody => Known(p) /\ player[p].GroupID = group[g].GroupID

\* What a connection holds on its way through HandleEnterGroup.
Entering(c) ==
  /\ conn[c].step # "idle" => conn[c].id \in PlayerIDs /\ conn[c].gid \in GroupIDs
  /\ conn[c].step \in {"putGroup", "putGroup2", "addMember"} =>
       conn[c].g \in Groups /\ group[conn[c].g].GroupID = conn[c].gid
  /\ conn[c].step \in {"publish", "add", "findGroup2", "putGroup2", "addMember"} =>
       /\ conn[c].p \in Players
       /\ player[conn[c].p].PlayerID = conn[c].id
       /\ player[conn[c].p].GroupID = conn[c].gid
  /\ conn[c].step \in {"setListen", "ack"} => Known(conn[c].p)

\* What a datagram holds on its way through HandleVoiceData.
Handling(w) ==
  /\ \A p \in work[w].expired : Known(p)
  /\ work[w].step = "forward" =>
       /\ Known(work[w].speaker)
       /\ work[w].g \in Groups
       /\ group[work[w].g].GroupID = player[work[w].speaker].GroupID
  /\ work[w].step \in {"delUnlist", "delIndex", "delFindGroup", "delMember"} =>
       work[w].id \in PlayerIDs /\ Known(work[w].v)
  /\ work[w].step = "delMember" => work[w].g \in Groups

Delivered ==
  \A pair \in delivered :
    /\ Known(pair[1]) /\ Known(pair[2])
    /\ player[pair[1]].GroupID = player[pair[2]].GroupID

Pointers ==
  /\ HaveGroups
  /\ Published
  /\ Indexed
  /\ Filed
  /\ \A g \in Groups, id \in PlayerIDs : Joined(g, id)
  /\ \A c \in Conns : Entering(c)
  /\ \A w \in Workers : Handling(w)
  /\ Delivered

ServerInv == TypeOK /\ Pointers

-----------------------------------------------------------------------------
(***************************************************************************)
(* Identity is for life.                                                   *)
(***************************************************************************)
Lasting ==
  /\ \A p \in Players : Known(p) =>
       /\ player'[p].PlayerID = player[p].PlayerID
       /\ player'[p].GroupID = player[p].GroupID
  /\ \A g \in Groups : group[g].GroupID # Nobody =>
       group'[g].GroupID = group[g].GroupID

\* What a step that keeps identities leaves alone stays as good as it was.
LEMMA PointersLast ==
  ASSUME ServerInv, Lasting
  PROVE  /\ \A p : Known(p) => Known(p)'
         /\ PlayerList' = PlayerList => Published'
         /\ list' = list => Indexed'
         /\ GroupList' = GroupList => Filed'
         /\ \A g \in Groups, id \in PlayerIDs :
              group'[g] = group[g] => Joined(g, id)'
         /\ \A c \in Conns : conn'[c] = conn[c] => Entering(c)'
         /\ \A w \in Workers : work'[w] = work[w] => Handling(w)'
         /\ delivered' = delivered => Delivered'
<1> USE FastIndexAssumption, GroupsAssumption DEF FastIndexAssumption, GroupsAssumption, ServerInv,
        TypeOK, GroupsTypeOK
<1>1. \A p : Known(p) => Known(p)' /\ player'[p].PlayerID = player[p].PlayerID
                                   /\ player'[p].GroupID = player[p].GroupID
  BY DEF Lasting, Known
<1>2. \A p : Known(p) => player[p].GroupID \in GroupIDs
  BY DEF Pointers, HaveGroups, Known, PlayerObjects
<1>3. \A g \in Groups : group[g].GroupID \in GroupIDs => group'[g].GroupID = group[g].GroupID
  BY DEF Lasting
<1>4. ASSUME PlayerList' = PlayerList
      PROVE  Published'
  BY <1>1, <1>4 DEF Pointers, Published
<1>5. ASSUME list' = list
      PROVE  Indexed'
  BY <1>1, <1>5 DEF Pointers, Indexed
<1>6. ASSUME GroupList' = GroupList
      PROVE  Filed'
  BY <1>3, <1>6 DEF Pointers, Filed
<1>7. ASSUME NEW g \in Groups, NEW id \in PlayerIDs, group'[g] = group[g]
      PROVE  Joined(g, id)'
  BY <1>1, <1>7 DEF Pointers, Joined
<1>8. ASSUME NEW c \in Conns, conn'[c] = conn[c]
      PROVE  Entering(c)'
  <2>1. Entering(c) /\ conn[c] \in ConnStates
    BY DEF Pointers
  <2>2. CASE conn[c].step = "idle"
    BY <2>1, <2>2, <1>8 DEF Entering
  <2>3. CASE conn[c].step # "idle"
    <3>1. conn[c].id \in PlayerIDs /\ conn[c].gid \in GroupIDs
      BY <2>1, <2>3 DEF Entering
    <3>2. ASSUME conn[c].step \in {"putGroup", "putGroup2", "addMember"}
          PROVE  conn[c].g \in Groups /\ group'[conn[c].g].GroupID = conn[c].gid
      BY <2>1, <3>1, <3>2, <1>3 DEF Entering
    <3>3. ASSUME conn[c].step \in {"publish", "add", "findGroup2", "putGroup2", "addMember"}
          PROVE  /\ conn[c].p \in Players
                 /\ player'[conn[c].p].PlayerID = conn[c].id
                 /\ player'[conn[c].p].GroupID = conn[c].gid
      BY <2>1, <3>1, <3>3, <1>1 DEF Entering, Known
    <3>4. conn[c].step \in {"setListen", "ack"} => Known(conn[c].p)'
      BY <2>1, <1>1, <1>8 DEF Entering
    <3>5. QED
      BY <3>1, <3>2, <3>3, <3>4, <1>8 DEF Entering
  <2>4. QED
    BY <2>2, <2>3
<1>9. ASSUME NEW w \in Workers, work'[w] = work[w]
      PROVE  Handling(w)'
  <2>1. Handling(w)
    BY DEF Pointers
  <2>2. work[w].step = "forward" =>
          group'[work[w].g].GroupID = player'[work[w].speaker].GroupID
    BY <2>1, <1>1, <1>2, <1>3 DEF Handling
  <2>3. QED
    BY <2>1, <2>2, <1>1, <1>9 DEF Handling
<1>10. ASSUME delivered' = delivered
       PROVE  Delivered'
  BY <1>1, <1>10 DEF Pointers, Delivered
<1>11. QED
  BY <1>1, <1>4, <1>5, <1>6, <1>7, <1>8, <1>9, <1>10

\* So a step has to answer only for what it changes.
LEMMA Preserved ==
  ASSUME ServerInv, TypeOK', Lasting,
         \A p \in Players : Known(p)' => Known(p) \/ player'[p].GroupID # Nobody,
         PlayerList' = PlayerList \/ Published',
         list' = list \/ Indexed',
         GroupList' = GroupList \/ Filed',
         \A g \in Groups, id \in PlayerIDs : group'[g] = group[g] \/ Joined(g, id)',
         \A c \in Conns : conn'[c] = conn[c] \/ Entering(c)',
         \A w \in Workers : work'[w] = work[w] \/ Handling(w)',
         delivered' = delivered \/ Delivered'
  PROVE  ServerInv'
<1>1. HaveGroups'
  BY DEF ServerInv, Pointers, HaveGroups, Lasting, Known
<1>2. QED
  BY <1>1, PointersLast DEF ServerInv, Pointers

-----------------------------------------------------------------------------
(***************************************************************************)
(* The index table.                                                        *)
(***************************************************************************)
\* Every step of the server is a step of FastIndex or leaves the table alone.
LEMMA IndexStep ==
  ASSUME ServerInv, [Next]_vars
  PROVE  [IndexNext]_indexVars
<1>1. ASSUME NEW c \in Conns, AddToIndex(c)
      PROVE  IndexNext
  <2>1. conn[c].p \in Players
    BY <1>1 DEF AddToIndex, ConnAt, ServerInv, Pointers, Entering
  <2>2. QED
    BY <1>1, <2>1 DEF AddToIndex, IndexNext, AddStep
<1>2. ASSUME NEW c \in Conns, CheckCount(c) \/ FoundPlayer(c) \/ AssignIndex(c)
      PROVE  IndexNext
  BY <1>2 DEF CheckCount, FoundPlayer, AssignIndex, IndexNext, AddStep
<1>3. ASSUME NEW w \in Workers, DelIndex(w)
      PROVE  IndexNext \/ UNCHANGED indexVars
  <2>1. CASE player[work[w].v].PlayerIndex \in Slots
    BY <1>3, <2>1 DEF DelIndex, IndexNext
  <2>2. CASE player[work[w].v].PlayerIndex \notin Slots
    BY <1>3, <2>2 DEF DelIndex, DelByIndex, indexVars
  <2>3. QED
    BY <2>1, <2>2
<1>4. ASSUME NEW c \in Conns, ConnStep(c)
      PROVE  IndexNext \/ UNCHANGED indexVars
  BY <1>1, <1>2, <1>4
     DEF ConnStep, EnterGroup, FindOrNewGroup, PutGroup, Reject, AllocatePlayer, Publish,
         AddMember, SetListen, SendAck, AdjustPlayerAttr
<1>5. ASSUME NEW w \in Workers, WorkStep(w)
      PROVE  IndexNext \/ UNCHANGED indexVars
  BY <1>3, <1>5
     DEF WorkStep, VoiceData, Forward, DelFind, DelUnlist, DelFindGroup, DelMember
<1>6. ASSUME NEW a \in acks, NEW addr \in Addrs,
             RequestConnect(a, addr) \/ VoiceHeartbeat(a, addr)
      PROVE  UNCHANGED indexVars
  BY <1>6 DEF RequestConnect, VoiceHeartbeat
<1>7. CASE Tick \/ UNCHANGED vars
  BY <1>7 DEF Tick, vars
<1>8. QED
  BY <1>4, <1>5, <1>6, <1>7 DEF Next

-----------------------------------------------------------------------------
(***************************************************************************)
(* The steps of a connection.                                              *)
(***************************************************************************)
\* The object an allocation takes is one that was not allocated before.
LEMMA FreshIsFresh ==
  /\ FreshPlayers # {} => (CHOOSE p \in FreshPlayers : TRUE) \in FreshPlayers
  /\ FreshGroups # {} => (CHOOSE g \in FreshGroups : TRUE) \in FreshGroups
OBVIOUS

\* What a connection does to its own variables and nothing else.
LEMMA ConnMoves ==
  ASSUME ServerInv, IndexTypeOK', NEW c \in Conns, NEW r \in ConnStates,
         conn' = [conn EXCEPT ![c] = r], Entering(c)', list' = list,
         UNCHANGED <<player, group, PlayerList, GroupList, work, nilPanic, serverVars>>
  PROVE  ServerInv'
<1>1. TypeOK'
  BY DEF ServerInv, TypeOK, GroupsTypeOK, serverVars
<1>2. Lasting
  BY DEF Lasting
<1>3. \A d \in Conns : conn'[d] = conn[d] \/ Entering(d)'
  BY DEF ServerInv, TypeOK, GroupsTypeOK
<1>4. QED
  BY <1>1, <1>2, <1>3, Preserved DEF Known, serverVars

\* HandleEnterGroup starts: the message gives the connection its IDs.
LEMMA EnterGroupStep ==
  ASSUME ServerInv, IndexTypeOK', NEW c \in Conns, NEW id \in PlayerIDs, NEW gid \in GroupIDs,
         NEW speak \in SpeakBits, EnterGroup(c, id, gid, speak)
  PROVE  ServerInv'
<1> DEFINE r == [IdleConn EXCEPT !.step = "findGroup", !.id = id, !.gid = gid,
                                 !.canSpeak = speak]
<1>1. r \in ConnStates
  BY ServerAssumption DEF ServerAssumption, ConnStates, ConnSteps, IdleConn
<1>2. Entering(c)'
  BY DEF EnterGroup, IdleConn, Entering, ServerInv, TypeOK, GroupsTypeOK
<1>3. QED
  BY <1>1, <1>2, ConnMoves DEF EnterGroup, indexVars

\* CreatePlayer answers "full": the connection is where it began.
LEMMA RejectStep ==
  ASSUME ServerInv, IndexTypeOK', NEW c \in Conns, Reject(c)
  PROVE  ServerInv'
<1>1. IdleConn \in ConnStates
  BY DEF ConnStates, ConnSteps, IdleConn
<1>2. Entering(c)'
  BY DEF Reject, IdleConn, Entering, ServerInv, TypeOK, GroupsTypeOK
<1>3. QED
  BY <1>1, <1>2, ConnMoves DEF Reject, indexVars

\* The capacity check changes only how far CreatePlayer is.
LEMMA CheckCountStep ==
  ASSUME ServerInv, IndexTypeOK', NEW c \in Conns, CheckCount(c), UNCHANGED serverVars
  PROVE  ServerInv'
<1>1. conn[c] \in ConnStates /\ Entering(c)
  BY DEF ServerInv, TypeOK, GroupsTypeOK, Pointers
<1>2. [conn[c] EXCEPT !.step = "findPlayer"] \in ConnStates
  BY <1>1 DEF ConnStates, ConnSteps
<1>3. Entering(c)'
  BY <1>1 DEF CheckCount, ConnAt, ConnStates, Entering, ServerInv, TypeOK, GroupsTypeOK
<1>4. QED
  BY <1>2, <1>3, ConnMoves DEF CheckCount, Admit

\* CreatePlayer returns a player it finds in PlayerList, which is allocated.
LEMMA FoundPlayerStep ==
  ASSUME ServerInv, IndexTypeOK', NEW c \in Conns, FoundPlayer(c), UNCHANGED serverVars
  PROVE  ServerInv'
<1>1. conn[c] \in ConnStates /\ Entering(c) /\ conn[c].id \in PlayerIDs
  BY DEF FoundPlayer, ConnAt, ServerInv, TypeOK, GroupsTypeOK, Pointers, Entering
<1>2. Known(PlayerList[conn[c].id])
  BY <1>1 DEF FoundPlayer, ServerInv, Pointers, Published
<1>3. [conn[c] EXCEPT !.step = "setListen", !.p = PlayerList[conn[c].id]] \in ConnStates
  BY <1>1, <1>2 DEF ConnStates, ConnSteps, Known
<1>4. Entering(c)'
  BY <1>1, <1>2 DEF FoundPlayer, ConnAt, ConnStates, Entering, Known,
                    ServerInv, TypeOK, GroupsTypeOK
<1>5. QED
  BY <1>3, <1>4, ConnMoves DEF FoundPlayer, Abandon

\* CreateGroup takes the group of the ID it looks for, or allocates one: the new
\* object has no members, and gets that ID.
LEMMA FindOrNewGroupStep ==
  ASSUME ServerInv, IndexTypeOK', NEW c \in Conns, UNCHANGED serverVars,
         \/ FindOrNewGroup(c, "findGroup", "putGroup", "checkCount")
         \/ FindOrNewGroup(c, "findGroup2", "putGroup2", "addMember")
  PROVE  ServerInv'
<1> USE DEF ServerInv, TypeOK, GroupsTypeOK
<1>1. PICK store \in {"putGroup", "putGroup2"}, done \in {"checkCount", "addMember"} :
        /\ conn[c].step \in {"findGroup", "findGroup2"}
        /\ conn[c].step = "findGroup" => store = "putGroup" /\ done = "checkCount"
        /\ conn[c].step = "findGroup2" => store = "putGroup2" /\ done = "addMember"
        /\ FindOrNewGroup(c, conn[c].step, store, done)
  BY DEF FindOrNewGroup, ConnAt
<1>2. conn[c] \in ConnStates /\ Entering(c) /\ conn[c].gid \in GroupIDs
  BY <1>1 DEF Pointers, Entering
<1>3. CASE GroupList[conn[c].gid] # Nobody
  <2>1. group[GroupList[conn[c].gid]].GroupID = conn[c].gid
        /\ GroupList[conn[c].gid] \in Groups
    BY <1>2, <1>3 DEF Pointers, Filed
  <2>2. conn' = [conn EXCEPT ![c].step = done, ![c].g = GroupList[conn[c].gid]]
        /\ group' = group
    BY <1>1, <1>3 DEF FindOrNewGroup
  <2>3. [conn[c] EXCEPT !.step = done, !.g = GroupList[conn[c].gid]] \in ConnStates
    BY <1>2, <2>1 DEF ConnStates, ConnSteps
  <2>4. Entering(c)'
    BY <1>1, <1>2, <2>1, <2>2 DEF FindOrNewGroup, ConnStates, Entering
  <2>5. QED
    BY <1>1, <2>2, <2>3, <2>4, ConnMoves DEF FindOrNewGroup, indexVars
<1>4. CASE GroupList[conn[c].gid] = Nobody
  <2> DEFINE g == CHOOSE g \in FreshGroups : TRUE
  <2>1. g \in Groups /\ group[g].GroupID = Nobody
    BY <1>1, <1>4, FreshIsFresh DEF FindOrNewGroup, FreshGroups
  <2>2. /\ group' = [group EXCEPT ![g].GroupID = conn[c].gid]
        /\ conn' = [conn EXCEPT ![c].step = store, ![c].g = g]
        /\ UNCHANGED <<player, PlayerList, GroupList, work, nilPanic, indexVars>>
    BY <1>1, <1>4 DEF FindOrNewGroup
  <2> HIDE DEF g
  <2>3. TypeOK'
    <3>1. group' \in [Groups -> GroupObjects]
      BY <1>2, <2>1, <2>2 DEF GroupObjects
    <3>2. conn' \in [Conns -> ConnStates]
      BY <1>2, <2>1, <2>2 DEF ConnStates, ConnSteps
    <3>3. QED
      BY <2>2, <3>1, <3>2 DEF serverVars
  <2>4. Lasting
    BY <2>1, <2>2 DEF Lasting
  <2>5. ASSUME NEW h \in Groups, NEW id \in PlayerIDs
        PROVE  group'[h] = group[h] \/ Joined(h, id)'
    <3>1. CASE h = g
      <4>1. group[g].PlayerList[id] = Nobody
        BY <2>1 DEF Pointers, Joined, HaveGroups, Known
      <4>2. group'[g].PlayerList[id] = Nobody
        BY <2>1, <2>2, <4>1 DEF GroupObjects
      <4>3. QED
        BY <3>1, <4>2 DEF Joined
    <3>2. CASE h # g
      BY <2>2, <3>2
    <3>3. QED
      BY <3>1, <3>2
  <2>6. Entering(c)'
    BY <1>1, <1>2, <2>1, <2>2 DEF Entering, ConnStates, GroupObjects
  <2>7. \A d \in Conns : conn'[d] = conn[d] \/ Entering(d)'
    BY <2>2, <2>6
  <2>8. QED
    BY <2>2, <2>3, <2>4, <2>5, <2>7, Preserved DEF Known, serverVars, indexVars
<1>5. QED
  BY <1>3, <1>4

\* CreateGroup files a group under the ID it has, over another one if two
\* connections create it at once.
LEMMA PutGroupStep ==
  ASSUME ServerInv, IndexTypeOK', NEW c \in Conns, PutGroup(c), UNCHANGED serverVars
  PROVE  ServerInv'
<1> USE DEF ServerInv, TypeOK, GroupsTypeOK
<1>1. conn[c] \in ConnStates /\ Entering(c)
  BY DEF Pointers
<1>2. /\ conn[c].gid \in GroupIDs
      /\ conn[c].g \in Groups
      /\ group[conn[c].g].GroupID = conn[c].gid
  BY <1>1 DEF PutGroup, Entering
<1>3. TypeOK'
  <2>1. GroupList' \in [GroupIDs -> Groups \cup {Nobody}]
    BY <1>2 DEF PutGroup
  <2>2. conn' \in [Conns -> ConnStates]
    BY <1>1 DEF PutGroup, ConnStates, ConnSteps
  <2>3. QED
    BY <2>1, <2>2 DEF PutGroup, serverVars
<1>4. Lasting
  BY DEF PutGroup, Lasting
<1>5. Filed'
  BY <1>2 DEF PutGroup, Pointers, Filed
<1>6. Entering(c)'
  BY <1>1, <1>2 DEF PutGroup, ConnStates, Entering
<1>7. QED
  BY <1>3, <1>4, <1>5, <1>6, Preserved DEF PutGroup, Known, serverVars, indexVars

\* NewPlayer gives an object the identity the message asked for.
LEMMA AllocatePlayerStep ==
  ASSUME ServerInv, IndexTypeOK', NEW c \in Conns, AllocatePlayer(c, now), UNCHANGED serverVars
  PROVE  ServerInv'
<1> USE DEF ServerInv, TypeOK, GroupsTypeOK
<1> DEFINE p == CHOOSE p \in FreshPlayers : TRUE
           o == NewPlayer(conn[c].id, conn[c].gid, now)
<1>1. /\ conn[c] \in ConnStates
      /\ conn[c].id \in PlayerIDs
      /\ conn[c].gid \in GroupIDs
  BY DEF AllocatePlayer, ConnAt, Pointers, Entering
<1>2. p \in Players /\ player[p].PlayerID = Nobody
  BY FreshIsFresh DEF AllocatePlayer, FreshPlayers
<1>3. /\ player' = [player EXCEPT ![p] = o]
      /\ conn' = [conn EXCEPT ![c].step = "publish", ![c].p = p]
      /\ UNCHANGED <<group, PlayerList, GroupList, work, nilPanic, indexVars>>
  BY DEF AllocatePlayer
<1>4. /\ o \in PlayerObjects
      /\ o.PlayerID = conn[c].id
      /\ o.GroupID = conn[c].gid
  <2>1. 0 \in Slots /\ {"WAIT_CONNECT"} \in SUBSET Flags
    BY FastIndexAssumption DEF FastIndexAssumption, Slots, Flags
  <2>2. QED
    BY <1>1, <2>1 DEF NewPlayer, PlayerObjects
<1> HIDE DEF p, o
<1>5. TypeOK'
  <2>1. player' \in [Players -> PlayerObjects]
    BY <1>2, <1>3, <1>4
  <2>2. conn' \in [Conns -> ConnStates]
    BY <1>1, <1>2, <1>3 DEF ConnStates, ConnSteps
  <2>3. QED
    BY <1>3, <2>1, <2>2 DEF serverVars
<1>6. Lasting
  BY <1>2, <1>3 DEF Lasting, Known
<1>7. \A q \in Players : Known(q)' => Known(q) \/ player'[q].GroupID # Nobody
  BY <1>1, <1>3, <1>4, GroupsAssumption DEF Known, GroupsAssumption
<1>8. Entering(c)'
  <2>1. player'[p] = o
    BY <1>2, <1>3
  <2>2. conn'[c].step = "publish" /\ conn'[c].p = p
        /\ conn'[c].id = conn[c].id /\ conn'[c].gid = conn[c].gid
    BY <1>1, <1>3 DEF ConnStates
  <2>3. QED
    BY <1>1, <1>2, <1>4, <2>1, <2>2 DEF Entering
<1>9. \A d \in Conns : conn'[d] = conn[d] \/ Entering(d)'
  BY <1>3, <1>8
<1>10. QED
  BY <1>3, <1>5, <1>6, <1>7, <1>9, Preserved DEF serverVars, indexVars

\* CreatePlayer lists a player under the ID it has, over another one if two
\* connections create it at once.
LEMMA PublishStep ==
  ASSUME ServerInv, IndexTypeOK', NEW c \in Conns, Publish(c), UNCHANGED serverVars
  PROVE  ServerInv'
<1> USE DEF ServerInv, TypeOK, GroupsTypeOK
<1>1. conn[c] \in ConnStates /\ Entering(c)
  BY DEF Pointers
<1>2. /\ conn[c].id \in PlayerIDs
      /\ conn[c].p \in Players
      /\ player[conn[c].p].PlayerID = conn[c].id
  BY <1>1 DEF Publish, ConnAt, Entering
<1>3. TypeOK'
  <2>1. PlayerList' \in [PlayerIDs -> Players \cup {Nobody}]
    BY <1>2 DEF Publish
  <2>2. conn' \in [Conns -> ConnStates]
    BY <1>1 DEF Publish, ConnStates, ConnSteps
  <2>3. QED
    BY <2>1, <2>2 DEF Publish, serverVars
<1>4. Lasting
  BY DEF Publish, Lasting
<1>5. Published'
  BY <1>2, GroupsAssumption DEF Publish, Pointers, Published, Known, GroupsAssumption
<1>6. Entering(c)'
  BY <1>1, <1>2 DEF Publish, ConnAt, ConnStates, Entering
<1>7. QED
  BY <1>3, <1>4, <1>5, <1>6, Preserved DEF Publish, Known, serverVars, indexVars

\* Add puts a player that is allocated into a slot.
LEMMA AddToIndexStep ==
  ASSUME ServerInv, IndexTypeOK', NEW c \in Conns, AddToIndex(c), UNCHANGED serverVars
  PROVE  ServerInv'
<1>1. Known(conn[c].p)
  BY GroupsAssumption DEF AddToIndex, ConnAt, ServerInv, Pointers, Entering, Known, GroupsAssumption
<1>2. TypeOK'
  BY DEF AddToIndex, groupsVars, serverVars, ServerInv, TypeOK, GroupsTypeOK
<1>3. Lasting
  BY DEF AddToIndex, groupsVars, Lasting
<1>4. list' = list \/ Indexed'
  BY <1>1 DEF AddToIndex, Claim, FindNone, ProbePastEnd, LoadCount, StoreCount, StoreCursor,
              groupsVars, ServerInv, Pointers, Indexed, Known, TypeOK, IndexTypeOK
<1>5. QED
  BY <1>2, <1>3, <1>4, Preserved DEF AddToIndex, groupsVars, serverVars, Known

\* The index a player gets is a slot or the index of none.
LEMMA AssignIndexStep ==
  ASSUME ServerInv, IndexTypeOK', NEW c \in Conns, AssignIndex(c), UNCHANGED serverVars
  PROVE  ServerInv'
<1> USE DEF ServerInv, TypeOK, GroupsTypeOK
<1> DEFINE index == IF adding[c].pos = NotFound THEN NoIndex ELSE adding[c].pos
<1>1. conn[c] \in ConnStates /\ Entering(c)
  BY DEF Pointers
<1>2. /\ conn[c].p \in Players
      /\ player[conn[c].p].PlayerID = conn[c].id
      /\ player[conn[c].p].GroupID = conn[c].gid
  BY <1>1 DEF AssignIndex, ConnAt, Entering
<1>3. index \in Slots \cup {NoIndex}
  BY DEF IndexTypeOK
<1>4. player' = [player EXCEPT ![conn[c].p].PlayerIndex = index]
  BY DEF AssignIndex
<1> HIDE DEF index
<1>5. TypeOK'
  <2>1. player' \in [Players -> PlayerObjects]
    <3>1. [player[conn[c].p] EXCEPT !.PlayerIndex = index] \in PlayerObjects
      BY <1>2, <1>3 DEF PlayerObjects
    <3>2. QED
      BY <1>2, <1>4, <3>1
  <2>2. conn' \in [Conns -> ConnStates]
    BY <1>1 DEF AssignIndex, ConnStates, ConnSteps
  <2>3. QED
    BY <2>1, <2>2 DEF AssignIndex, serverVars
<1>6. \A p \in Players : /\ player'[p].PlayerID = player[p].PlayerID
                         /\ player'[p].GroupID = player[p].GroupID
  BY <1>2, <1>4 DEF PlayerObjects
<1>7. Lasting
  BY <1>6 DEF AssignIndex, Lasting
<1>8. Entering(c)'
  BY <1>1, <1>2, <1>6 DEF AssignIndex, ConnAt, ConnStates, Entering
<1>9. QED
  BY <1>5, <1>6, <1>7, <1>8, Preserved DEF AssignIndex, Return, Known, serverVars

\* AddPlayer puts a player into a group object of its own group.
LEMMA AddMemberStep ==
  ASSUME ServerInv, IndexTypeOK', NEW c \in Conns, AddMember(c), UNCHANGED serverVars
  PROVE  ServerInv'
<1> USE DEF ServerInv, TypeOK, GroupsTypeOK
<1>1. conn[c] \in ConnStates /\ Entering(c)
  BY DEF Pointers
<1>2. /\ conn[c].id \in PlayerIDs
      /\ conn[c].g \in Groups
      /\ group[conn[c].g].GroupID = conn[c].gid
      /\ Known(conn[c].p)
      /\ player[conn[c].p].GroupID = conn[c].gid
  BY <1>1, GroupsAssumption DEF AddMember, ConnAt, Entering, Known, GroupsAssumption
<1>3. /\ group' = [group EXCEPT ![conn[c].g].PlayerList[conn[c].id] = conn[c].p,
                                ![conn[c].g].Count = @ + 1]
      /\ conn' = [conn EXCEPT ![c].step = "setListen"]
      /\ UNCHANGED <<player, PlayerList, GroupList, work, nilPanic, indexVars>>
  BY DEF AddMember
<1>4. TypeOK'
  <2>1. group' \in [Groups -> GroupObjects]
    BY <1>2, <1>3 DEF GroupObjects, Known
  <2>2. conn' \in [Conns -> ConnStates]
    BY <1>1, <1>3 DEF ConnStates, ConnSteps
  <2>3. QED
    BY <1>3, <2>1, <2>2 DEF serverVars
<1>5. \A g \in Groups : group'[g].GroupID = group[g].GroupID
  BY <1>2, <1>3 DEF GroupObjects
<1>6. Lasting
  BY <1>3, <1>5 DEF Lasting
<1>7. ASSUME NEW g \in Groups, NEW id \in PlayerIDs
      PROVE  Joined(g, id)'
  <2>1. CASE g = conn[c].g /\ id = conn[c].id
    <3>1. group'[g].PlayerList[id] = conn[c].p
      BY <1>2, <1>3, <2>1 DEF GroupObjects
    <3>2. QED
      BY <1>2, <1>3, <1>5, <2>1, <3>1 DEF Joined, Known
  <2>2. CASE ~(g = conn[c].g /\ id = conn[c].id)
    <3>1. group'[g].PlayerList[id] = group[g].PlayerList[id]
      BY <1>2, <1>3, <2>2 DEF GroupObjects
    <3>2. Joined(g, id)
      BY DEF Pointers
    <3>3. QED
      BY <1>3, <1>5, <3>1, <3>2 DEF Joined, Known
  <2>3. QED
    BY <2>1, <2>2
<1>8. Entering(c)'
  BY <1>1, <1>2, <1>3 DEF AddMember, ConnAt, ConnStates, Entering, Known
<1>9. \A d \in Conns : conn'[d] = conn[d] \/ Entering(d)'
  BY <1>3, <1>8
<1>10. QED
  BY <1>3, <1>4, <1>6, <1>7, <1>9, Preserved DEF Known, serverVars, indexVars

\* The State of the player becomes LISTEN: its identity stays.
LEMMA SetListenStep ==
  ASSUME ServerInv, IndexTypeOK', NEW c \in Conns, SetListen(c)
  PROVE  ServerInv'
<1> USE DEF ServerInv, TypeOK, GroupsTypeOK
<1>1. conn[c] \in ConnStates /\ Entering(c)
  BY DEF Pointers
<1>2. Known(conn[c].p)
  BY <1>1 DEF SetListen, ConnAt, Entering
<1>3. TypeOK'
  <2>1. player' \in [Players -> PlayerObjects]
    BY <1>2 DEF SetListen, PlayerObjects, Flags, Known
  <2>2. conn' \in [Conns -> ConnStates]
    BY <1>1 DEF SetListen, ConnStates, ConnSteps
  <2>3. QED
    BY <2>1, <2>2 DEF SetListen, serverVars
<1>4. \A p \in Players : /\ player'[p].PlayerID = player[p].PlayerID
                         /\ player'[p].GroupID = player[p].GroupID
  BY <1>2 DEF SetListen, PlayerObjects, Known
<1>5. Lasting
  BY <1>4 DEF SetListen, Lasting
<1>6. Entering(c)'
  BY <1>1, <1>2, <1>4 DEF SetListen, ConnAt, ConnStates, Entering, Known
<1>7. QED
  BY <1>3, <1>4, <1>5, <1>6, Preserved DEF SetListen, Known, serverVars, indexVars

\* The answer names the ID and the group of an allocated player.
LEMMA SendAckStep ==
  ASSUME ServerInv, IndexTypeOK', NEW c \in Conns, SendAck(c)
  PROVE  ServerInv'
<1> USE DEF ServerInv, TypeOK, GroupsTypeOK
<1>1. conn[c] \in ConnStates /\ Entering(c)
  BY DEF Pointers
<1>2. Known(conn[c].p) /\ player[conn[c].p] \in PlayerObjects
  BY <1>1 DEF SendAck, ConnAt, Entering, Known
<1>3. TypeOK'
  <2>1. player' \in [Players -> PlayerObjects]
    BY <1>2 DEF SendAck, PlayerObjects, Flags, Known
  <2>2. conn' \in [Conns -> ConnStates]
    BY DEF SendAck, IdleConn, ConnStates, ConnSteps
  <2>3. [PlayerIndex |-> player[conn[c].p].PlayerIndex,
         PlayerId    |-> player[conn[c].p].PlayerID,
         GroupId     |-> player[conn[c].p].GroupID] \in Ack
    BY <1>2 DEF Pointers, HaveGroups, Ack, PlayerObjects, Known
  <2>4. acks' \subseteq Ack
    BY <2>3 DEF SendAck
  <2>5. QED
    BY <2>1, <2>2, <2>4 DEF SendAck
<1>4. \A p \in Players : /\ player'[p].PlayerID = player[p].PlayerID
                         /\ player'[p].GroupID = player[p].GroupID
  BY <1>2 DEF SendAck, PlayerObjects, Known
<1>5. Lasting
  BY <1>4 DEF SendAck, Lasting
<1>6. Entering(c)'
  BY DEF SendAck, IdleConn, Entering
<1>7. QED
  BY <1>3, <1>4, <1>5, <1>6, Preserved DEF SendAck, Known, indexVars

\* AdjustPlayerAttr stores a State: the identity of the player stays.
LEMMA AdjustPlayerAttrStep ==
  ASSUME ServerInv, IndexTypeOK', NEW c \in Conns, NEW id \in PlayerIDs,
         NEW flags \in AttrFlags, AdjustPlayerAttr(c, id, flags)
  PROVE  ServerInv'
<1> USE DEF ServerInv, TypeOK, GroupsTypeOK
<1>1. flags \in SUBSET Flags
  BY ServerAssumption DEF ServerAssumption
<1>2. player' \in [Players -> PlayerObjects]
  BY <1>1 DEF AdjustPlayerAttr, PlayerObjects
<1>3. \A p \in Players : /\ player'[p].PlayerID = player[p].PlayerID
                         /\ player'[p].GroupID = player[p].GroupID
  BY DEF AdjustPlayerAttr, PlayerObjects
<1>4. TypeOK'
  BY <1>2 DEF AdjustPlayerAttr, serverVars
<1>5. Lasting
  BY <1>3 DEF AdjustPlayerAttr, Lasting
<1>6. QED
  BY <1>3, <1>4, <1>5, Preserved DEF AdjustPlayerAttr, Known, serverVars, indexVars
-----------------------------------------------------------------------------
(***************************************************************************)
(* The steps of a datagram.                                                *)
(***************************************************************************)
\* What FindPlayerByIndex answers is a player the program has allocated.
LEMMA FoundIsKnown ==
  ASSUME ServerInv, NEW index, NEW id, FindPlayerByIndex(index, id) # Nobody
  PROVE  Known(FindPlayerByIndex(index, id))
BY DEF ServerInv, Pointers, Indexed, FindPlayerByIndex, Get

\* A datagram that changes only its own variables, and deletes.
LEMMA WorkMoves ==
  ASSUME ServerInv, IndexTypeOK', NEW w \in Workers, NEW r \in WorkStates,
         work' = [work EXCEPT ![w] = r], Handling(w)', nilPanic' \in BOOLEAN,
         PlayerList' \in [PlayerIDs -> Players \cup {Nobody}],
         PlayerList' = PlayerList \/ Published',
         list' = list \/ Indexed',
         UNCHANGED <<player, group, GroupList, conn, serverVars>>
  PROVE  ServerInv'
<1>1. TypeOK'
  BY DEF ServerInv, TypeOK, GroupsTypeOK, serverVars
<1>2. Lasting
  BY DEF Lasting
<1>3. \A x \in Workers : work'[x] = work[x] \/ Handling(x)'
  BY DEF ServerInv, TypeOK, GroupsTypeOK
<1>4. QED
  BY <1>1, <1>2, <1>3, Preserved DEF Known, serverVars

\* A datagram that changes what it may of a player: not its identity.
LEMMA PlayerMoves ==
  ASSUME ServerInv, IndexTypeOK',
         player' \in [Players -> PlayerObjects],
         \A p \in Players : /\ player'[p].PlayerID = player[p].PlayerID
                            /\ player'[p].GroupID = player[p].GroupID,
         work' \in [Workers -> WorkStates],
         \A w \in Workers : work'[w] = work[w] \/ Handling(w)',
         UNCHANGED <<group, PlayerList, GroupList, conn, nilPanic, indexVars, serverVars>>
  PROVE  ServerInv'
<1>1. TypeOK'
  BY DEF ServerInv, TypeOK, GroupsTypeOK, serverVars
<1>2. Lasting
  BY DEF Lasting
<1>3. QED
  BY <1>1, <1>2, Preserved DEF Known, serverVars, indexVars

\* The same for the three datagrams that look a player up.
LEMMA RefreshMoves ==
  ASSUME ServerInv, NEW a \in acks, NEW addr \in Addrs, Refresh(a, addr)
  PROVE  /\ player' \in [Players -> PlayerObjects]
         /\ \A p \in Players : /\ player'[p].PlayerID = player[p].PlayerID
                               /\ player'[p].GroupID = player[p].GroupID
<1> USE DEF ServerInv, TypeOK, GroupsTypeOK
<1> DEFINE p == FindPlayerByIndex(a.PlayerIndex, a.PlayerId)
<1>1. Known(p) /\ player' = [player EXCEPT ![p].LastActiveTime = now]
  BY FoundIsKnown DEF Refresh
<1> HIDE DEF p
<1>2. QED
  BY <1>1 DEF Known, PlayerObjects

\* HandleRequestConnect stores an address: the identity of the player stays.
LEMMA RequestConnectStep ==
  ASSUME ServerInv, IndexTypeOK', NEW a \in acks, NEW addr \in Addrs,
         RequestConnect(a, addr)
  PROVE  ServerInv'
<1> USE DEF ServerInv, TypeOK, GroupsTypeOK
<1> DEFINE p == FindPlayerByIndex(a.PlayerIndex, a.PlayerId)
<1>1. /\ Known(p)
      /\ player' = [player EXCEPT ![p].Addr = addr]
      /\ UNCHANGED <<group, PlayerList, GroupList, conn, work, nilPanic, indexVars,
                     serverVars>>
  BY FoundIsKnown DEF RequestConnect
<1> HIDE DEF p
<1>2. player' \in [Players -> PlayerObjects]
  BY <1>1 DEF Known, PlayerObjects
<1>3. \A q \in Players : /\ player'[q].PlayerID = player[q].PlayerID
                         /\ player'[q].GroupID = player[q].GroupID
  BY <1>1 DEF Known, PlayerObjects
<1>4. QED
  BY <1>1, <1>2, <1>3, PlayerMoves

\* HandleVoiceHeartbeat stores a time: the identity of the player stays.
LEMMA VoiceHeartbeatStep ==
  ASSUME ServerInv, IndexTypeOK', NEW a \in acks, NEW addr \in Addrs,
         VoiceHeartbeat(a, addr)
  PROVE  ServerInv'
BY RefreshMoves, PlayerMoves DEF VoiceHeartbeat, ServerInv, TypeOK, GroupsTypeOK

\* HandleVoiceData finds the group object filed for the group of the speaker.
LEMMA VoiceDataStep ==
  ASSUME ServerInv, IndexTypeOK', NEW w \in Workers, NEW a \in acks, NEW addr \in Addrs,
         VoiceData(w, a, addr)
  PROVE  ServerInv'
<1> USE DEF ServerInv, TypeOK, GroupsTypeOK
<1> DEFINE p == FindPlayerByIndex(a.PlayerIndex, a.PlayerId)
           g == GroupList[player[p].GroupID]
<1>1. /\ Known(p)
      /\ g # Nobody
      /\ work' = [work EXCEPT ![w] = [IdleWork EXCEPT !.step = "forward", !.g = g,
                                        !.speaker = p, !.time = now]]
      /\ UNCHANGED <<group, PlayerList, GroupList, conn, nilPanic, indexVars, serverVars>>
  BY FoundIsKnown DEF VoiceData, Refresh
<1>2. /\ player' \in [Players -> PlayerObjects]
      /\ \A q \in Players : /\ player'[q].PlayerID = player[q].PlayerID
                            /\ player'[q].GroupID = player[q].GroupID
  BY RefreshMoves DEF VoiceData
<1> HIDE DEF p
<1>3. player[p].GroupID \in GroupIDs
  BY <1>1 DEF Pointers, HaveGroups, Known, PlayerObjects
<1>4. g \in Groups /\ group[g].GroupID = player[p].GroupID
  BY <1>1, <1>3 DEF Pointers, Filed
<1> HIDE DEF g
<1>5. work' \in [Workers -> WorkStates]
  BY <1>1, <1>4 DEF Known, IdleWork, WorkStates, WorkSteps
<1>6. Handling(w)'
  BY <1>1, <1>2, <1>4 DEF Handling, Known, IdleWork
<1>7. \A x \in Workers : work'[x] = work[x] \/ Handling(x)'
  BY <1>1, <1>6
<1>8. QED
  BY <1>1, <1>2, <1>5, <1>7, PlayerMoves

\* The members of a group that an utterance is sent to are of its group.
LEMMA ForwardStep ==
  ASSUME ServerInv, IndexTypeOK', NEW w \in Workers, Forward(w)
  PROVE  ServerInv'
<1> USE DEF ServerInv, TypeOK, GroupsTypeOK
<1> DEFINE g      == work[w].g
           silent == {m \in Members(g) : work[w].time - player[m].LastActiveTime > Lost}
           to     == {m \in Members(g) \ silent :
                        player[m].State # {"MUTE"} /\ player[m].Addr # Nobody}
           r      == IF silent = {} THEN IdleWork
                     ELSE [work[w] EXCEPT !.step = "delFind", !.expired = silent]
<1>1. /\ delivered' = delivered \cup ({work[w].speaker} \X to)
      /\ work' = [work EXCEPT ![w] = r]
      /\ UNCHANGED <<player, group, PlayerList, GroupList, conn, nilPanic, indexVars,
                     now, acks>>
  BY DEF Forward
<1>2. /\ Known(work[w].speaker)
      /\ g \in Groups
      /\ group[g].GroupID = player[work[w].speaker].GroupID
  BY DEF Forward, WorkAt, Pointers, Handling
<1>3. ASSUME NEW m \in Members(g)
      PROVE  Known(m) /\ player[m].GroupID = group[g].GroupID
  <2>1. PICK id \in PlayerIDs : m = group[g].PlayerList[id] /\ m # Nobody
    BY DEF Members
  <2>2. Joined(g, id)
    BY <1>2 DEF Pointers
  <2>3. QED
    BY <2>1, <2>2 DEF Joined
<1>4. r \in WorkStates
  <2>1. silent \subseteq Players
    BY <1>3 DEF Known
  <2>2. IdleWork \in WorkStates
    BY DEF IdleWork, WorkStates, WorkSteps
  <2> HIDE DEF silent
  <2>3. [work[w] EXCEPT !.step = "delFind", !.expired = silent] \in WorkStates
    BY <2>1 DEF WorkStates, WorkSteps
  <2>4. QED
    BY <2>2, <2>3
<1>5. Handling(w)'
  <2>1. \A m \in silent : Known(m)
    BY <1>3
  <2> HIDE DEF silent
  <2>2. work'[w] = r /\ work[w] \in WorkStates
    BY <1>1
  <2>3. CASE silent = {}
    BY <2>2, <2>3 DEF Handling, IdleWork
  <2>4. CASE silent # {}
    <3>1. work'[w].step = "delFind" /\ work'[w].expired = silent
      BY <2>2, <2>4 DEF WorkStates
    <3>2. QED
      BY <1>1, <2>1, <3>1 DEF Handling, Known
  <2>5. QED
    BY <2>3, <2>4
<1>6. to \subseteq Players
  BY <1>3 DEF Known
<1>7. Delivered'
  <2>1. ASSUME NEW pair \in delivered'
        PROVE  /\ Known(pair[1]) /\ Known(pair[2])
               /\ player[pair[1]].GroupID = player[pair[2]].GroupID
    <3>1. CASE pair \in delivered
      BY <3>1 DEF Pointers, Delivered
    <3>2. CASE pair \in {work[w].speaker} \X to
      <4>1. pair[1] = work[w].speaker /\ pair[2] \in Members(g)
        BY <3>2
      <4>2. QED
        BY <1>2, <1>3, <4>1
    <3>3. QED
      BY <1>1, <2>1, <3>1, <3>2
  <2>2. QED
    BY <1>1, <2>1 DEF Delivered, Known
<1>8. TypeOK'
  <2>1. delivered' \subseteq Players \X Players
    BY <1>1, <1>2, <1>6 DEF Known
  <2> HIDE DEF r
  <2>2. work' \in [Workers -> WorkStates]
    BY <1>1, <1>4
  <2>3. QED
    BY <1>1, <2>1, <2>2
<1>9. Lasting
  BY <1>1 DEF Lasting
<1> HIDE DEF r, to
<1>10. \A x \in Workers : work'[x] = work[x] \/ Handling(x)'
  BY <1>1, <1>5
<1>11. QED
  BY <1>1, <1>7, <1>8, <1>9, <1>10, Preserved DEF Known, indexVars

\* What a datagram holds when it has dealt with one expired player.
LEMMA NextExpiredFits ==
  ASSUME ServerInv, NEW w \in Workers
  PROVE  NextExpired(w) \in WorkStates
<1>1. work[w] \in WorkStates
  BY DEF ServerInv, TypeOK, GroupsTypeOK
<1>2. QED
  BY <1>1 DEF NextExpired, IdleWork, WorkStates, WorkSteps

\* The rest of the expired players are still allocated.
LEMMA NextExpiredHandles ==
  ASSUME ServerInv, NEW w \in Workers, work' = [work EXCEPT ![w] = NextExpired(w)],
         player' = player
  PROVE  Handling(w)'
<1>1. work[w] \in WorkStates /\ work'[w] = NextExpired(w) /\ Handling(w)
  BY DEF ServerInv, TypeOK, GroupsTypeOK, Pointers
<1>2. CASE work[w].expired = {}
  BY <1>1, <1>2 DEF NextExpired, IdleWork, Handling
<1>3. CASE work[w].expired # {}
  <2> DEFINE r == [work[w] EXCEPT !.step = "delFind", !.id = Nobody, !.v = Nobody]
  <2>1. r.step = "delFind" /\ r.expired = work[w].expired
    BY <1>1 DEF WorkStates
  <2>2. work'[w] = r
    BY <1>1, <1>3 DEF NextExpired
  <2> HIDE DEF r
  <2>3. QED
    BY <1>1, <2>1, <2>2 DEF Handling, Known
<1>4. QED
  BY <1>2, <1>3

\* DelPlayer works by the ID of an expired player: what it finds under it may be
\* another object, but of the same ID.
LEMMA DelFindStep ==
  ASSUME ServerInv, IndexTypeOK', NEW w \in Workers, DelFind(w), UNCHANGED serverVars
  PROVE  ServerInv'
<1> USE DEF ServerInv, TypeOK, GroupsTypeOK
<1>1. work[w] \in WorkStates /\ Handling(w)
  BY DEF Pointers
<1>2. UNCHANGED <<player, group, PlayerList, GroupList, conn, indexVars>>
  BY DEF DelFind
<1>3. PICK p \in work[w].expired :
        LET id   == player[p].PlayerID
            v    == PlayerList[id]
            rest == work[w].expired \ {p}
        IN  \/ /\ v # Nobody
               /\ work' = [work EXCEPT ![w].step = "delUnlist", ![w].expired = rest,
                                       ![w].id = id, ![w].v = v]
               /\ UNCHANGED nilPanic
            \/ /\ v = Nobody
               /\ work' = [work EXCEPT ![w] = IF rest = {} THEN IdleWork
                                              ELSE [@ EXCEPT !.expired = rest]]
               /\ nilPanic' = (\A gid \in GroupIDs : GroupList[gid] = Nobody)
  BY DEF DelFind
<1> DEFINE id   == player[p].PlayerID
           v    == PlayerList[id]
           rest == work[w].expired \ {p}
<1>4. id \in PlayerIDs
  BY <1>1, <1>3 DEF Handling, Known, PlayerObjects
<1>5. rest \in SUBSET Players /\ \A q \in rest : Known(q)
  BY <1>1 DEF Handling, WorkStates
<1>6. CASE v # Nobody
  <2>1. Known(v)
    BY <1>4, <1>6 DEF Pointers, Published
  <2> DEFINE r == [work[w] EXCEPT !.step = "delUnlist", !.expired = rest, !.id = id, !.v = v]
  <2>2. work' = [work EXCEPT ![w] = r] /\ nilPanic' = nilPanic
    BY <1>3, <1>6
  <2> HIDE DEF id, v, rest
  <2>3. r \in WorkStates
    BY <1>1, <1>4, <1>5, <2>1 DEF WorkStates, WorkSteps, Known
  <2>4. /\ r.step = "delUnlist"
        /\ r.expired = rest
        /\ r.id = id
        /\ r.v = v
    BY <1>1 DEF WorkStates
  <2> HIDE DEF r
  <2>5. Handling(w)'
    BY <1>2, <1>4, <1>5, <2>1, <2>2, <2>4 DEF Handling, Known
  <2>6. QED
    BY <1>2, <2>2, <2>3, <2>5, WorkMoves DEF indexVars
<1>7. CASE v = Nobody
  <2> DEFINE r == IF rest = {} THEN IdleWork ELSE [work[w] EXCEPT !.expired = rest]
  <2>1. work' = [work EXCEPT ![w] = r] /\ nilPanic' \in BOOLEAN
    BY <1>3, <1>7
  <2> HIDE DEF id, v, rest
  <2>2. r \in WorkStates
    BY <1>1, <1>5 DEF WorkStates, WorkSteps, IdleWork
  <2>3. r.step \in {"idle", "delFind"} /\ r.expired \subseteq rest
    BY <1>1 DEF WorkStates, IdleWork, DelFind, WorkAt
  <2> HIDE DEF r
  <2>4. Handling(w)'
    BY <1>2, <1>5, <2>1, <2>3 DEF Handling, Known
  <2>5. QED
    BY <1>2, <2>1, <2>2, <2>4, WorkMoves DEF indexVars
<1>8. QED
  BY <1>6, <1>7

\* DelPlayer removes from PlayerList, and adds nothing.
LEMMA DelUnlistStep ==
  ASSUME ServerInv, IndexTypeOK', NEW w \in Workers, DelUnlist(w), UNCHANGED serverVars
  PROVE  ServerInv'
<1> USE DEF ServerInv, TypeOK, GroupsTypeOK
<1>1. work[w] \in WorkStates /\ Handling(w)
  BY DEF Pointers
<1> DEFINE r == [work[w] EXCEPT !.step = "delIndex"]
<1>2. r \in WorkStates
  BY <1>1 DEF WorkStates, WorkSteps
<1>3. work' = [work EXCEPT ![w] = r]
  BY DEF DelUnlist
<1>4. Handling(w)'
  BY <1>1 DEF DelUnlist, WorkAt, WorkStates, Handling, Known
<1>5. /\ PlayerList' \in [PlayerIDs -> Players \cup {Nobody}]
      /\ Published'
  BY DEF DelUnlist, Pointers, Published, Known
<1> HIDE DEF r
<1>6. QED
  BY <1>2, <1>3, <1>4, <1>5, WorkMoves DEF DelUnlist, indexVars

\* DelByIndex empties a slot, and fills none.
LEMMA DelIndexStep ==
  ASSUME ServerInv, IndexTypeOK', NEW w \in Workers, DelIndex(w), UNCHANGED serverVars
  PROVE  ServerInv'
<1> USE DEF ServerInv, TypeOK, GroupsTypeOK
<1>1. work[w] \in WorkStates /\ Handling(w)
  BY DEF Pointers
<1> DEFINE r == [work[w] EXCEPT !.step = "delFindGroup"]
<1>2. r \in WorkStates
  BY <1>1 DEF WorkStates, WorkSteps
<1>3. work' = [work EXCEPT ![w] = r]
  BY DEF DelIndex
<1>4. Handling(w)'
  BY <1>1 DEF DelIndex, WorkAt, WorkStates, Handling, Known
<1>5. Indexed'
  BY DEF DelIndex, DelByIndex, IndexTypeOK, Pointers, Indexed, Known
<1> HIDE DEF r
<1>6. QED
  BY <1>2, <1>3, <1>4, <1>5, WorkMoves DEF DelIndex

\* DelPlayer finds the group object filed for the group of the player.
LEMMA DelFindGroupStep ==
  ASSUME ServerInv, IndexTypeOK', NEW w \in Workers, DelFindGroup(w), UNCHANGED serverVars
  PROVE  ServerInv'
<1> USE DEF ServerInv, TypeOK, GroupsTypeOK
<1> DEFINE g == GroupList[player[work[w].v].GroupID]
<1>1. /\ work' = [work EXCEPT ![w] = IF g = Nobody THEN NextExpired(w)
                                     ELSE [@ EXCEPT !.step = "delMember", !.g = g]]
      /\ UNCHANGED <<player, group, PlayerList, GroupList, conn, nilPanic, indexVars>>
  BY DEF DelFindGroup
<1>2. work[w] \in WorkStates /\ Handling(w) /\ work[w].id \in PlayerIDs /\ Known(work[w].v)
  BY DEF DelFindGroup, WorkAt, Pointers, Handling
<1>3. g \in Groups \cup {Nobody}
  <2>1. player[work[w].v].GroupID \in GroupIDs
    BY <1>2 DEF Pointers, HaveGroups, Known, PlayerObjects
  <2>2. QED
    BY <2>1
<1> HIDE DEF g
<1>4. CASE g = Nobody
  <2>1. work' = [work EXCEPT ![w] = NextExpired(w)]
    BY <1>1, <1>4
  <2>2. NextExpired(w) \in WorkStates /\ Handling(w)'
    BY <1>1, <2>1, NextExpiredFits, NextExpiredHandles
  <2>3. QED
    BY <1>1, <2>1, <2>2, WorkMoves DEF indexVars
<1>5. CASE g # Nobody
  <2> DEFINE r == [work[w] EXCEPT !.step = "delMember", !.g = g]
  <2>1. work' = [work EXCEPT ![w] = r]
    BY <1>1, <1>5
  <2>2. r \in WorkStates
    BY <1>2, <1>3 DEF WorkStates, WorkSteps
  <2>3. /\ r.step = "delMember"
        /\ r.expired = work[w].expired
        /\ r.g = g
        /\ r.id = work[w].id
        /\ r.v = work[w].v
    BY <1>2 DEF WorkStates
  <2> HIDE DEF r
  <2>4. Handling(w)'
    BY <1>1, <1>2, <1>3, <1>5, <2>1, <2>3 DEF Handling, Known
  <2>5. QED
    BY <1>1, <2>1, <2>2, <2>4, WorkMoves DEF indexVars
<1>6. QED
  BY <1>4, <1>5

\* DelPlayerByID removes from the members of a group, and adds none.
LEMMA DelMemberStep ==
  ASSUME ServerInv, IndexTypeOK', NEW w \in Workers, DelMember(w), UNCHANGED serverVars
  PROVE  ServerInv'
<1> USE DEF ServerInv, TypeOK, GroupsTypeOK
<1>1. /\ group' = [group EXCEPT ![work[w].g].PlayerList[work[w].id] = Nobody,
                                ![work[w].g].Count = @ - 1]
      /\ work' = [work EXCEPT ![w] = NextExpired(w)]
      /\ UNCHANGED <<player, PlayerList, GroupList, conn, nilPanic, indexVars>>
  BY DEF DelMember
<1>2. work[w].g \in Groups /\ work[w].id \in PlayerIDs
  BY DEF DelMember, WorkAt, Pointers, Handling
<1>3. NextExpired(w) \in WorkStates /\ Handling(w)'
  BY <1>1, NextExpiredFits, NextExpiredHandles
<1>4. TypeOK'
  <2>1. group' \in [Groups -> GroupObjects]
    BY <1>1, <1>2 DEF GroupObjects
  <2>2. work' \in [Workers -> WorkStates]
    BY <1>1, <1>3
  <2>3. QED
    BY <1>1, <2>1, <2>2 DEF serverVars
<1>5. \A g \in Groups : group'[g].GroupID = group[g].GroupID
  BY <1>1, <1>2 DEF GroupObjects
<1>6. Lasting
  BY <1>1, <1>5 DEF Lasting
<1>7. ASSUME NEW g \in Groups, NEW id \in PlayerIDs
      PROVE  Joined(g, id)'
  <2>1. group'[g].PlayerList[id] \in {group[g].PlayerList[id], Nobody}
    BY <1>1, <1>2 DEF GroupObjects
  <2>2. Joined(g, id)
    BY DEF Pointers
  <2>3. QED
    BY <1>1, <1>5, <2>1, <2>2 DEF Joined, Known
<1>8. \A x \in Workers : work'[x] = work[x] \/ Handling(x)'
  BY <1>1, <1>3
<1>9. QED
  BY <1>1, <1>4, <1>6, <1>7, <1>8, Preserved DEF Known, serverVars, indexVars

-----------------------------------------------------------------------------
(***************************************************************************)
(* The invariant.                                                          *)
(***************************************************************************)
\* Nothing is allocated, held or delivered when the server starts.
LEMMA ServerInvHoldsFirst == Init => ServerInv
<1> SUFFICES ASSUME Init
             PROVE  ServerInv
  OBVIOUS
<1>1. IndexTypeOK
  BY IndexTypeFirst DEF Init
<1> USE FastIndexAssumption DEF FastIndexAssumption, Init, IndexInit, GroupsInit
<1>2. NoPlayer \in PlayerObjects
  BY DEF NoPlayer, PlayerObjects, Slots, Flags
<1>3. NoGroup \in GroupObjects
  BY DEF NoGroup, GroupObjects
<1>4. IdleConn \in ConnStates /\ IdleWork \in WorkStates
  BY DEF IdleConn, ConnStates, ConnSteps, IdleWork, WorkStates, WorkSteps
<1>5. TypeOK
  BY <1>1, <1>2, <1>3, <1>4 DEF TypeOK, GroupsTypeOK
<1>6. Pointers
  BY DEF Pointers, HaveGroups, Published, Indexed, Filed, Joined, Entering, Handling,
         Delivered, Known, NoPlayer, NoGroup, IdleConn, IdleWork
<1>7. QED
  BY <1>5, <1>6 DEF ServerInv

\* Every step of the server keeps the invariant.
LEMMA ServerInvStep ==
  ASSUME ServerInv, [Next]_vars
  PROVE  ServerInv'
<1>1. IndexTypeOK'
  BY IndexStep, IndexTypeStep DEF ServerInv, TypeOK
<1>2. ASSUME NEW c \in Conns, ConnStep(c)
      PROVE  ServerInv'
  BY <1>1, <1>2, EnterGroupStep, FindOrNewGroupStep, PutGroupStep, CheckCountStep, RejectStep,
     FoundPlayerStep, AllocatePlayerStep, PublishStep, AddToIndexStep, AssignIndexStep,
     AddMemberStep, SetListenStep, SendAckStep, AdjustPlayerAttrStep DEF ConnStep
<1>3. ASSUME NEW w \in Workers, WorkStep(w)
      PROVE  ServerInv'
  BY <1>1, <1>3, VoiceDataStep, ForwardStep, DelFindStep, DelUnlistStep, DelIndexStep,
     DelFindGroupStep, DelMemberStep DEF WorkStep
<1>4. ASSUME NEW a \in acks, NEW addr \in Addrs,
             RequestConnect(a, addr) \/ VoiceHeartbeat(a, addr)
      PROVE  ServerInv'
  BY <1>1, <1>4, RequestConnectStep, VoiceHeartbeatStep
<1>5. CASE Tick \/ UNCHANGED vars
  <2>1. /\ UNCHANGED <<indexVars, groupsVars, acks, delivered>>
        /\ now' \in Nat
    BY <1>5 DEF Tick, vars, serverVars, ServerInv, TypeOK
  <2>2. TypeOK'
    BY <1>1, <2>1 DEF ServerInv, TypeOK, GroupsTypeOK, groupsVars
  <2>3. Lasting
    BY <2>1 DEF Lasting, groupsVars
  <2>4. QED
    BY <2>1, <2>2, <2>3, Preserved DEF Known, indexVars, groupsVars
<1>6. QED
  BY <1>2, <1>3, <1>4, <1>5 DEF Next

\* So the invariant holds in every behaviour of the server.
LEMMA ServerInvHolds == Spec => []ServerInv
<1>1. ServerInv /\ [Next]_vars => ServerInv'
  BY ServerInvStep
<1>2. QED
  BY <1>1, ServerInvHoldsFirst, PTL DEF Spec

-----------------------------------------------------------------------------
(***************************************************************************)
(* The theorems.                                                           *)
(***************************************************************************)
\* Every variable of the server stays in its type, whatever the connections and
\* the datagrams race on: in particular the values FastIndex.go and DelPlayer
\* leave behind are slots, positions and objects the other procedures expect.
THEOREM ServerTypeCorrect == Spec => []TypeOK
<1>1. ServerInv => TypeOK
  BY DEF ServerInv
<1>2. QED
  BY <1>1, ServerInvHolds, PTL

\* Voice never crosses groups (HandleVoiceData, VoiceHandle.go): not when two
\* connections create the same group or the same player at the same moment, and
\* not while members are evicted and enter again.
THEOREM VoiceStaysInGroup == Spec => []GroupIsolation
<1>1. ServerInv => GroupIsolation
  BY DEF ServerInv, Pointers, Delivered, GroupIsolation
<1>2. QED
  BY <1>1, ServerInvHolds, PTL

\* The server implements FastIndex: whatever its handlers do, they use the index
\* table by the steps of that module and no others, so what is proved about the
\* table on its own holds in the server.
THEOREM UsesIndex == Spec => IndexSpec
<1>1. Init => IndexInit
  BY DEF Init
<1>2. ServerInv /\ [Next]_vars => [IndexNext]_indexVars
  BY IndexStep
<1>3. QED
  BY <1>1, <1>2, ServerInvHolds, PTL DEF Spec, IndexSpec

\* No Add of the running server takes the slot of a player that is in the table
\* (Add, FastIndex.go), so a slot answers for one player until it is deleted.
THEOREM ServerSlotsAreSafe == Spec => OccupiedSlotKept
BY UsesIndex, SlotsAreSafe, PTL
=============================================================================

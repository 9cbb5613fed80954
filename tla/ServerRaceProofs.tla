-------------------------- MODULE ServerRaceProofs --------------------------
(***************************************************************************)
(* Proofs about what the races of VoiceServer leave intact, for any number *)
(* of connections, datagrams, players and groups: that the places of       *)
(* players and the answers of the server are true, that count and cursor   *)
(* never run ahead of the players created, what an eviction was judged by, *)
(* and of what the process can die.                                        *)
(*                                                                         *)
(* The argument follows each player object from its allocation, when its   *)
(* index still says 0, to the slot it is given.  A player holds at most    *)
(* one slot and never loses it, though the table may forget it and give    *)
(* the slot to a second one.  Every slot below the cursor, and below a     *)
(* position that is yet to be stored in the cursor, has been somebody's.   *)
(***************************************************************************)
EXTENDS VoiceServerProofs, FiniteSetTheorems

\* The connection works on a player whose index is not assigned yet.
Builds(c) == conn[c].step \in {"publish", "add"}

Building(q) == \E c \in Conns : Builds(c) /\ conn[c].p = q

\* CreatePlayer is done with the player's index.
Given(q) == Known(q) /\ ~Building(q)

\* Add has decided where the player of the connection goes.
Has(c) == conn[c].step = "add" /\ adding[c].step \notin {"out", "admitted"}

\* The slot is the player's, whatever the table says by now.
Holds(q, s) ==
  \/ Given(q) /\ player[q].PlayerIndex = s
  \/ \E c \in Conns : Has(c) /\ conn[c].p = q /\ adding[c].pos = s

\* The connection is in FastIndex's Add where CreatePlayer calls it.
Calls(c) ==
  /\ conn[c].step \in {"findPlayer", "publish"} => adding[c].step = "admitted"
  /\ conn[c].step = "add" => adding[c].step # "out"
  /\ conn[c].step \notin {"findPlayer", "publish", "add"} => adding[c].step = "out"

\* A position yet to be stored in the cursor, plus one, has no unused slot below.
Ahead(c) ==
  Has(c) /\ adding[c].step # "added" =>
    /\ adding[c].pos \in Slots
    /\ \A s \in Slots : s < adding[c].pos => \E q \in Players : Holds(q, s)

Alone(c, d) == Builds(c) /\ Builds(d) /\ conn[c].p = conn[d].p => c = d

New(c) == Builds(c) => player[conn[c].p].PlayerIndex = 0

Taken == \A s \in Slots : list[s] # Nobody => Holds(list[s], s)

Behind == \A s \in Slots : s < nextAddPos => \E q \in Players : Holds(q, s)

PlaceInv ==
  /\ \A c \in Conns : Calls(c) /\ Ahead(c) /\ New(c)
  /\ \A c, d \in Conns : Alone(c, d)
  /\ Taken
  /\ Behind

-----------------------------------------------------------------------------
(***************************************************************************)
(* The steps that do not concern CreatePlayer.                             *)
(***************************************************************************)
SameNames ==
  \A q \in Players : /\ player'[q].PlayerID = player[q].PlayerID
                     /\ player'[q].GroupID = player[q].GroupID
                     /\ player'[q].PlayerIndex = player[q].PlayerIndex

InCreate == {"findPlayer", "publish", "add"}

\* The connection is not on its way in, through or out of CreatePlayer.
Outside(c) == \/ conn'[c] = conn[c]
              \/ conn[c].step \notin InCreate /\ conn'[c].step \notin InCreate

Elsewhere ==
  /\ SameNames
  /\ \A c \in Conns : Outside(c)
  /\ UNCHANGED indexVars

\* The time of the last packet is no name.
LEMMA RefreshNames ==
  ASSUME ServerInv, NEW a, NEW addr, Refresh(a, addr)
  PROVE  SameNames
BY DEF Refresh, SameNames, ServerInv, TypeOK, GroupsTypeOK, PlayerObjects

\* A step is one of CreatePlayer's, of a delete, or elsewhere.
LEMMA WhatSteps ==
  ASSUME ServerInv, [Next]_vars
  PROVE  \/ Elsewhere /\ (acks' = acks \/ \E c \in Conns : SendAck(c))
         \/ /\ acks' = acks
            /\ \E c \in Conns : \/ CheckCount(c) \/ FoundPlayer(c) \/ AllocatePlayer(c, now)
                                \/ Publish(c) \/ AddToIndex(c) \/ AssignIndex(c)
         \/ acks' = acks /\ \E w \in Workers : DelIndex(w)
<1>. USE DEF ServerInv, TypeOK, GroupsTypeOK, Elsewhere, SameNames, Outside, InCreate, ConnAt,
             groupsVars, serverVars
<1>0. \A c \in Conns : conn[c] \in ConnStates
  OBVIOUS
<1>1. ASSUME NEW c \in Conns, NEW id \in PlayerIDs, NEW gid \in GroupIDs, NEW speak \in SpeakBits,
             EnterGroup(c, id, gid, speak)
      PROVE  Elsewhere /\ acks' = acks
  BY <1>0, <1>1 DEF EnterGroup, IdleConn
<1>2. ASSUME NEW c \in Conns,
             \/ FindOrNewGroup(c, "findGroup", "putGroup", "checkCount")
             \/ FindOrNewGroup(c, "findGroup2", "putGroup2", "addMember"),
             UNCHANGED serverVars
      PROVE  Elsewhere /\ acks' = acks
  <2>1. PICK r : /\ conn' = [conn EXCEPT ![c] = r] /\ r.step \notin InCreate
                 /\ UNCHANGED <<player, indexVars>>
    BY <1>0, <1>2 DEF FindOrNewGroup, ConnStates
  <2>. QED BY <1>2, <2>1 DEF FindOrNewGroup
<1>3. ASSUME NEW c \in Conns, PutGroup(c), UNCHANGED serverVars
      PROVE  Elsewhere /\ acks' = acks
  BY <1>0, <1>3 DEF PutGroup, ConnStates
<1>4. ASSUME NEW c \in Conns, Reject(c)
      PROVE  Elsewhere /\ acks' = acks
  BY <1>0, <1>4 DEF Reject, IdleConn
<1>5. ASSUME NEW c \in Conns, AddMember(c), UNCHANGED serverVars
      PROVE  Elsewhere /\ acks' = acks
  BY <1>0, <1>5 DEF AddMember, ConnStates
<1>6. ASSUME NEW c \in Conns, SetListen(c)
      PROVE  Elsewhere /\ acks' = acks
  BY <1>0, <1>6 DEF SetListen, ConnStates, PlayerObjects
<1>7. ASSUME NEW c \in Conns, SendAck(c)
      PROVE  Elsewhere
  <2>1. SameNames
    BY <1>7 DEF SendAck, PlayerObjects
  <2>2. QED
    BY <1>0, <1>7, <2>1 DEF SendAck, IdleConn
<1>8. ASSUME NEW c \in Conns, NEW id \in PlayerIDs, NEW flags \in AttrFlags,
             AdjustPlayerAttr(c, id, flags)
      PROVE  Elsewhere /\ acks' = acks
  BY <1>8 DEF AdjustPlayerAttr, PlayerObjects
<1>9. ASSUME NEW c \in Conns, ConnStep(c)
      PROVE  \/ Elsewhere /\ (acks' = acks \/ SendAck(c))
             \/ acks' = acks /\ \/ CheckCount(c) \/ FoundPlayer(c) \/ AllocatePlayer(c, now)
                                \/ Publish(c) \/ AddToIndex(c) \/ AssignIndex(c)
  BY <1>1, <1>2, <1>3, <1>4, <1>5, <1>6, <1>7, <1>8, <1>9 DEF ConnStep
<1>10. ASSUME NEW w \in Workers, WorkStep(w)
       PROVE  \/ Elsewhere /\ acks' = acks
              \/ acks' = acks /\ DelIndex(w)
  <2>1. ASSUME NEW a \in acks, NEW addr \in Addrs, VoiceData(w, a, addr)
        PROVE  Elsewhere /\ acks' = acks
    BY <2>1, RefreshNames DEF VoiceData
  <2>2. QED
    BY <1>10, <2>1 DEF WorkStep, Forward, DelFind, DelUnlist, DelFindGroup, DelMember
<1>11. ASSUME NEW a \in acks, NEW addr \in Addrs,
              RequestConnect(a, addr) \/ VoiceHeartbeat(a, addr)
       PROVE  Elsewhere /\ acks' = acks
  BY <1>11, RefreshNames DEF RequestConnect, VoiceHeartbeat, PlayerObjects
<1>12. CASE Tick \/ UNCHANGED vars
  BY <1>12 DEF Tick, vars
<1>13. QED
  BY <1>9, <1>10, <1>11, <1>12 DEF Next

-----------------------------------------------------------------------------
(***************************************************************************)
(* What a player holds, it keeps.                                          *)
(***************************************************************************)
Carries ==
  /\ \A q \in Players : Given(q) =>
       Given(q)' /\ player'[q].PlayerIndex = player[q].PlayerIndex
  /\ \A c \in Conns, q \in Players : Has(c) /\ conn[c].p = q =>
       \/ Has(c)' /\ conn'[c].p = q /\ adding'[c].pos = adding[c].pos
       \/ adding[c].pos \in Slots => Given(q)' /\ player'[q].PlayerIndex = adding[c].pos

LEMMA HoldsLasts ==
  ASSUME Carries, NEW q \in Players, NEW s \in Slots, Holds(q, s)
  PROVE  Holds(q, s)'
<1>1. CASE Given(q) /\ player[q].PlayerIndex = s
  BY <1>1 DEF Carries, Holds
<1>2. ASSUME NEW c \in Conns, Has(c), conn[c].p = q, adding[c].pos = s
      PROVE  Holds(q, s)'
  <2>1. CASE Has(c)' /\ conn'[c].p = q /\ adding'[c].pos = adding[c].pos
    BY <1>2, <2>1 DEF Holds
  <2>2. CASE Given(q)' /\ player'[q].PlayerIndex = s
    BY <2>2 DEF Holds
  <2>. QED BY <1>2, <2>1, <2>2 DEF Carries
<1>. QED BY <1>1, <1>2 DEF Holds

\* The position of a connection in Add, if it is to be stored in the cursor, is
\* the one it had.
SamePos(c) ==
  Has(c)' /\ adding'[c].step # "added" =>
    Has(c) /\ adding[c].step # "added" /\ adding'[c].pos = adding[c].pos

\* So a step has to answer only for the slots it writes, the position it takes and the
\* cursor it stores.
LEMMA PlacesKept ==
  ASSUME ServerInv, PlaceInv, Carries,
         \A c \in Conns : Calls(c)' /\ New(c)' /\ (SamePos(c) \/ Ahead(c)'),
         \A c, d \in Conns : Alone(c, d)',
         \A s \in Slots : list'[s] \in {list[s], Nobody} \/ Holds(list[s], s)',
         \A s \in Slots : s < nextAddPos' => s < nextAddPos \/ \E q \in Players : Holds(q, s)'
  PROVE  PlaceInv'
<1>1. \A q \in Players, s \in Slots : Holds(q, s) => Holds(q, s)'
  BY HoldsLasts
<1>2. Taken'
  <2>. SUFFICES ASSUME NEW s \in Slots, list'[s] # Nobody
                PROVE  Holds(list[s], s)'
    BY DEF Taken
  <2>1. CASE list'[s] = list[s]
    <3>1. list[s] \in Players /\ Holds(list[s], s)
      BY <2>1 DEF PlaceInv, Taken, ServerInv, TypeOK, IndexTypeOK
    <3>2. PICK q \in Players : q = list[s]
      BY <3>1
    <3>3. Holds(q, s)' /\ list'[s] = q
      BY <1>1, <2>1, <3>1, <3>2
    <3>. HIDE <2>1, <3>2
    <3>. QED BY <3>3
  <2>. QED BY <2>1
<1>3. Behind'
  <2>. SUFFICES ASSUME NEW s \in Slots, s < nextAddPos'
                PROVE  \E q \in Players : Holds(q, s)'
    BY DEF Behind
  <2>1. CASE s < nextAddPos
    <3>1. PICK q \in Players : Holds(q, s)
      BY <2>1 DEF PlaceInv, Behind
    <3>. QED BY <1>1, <3>1
  <2>. QED BY <2>1
<1>4. ASSUME NEW c \in Conns
      PROVE  Ahead(c)'
  <2>1. CASE SamePos(c)
    <3>. SUFFICES ASSUME Has(c)', adding'[c].step # "added"
                  PROVE  /\ adding'[c].pos \in Slots
                         /\ \A s \in Slots : s < adding'[c].pos =>
                              \E q \in Players : Holds(q, s)'
      BY DEF Ahead
    <3>1. /\ adding'[c].pos = adding[c].pos /\ adding[c].pos \in Slots
          /\ \A s \in Slots : s < adding[c].pos => \E q \in Players : Holds(q, s)
      BY <2>1 DEF SamePos, PlaceInv, Ahead
    <3>. QED BY <1>1, <3>1
  <2>. QED BY <2>1
<1>. QED BY <1>2, <1>3, <1>4 DEF PlaceInv

\* The connection goes on building, and holding, what it did.
StaysPut(c) ==
  /\ Builds(c)' <=> Builds(c)
  /\ Builds(c) => conn'[c].p = conn[c].p
  /\ Has(c) => Has(c)' /\ adding'[c].pos = adding[c].pos

\* Steps in which no player is allocated or given its index.
LEMMA QuietKeepsPlaces ==
  ASSUME ServerInv, PlaceInv, SameNames,
         \A c \in Conns : StaysPut(c) /\ Calls(c)' /\ (SamePos(c) \/ Ahead(c)'),
         \A s \in Slots : list'[s] \in {list[s], Nobody} \/ Holds(list[s], s)',
         \A s \in Slots : s < nextAddPos' => s < nextAddPos \/ \E q \in Players : Holds(q, s)'
  PROVE  PlaceInv' /\ Carries
<1>1. \A q \in Players : Given(q)' <=> Given(q)
  BY DEF SameNames, StaysPut, Given, Known, Building
<1>2. \A c \in Conns : Has(c) => Builds(c)
  BY DEF Has, Builds
<1>3. Carries
  BY <1>1, <1>2 DEF Carries, SameNames, StaysPut
<1>4. \A c, d \in Conns : Alone(c, d)'
  BY DEF StaysPut, PlaceInv, Alone
<1>5. ASSUME NEW c \in Conns
      PROVE  New(c)'
  <2>1. Builds(c) => conn[c].p \in Players
    BY DEF Builds, ServerInv, Pointers, Entering
  <2>. QED BY <2>1 DEF StaysPut, PlaceInv, New, SameNames
<1>. QED BY <1>3, <1>4, <1>5, PlacesKept

\* A step elsewhere moves no player.
LEMMA ElsewhereKeepsPlaces ==
  ASSUME ServerInv, PlaceInv, Elsewhere
  PROVE  PlaceInv' /\ Carries
<1>1. \A c \in Conns : StaysPut(c) /\ Calls(c)' /\ SamePos(c)
  BY DEF Elsewhere, Outside, InCreate, StaysPut, Builds, Has, Calls, SamePos, indexVars, PlaceInv
<1>. QED BY <1>1, QuietKeepsPlaces DEF Elsewhere, indexVars

\* On the way into CreatePlayer, past FindPlayer and into PlayerList nothing moves.
LEMMA EnterKeepsPlaces ==
  ASSUME ServerInv, PlaceInv, NEW c \in Conns, CheckCount(c) \/ FoundPlayer(c) \/ Publish(c)
  PROVE  PlaceInv' /\ Carries
<1>. USE DEF ServerInv, TypeOK, IndexTypeOK, GroupsTypeOK
<1>1. /\ UNCHANGED <<player, list, nextAddPos>>
      /\ \A d \in Conns : d # c => conn'[d] = conn[d] /\ adding'[d] = adding[d]
      /\ conn'[c].p = conn[c].p \/ conn'[c].step = "setListen"
      /\ \/ /\ conn[c].step = "checkCount" /\ conn'[c].step = "findPlayer"
            /\ adding'[c].step = "admitted"
         \/ /\ conn[c].step = "findPlayer" /\ conn'[c].step = "setListen"
            /\ adding'[c].step = "out"
         \/ conn[c].step = "publish" /\ conn'[c].step = "add" /\ adding'[c] = adding[c]
  <2>1. CASE CheckCount(c)
    BY <2>1 DEF CheckCount, ConnAt, Admit, ConnStates
  <2>2. CASE FoundPlayer(c)
    BY <2>2 DEF FoundPlayer, ConnAt, Abandon, NotAdding, ConnStates
  <2>3. CASE Publish(c)
    BY <2>3 DEF Publish, ConnAt, indexVars, ConnStates
  <2>. QED BY <2>1, <2>2, <2>3
<1>2. Calls(c)
  BY DEF PlaceInv
<1>3. StaysPut(c) /\ Calls(c)' /\ SamePos(c)
  BY <1>1, <1>2 DEF StaysPut, Builds, Has, Calls, SamePos
<1>4. \A d \in Conns : StaysPut(d) /\ Calls(d)' /\ SamePos(d)
  BY <1>1, <1>3 DEF StaysPut, Builds, Has, Calls, SamePos, PlaceInv
<1>5. SameNames
  BY <1>1 DEF SameNames
<1>. QED BY <1>1, <1>4, <1>5, QuietKeepsPlaces

\* A delete forgets who was in a slot, not who holds it.
LEMMA DeleteKeepsPlaces ==
  ASSUME ServerInv, PlaceInv, NEW w \in Workers, DelIndex(w)
  PROVE  PlaceInv' /\ Carries
<1>1. /\ UNCHANGED <<player, conn, nextAddPos, adding>>
      /\ \A s \in Slots : list'[s] \in {list[s], Nobody}
  BY DEF DelIndex, DelByIndex, ServerInv, TypeOK, IndexTypeOK
<1>2. \A d \in Conns : StaysPut(d) /\ Calls(d)' /\ SamePos(d)
  BY <1>1 DEF StaysPut, Builds, Has, Calls, SamePos, PlaceInv
<1>3. SameNames
  BY <1>1 DEF SameNames
<1>. QED BY <1>1, <1>2, <1>3, QuietKeepsPlaces

\* A new player is built by the connection that allocated it, and by no other.
LEMMA AllocateKeepsPlaces ==
  ASSUME ServerInv, PlaceInv, NEW c \in Conns, AllocatePlayer(c, now)
  PROVE  PlaceInv' /\ Carries
<1>. USE DEF ServerInv, TypeOK, GroupsTypeOK
<1>1. PICK p \in Players :
        /\ ~Known(p)
        /\ player' = [player EXCEPT ![p] = NewPlayer(conn[c].id, conn[c].gid, now)]
        /\ conn' = [conn EXCEPT ![c].step = "publish", ![c].p = p]
  BY FreshIsFresh DEF AllocatePlayer, FreshPlayers, Known
<1>2. conn[c].step = "findPlayer" /\ UNCHANGED <<list, nextAddPos, adding>>
  BY DEF AllocatePlayer, ConnAt, indexVars
<1>3. conn'[c].step = "publish" /\ conn'[c].p = p /\ \A d \in Conns : d # c => conn'[d] = conn[d]
  BY <1>1 DEF ConnStates
<1>4. player'[p].PlayerIndex = 0 /\ \A q \in Players : q # p => player'[q] = player[q]
  BY <1>1 DEF NewPlayer
<1>5. \A d \in Conns : Builds(d) => Known(conn[d].p)
  BY GroupsAssumption DEF GroupsAssumption, Builds, Pointers, Entering, Known
<1>6. \A q \in Players : Given(q) => q # p /\ Given(q)'
  BY <1>1, <1>2, <1>3, <1>4 DEF Given, Known, Building, Builds
<1>7. Carries
  BY <1>2, <1>3, <1>4, <1>6 DEF Carries, Has
<1>8. \A d \in Conns : Calls(d)' /\ SamePos(d)
  BY <1>2, <1>3 DEF PlaceInv, Calls, SamePos, Has
<1>9. \A d \in Conns : New(d)'
  BY <1>1, <1>2, <1>3, <1>4, <1>5 DEF PlaceInv, New, Builds, Known
<1>10. \A d, e \in Conns : Alone(d, e)'
  BY <1>1, <1>3, <1>5 DEF PlaceInv, Alone, Builds
<1>. QED BY <1>2, <1>7, <1>8, <1>9, <1>10, PlacesKept

\* Add takes the first free slot from the cursor on.
LEMMA FirstFreeSkips ==
  ASSUME IndexTypeOK, NEW t \in Slots, FirstFree(t), NEW s \in Slots, s < t
  PROVE  s < nextAddPos \/ list[s] # Nobody
<1>1. s \in Nat /\ t \in Nat /\ nextAddPos \in Nat /\ MaxCount \in Nat
  BY FastIndexAssumption DEF FastIndexAssumption, IndexTypeOK, Slots
<1>2. s >= nextAddPos => Distance(s) < Distance(t)
  BY <1>1 DEF Distance
<1>. QED BY <1>1, <1>2 DEF FirstFree

\* The slot Add takes has only taken slots below it: those from the cursor on it has
\* probed, those below the cursor were somebody's.
LEMMA ClaimKeepsPlaces ==
  ASSUME ServerInv, PlaceInv, NEW c \in Conns, conn[c].step = "add", UNCHANGED groupsVars,
         Claim(c, conn[c].p)
  PROVE  PlaceInv' /\ Carries
<1>. USE FastIndexAssumption DEF FastIndexAssumption, ServerInv, TypeOK, IndexTypeOK
<1>1. PICK p \in Players : p = conn[c].p
  BY DEF Pointers, Entering
<1>2. PICK t \in Slots :
        /\ FirstFree(t)
        /\ list' = [list EXCEPT ![t] = p]
        /\ adding' = [adding EXCEPT ![c] =
                        [step |-> "claimed", value |-> p, pos |-> t, seen |-> 0]]
  BY <1>1 DEF Claim
<1>3. /\ UNCHANGED <<player, conn, nextAddPos>> /\ adding[c].step = "admitted"
      /\ adding'[c].step = "claimed" /\ adding'[c].pos = t /\ list'[t] = p
      /\ \A d \in Conns : d # c => adding'[d] = adding[d]
      /\ \A s \in Slots : s # t => list'[s] = list[s]
  BY <1>2 DEF Claim, groupsVars
<1>4. SameNames
  BY <1>3 DEF SameNames
<1>5. \A d \in Conns : StaysPut(d)
  BY <1>3 DEF StaysPut, Builds, Has
<1>6. \A d \in Conns : Calls(d)'
  BY <1>3 DEF PlaceInv, Calls
<1>7. Holds(p, t)'
  BY <1>1, <1>3 DEF Holds, Has
<1>8. \A s \in Slots : list'[s] \in {list[s], Nobody} \/ Holds(list[s], s)'
  <2>1. \A s \in Slots : s # t => list'[s] \in {list[s], Nobody}
    BY <1>3
  <2>2. Holds(list[t], t)'
    BY <1>3, <1>7
  <2>. QED BY <2>1, <2>2
<1>9. \A s \in Slots : s < t => s < nextAddPos \/ list[s] # Nobody
  BY <1>2, FirstFreeSkips
<1>10. \A s \in Slots : s < t => \E q \in Players : Holds(q, s)
  BY <1>9 DEF PlaceInv, Behind, Taken
<1>11. \A q \in Players, s \in Slots : Holds(q, s) => Holds(q, s)'
  BY <1>3 DEF Holds, Given, Known, Building, Builds, Has
<1>12. Ahead(c)'
  BY <1>3, <1>10, <1>11 DEF Ahead
<1>13. \A d \in Conns : SamePos(d) \/ Ahead(d)'
  BY <1>3, <1>12 DEF SamePos, Has
<1>. QED BY <1>3, <1>4, <1>5, <1>6, <1>8, <1>13, QuietKeepsPlaces

\* Every slot is taken: the player gets none.
LEMMA FindNoneKeepsPlaces ==
  ASSUME ServerInv, PlaceInv, NEW c \in Conns, conn[c].step = "add", UNCHANGED groupsVars,
         FindNone(c, conn[c].p)
  PROVE  PlaceInv' /\ Carries
<1>. USE DEF ServerInv, TypeOK, IndexTypeOK
<1>1. /\ UNCHANGED <<player, conn, list, nextAddPos>>
      /\ adding[c].step = "admitted" /\ adding'[c].step = "added"
      /\ \A d \in Conns : d # c => adding'[d] = adding[d]
  BY DEF FindNone, groupsVars
<1>2. SameNames /\ \A d \in Conns : StaysPut(d)
  BY <1>1 DEF SameNames, StaysPut, Builds, Has
<1>3. \A d \in Conns : Calls(d)' /\ SamePos(d)
  BY <1>1 DEF PlaceInv, Calls, SamePos, Has
<1>. QED BY <1>1, <1>2, <1>3, QuietKeepsPlaces

\* Counting, and storing the cursor one past a slot all those below which were used.
LEMMA StoreKeepsPlaces ==
  ASSUME ServerInv, PlaceInv, NEW c \in Conns, conn[c].step = "add", UNCHANGED groupsVars,
         LoadCount(c) \/ StoreCount(c) \/ StoreCursor(c) \/ ProbePastEnd(c)
  PROVE  PlaceInv' /\ Carries
<1>. USE DEF ServerInv, TypeOK, IndexTypeOK
<1>1. PICK p \in Players : p = conn[c].p
  BY DEF Pointers, Entering
<1>2. /\ UNCHANGED <<player, conn, list>>
      /\ adding'[c].pos = adding[c].pos
      /\ \A d \in Conns : d # c => adding'[d] = adding[d]
      /\ \/ /\ adding[c].step \in {"claimed", "loaded"} /\ adding'[c].step \in {"loaded", "counted"}
            /\ nextAddPos' = nextAddPos
         \/ adding' = adding /\ nextAddPos' = nextAddPos
         \/ /\ adding[c].step = "counted" /\ adding'[c].step = "added"
            /\ nextAddPos' = adding[c].pos + 1
  <2>1. CASE LoadCount(c) \/ StoreCount(c)
    BY <2>1 DEF LoadCount, StoreCount, groupsVars
  <2>2. CASE StoreCursor(c)
    BY <2>2 DEF StoreCursor, groupsVars
  <2>3. CASE ProbePastEnd(c)
    BY <2>3 DEF ProbePastEnd, groupsVars
  <2>. QED BY <2>1, <2>2, <2>3
<1>3. SameNames /\ \A d \in Conns : StaysPut(d)
  BY <1>2 DEF SameNames, StaysPut, Builds, Has
<1>4. \A d \in Conns : Calls(d)' /\ SamePos(d)
  BY <1>2 DEF PlaceInv, Calls, SamePos, Has
<1>5. \A q \in Players, s \in Slots : Holds(q, s) => Holds(q, s)'
  BY <1>2 DEF Holds, Given, Known, Building, Builds, Has
<1>6. ASSUME NEW s \in Slots, s < nextAddPos'
      PROVE  s < nextAddPos \/ \E q \in Players : Holds(q, s)'
  <2>1. CASE nextAddPos' = nextAddPos
    BY <1>6, <2>1
  <2>2. CASE adding[c].step = "counted" /\ nextAddPos' = adding[c].pos + 1
    <3>1. /\ adding[c].pos \in Slots
          /\ \A r \in Slots : r < adding[c].pos => \E q \in Players : Holds(q, r)
      BY <2>2 DEF PlaceInv, Ahead, Has
    <3>2. s < adding[c].pos \/ s = adding[c].pos
      BY <1>6, <2>2, <3>1, FastIndexAssumption DEF FastIndexAssumption, Slots
    <3>3. CASE s = adding[c].pos
      BY <1>1, <1>5, <2>2, <3>3 DEF Holds, Has
    <3>. QED BY <1>5, <3>1, <3>2, <3>3
  <2>. QED BY <1>2, <2>1, <2>2
<1>. QED BY <1>2, <1>3, <1>4, <1>6, QuietKeepsPlaces

\* The player gets the slot it holds.
LEMMA AssignKeepsPlaces ==
  ASSUME ServerInv, PlaceInv, NEW c \in Conns, AssignIndex(c)
  PROVE  PlaceInv' /\ Carries
<1>. USE DEF ServerInv, TypeOK, IndexTypeOK, GroupsTypeOK
<1>1. PICK p \in Players : p = conn[c].p /\ Known(p)
  BY GroupsAssumption
     DEF GroupsAssumption, AssignIndex, ConnAt, Pointers, Entering, Known
<1>2. PICK i : /\ player' = [player EXCEPT ![p].PlayerIndex = i]
               /\ adding[c].pos \in Slots => i = adding[c].pos
  <2>1. adding[c].pos \in Slots => adding[c].pos # NotFound
    BY FastIndexAssumption DEF FastIndexAssumption, Slots, NotFound
  <2>. QED BY <1>1, <2>1 DEF AssignIndex
<1>3. /\ conn' = [conn EXCEPT ![c].step = "findGroup2"]
      /\ adding' = [adding EXCEPT ![c] = NotAdding]
      /\ conn[c].step = "add" /\ UNCHANGED <<list, nextAddPos>>
  BY DEF AssignIndex, ConnAt, Return
<1>4. /\ conn'[c].step = "findGroup2" /\ adding'[c].step = "out"
      /\ \A d \in Conns : d # c => conn'[d] = conn[d] /\ adding'[d] = adding[d]
  BY <1>3 DEF ConnStates, NotAdding
<1>5. /\ player'[p].PlayerIndex = i
      /\ \A q \in Players : q # p => player'[q] = player[q]
      /\ player'[p].PlayerID = player[p].PlayerID
  <2>1. player'[p] = [player[p] EXCEPT !.PlayerIndex = i] /\ player[p] \in PlayerObjects
    BY <1>2
  <2>. QED BY <1>2, <2>1 DEF PlayerObjects
<1>6. \A d \in Conns : d # c /\ Builds(d) => conn[d].p # p
  BY <1>1, <1>3 DEF PlaceInv, Alone, Builds
<1>7. Given(p)'
  BY <1>1, <1>4, <1>5, <1>6 DEF Given, Known, Building, Builds
<1>8. \A q \in Players : Given(q) => q # p /\ Given(q)'
  BY <1>1, <1>3, <1>4, <1>5 DEF Given, Known, Building, Builds
<1>9. Carries
  BY <1>1, <1>2, <1>3, <1>4, <1>5, <1>7, <1>8 DEF Carries, Has
<1>10. \A d \in Conns : Calls(d)' /\ SamePos(d)
  BY <1>4 DEF PlaceInv, Calls, SamePos, Has
<1>11. \A d \in Conns : New(d)'
  BY <1>4, <1>5, <1>6 DEF PlaceInv, New, Builds, Pointers, Entering
<1>12. \A d, e \in Conns : Alone(d, e)'
  BY <1>4 DEF PlaceInv, Alone, Builds
<1>. QED BY <1>3, <1>9, <1>10, <1>11, <1>12, PlacesKept

\* Every step keeps the places of players.
LEMMA PlacesStep ==
  ASSUME ServerInv, PlaceInv, [Next]_vars
  PROVE  PlaceInv' /\ Carries
<1>1. ASSUME NEW c \in Conns, AddToIndex(c)
      PROVE  PlaceInv' /\ Carries
  BY <1>1, ClaimKeepsPlaces, FindNoneKeepsPlaces, StoreKeepsPlaces DEF AddToIndex, ConnAt
<1>. QED BY <1>1, WhatSteps, ElsewhereKeepsPlaces, EnterKeepsPlaces, DeleteKeepsPlaces,
            AllocateKeepsPlaces, AssignKeepsPlaces

LEMMA PlacesHold == Spec => []PlaceInv
<1>1. Init => PlaceInv
  <2>. SUFFICES ASSUME Init PROVE PlaceInv
    OBVIOUS
  <2>1. \A c \in Conns : conn[c].step = "idle" /\ adding[c].step = "out"
    BY DEF Init, GroupsInit, IndexInit, IdleConn, NotAdding
  <2>2. \A s \in Slots : list[s] = Nobody /\ ~(s < nextAddPos)
    BY FastIndexAssumption DEF FastIndexAssumption, Init, IndexInit, Slots
  <2>. QED BY <2>1, <2>2 DEF PlaceInv, Calls, Ahead, New, Alone, Taken, Behind, Has, Builds
<1>2. ServerInv /\ PlaceInv /\ [Next]_vars => PlaceInv'
  BY PlacesStep
<1>. QED BY <1>1, <1>2, ServerInvHolds, PTL DEF Spec

-----------------------------------------------------------------------------
(***************************************************************************)
(* Places and answers.                                                     *)
(***************************************************************************)
\* Whatever is in PlayerList, in a member list or in a slot belongs there, for all
\* the races of joins with joins and with evictions: FindPlayerByIndex and
\* DelPlayer, which go by slot and ID, never meet a player in a slot that was not
\* given to it.
THEOREM PlacesStayTrue == Spec => []PlacesAreTrue
<1>1. ServerInv /\ PlaceInv => PlacesAreTrue
  <2>. SUFFICES ASSUME ServerInv, PlaceInv PROVE PlacesAreTrue
    OBVIOUS
  <2>1. \A id \in PlayerIDs : PlayerList[id] # Nobody => player[PlayerList[id]].PlayerID = id
    BY DEF ServerInv, Pointers, Published
  <2>2. \A g \in Groups, id \in PlayerIDs : group[g].PlayerList[id] # Nobody =>
          player[group[g].PlayerList[id]].GroupID = group[g].GroupID
    BY DEF ServerInv, Pointers, Joined
  <2>3. ASSUME NEW s \in Slots, list[s] # Nobody
        PROVE  \/ player[list[s]].PlayerIndex = s
               \/ \E c \in Conns : /\ conn[c].step = "add"
                                   /\ conn[c].p = list[s] /\ adding[c].pos = s
    BY <2>3 DEF PlaceInv, Taken, Holds, Has
  <2>. QED BY <2>1, <2>2, <2>3 DEF PlacesAreTrue
<1>. QED BY <1>1, ServerInvHolds, PlacesHold, PTL

-----------------------------------------------------------------------------
(***************************************************************************)
(* What the server answers.                                                *)
(***************************************************************************)
\* A player's names are for life, its index from when it is given.
NamesLast ==
  \A q \in Players : Known(q) =>
    /\ player'[q].PlayerID = player[q].PlayerID
    /\ player'[q].GroupID = player[q].GroupID
    /\ player'[q].PlayerIndex = player[q].PlayerIndex \/ player[q].PlayerIndex = 0

LEMMA NamesLastStep ==
  ASSUME ServerInv, PlaceInv, [Next]_vars
  PROVE  NamesLast
<1>. USE DEF ServerInv, TypeOK, GroupsTypeOK, NamesLast
<1>1. CASE Elsewhere
  BY <1>1 DEF Elsewhere, SameNames
<1>2. ASSUME NEW c \in Conns, CheckCount(c) \/ FoundPlayer(c) \/ Publish(c) \/ AddToIndex(c)
      PROVE  NamesLast
  BY <1>2 DEF CheckCount, FoundPlayer, Publish, AddToIndex, groupsVars
<1>3. ASSUME NEW c \in Conns, AllocatePlayer(c, now)
      PROVE  NamesLast
  BY <1>3, FreshIsFresh DEF AllocatePlayer, FreshPlayers, Known
<1>4. ASSUME NEW c \in Conns, AssignIndex(c)
      PROVE  NamesLast
  <2>1. PICK p \in Players : p = conn[c].p /\ player[p].PlayerIndex = 0
    BY <1>4 DEF AssignIndex, ConnAt, Pointers, Entering, PlaceInv, New, Builds
  <2>2. PICK i : player' = [player EXCEPT ![p].PlayerIndex = i]
    BY <1>4, <2>1 DEF AssignIndex
  <2>3. /\ player'[p].PlayerID = player[p].PlayerID /\ player'[p].GroupID = player[p].GroupID
        /\ \A q \in Players : q # p => player'[q] = player[q]
    BY <2>2 DEF PlayerObjects
  <2>. QED BY <2>1, <2>3
<1>5. ASSUME NEW w \in Workers, DelIndex(w)
      PROVE  NamesLast
  BY <1>5 DEF DelIndex
<1>. QED BY <1>1, <1>2, <1>3, <1>4, <1>5, WhatSteps

\* Every answer ever sent tells of a player that was created, of its ID, its group
\* and its slot, whatever else is joining, deleting and connecting (HandleEnterGroup
\* reads them from the object CreatePlayer returned, which another connection may
\* still be working on).
THEOREM AnswersStayTrue == Spec => []AnswersAreTrue
<1>. DEFINE Names(p, a) == /\ player[p].PlayerID = a.PlayerId
                           /\ player[p].GroupID = a.GroupId
                           /\ a.PlayerIndex \in {0, player[p].PlayerIndex}
<1>1. Init => AnswersAreTrue
  BY DEF Init, AnswersAreTrue
<1>2. ServerInv /\ PlaceInv /\ AnswersAreTrue /\ [Next]_vars => AnswersAreTrue'
  <2>. SUFFICES ASSUME ServerInv, PlaceInv, AnswersAreTrue, [Next]_vars
                PROVE  AnswersAreTrue'
    OBVIOUS
  <2>1. ASSUME NEW a \in acks
        PROVE  \E p \in Players : Names(p, a)'
    <3>1. PICK p \in Players : Names(p, a)
      BY DEF AnswersAreTrue
    <3>2. Known(p)
      BY <3>1, GroupsAssumption DEF GroupsAssumption, ServerInv, TypeOK, Ack, Known
    <3>. QED BY <3>1, <3>2, NamesLastStep DEF NamesLast
  <2>2. ASSUME NEW c \in Conns, SendAck(c), Elsewhere, NEW a \in acks'
        PROVE  \E p \in Players : Names(p, a)'
    <3>1. PICK q \in Players : q = conn[c].p
      BY <2>2 DEF SendAck, ConnAt, ServerInv, Pointers, Entering, Known
    <3>2. CASE a = [PlayerIndex |-> player[q].PlayerIndex, PlayerId |-> player[q].PlayerID,
                    GroupId |-> player[q].GroupID]
      <4>1. Names(q, a)'
        BY <2>2, <3>2 DEF Elsewhere, SameNames
      <4>. QED BY <4>1
    <3>. QED BY <2>1, <2>2, <3>1, <3>2 DEF SendAck
  <2>3. \A a \in acks' : \E p \in Players : Names(p, a)'
    BY <2>1, <2>2, WhatSteps
  <2>. QED BY <2>3 DEF AnswersAreTrue
<1>. QED BY <1>1, <1>2, ServerInvHolds, PlacesHold, PTL DEF Spec

-----------------------------------------------------------------------------
(***************************************************************************)
(* Count and cursor.                                                       *)
(***************************************************************************)
\* The players whose Count++ is done.
Counted ==
  {q \in Players :
     \/ Given(q) /\ player[q].PlayerIndex \in Slots
     \/ \E c \in Conns : /\ conn[c].step = "add" /\ adding[c].step \in {"counted", "added"}
                         /\ conn[c].p = q /\ adding[c].pos \in Slots}

\* Increments get lost, and none is made up.
CountInv ==
  /\ Count <= Cardinality(Counted)
  /\ \A c \in Conns : adding[c].step = "loaded" => adding[c].seen <= Cardinality(Counted)

\* Who is counted was created, and a created player stays so.
LEMMA CountedWereCreated ==
  ASSUME ServerInv, PlaceInv
  PROVE  /\ Counted \subseteq Created /\ Created \subseteq Players
         /\ [Next]_vars => Created \subseteq Created'
<1>1. \A c \in Conns : Builds(c) => Known(conn[c].p)
  BY GroupsAssumption DEF GroupsAssumption, Builds, ServerInv, Pointers, Entering, Known
<1>2. Counted \subseteq Created
  BY <1>1 DEF Counted, Created, Given, Known, Builds
<1>3. [Next]_vars => Created \subseteq Created'
  BY NamesLastStep DEF NamesLast, Created, Known
<1>. QED BY <1>2, <1>3 DEF Created

\* A step of the index table takes one connection at most a step further.
LEMMA AddSteps1 ==
  ASSUME ServerInv, [Next]_vars, NEW d \in Conns
  PROVE  /\ adding[d].step \in {"counted", "added"} =>
              adding'[d].step \in {"counted", "added", "out"}
         /\ \/ Count' = Count
            \/ \E c \in Conns : StoreCount(c)
         /\ adding'[d].step = "loaded" =>
              \/ adding[d].step = "loaded" /\ adding'[d].seen = adding[d].seen
              \/ adding'[d].seen = Count
<1>. USE DEF ServerInv, TypeOK, IndexTypeOK
<1>1. ASSUME NEW c \in Conns, AddStep(c)
      PROVE  /\ adding[d].step \in {"counted", "added"} =>
                  adding'[d].step \in {"counted", "added", "out"}
             /\ Count' = Count \/ StoreCount(c)
             /\ adding'[d].step = "loaded" =>
                  \/ adding[d].step = "loaded" /\ adding'[d].seen = adding[d].seen
                  \/ adding'[d].seen = Count
  BY <1>1 DEF AddStep, Admit, Abandon, Claim, FindNone, ProbePastEnd, LoadCount, StoreCount,
              StoreCursor, Return, NotAdding
<1>2. ASSUME NEW s \in Slots, DelByIndex(s)
      PROVE  UNCHANGED <<adding, Count>>
  BY <1>2 DEF DelByIndex
<1>. QED BY <1>1, <1>2, IndexStep DEF IndexNext, indexVars

\* Who was counted stays counted.
LEMMA CountedLasts ==
  ASSUME ServerInv, PlaceInv, [Next]_vars
  PROVE  Counted \subseteq Counted'
<1>1. Carries
  BY PlacesStep
<1>2. ASSUME NEW q \in Players, Given(q), player[q].PlayerIndex \in Slots
      PROVE  q \in Counted'
  BY <1>1, <1>2 DEF Carries, Counted
<1>3. ASSUME NEW q \in Players, NEW c \in Conns, conn[c].step = "add",
             adding[c].step \in {"counted", "added"}, conn[c].p = q, adding[c].pos \in Slots
      PROVE  q \in Counted'
  <2>1. Has(c)
    BY <1>3 DEF Has
  <2>2. CASE Has(c)' /\ conn'[c].p = q /\ adding'[c].pos = adding[c].pos
    BY <1>3, <2>2, AddSteps1 DEF Has, Counted
  <2>3. CASE Given(q)' /\ player'[q].PlayerIndex = adding[c].pos
    BY <1>3, <2>3 DEF Counted
  <2>. QED BY <1>1, <1>3, <2>1, <2>2, <2>3 DEF Carries
<1>. QED BY <1>2, <1>3 DEF Counted

\* The store of Count++ counts one more player.
LEMMA StoreCountsOne ==
  ASSUME ServerInv, PlaceInv, [Next]_vars, NEW c \in Conns, StoreCount(c)
  PROVE  \E p \in Players : p \notin Counted /\ p \in Counted'
<1>. USE DEF ServerInv, TypeOK, IndexTypeOK
<1>1. adding[c].step = "loaded" /\ adding'[c].step = "counted"
  BY DEF StoreCount
<1>2. Has(c) /\ Builds(c) /\ adding[c].pos \in Slots
  BY <1>1 DEF PlaceInv, Calls, Ahead, Has, Builds
<1>3. PICK p \in Players : p = conn[c].p
  BY <1>2 DEF Builds, Pointers, Entering
<1>4. p \notin Counted
  <2>1. ~Given(p)
    BY <1>2, <1>3 DEF Given, Building
  <2>2. \A d \in Conns : conn[d].step = "add" /\ conn[d].p = p => d = c
    BY <1>2, <1>3 DEF PlaceInv, Alone, Builds
  <2>. QED BY <1>1, <2>1, <2>2 DEF Counted
<1>5. p \in Counted'
  <2>1. CASE Has(c)' /\ conn'[c].p = p /\ adding'[c].pos = adding[c].pos
    BY <1>1, <1>2, <2>1 DEF Has, Counted
  <2>2. CASE Given(p)' /\ player'[p].PlayerIndex = adding[c].pos
    BY <1>2, <2>2 DEF Counted
  <2>3. Carries
    BY PlacesStep
  <2>. QED BY <1>2, <1>3, <2>1, <2>2, <2>3 DEF Carries
<1>. QED BY <1>4, <1>5

\* Count, and what a connection has read of it, stay below the players counted.
LEMMA CountStep ==
  ASSUME IsFiniteSet(Players), ServerInv, PlaceInv, CountInv, [Next]_vars
  PROVE  CountInv'
<1>. USE DEF ServerInv, TypeOK, IndexTypeOK
<1>1. IsFiniteSet(Counted') /\ Counted \subseteq Counted'
  <2>1. Counted' \subseteq Players
    BY DEF Counted
  <2>. QED BY <2>1, FS_Subset, CountedLasts
<1>2. PICK n \in Nat, m \in Nat : n = Cardinality(Counted) /\ m = Cardinality(Counted') /\ n <= m
  <2>1. IsFiniteSet(Counted) /\ Cardinality(Counted) <= Cardinality(Counted')
    BY <1>1, FS_Subset
  <2>. QED BY <1>1, <2>1, FS_CardinalityType
<1>3. /\ Count \in Nat /\ Count <= n
      /\ \A d \in Conns : adding[d].seen \in Nat /\ (adding[d].step = "loaded" => adding[d].seen <= n)
  BY <1>2 DEF CountInv
<1>4. Count' <= m
  <2>1. ASSUME NEW c \in Conns, StoreCount(c)
        PROVE  Count' <= m
    <3>1. PICK p \in Players : p \notin Counted /\ p \in Counted'
      BY <2>1, StoreCountsOne
    <3>2. IsFiniteSet(Counted)
      BY <1>1, FS_Subset
    <3>3. Cardinality(Counted \cup {p}) = n + 1
      BY <1>2, <3>1, <3>2, FS_AddElement
    <3>4. Cardinality(Counted \cup {p}) <= m
      <4>1. (Counted \cup {p}) \in SUBSET Counted'
        BY <1>1, <3>1
      <4>. QED BY <1>1, <1>2, <4>1, FS_Subset
    <3>5. Count' = adding[c].seen + 1 /\ adding[c].seen <= n
      BY <1>3, <2>1 DEF StoreCount
    <3>. QED BY <1>2, <1>3, <3>3, <3>4, <3>5
  <2>2. Count' = Count => Count' <= m
    BY <1>2, <1>3
  <2>3. Count' = Count \/ (\E c \in Conns : StoreCount(c)) \/ Conns = {}
    BY AddSteps1
  <2>4. Conns = {} => Count' = Count
    <3>1. [IndexNext]_indexVars
      BY IndexStep
    <3>. QED BY <3>1 DEF IndexNext, DelByIndex, indexVars
  <2>. QED BY <2>1, <2>2, <2>3, <2>4
<1>5. ASSUME NEW d \in Conns, adding'[d].step = "loaded"
      PROVE  adding'[d].seen <= m
  <2>1. \/ adding[d].step = "loaded" /\ adding'[d].seen = adding[d].seen
        \/ adding'[d].seen = Count
    BY <1>5, AddSteps1
  <2>. QED BY <1>2, <1>3, <2>1
<1>. QED BY <1>2, <1>4, <1>5 DEF CountInv

LEMMA CountHolds ==
  ASSUME IsFiniteSet(Players)
  PROVE  Spec => []CountInv
<1>1. Init => CountInv
  <2>. SUFFICES ASSUME Init PROVE CountInv
    OBVIOUS
  <2>1. Count = 0 /\ \A c \in Conns : adding[c].step = "out"
    BY DEF Init, IndexInit, NotAdding
  <2>2. Cardinality(Counted) \in Nat
    <3>1. Counted \in SUBSET Players
      BY DEF Counted
    <3>. QED BY <3>1, FS_Subset, FS_CardinalityType
  <2>. QED BY <2>1, <2>2 DEF CountInv
<1>2. ServerInv /\ PlaceInv /\ CountInv /\ [Next]_vars => CountInv'
  BY CountStep
<1>. QED BY <1>1, <1>2, ServerInvHolds, PlacesHold, PTL DEF Spec

\* CreatePlayer turns a client away only when as many players as the table has slots
\* were created (AllGroups.go:29): lost increments of Count let more in than there
\* is room for, and never fewer.
THEOREM TurnsAwayOnlyTheExcess ==
  ASSUME IsFiniteSet(Players)
  PROVE  Spec => TurnsAwayOnlyWhenFull
<1>. DEFINE Full == \A c \in Conns : conn[c].step = "checkCount" /\ conn'[c].step = "idle" =>
                      Cardinality(Created) >= MaxCount
<1>1. ServerInv /\ PlaceInv /\ CountInv /\ [Next]_vars => [Full]_vars
  <2>. SUFFICES ASSUME ServerInv, PlaceInv, CountInv, [Next]_vars, NEW c \in Conns,
                       conn[c].step = "checkCount", conn'[c].step = "idle"
                PROVE  Cardinality(Created) >= MaxCount
    OBVIOUS
  <2>. USE DEF ServerInv, TypeOK, GroupsTypeOK, IndexTypeOK
  <2>1. \E d \in Conns : ConnStep(d)
    BY DEF Next, WorkStep, VoiceData, Forward, DelFind, DelUnlist, DelIndex, DelFindGroup,
           DelMember, RequestConnect, VoiceHeartbeat, Tick, vars, groupsVars
  <2>2. ASSUME NEW d \in Conns, ConnStep(d)
        PROVE  Reject(d)
    <3>1. ASSUME \/ Publish(d) \/ AddToIndex(d) \/ AssignIndex(d) \/ AddMember(d) \/ SetListen(d)
                 \/ SendAck(d) \/ PutGroup(d) \/ FoundPlayer(d) \/ AllocatePlayer(d, now)
                 \/ CheckCount(d)
          PROVE  FALSE
      BY <3>1 DEF Publish, AddToIndex, AssignIndex, AddMember, SetListen, SendAck, PutGroup,
                  FoundPlayer, AllocatePlayer, CheckCount, ConnAt, groupsVars, ConnStates
    <3>2. ASSUME \/ FindOrNewGroup(d, "findGroup", "putGroup", "checkCount")
                 \/ FindOrNewGroup(d, "findGroup2", "putGroup2", "addMember")
          PROVE  FALSE
      <4>1. PICK r, g : /\ conn' = [conn EXCEPT ![d].step = r, ![d].g = g]
                        /\ conn[d].step \in {"findGroup", "findGroup2"}
        BY <3>2 DEF FindOrNewGroup, ConnAt
      <4>. QED BY <4>1 DEF ConnStates
    <3>3. ASSUME NEW id \in PlayerIDs, NEW gid \in GroupIDs, NEW speak \in SpeakBits,
                 EnterGroup(d, id, gid, speak)
          PROVE  FALSE
      BY <3>3 DEF EnterGroup, IdleConn
    <3>4. ASSUME NEW id \in PlayerIDs, NEW flags \in AttrFlags, AdjustPlayerAttr(d, id, flags)
          PROVE  FALSE
      BY <3>4 DEF AdjustPlayerAttr
    <3>. QED BY <2>2, <3>1, <3>2, <3>3, <3>4 DEF ConnStep
  <2>3. Count >= MaxCount /\ Count \in Nat /\ Count <= Cardinality(Counted)
    BY <2>1, <2>2 DEF Reject, CountInv
  <2>4. Cardinality(Counted) <= Cardinality(Created) /\ Cardinality(Created) \in Nat
        /\ Cardinality(Counted) \in Nat
    <3>1. Counted \subseteq Created /\ Created \subseteq Players
      BY CountedWereCreated
    <3>2. IsFiniteSet(Created)
      BY <3>1, FS_Subset
    <3>3. IsFiniteSet(Counted) /\ Cardinality(Counted) <= Cardinality(Created)
      BY <3>1, <3>2, FS_Subset
    <3>. QED BY <3>2, <3>3, FS_CardinalityType
  <2>. QED BY <2>3, <2>4, FastIndexAssumption DEF FastIndexAssumption
<1>. QED BY <1>1, ServerInvHolds, PlacesHold, CountHolds, PTL
         DEF Spec, TurnsAwayOnlyWhenFull

-----------------------------------------------------------------------------
(***************************************************************************)
(* Add's index out of range.                                               *)
(***************************************************************************)
\* A player holds one slot at most, and it was created.
LEMMA OneSlotEach ==
  ASSUME ServerInv, PlaceInv, NEW q \in Players, NEW s \in Slots, Holds(q, s)
  PROVE  /\ q \in Created
         /\ \A t \in Slots : Holds(q, t) => t = s
<1>1. \A c \in Conns : Has(c) => Builds(c)
  BY DEF Has, Builds
<1>2. \A c \in Conns : Builds(c) => Known(conn[c].p)
  BY GroupsAssumption DEF GroupsAssumption, Builds, ServerInv, Pointers, Entering, Known
<1>3. q \in Created
  BY <1>1, <1>2 DEF Holds, Given, Known, Created
<1>4. ASSUME NEW t \in Slots, Holds(q, t)
      PROVE  t = s
  <2>1. CASE Given(q)
    BY <1>1, <1>4, <2>1 DEF Holds, Given, Building
  <2>2. CASE ~Given(q)
    <3>1. PICK c \in Conns : Has(c) /\ conn[c].p = q /\ adding[c].pos = s
      BY <2>2 DEF Holds
    <3>2. PICK d \in Conns : Has(d) /\ conn[d].p = q /\ adding[d].pos = t
      BY <1>4, <2>2 DEF Holds
    <3>3. c = d
      BY <1>1, <3>1, <3>2 DEF PlaceInv, Alone
    <3>. QED BY <3>1, <3>2, <3>3
  <2>. QED BY <2>1, <2>2
<1>. QED BY <1>3, <1>4

\* An Add that starts one past the end has a player without a slot, and all the slots
\* are, or were, the slots of others.
LEMMA PastEndIsFull ==
  ASSUME IsFiniteSet(Players), ServerInv, PlaceInv, NEW c \in Conns, conn[c].step = "add",
         ProbePastEnd(c)
  PROVE  Cardinality(Created) > MaxCount
<1>. USE FastIndexAssumption DEF FastIndexAssumption
<1>1. PICK p \in Players : p = conn[c].p
  BY DEF ServerInv, Pointers, Entering
<1>2. Builds(c) /\ ~Has(c)
  BY DEF Builds, Has, ProbePastEnd
<1>3. p \in Created
  BY <1>1, <1>2, GroupsAssumption
     DEF GroupsAssumption, Builds, ServerInv, Pointers, Entering, Created
<1>4. \A s \in Slots : ~Holds(p, s)
  <2>1. ~Given(p)
    BY <1>1, <1>2 DEF Given, Building
  <2>2. \A d \in Conns : Has(d) /\ conn[d].p = p => d = c
    BY <1>1, <1>2 DEF PlaceInv, Alone, Has, Builds
  <2>. QED BY <1>2, <2>1, <2>2 DEF Holds
<1>5. \A s \in Slots : \E q \in Players : Holds(q, s)
  BY DEF PlaceInv, Behind, ProbePastEnd, Slots
<1>. DEFINE f == [s \in Slots |-> CHOOSE q \in Players : Holds(q, s)]
            Others == Created \ {p}
<1>6. \A s \in Slots : f[s] \in Players /\ Holds(f[s], s)
  BY <1>5
<1>7. ASSUME NEW s \in Slots
      PROVE  f[s] \in Others /\ \A t \in Slots : f[s] = f[t] => s = t
  <2>1. PICK q \in Players : q = f[s] /\ Holds(q, s)
    BY <1>6
  <2>2. \A t \in Slots : f[t] = q => Holds(q, t)
    BY <1>6
  <2>. HIDE DEF f
  <2>. QED BY <1>4, <2>1, <2>2, OneSlotEach
<1>8. f \in Injection(Slots, Others)
  BY <1>7 DEF Injection, IsInjective
<1>9. IsFiniteSet(Created) /\ Cardinality(Created) \in Nat
  <2>1. Created \in SUBSET Players
    BY DEF Created
  <2>. QED BY <2>1, FS_Subset, FS_CardinalityType
<1>10. IsFiniteSet(Others) /\ Cardinality(Others) = Cardinality(Created) - 1
  BY <1>3, <1>9, FS_RemoveElement
<1>11. Cardinality(Slots) = MaxCount
  <2>1. PICK n \in Int : n = MaxCount - 1 /\ ~(0 > n) /\ n - 0 + 1 = MaxCount
    OBVIOUS
  <2>2. Cardinality(0 .. n) = IF 0 > n THEN 0 ELSE n - 0 + 1
    BY FS_Interval
  <2>. QED BY <2>1, <2>2 DEF Slots
<1>12. Cardinality(Slots) <= Cardinality(Others)
  <2>. HIDE DEF f, Others
  <2>. QED BY <1>8, <1>10, FS_Injection
<1>. QED BY <1>9, <1>10, <1>11, <1>12

\* What sets the flag is an Add that starts one past the end.
LEMMA WhoProbes ==
  ASSUME ServerInv, [Next]_vars, indexPanic' # indexPanic
  PROVE  \E c \in Conns : conn[c].step = "add" /\ ProbePastEnd(c)
<1>1. ~Elsewhere
  BY DEF Elsewhere, indexVars
<1>2. ASSUME NEW c \in Conns, \/ CheckCount(c) \/ FoundPlayer(c) \/ AllocatePlayer(c, now)
                              \/ Publish(c) \/ AddToIndex(c) \/ AssignIndex(c)
      PROVE  conn[c].step = "add" /\ ProbePastEnd(c)
  BY <1>2 DEF CheckCount, Admit, FoundPlayer, Abandon, AllocatePlayer, Publish, indexVars,
              AddToIndex, ConnAt, Claim, FindNone, LoadCount, StoreCount, StoreCursor,
              AssignIndex, Return
<1>3. \A w \in Workers : ~DelIndex(w)
  BY DEF DelIndex, DelByIndex
<1>. QED BY <1>1, <1>2, <1>3, WhatSteps

\* The process dies of its table, list[maxCount] in Add (FastIndex.go), only after
\* more players were created than the table has slots, however the connections race on
\* Count and the cursor: the capacity check may let one too many through, and a
\* cursor stored late may hand a slot out twice, but no race moves the cursor past a
\* slot nobody has had.
THEOREM TableKillsOnlyWhenFull ==
  ASSUME IsFiniteSet(Players)
  PROVE  Spec => []DiesOnlyWhenFull
<1>1. Init => DiesOnlyWhenFull
  BY DEF Init, IndexInit, DiesOnlyWhenFull
<1>2. ServerInv /\ PlaceInv /\ DiesOnlyWhenFull /\ [Next]_vars => DiesOnlyWhenFull'
  <2>. SUFFICES ASSUME ServerInv, PlaceInv, DiesOnlyWhenFull, [Next]_vars, indexPanic'
                PROVE  Cardinality(Created') > MaxCount
    BY DEF DiesOnlyWhenFull
  <2>1. Cardinality(Created) > MaxCount
    <3>1. CASE indexPanic
      BY <3>1 DEF DiesOnlyWhenFull
    <3>2. CASE ~indexPanic
      <4>1. \E c \in Conns : conn[c].step = "add" /\ ProbePastEnd(c)
        BY <3>2, WhoProbes
      <4>. QED BY <4>1, PastEndIsFull
    <3>. QED BY <3>1, <3>2
  <2>2. Created' \subseteq Players /\ Created \subseteq Created'
    BY CountedWereCreated DEF Created
  <2>3. IsFiniteSet(Created')
    BY <2>2, FS_Subset
  <2>4. IsFiniteSet(Created) /\ Cardinality(Created) <= Cardinality(Created')
    BY <2>2, <2>3, FS_Subset
  <2>5. Cardinality(Created) \in Nat /\ Cardinality(Created') \in Nat
    BY <2>3, <2>4, FS_CardinalityType
  <2>. QED BY <2>1, <2>4, <2>5, FastIndexAssumption DEF FastIndexAssumption
<1>. QED BY <1>1, <1>2, ServerInvHolds, PlacesHold, PTL DEF Spec

-----------------------------------------------------------------------------
(***************************************************************************)
(* Of what the process can die.                                            *)
(***************************************************************************)
\* What a step does with the datagrams.
LEMMA WhoWorks ==
  ASSUME [Next]_vars
  PROVE  work' = work \/ \E w \in Workers : WorkStep(w)
BY DEF Next, ConnStep, EnterGroup, FindOrNewGroup, PutGroup, CheckCount, Reject, FoundPlayer,
       AllocatePlayer, Publish, AddToIndex, AssignIndex, AddMember, SetListen, SendAck,
       AdjustPlayerAttr, RequestConnect, VoiceHeartbeat, Tick, vars, groupsVars

SomeGroup == \E gid \in GroupIDs : GroupList[gid] # Nobody

\* A datagram that is being handled has found a group, and no group is ever removed.
GroupsRemain == \A w \in Workers : work[w].step # "idle" => SomeGroup

\* No handler removes a group from GroupList.
LEMMA SomeGroupStays ==
  ASSUME ServerInv, [Next]_vars, SomeGroup
  PROVE  SomeGroup'
<1>1. CASE GroupList' = GroupList
  BY <1>1 DEF SomeGroup
<1>2. ASSUME NEW c \in Conns, PutGroup(c)
      PROVE  SomeGroup'
  <2>1. conn[c].gid \in GroupIDs /\ conn[c].g \in Groups
    BY <1>2 DEF PutGroup, ServerInv, Pointers, Entering
  <2>2. GroupList'[conn[c].gid] = conn[c].g
    BY <1>2, <2>1 DEF PutGroup, ServerInv, TypeOK, GroupsTypeOK
  <2>. QED BY <2>1, <2>2, GroupsAssumption DEF GroupsAssumption, SomeGroup
<1>3. GroupList' = GroupList \/ \E c \in Conns : PutGroup(c)
  <2>1. ASSUME NEW c \in Conns, ConnStep(c)
        PROVE  GroupList' = GroupList \/ PutGroup(c)
    BY <2>1 DEF ConnStep, EnterGroup, FindOrNewGroup, CheckCount, Reject, FoundPlayer,
                AllocatePlayer, Publish, AddToIndex, AssignIndex, AddMember, SetListen, SendAck,
                AdjustPlayerAttr, groupsVars
  <2>2. ASSUME NEW w \in Workers, WorkStep(w)
        PROVE  GroupList' = GroupList
    BY <2>2 DEF WorkStep, VoiceData, Forward, DelFind, DelUnlist, DelIndex, DelFindGroup, DelMember
  <2>. QED BY <2>1, <2>2
           DEF Next, RequestConnect, VoiceHeartbeat, Tick, vars, groupsVars
<1>. QED BY <1>1, <1>2, <1>3

\* VoiceData starts to work on a datagram only when its group is there.
LEMMA GroupsRemainStep ==
  ASSUME ServerInv, GroupsRemain, [Next]_vars
  PROVE  GroupsRemain'
<1>1. CASE work' = work
  BY <1>1, SomeGroupStays DEF GroupsRemain
<1>2. ASSUME NEW w \in Workers, WorkStep(w)
      PROVE  SomeGroup
  <2>1. ASSUME NEW a \in acks, NEW addr \in Addrs, VoiceData(w, a, addr)
        PROVE  SomeGroup
    <3>1. PICK p : /\ p = FindPlayerByIndex(a.PlayerIndex, a.PlayerId) /\ p # Nobody
                   /\ GroupList[player[p].GroupID] # Nobody
      BY <2>1 DEF VoiceData, Refresh
    <3>2. Known(p)
      BY <3>1 DEF FindPlayerByIndex, Get, ServerInv, Pointers, Indexed
    <3>3. player[p].GroupID \in GroupIDs
      BY <3>2 DEF Known, ServerInv, Pointers, HaveGroups, TypeOK, GroupsTypeOK, PlayerObjects
    <3>. QED BY <3>1, <3>3 DEF SomeGroup
  <2>2. ASSUME Forward(w) \/ DelFind(w) \/ DelUnlist(w) \/ DelIndex(w) \/ DelFindGroup(w)
                 \/ DelMember(w)
        PROVE  work[w].step # "idle"
    BY <2>2 DEF Forward, DelFind, DelUnlist, DelIndex, DelFindGroup, DelMember, WorkAt
  <2>. QED BY <1>2, <2>1, <2>2 DEF WorkStep, GroupsRemain
<1>. QED BY <1>1, <1>2, WhoWorks, SomeGroupStays DEF GroupsRemain

\* So whoever deletes finds GroupList with a group in it.
LEMMA GroupsRemainHolds == Spec => []GroupsRemain
<1>1. Init => GroupsRemain
  BY DEF Init, GroupsInit, GroupsRemain, IdleWork
<1>2. ServerInv /\ GroupsRemain /\ [Next]_vars => GroupsRemain'
  BY GroupsRemainStep
<1>. QED BY <1>1, <1>2, ServerInvHolds, PTL DEF Spec

AdjustsAbsent ==
  \E c \in Conns, id \in PlayerIDs, flags \in AttrFlags :
    PlayerList[id] = Nobody /\ AdjustPlayerAttr(c, id, flags)

\* DelPlayer never dereferences nil for a player another datagram has removed
\* (v.GroupID, AllGroups.go), whatever the connections and datagrams race on: the
\* branch that would is for a server without groups, and by the time there is a player
\* to delete there is a group for good.  So nil is dereferenced in AdjustPlayerAttr,
\* for a player that is not there, or not at all.
THEOREM OnlyAdjustDereferencesNil ==
  Spec => [][nilPanic' = nilPanic \/ AdjustsAbsent]_vars
<1>. DEFINE Safe == nilPanic' = nilPanic \/ AdjustsAbsent
<1>1. ServerInv /\ GroupsRemain /\ [Next]_vars => [Safe]_vars
  <2>. SUFFICES ASSUME ServerInv, GroupsRemain, [Next]_vars PROVE Safe
    OBVIOUS
  <2>1. ASSUME NEW c \in Conns, ConnStep(c)
        PROVE  Safe
    <3>1. ASSUME NEW id \in PlayerIDs, NEW flags \in AttrFlags, AdjustPlayerAttr(c, id, flags)
          PROVE  Safe
      BY <3>1 DEF AdjustPlayerAttr, AdjustsAbsent
    <3>. QED BY <2>1, <3>1
             DEF ConnStep, EnterGroup, FindOrNewGroup, PutGroup, CheckCount, Reject, FoundPlayer,
                 AllocatePlayer, Publish, AddToIndex, AssignIndex, AddMember, SetListen, SendAck,
                 groupsVars
  <2>2. ASSUME NEW w \in Workers, DelFind(w)
        PROVE  nilPanic' = nilPanic
    <3>1. work[w].step # "idle" /\ ~nilPanic /\ SomeGroup
      BY <2>2 DEF DelFind, WorkAt, Alive, GroupsRemain
    <3>2. UNCHANGED nilPanic \/ nilPanic' = (\A gid \in GroupIDs : GroupList[gid] = Nobody)
      BY <2>2 DEF DelFind
    <3>3. nilPanic \in BOOLEAN
      BY DEF ServerInv, TypeOK, GroupsTypeOK
    <3>. QED BY <3>1, <3>2, <3>3 DEF SomeGroup
  <2>3. ASSUME NEW w \in Workers, WorkStep(w)
        PROVE  nilPanic' = nilPanic
    BY <2>2, <2>3 DEF WorkStep, VoiceData, Forward, DelUnlist, DelIndex, DelFindGroup, DelMember
  <2>. QED BY <2>1, <2>3 DEF Next, RequestConnect, VoiceHeartbeat, Tick, vars, groupsVars
<1>. QED BY <1>1, ServerInvHolds, GroupsRemainHolds, PTL DEF Spec

\* The process dies in one of two ways, and in no third: AdjustPlayerAttr for a player
\* that is not there, or Add after more players were created than the table has slots.
THEOREM DiesInTwoWays ==
  ASSUME IsFiniteSet(Players)
  PROVE  Spec => [][Alive /\ ~Alive' => \/ AdjustsAbsent
                                        \/ Cardinality(Created') > MaxCount]_vars
<1>. DEFINE Safe == nilPanic' = nilPanic \/ AdjustsAbsent
            Dies == Alive /\ ~Alive' => AdjustsAbsent \/ Cardinality(Created') > MaxCount
<1>1. DiesOnlyWhenFull' /\ [Safe]_vars => [Dies]_vars
  <2>. SUFFICES ASSUME DiesOnlyWhenFull', [Safe]_vars, Alive, ~Alive', ~AdjustsAbsent
                PROVE  Cardinality(Created') > MaxCount
    OBVIOUS
  <2>1. nilPanic' = nilPanic
    BY DEF vars, groupsVars
  <2>2. ~nilPanic'
    BY <2>1, Zenon DEF Alive
  <2>3. indexPanic'
    BY <2>2 DEF Alive
  <2>. QED BY <2>3 DEF DiesOnlyWhenFull
<1>2. Spec => [][Safe]_vars
  BY OnlyAdjustDereferencesNil
<1>. QED BY <1>1, <1>2, TableKillsOnlyWhenFull, PTL

-----------------------------------------------------------------------------
(***************************************************************************)
(* What an eviction is judged by.                                          *)
(***************************************************************************)
\* Time goes on.
LEMMA NowAdvances ==
  ASSUME ServerInv, [Next]_vars
  PROVE  now \in Nat /\ now' \in Nat /\ now <= now' /\ (now' # now => Tick)
<1>1. ASSUME NEW c \in Conns, ConnStep(c)
      PROVE  now' = now
  BY <1>1 DEF ConnStep, EnterGroup, Reject, SetListen, SendAck, AdjustPlayerAttr, serverVars
<1>2. ASSUME NEW w \in Workers, WorkStep(w)
      PROVE  now' = now
  BY <1>2 DEF WorkStep, VoiceData, Forward, serverVars
<1>3. ASSUME NEW a \in acks, NEW addr \in Addrs,
             RequestConnect(a, addr) \/ VoiceHeartbeat(a, addr)
      PROVE  now' = now
  BY <1>3 DEF RequestConnect, VoiceHeartbeat, serverVars
<1>4. now' = now \/ Tick
  BY <1>1, <1>2, <1>3 DEF Next, vars, serverVars
<1>. QED BY <1>4 DEF Tick, ServerInv, TypeOK

\* Whatever sets the time of a player's last packet sets it to the present.
LEMMA HeardNow ==
  ASSUME ServerInv, [Next]_vars, NEW q \in Players
  PROVE  player'[q].LastActiveTime \in {player[q].LastActiveTime, now}
<1>. USE DEF ServerInv, TypeOK, GroupsTypeOK, PlayerObjects
<1>1. ASSUME NEW c \in Conns, \/ AllocatePlayer(c, now) \/ AssignIndex(c) \/ SetListen(c)
                              \/ SendAck(c)
      PROVE  player'[q].LastActiveTime \in {player[q].LastActiveTime, now}
  <2>1. CASE AllocatePlayer(c, now)
    BY <2>1 DEF AllocatePlayer, NewPlayer
  <2>2. CASE AssignIndex(c)
    <3>1. PICK p, i : player' = [player EXCEPT ![p].PlayerIndex = i]
      BY <2>2 DEF AssignIndex
    <3>. QED BY <3>1
  <2>3. CASE SetListen(c)
    BY <2>3 DEF SetListen
  <2>4. CASE SendAck(c)
    BY <2>4 DEF SendAck
  <2>. QED BY <1>1, <2>1, <2>2, <2>3, <2>4
<1>2. ASSUME NEW c \in Conns, NEW id \in PlayerIDs, NEW flags \in AttrFlags,
             AdjustPlayerAttr(c, id, flags)
      PROVE  player'[q].LastActiveTime = player[q].LastActiveTime
  BY <1>2 DEF AdjustPlayerAttr
<1>3. ASSUME NEW c \in Conns, ConnStep(c)
      PROVE  player'[q].LastActiveTime \in {player[q].LastActiveTime, now}
  BY <1>1, <1>2, <1>3
     DEF ConnStep, EnterGroup, FindOrNewGroup, PutGroup, CheckCount, Reject, FoundPlayer,
         Publish, AddToIndex, AddMember, groupsVars
<1>4. ASSUME NEW a \in acks, NEW addr \in Addrs, Refresh(a, addr)
      PROVE  player'[q].LastActiveTime \in {player[q].LastActiveTime, now}
  BY <1>4 DEF Refresh
<1>5. ASSUME NEW w \in Workers, WorkStep(w)
      PROVE  player'[q].LastActiveTime \in {player[q].LastActiveTime, now}
  BY <1>4, <1>5
     DEF WorkStep, VoiceData, Forward, DelFind, DelUnlist, DelIndex, DelFindGroup, DelMember
<1>6. ASSUME NEW a \in acks, NEW addr \in Addrs,
             RequestConnect(a, addr) \/ VoiceHeartbeat(a, addr)
      PROVE  player'[q].LastActiveTime \in {player[q].LastActiveTime, now}
  BY <1>4, <1>6 DEF RequestConnect, VoiceHeartbeat
<1>. QED BY <1>3, <1>5, <1>6 DEF Next, Tick, vars, groupsVars

Judges(w) ==
  \A p \in work[w].expired : \/ work[w].time - player[p].LastActiveTime > Lost
                             \/ player[p].LastActiveTime >= work[w].time

HeardInv ==
  /\ \A w \in Workers : work[w].time <= now
  /\ ExpiredWereSilent

\* After the loop a datagram only gets through with its list.
Shrinks(w) ==
  /\ work'[w].time \in {0, work[w].time}
  /\ work'[w].expired = {} \/ /\ work'[w].time = work[w].time
                              /\ work'[w].expired \subseteq work[w].expired

LEMMA DeletesShrink ==
  ASSUME ServerInv, NEW w \in Workers,
         DelFind(w) \/ DelUnlist(w) \/ DelIndex(w) \/ DelFindGroup(w) \/ DelMember(w)
  PROVE  Shrinks(w)
<1>. USE DEF ServerInv, TypeOK, GroupsTypeOK, Shrinks
<1>1. work[w] \in WorkStates
  OBVIOUS
<1>2. \/ NextExpired(w) = IdleWork
      \/ NextExpired(w).time = work[w].time /\ NextExpired(w).expired = work[w].expired
  BY <1>1 DEF NextExpired, WorkStates
<1>3. CASE DelFind(w)
  <2>1. PICK id, v, rest :
          /\ rest \subseteq work[w].expired
          /\ \/ work' = [work EXCEPT ![w].step = "delUnlist", ![w].expired = rest,
                                     ![w].id = id, ![w].v = v]
             \/ work' = [work EXCEPT ![w] = IF rest = {} THEN IdleWork
                                            ELSE [@ EXCEPT !.expired = rest]]
    BY <1>3 DEF DelFind
  <2>. QED BY <1>1, <2>1 DEF IdleWork, WorkStates
<1>4. CASE DelUnlist(w) \/ DelIndex(w)
  <2>1. PICK step : work' = [work EXCEPT ![w].step = step]
    BY <1>4 DEF DelUnlist, DelIndex
  <2>. QED BY <1>1, <2>1 DEF WorkStates
<1>5. CASE DelFindGroup(w) \/ DelMember(w)
  <2>1. PICK g : \/ work' = [work EXCEPT ![w] = NextExpired(w)]
                 \/ work' = [work EXCEPT ![w] = [@ EXCEPT !.step = "delMember", !.g = g]]
    BY <1>5 DEF DelFindGroup, DelMember
  <2>2. CASE work' = [work EXCEPT ![w] = NextExpired(w)]
    <3>1. work'[w] = NextExpired(w)
      BY <2>2
    <3>. QED BY <1>2, <3>1 DEF IdleWork
  <2>3. CASE work' = [work EXCEPT ![w] = [@ EXCEPT !.step = "delMember", !.g = g]]
    BY <1>1, <2>3 DEF WorkStates
  <2>. QED BY <2>1, <2>2, <2>3
<1>. QED BY <1>3, <1>4, <1>5

\* Every step keeps the lists of the datagrams justified.
LEMMA HeardStep ==
  ASSUME ServerInv, HeardInv, [Next]_vars
  PROVE  HeardInv'
<1>. USE DEF ServerInv, TypeOK, GroupsTypeOK
<1>1. /\ now \in Nat /\ now' \in Nat /\ now <= now' /\ Lost \in Nat
      /\ \A w \in Workers : work[w].time \in Nat /\ work[w].expired \subseteq Players
      /\ \A q \in Players : player[q].LastActiveTime \in Nat
  BY NowAdvances, ServerAssumption DEF ServerAssumption, WorkStates, PlayerObjects
<1>2. ASSUME NEW w \in Workers, work'[w] = work[w] \/ Shrinks(w)
      PROVE  work'[w].time <= now' /\ Judges(w)'
  <2>1. ASSUME NEW p \in work'[w].expired
        PROVE  /\ work'[w].time = work[w].time /\ p \in work[w].expired /\ p \in Players
               /\ player'[p].LastActiveTime \in {player[p].LastActiveTime, now}
    <3>1. p \in Players /\ work'[w].time = work[w].time /\ p \in work[w].expired
      <4>1. CASE work'[w] = work[w]
        BY <1>1, <2>1, <4>1
      <4>2. CASE Shrinks(w)
        BY <1>1, <2>1, <4>2 DEF Shrinks
      <4>. QED BY <1>2, <4>1, <4>2
    <3>. QED BY <3>1, HeardNow
  <2>2. work'[w].time <= now'
    BY <1>1, <1>2 DEF Shrinks, HeardInv
  <2>3. ASSUME NEW p \in work'[w].expired
        PROVE  \/ work'[w].time - player'[p].LastActiveTime > Lost
               \/ player'[p].LastActiveTime >= work'[w].time
    BY <1>1, <2>1, <2>3 DEF HeardInv, ExpiredWereSilent
  <2>. QED BY <2>2, <2>3 DEF Judges
<1>3. ASSUME NEW w \in Workers, Forward(w)
      PROVE  work'[w].time <= now' /\ Judges(w)'
  <2>1. PICK silent :
          /\ \A p \in silent : work[w].time - player[p].LastActiveTime > Lost
          /\ work' = [work EXCEPT ![w] = IF silent = {} THEN IdleWork
                        ELSE [@ EXCEPT !.step = "delFind", !.expired = silent]]
    BY <1>3 DEF Forward
  <2>2. player' = player
    BY <1>3 DEF Forward
  <2>3. \/ work'[w].time = 0 /\ work'[w].expired = {}
        \/ work'[w].time = work[w].time /\ work'[w].expired = silent
    BY <2>1 DEF IdleWork, WorkStates
  <2>. QED BY <1>1, <2>1, <2>2, <2>3 DEF Judges, HeardInv
<1>4. ASSUME NEW w \in Workers, NEW a \in acks, NEW addr \in Addrs, VoiceData(w, a, addr)
      PROVE  work'[w].time <= now' /\ Judges(w)'
  <2>1. work'[w].time = now /\ work'[w].expired = {}
    BY <1>4 DEF VoiceData, IdleWork
  <2>. QED BY <1>1, <2>1 DEF Judges
<1>5. ASSUME NEW w \in Workers, WorkStep(w), NEW x \in Workers, x # w
      PROVE  work'[x] = work[x]
  BY <1>5 DEF WorkStep, VoiceData, Forward, DelFind, DelUnlist, DelIndex, DelFindGroup, DelMember
<1>6. ASSUME NEW w \in Workers
      PROVE  work'[w].time <= now' /\ Judges(w)'
  <2>1. CASE work'[w] = work[w]
    BY <1>2, <2>1
  <2>2. CASE WorkStep(w)
    BY <1>2, <1>3, <1>4, <2>2, DeletesShrink DEF WorkStep
  <2>3. work'[w] = work[w] \/ WorkStep(w)
    BY <1>5, WhoWorks
  <2>. QED BY <2>1, <2>2, <2>3
<1>. QED BY <1>6 DEF HeardInv, ExpiredWereSilent, Judges

\* The players a datagram lists for deletion (VoiceHandle.go:48) were silent for longer
\* than the lost interval, or were heard after it had come: no other step of joins,
\* evictions and datagrams takes that away before DelPlayer is called for them
\* (line 63).  Whom DelPlayer, which goes by ID, then finds is another matter.
THEOREM ExpiredAreSilent == Spec => []ExpiredWereSilent
<1>1. Init => HeardInv
  BY DEF Init, GroupsInit, IdleWork, HeardInv, ExpiredWereSilent
<1>2. ServerInv /\ HeardInv /\ [Next]_vars => HeardInv'
  BY HeardStep
<1>3. HeardInv => ExpiredWereSilent
  BY DEF HeardInv
<1>. QED BY <1>1, <1>2, <1>3, ServerInvHolds, PTL DEF Spec
=============================================================================

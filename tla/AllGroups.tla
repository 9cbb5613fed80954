----------------------------- MODULE AllGroups -----------------------------
(***************************************************************************)
(* The shared state of the voice server and the procedures that change it  *)
(* (VoiceServer/src/object: AllGroups.go, Group.go, Player.go).            *)
(*                                                                         *)
(* PlayerList, GroupList, the index table and the member list of each      *)
(* group have a lock each, taken for one map operation at a time.  A       *)
(* procedure that goes through several of them is a sequence of steps      *)
(* here, one per locked section, and other goroutines run in between.      *)
(*                                                                         *)
(* Players and groups are objects on a heap: a goroutine keeps its pointer *)
(* to one that has left the maps.  Conns run CreateGroup and CreatePlayer, *)
(* Workers run DelPlayer; the handlers around them are in VoiceServer.     *)
(***************************************************************************)
EXTENDS FastIndex

CONSTANTS
  Workers,    (* the goroutines that handle a datagram                       *)
  PlayerIDs, GroupIDs,
  Groups,     (* the group objects: as many as the program may allocate      *)
  Addrs       (* UDP addresses                                               *)

ASSUME GroupsAssumption ==
  /\ Nobody \notin PlayerIDs \cup GroupIDs \cup Groups \cup Addrs

VARIABLES
  player,      (* the player objects                                         *)
  group,       (* the group objects                                          *)
  PlayerList,  (* playerID -> player object                                  *)
  GroupList,   (* groupID -> group object                                    *)
  conn,        (* the call each connection is in, and its local variables    *)
  work,        (* the same for each datagram being handled                   *)
  nilPanic     (* a nil pointer was dereferenced: the process is gone        *)

groupsVars == <<player, group, PlayerList, GroupList, conn, work, nilPanic>>

Alive == ~indexPanic /\ ~nilPanic

\* The flags of PlayerState.
Flags == {"WAIT_CONNECT", "SPEAK", "LISTEN", "MUTE"}

\* Where uint32(-1) points: past the table, like every index Add never returns.
NoIndex == MaxCount

NoPlayer == [PlayerID |-> Nobody, GroupID |-> Nobody, State |-> {},
             Addr |-> Nobody, PlayerIndex |-> 0, LastActiveTime |-> 0]

NewPlayer(id, gid, time) ==
  [PlayerID |-> id, GroupID |-> gid, State |-> {"WAIT_CONNECT"},
   Addr |-> Nobody, PlayerIndex |-> 0, LastActiveTime |-> time]

NoGroup == [GroupID |-> Nobody, PlayerList |-> [id \in PlayerIDs |-> Nobody],
            Count |-> 0]

\* The objects the program has not allocated yet: none left is the bound on
\* allocation.
FreshPlayers == {p \in Players : player[p].PlayerID = Nobody}

FreshGroups == {g \in Groups : group[g].GroupID = Nobody}

ConnSteps == {"idle", "findGroup", "putGroup", "checkCount", "findPlayer",
              "publish", "add", "findGroup2", "putGroup2", "addMember",
              "setListen", "ack"}

WorkSteps == {"idle", "forward", "delFind", "delUnlist", "delIndex",
              "delFindGroup", "delMember"}

IdleConn == [step |-> "idle", id |-> Nobody, gid |-> Nobody, canSpeak |-> FALSE,
             p |-> Nobody, g |-> Nobody]

IdleWork == [step |-> "idle", speaker |-> Nobody, g |-> Nobody, time |-> 0,
             expired |-> {}, id |-> Nobody, v |-> Nobody]

PlayerObjects ==
  [PlayerID       : PlayerIDs \cup {Nobody},
   GroupID        : GroupIDs \cup {Nobody},
   State          : SUBSET Flags,
   Addr           : Addrs \cup {Nobody},
   PlayerIndex    : Slots \cup {NoIndex},
   LastActiveTime : Nat]

GroupObjects ==
  [GroupID    : GroupIDs \cup {Nobody},
   PlayerList : [PlayerIDs -> Players \cup {Nobody}],
   Count      : Int]

ConnStates ==
  [step     : ConnSteps,
   id       : PlayerIDs \cup {Nobody},
   gid      : GroupIDs \cup {Nobody},
   canSpeak : BOOLEAN,
   p        : Players \cup {Nobody},
   g        : Groups \cup {Nobody}]

WorkStates ==
  [step    : WorkSteps,
   speaker : Players \cup {Nobody},
   g       : Groups \cup {Nobody},
   time    : Nat,
   expired : SUBSET Players,
   id      : PlayerIDs \cup {Nobody},
   v       : Players \cup {Nobody}]

GroupsTypeOK ==
  /\ player \in [Players -> PlayerObjects]
  /\ group \in [Groups -> GroupObjects]
  /\ PlayerList \in [PlayerIDs -> Players \cup {Nobody}]
  /\ GroupList \in [GroupIDs -> Groups \cup {Nobody}]
  /\ conn \in [Conns -> ConnStates]
  /\ work \in [Workers -> WorkStates]
  /\ nilPanic \in BOOLEAN

GroupsInit ==
  /\ player = [p \in Players |-> NoPlayer]
  /\ group = [g \in Groups |-> NoGroup]
  /\ PlayerList = [id \in PlayerIDs |-> Nobody]
  /\ GroupList = [gid \in GroupIDs |-> Nobody]
  /\ conn = [c \in Conns |-> IdleConn]
  /\ work = [w \in Workers |-> IdleWork]
  /\ nilPanic = FALSE

-----------------------------------------------------------------------------
(***************************************************************************)
(* CreateGroup, called by HandleEnterGroup and again by CreatePlayer: the  *)
(* lookup, and the store of a new group, under separate locks.             *)
(***************************************************************************)
ConnAt(c, step) == Alive /\ conn[c].step = step

FindOrNewGroup(c, here, store, done) ==
  /\ ConnAt(c, here)
  /\ \/ /\ GroupList[conn[c].gid] # Nobody
        /\ conn' = [conn EXCEPT ![c].step = done, ![c].g = GroupList[conn[c].gid]]
        /\ UNCHANGED group
     \/ /\ GroupList[conn[c].gid] = Nobody
        /\ FreshGroups # {}
        /\ LET g == CHOOSE g \in FreshGroups : TRUE
           IN  /\ group' = [group EXCEPT ![g].GroupID = conn[c].gid]
               /\ conn' = [conn EXCEPT ![c].step = store, ![c].g = g]
  /\ UNCHANGED <<player, PlayerList, GroupList, work, nilPanic, indexVars>>

PutGroup(c) ==
  /\ Alive
  /\ conn[c].step \in {"putGroup", "putGroup2"}
  /\ GroupList' = [GroupList EXCEPT ![conn[c].gid] = conn[c].g]
  /\ conn' = [conn EXCEPT ![c].step =
                IF @ = "putGroup" THEN "checkCount" ELSE "addMember"]
  /\ UNCHANGED <<player, group, PlayerList, work, nilPanic, indexVars>>

-----------------------------------------------------------------------------
(***************************************************************************)
(* CreatePlayer.                                                           *)
(***************************************************************************)
\* The capacity check, read without a lock.  (Its failure is Reject, below.)
CheckCount(c) ==
  /\ ConnAt(c, "checkCount")
  /\ Admit(c)
  /\ conn' = [conn EXCEPT ![c].step = "findPlayer"]
  /\ UNCHANGED <<player, group, PlayerList, GroupList, work, nilPanic>>

\* Mutant: a player that is there already is added to the group asked for.
FoundPlayer_AddsAgain(c) ==
  /\ ConnAt(c, "findPlayer")
  /\ PlayerList[conn[c].id] # Nobody
  /\ Abandon(c)
  /\ conn' = [conn EXCEPT ![c].step = "findGroup2", ![c].p = PlayerList[conn[c].id]]
  /\ UNCHANGED <<player, group, PlayerList, GroupList, work, nilPanic>>

\* Mutant: a player that is there already changes its group.
FoundPlayer_Moves(c) ==
  /\ ConnAt(c, "findPlayer")
  /\ PlayerList[conn[c].id] # Nobody
  /\ Abandon(c)
  /\ player' = [player EXCEPT ![PlayerList[conn[c].id]].GroupID = conn[c].gid]
  /\ conn' = [conn EXCEPT ![c].step = "setListen", ![c].p = PlayerList[conn[c].id]]
  /\ UNCHANGED <<group, PlayerList, GroupList, work, nilPanic>>

\* FindPlayer finds the player: CreatePlayer returns it as it is.
FoundPlayer(c) ==
  /\ ConnAt(c, "findPlayer")
  /\ PlayerList[conn[c].id] # Nobody
  /\ Abandon(c)
  /\ conn' = [conn EXCEPT ![c].step = "setListen", ![c].p = PlayerList[conn[c].id]]
  /\ UNCHANGED <<player, group, PlayerList, GroupList, work, nilPanic>>

\* FindPlayer finds nothing: NewPlayer allocates.
AllocatePlayer(c, time) ==
  /\ ConnAt(c, "findPlayer")
  /\ PlayerList[conn[c].id] = Nobody
  /\ FreshPlayers # {}
  /\ LET p == CHOOSE p \in FreshPlayers : TRUE
     IN  /\ player' = [player EXCEPT ![p] = NewPlayer(conn[c].id, conn[c].gid, time)]
         /\ conn' = [conn EXCEPT ![c].step = "publish", ![c].p = p]
  /\ UNCHANGED <<group, PlayerList, GroupList, work, nilPanic, indexVars>>

Publish(c) ==
  /\ ConnAt(c, "publish")
  /\ PlayerList' = [PlayerList EXCEPT ![conn[c].id] = conn[c].p]
  /\ conn' = [conn EXCEPT ![c].step = "add"]
  /\ UNCHANGED <<player, group, GroupList, work, nilPanic, indexVars>>

\* PlayerIndex.Add(p), by the steps of FastIndex.
AddToIndex(c) ==
  /\ ConnAt(c, "add")
  /\ \/ Claim(c, conn[c].p)
     \/ FindNone(c, conn[c].p)
     \/ ProbePastEnd(c)
     \/ LoadCount(c)
     \/ StoreCount(c)
     \/ StoreCursor(c)
  /\ UNCHANGED groupsVars

\* Mutant: the cursor is taken for the slot.
AssignIndex_Cursor(c) ==
  /\ ConnAt(c, "add")
  /\ Return(c)
  /\ player' = [player EXCEPT ![conn[c].p].PlayerIndex = nextAddPos]
  /\ conn' = [conn EXCEPT ![c].step = "findGroup2"]
  /\ UNCHANGED <<group, PlayerList, GroupList, work, nilPanic>>

\* p.PlayerIndex = uint32(...): until here the new player has index 0.
AssignIndex(c) ==
  /\ ConnAt(c, "add")
  /\ Return(c)
  /\ player' = [player EXCEPT ![conn[c].p].PlayerIndex =
                  IF adding[c].pos = NotFound THEN NoIndex ELSE adding[c].pos]
  /\ conn' = [conn EXCEPT ![c].step = "findGroup2"]
  /\ UNCHANGED <<group, PlayerList, GroupList, work, nilPanic>>

\* g.AddPlayer(p).
AddMember(c) ==
  /\ ConnAt(c, "addMember")
  /\ group' = [group EXCEPT ![conn[c].g].PlayerList[conn[c].id] = conn[c].p,
                            ![conn[c].g].Count = @ + 1]
  /\ conn' = [conn EXCEPT ![c].step = "setListen"]
  /\ UNCHANGED <<player, PlayerList, GroupList, work, nilPanic, indexVars>>

-----------------------------------------------------------------------------
(***************************************************************************)
(* DelPlayer, for each expired player in turn.                             *)
(***************************************************************************)
WorkAt(w, step) == Alive /\ work[w].step = step

\* The end of one DelPlayer: on to the next expired player, or done.
NextExpired(w) ==
  IF work[w].expired = {} THEN IdleWork
  ELSE [work[w] EXCEPT !.step = "delFind", !.id = Nobody, !.v = Nobody]

\* Mutant: v.GroupID is read whatever groups there are.
DelFind_Unguarded(w) ==
  /\ WorkAt(w, "delFind")
  /\ \E p \in work[w].expired :
       LET id   == player[p].PlayerID
           v    == PlayerList[id]
           rest == work[w].expired \ {p}
       IN  \/ /\ v # Nobody
              /\ work' = [work EXCEPT ![w].step = "delUnlist", ![w].expired = rest,
                                      ![w].id = id, ![w].v = v]
              /\ UNCHANGED nilPanic
           \/ /\ v = Nobody
              /\ work' = [work EXCEPT ![w] = IF rest = {} THEN IdleWork
                                             ELSE [@ EXCEPT !.expired = rest]]
              /\ nilPanic' = TRUE
  /\ UNCHANGED <<player, group, PlayerList, GroupList, conn, indexVars>>

\* The lookup.  DelPlayer works by playerID: what it finds need not be the
\* object that expired.  When it finds nothing it still looks at v.GroupID if
\* there is no group at all.
DelFind(w) ==
  /\ WorkAt(w, "delFind")
  /\ \E p \in work[w].expired :
       LET id   == player[p].PlayerID
           v    == PlayerList[id]
           rest == work[w].expired \ {p}
       IN  \/ /\ v # Nobody
              /\ work' = [work EXCEPT ![w].step = "delUnlist", ![w].expired = rest,
                                      ![w].id = id, ![w].v = v]
              /\ UNCHANGED nilPanic
           \/ /\ v = Nobody
              /\ work' = [work EXCEPT ![w] = IF rest = {} THEN IdleWork
                                             ELSE [@ EXCEPT !.expired = rest]]
              /\ nilPanic' = (\A gid \in GroupIDs : GroupList[gid] = Nobody)
  /\ UNCHANGED <<player, group, PlayerList, GroupList, conn, indexVars>>

\* delete(ag.PlayerList, playerID), under a second lock.
DelUnlist(w) ==
  /\ WorkAt(w, "delUnlist")
  /\ PlayerList' = [PlayerList EXCEPT ![work[w].id] = Nobody]
  /\ work' = [work EXCEPT ![w].step = "delIndex"]
  /\ UNCHANGED <<player, group, GroupList, conn, nilPanic, indexVars>>

\* Mutant: the slot of a deleted player is not cleared.
DelIndex_Forgotten(w) ==
  /\ WorkAt(w, "delIndex")
  /\ work' = [work EXCEPT ![w].step = "delFindGroup"]
  /\ UNCHANGED <<player, group, PlayerList, GroupList, conn, nilPanic, indexVars>>

\* ag.PlayerIndex.DelByIndex(v.PlayerIndex).
DelIndex(w) ==
  /\ WorkAt(w, "delIndex")
  /\ DelByIndex(player[work[w].v].PlayerIndex)
  /\ work' = [work EXCEPT ![w].step = "delFindGroup"]
  /\ UNCHANGED <<player, group, PlayerList, GroupList, conn, nilPanic>>

DelFindGroup(w) ==
  /\ WorkAt(w, "delFindGroup")
  /\ LET g == GroupList[player[work[w].v].GroupID]
     IN  work' = [work EXCEPT ![w] = IF g = Nobody THEN NextExpired(w)
                                     ELSE [@ EXCEPT !.step = "delMember", !.g = g]]
  /\ UNCHANGED <<player, group, PlayerList, GroupList, conn, nilPanic, indexVars>>

\* g.DelPlayerByID: Count-- whether or not the player was a member.
DelMember(w) ==
  /\ WorkAt(w, "delMember")
  /\ group' = [group EXCEPT ![work[w].g].PlayerList[work[w].id] = Nobody,
                            ![work[w].g].Count = @ - 1]
  /\ work' = [work EXCEPT ![w] = NextExpired(w)]
  /\ UNCHANGED <<player, PlayerList, GroupList, conn, nilPanic, indexVars>>

-----------------------------------------------------------------------------
\* FindPlayerByIndex: the player in the slot, if it has this ID.
FindPlayerByIndex(index, id) ==
  LET p == Get(index)
  IN  IF p # Nobody /\ player[p].PlayerID = id THEN p ELSE Nobody
=============================================================================

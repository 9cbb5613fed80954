---------------------------- MODULE VoiceServer ----------------------------
(***************************************************************************)
(* The voice server at work: the handlers of the TCP connections           *)
(* (handle/GameHandler.go) and of the UDP datagrams (handle/VoiceHandle.go)*)
(* over the shared state of AllGroups.                                     *)
(*                                                                         *)
(* A connection is one goroutine that handles its messages in order; every *)
(* datagram has a goroutine of its own (VoiceService.go:53), so two of the *)
(* same client may run in either order.  UDP input is any datagram a       *)
(* client can build from an answer of the server, old answers included.    *)
(***************************************************************************)
EXTENDS AllGroups

CONSTANTS
  Lost,      (* VOICE_PLAYER_LOST_INTERVAL_TIME, in ticks                     *)
  MaxTime,   (* bound: the clock stops here                                  *)
  MaxBusy,   (* bound: how many goroutines are in a handler at once          *)
  SpeakBits, (* the canSpeak values EnterGroup carries, as truth values      *)
  AttrFlags  (* the bytes AdjustPlayerAttr carries, as sets of flags         *)

ASSUME ServerAssumption ==
  /\ Lost \in Nat
  /\ MaxTime \in Nat
  /\ MaxBusy \in Nat \ {0}
  /\ SpeakBits \subseteq BOOLEAN
  /\ AttrFlags \subseteq SUBSET Flags

VARIABLES
  now,        (* the clock of the server                                     *)
  acks,       (* the successful EnterGroup answers sent so far               *)
  delivered   (* the pairs <<speaker, listener>> some voice was sent for     *)

serverVars == <<now, acks, delivered>>
vars == <<indexVars, groupsVars, serverVars>>

Ack == [PlayerIndex : Slots \cup {NoIndex}, PlayerId : PlayerIDs, GroupId : GroupIDs]

TypeOK ==
  /\ IndexTypeOK
  /\ GroupsTypeOK
  /\ now \in Nat
  /\ acks \subseteq Ack
  /\ delivered \subseteq Players \X Players

Init ==
  /\ IndexInit
  /\ GroupsInit
  /\ now = 0
  /\ acks = {}
  /\ delivered = {}

Busy == {c \in Conns : conn[c].step # "idle"} \cup
        {w \in Workers : work[w].step # "idle"}

MayStart == Alive /\ Cardinality(Busy) < MaxBusy

-----------------------------------------------------------------------------
(***************************************************************************)
(* GameHandler.go.                                                         *)
(***************************************************************************)
EnterGroup(c, id, gid, canSpeak) ==
  /\ MayStart
  /\ conn[c].step = "idle"
  /\ conn' = [conn EXCEPT ![c] = [IdleConn EXCEPT !.step = "findGroup", !.id = id,
                                                  !.gid = gid, !.canSpeak = canSpeak]]
  /\ UNCHANGED <<player, group, PlayerList, GroupList, work, nilPanic, indexVars,
                 serverVars>>

\* Mutant: the last place is never given away.
Reject_Early(c) ==
  /\ ConnAt(c, "checkCount")
  /\ Count >= MaxCount - 1
  /\ conn' = [conn EXCEPT ![c] = IdleConn]
  /\ UNCHANGED <<player, group, PlayerList, GroupList, work, nilPanic, indexVars,
                 serverVars>>

\* CreatePlayer finds the table full and the answer is a failure.
Reject(c) ==
  /\ ConnAt(c, "checkCount")
  /\ Count >= MaxCount
  /\ conn' = [conn EXCEPT ![c] = IdleConn]
  /\ UNCHANGED <<player, group, PlayerList, GroupList, work, nilPanic, indexVars,
                 serverVars>>

\* player.State = PS_LISTEN, for a player that was there before too.
SetListen(c) ==
  /\ ConnAt(c, "setListen")
  /\ player' = [player EXCEPT ![conn[c].p].State = {"LISTEN"}]
  /\ conn' = [conn EXCEPT ![c].step = "ack"]
  /\ UNCHANGED <<group, PlayerList, GroupList, work, nilPanic, indexVars, serverVars>>

\* Mutant: the answer names the group that was asked for.
SendAck_AsAsked(c) ==
  /\ ConnAt(c, "ack")
  /\ player' = IF conn[c].canSpeak
                 THEN [player EXCEPT ![conn[c].p].State = @ \cup {"SPEAK"}]
                 ELSE player
  /\ acks' = acks \cup {[PlayerIndex |-> player[conn[c].p].PlayerIndex,
                         PlayerId    |-> player[conn[c].p].PlayerID,
                         GroupId     |-> conn[c].gid]}
  /\ conn' = [conn EXCEPT ![c] = IdleConn]
  /\ UNCHANGED <<group, PlayerList, GroupList, work, nilPanic, indexVars, now,
                 delivered>>

\* player.State |= PS_SPEAK if asked for, and the answer, read from the player.
SendAck(c) ==
  /\ ConnAt(c, "ack")
  /\ player' = IF conn[c].canSpeak
                 THEN [player EXCEPT ![conn[c].p].State = @ \cup {"SPEAK"}]
                 ELSE player
  /\ acks' = acks \cup {[PlayerIndex |-> player[conn[c].p].PlayerIndex,
                         PlayerId    |-> player[conn[c].p].PlayerID,
                         GroupId     |-> player[conn[c].p].GroupID]}
  /\ conn' = [conn EXCEPT ![c] = IdleConn]
  /\ UNCHANGED <<group, PlayerList, GroupList, work, nilPanic, indexVars, now,
                 delivered>>

\* The byte becomes the State as it is; a player that is not there is a nil
\* pointer dereference.
AdjustPlayerAttr(c, id, flags) ==
  /\ MayStart
  /\ conn[c].step = "idle"
  /\ \/ /\ PlayerList[id] # Nobody
        /\ player' = [player EXCEPT ![PlayerList[id]].State = flags]
        /\ UNCHANGED nilPanic
     \/ /\ PlayerList[id] = Nobody
        /\ nilPanic' = TRUE
        /\ UNCHANGED player
  /\ UNCHANGED <<group, PlayerList, GroupList, conn, work, indexVars, serverVars>>

-----------------------------------------------------------------------------
(***************************************************************************)
(* VoiceHandle.go.                                                         *)
(***************************************************************************)
RequestConnect(a, addr) ==
  LET p == FindPlayerByIndex(a.PlayerIndex, a.PlayerId)
  IN  /\ MayStart
      /\ p # Nobody
      /\ player[p].GroupID = a.GroupId
      /\ player' = [player EXCEPT ![p].Addr = addr]
      /\ UNCHANGED <<group, PlayerList, GroupList, conn, work, nilPanic, indexVars,
                     serverVars>>

\* The lookup, IsSameAddr, and the time of the last packet.
Refresh(a, addr) ==
  LET p == FindPlayerByIndex(a.PlayerIndex, a.PlayerId)
  IN  /\ p # Nobody
      /\ player[p].Addr = addr
      /\ player' = [player EXCEPT ![p].LastActiveTime = now]

VoiceHeartbeat(a, addr) ==
  /\ MayStart
  /\ Refresh(a, addr)
  /\ UNCHANGED <<group, PlayerList, GroupList, conn, work, nilPanic, indexVars,
                 serverVars>>

\* HandleVoiceData up to the loop over the group.
VoiceData(w, a, addr) ==
  LET p == FindPlayerByIndex(a.PlayerIndex, a.PlayerId)
      g == GroupList[player[p].GroupID]
  IN  /\ MayStart
      /\ work[w].step = "idle"
      /\ Refresh(a, addr)
      /\ g # Nobody
      /\ "SPEAK" \in player[p].State
      /\ work' = [work EXCEPT ![w] = [IdleWork EXCEPT !.step = "forward", !.g = g,
                                        !.speaker = p, !.time = now]]
      /\ UNCHANGED <<group, PlayerList, GroupList, conn, nilPanic, indexVars,
                     serverVars>>

Members(g) == {group[g].PlayerList[id] : id \in PlayerIDs} \ {Nobody}

\* Mutant: a member is lost as soon as the interval is reached.
Forward_TooEarly(w) ==
  LET silent == {m \in Members(work[w].g) :
                   work[w].time - player[m].LastActiveTime >= Lost}
      to     == {m \in Members(work[w].g) \ silent :
                   player[m].State # {"MUTE"} /\ player[m].Addr # Nobody}
  IN  /\ WorkAt(w, "forward")
      /\ delivered' = delivered \cup ({work[w].speaker} \X to)
      /\ work' = [work EXCEPT ![w] = IF silent = {} THEN IdleWork
                    ELSE [@ EXCEPT !.step = "delFind", !.expired = silent]]
      /\ UNCHANGED <<player, group, PlayerList, GroupList, conn, nilPanic, indexVars,
                     now, acks>>

\* The loop over the group, under its lock: the members whose last packet is
\* too old go to the list, the others get the voice unless their State is
\* exactly MUTE (or no address is known yet: the send fails).
Forward(w) ==
  LET silent == {m \in Members(work[w].g) :
                   work[w].time - player[m].LastActiveTime > Lost}
      to     == {m \in Members(work[w].g) \ silent :
                   player[m].State # {"MUTE"} /\ player[m].Addr # Nobody}
  IN  /\ WorkAt(w, "forward")
      /\ delivered' = delivered \cup ({work[w].speaker} \X to)
      /\ work' = [work EXCEPT ![w] = IF silent = {} THEN IdleWork
                    ELSE [@ EXCEPT !.step = "delFind", !.expired = silent]]
      /\ UNCHANGED <<player, group, PlayerList, GroupList, conn, nilPanic, indexVars,
                     now, acks>>

Tick ==
  /\ Alive
  /\ now < MaxTime
  /\ now' = now + 1
  /\ UNCHANGED <<indexVars, groupsVars, acks, delivered>>

-----------------------------------------------------------------------------
\* The calls the handlers make are the steps of AllGroups.
ConnStep(c) ==
  \/ \E id \in PlayerIDs, gid \in GroupIDs, speak \in SpeakBits :
       EnterGroup(c, id, gid, speak)
  \/ FindOrNewGroup(c, "findGroup", "putGroup", "checkCount") /\ UNCHANGED serverVars
  \/ FindOrNewGroup(c, "findGroup2", "putGroup2", "addMember") /\ UNCHANGED serverVars
  \/ PutGroup(c) /\ UNCHANGED serverVars
  \/ CheckCount(c) /\ UNCHANGED serverVars
  \/ Reject(c)
  \/ FoundPlayer(c) /\ UNCHANGED serverVars
  \/ AllocatePlayer(c, now) /\ UNCHANGED serverVars
  \/ Publish(c) /\ UNCHANGED serverVars
  \/ AddToIndex(c) /\ UNCHANGED serverVars
  \/ AssignIndex(c) /\ UNCHANGED serverVars
  \/ AddMember(c) /\ UNCHANGED serverVars
  \/ SetListen(c)
  \/ SendAck(c)
  \/ \E id \in PlayerIDs, flags \in AttrFlags : AdjustPlayerAttr(c, id, flags)

WorkStep(w) ==
  \/ \E a \in acks, addr \in Addrs : VoiceData(w, a, addr)
  \/ Forward(w)
  \/ DelFind(w) /\ UNCHANGED serverVars
  \/ DelUnlist(w) /\ UNCHANGED serverVars
  \/ DelIndex(w) /\ UNCHANGED serverVars
  \/ DelFindGroup(w) /\ UNCHANGED serverVars
  \/ DelMember(w) /\ UNCHANGED serverVars

Next ==
  \/ \E c \in Conns : ConnStep(c)
  \/ \E w \in Workers : WorkStep(w)
  \/ \E a \in acks, addr \in Addrs : RequestConnect(a, addr) \/ VoiceHeartbeat(a, addr)
  \/ Tick

Spec == Init /\ [][Next]_vars

-----------------------------------------------------------------------------
(***************************************************************************)
(* Properties of every interleaving.                                       *)
(***************************************************************************)

\* Voice never crosses groups: whatever the order of joins, evictions and
\* datagrams, a listener an utterance was sent to belongs to the group of its
\* speaker (HandleVoiceData looks the group up through the speaker and sends
\* to the members of the object it found).
GroupIsolation ==
  \A pair \in delivered : player[pair[1]].GroupID = player[pair[2]].GroupID

\* Whatever is in one of the three places belongs there: PlayerList has players
\* under their own ID, a group has members of that group, and a slot has the
\* player that was given it, or is being given it in Add.  So a player is never
\* in two slots, for all the races of joins with joins and with evictions.
PlacesAreTrue ==
  /\ \A id \in PlayerIDs : PlayerList[id] # Nobody => player[PlayerList[id]].PlayerID = id
  /\ \A g \in Groups, id \in PlayerIDs : group[g].PlayerList[id] # Nobody =>
       player[group[g].PlayerList[id]].GroupID = group[g].GroupID
  /\ \A s \in Slots : list[s] # Nobody =>
       \/ player[list[s]].PlayerIndex = s
       \/ \E c \in Conns : conn[c].step = "add" /\ conn[c].p = list[s] /\ adding[c].pos = s

\* Every answer tells of a player that was created: of its ID, in its group, with
\* its slot (or still 0, when a second connection answers for a player the first
\* one has put in PlayerList and not yet in a slot).
AnswersAreTrue ==
  \A a \in acks : \E p \in Players :
    /\ player[p].PlayerID = a.PlayerId
    /\ player[p].GroupID = a.GroupId
    /\ a.PlayerIndex \in {0, player[p].PlayerIndex}

Created == {p \in Players : player[p].PlayerID # Nobody}

\* The unlocked count and cursor may be lost, and stored late, but never run
\* ahead: the process dies in Add only after more players were created than the
\* table has slots ...
DiesOnlyWhenFull == indexPanic => Cardinality(Created) > MaxCount

\* ... and CreatePlayer turns nobody away before as many were.
TurnsAwayOnlyWhenFull ==
  [][\A c \in Conns : conn[c].step = "checkCount" /\ conn'[c].step = "idle" =>
       Cardinality(Created) >= MaxCount]_vars

\* The players a datagram has listed for deletion were silent for longer than the
\* lost interval when it looked, or were heard after it had come: a heartbeat in
\* between is all that can make the list wrong.  (DelPlayer then goes by ID, and may
\* meet a newer object of the same player; EvictedOnlyWhenSilent is about that too.)
ExpiredWereSilent ==
  \A w \in Workers : \A p \in work[w].expired :
    \/ work[w].time - player[p].LastActiveTime > Lost
    \/ player[p].LastActiveTime >= work[w].time

-----------------------------------------------------------------------------
(***************************************************************************)
(* Properties of one TCP connection and any number of datagrams.           *)
(***************************************************************************)

\* FindPlayerByIndex never answers an old ack with a player of another group:
\* an evicted player that enters again elsewhere gets a slot of its own, because
\* one connection never makes the table hand a slot out twice.
AckStaysInGroup ==
  \A a \in acks :
    LET p == FindPlayerByIndex(a.PlayerIndex, a.PlayerId)
    IN  p # Nobody => player[p].GroupID = a.GroupId

-----------------------------------------------------------------------------
(***************************************************************************)
(* Properties of requests that do not overlap (MaxBusy = 1).               *)
(***************************************************************************)
Quiet == Alive /\ Busy = {}

Listed(id) == PlayerList[id] # Nobody

\* The three places a player is kept in agree between requests: PlayerList,
\* its slot of the index table and the member list of its group name the same
\* object, and no slot and no member list has a player PlayerList does not
\* (CreatePlayer and DelPlayer go through them one after the other).
ViewsAgree ==
  Quiet =>
    /\ \A id \in PlayerIDs : Listed(id) =>
         LET p == PlayerList[id]
         IN  /\ player[p].PlayerID = id
             /\ Get(player[p].PlayerIndex) = p
             /\ GroupList[player[p].GroupID] # Nobody
             /\ group[GroupList[player[p].GroupID]].PlayerList[id] = p
    /\ \A s \in Slots : list[s] # Nobody =>
         PlayerList[player[list[s]].PlayerID] = list[s]
    /\ \A g \in Groups, id \in PlayerIDs : group[g].PlayerList[id] # Nobody =>
         PlayerList[id] = group[g].PlayerList[id]

\* Group.Count, changed by AddPlayer and by every DelPlayerByID, is the number
\* of members between requests (the "playercount" VoiceService.go:38 logs).
CountIsMembers ==
  Quiet => \A g \in Groups :
    group[g].Count = Cardinality({id \in PlayerIDs : group[g].PlayerList[id] # Nobody})

\* A player that was answered and has not been removed can connect with the
\* answer: the slot it names still holds that player, in that group.
LatestAckWorks ==
  Quiet => \A id \in PlayerIDs : Listed(id) =>
    \E a \in acks : /\ a.PlayerId = id
                    /\ a.GroupId = player[PlayerList[id]].GroupID
                    /\ FindPlayerByIndex(a.PlayerIndex, id) = PlayerList[id]

\* The server as its clients see it.  A player is there from the moment
\* CreatePlayer publishes it to the moment DelPlayer unlists it.
R == INSTANCE Roster WITH
  Capacity <- MaxCount,
  roster <- [id \in PlayerIDs |->
               IF Listed(id) THEN player[PlayerList[id]].GroupID ELSE Nobody],
  heard <- [id \in PlayerIDs |->
              IF Listed(id) THEN player[PlayerList[id]].LastActiveTime ELSE 0],
  served <- Count + Cardinality({c \in Conns :
                      conn[c].step = "add"
                        /\ adding[c].step \in {"admitted", "claimed", "loaded"}})

\* Requests that do not overlap keep the promise of Roster: entering again
\* moves nobody, only the silent are evicted, and no more than MaxCount players
\* are ever admitted.
ImplementsRoster == R!RosterSpec

\* The comment over the eviction (VoiceHandle.go:47 and 59) says it deletes
\* players that timed out: what leaves PlayerList has been silent for longer
\* than the lost interval at that moment.
EvictedOnlyWhenSilent ==
  [][\A id \in PlayerIDs :
       Listed(id) /\ PlayerList'[id] = Nobody =>
         now - player[PlayerList[id]].LastActiveTime > Lost]_vars
=============================================================================

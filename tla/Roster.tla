------------------------------- MODULE Roster -------------------------------
(***************************************************************************)
(* What the voice server promises its clients, without its tables: who is  *)
(* in which group.  A player that enters stays in its group until it has   *)
(* been silent for longer than the lost interval; then it may be evicted,  *)
(* and only then may it enter another group.  The server admits a fixed    *)
(* number of players in its life: eviction gives no place back, because    *)
(* nothing ever decrements FastIndex.Count.                                *)
(*                                                                         *)
(* VoiceServer implements this as long as requests do not overlap.         *)
(***************************************************************************)
EXTENDS Integers

CONSTANTS PlayerIDs, GroupIDs, Nobody, Capacity, Lost, MaxTime

VARIABLES
  roster,   (* the group of each player, or Nobody                           *)
  heard,    (* when each player was last heard of; 0 if it is not there      *)
  served,   (* how many players have entered so far                          *)
  now

rosterVars == <<roster, heard, served, now>>

RosterInit ==
  /\ roster = [id \in PlayerIDs |-> Nobody]
  /\ heard = [id \in PlayerIDs |-> 0]
  /\ served = 0
  /\ now = 0

\* The time of a new player is read before it becomes visible.
Enter(id, gid) ==
  /\ roster[id] = Nobody
  /\ served < Capacity
  /\ roster' = [roster EXCEPT ![id] = gid]
  /\ \E t \in 0 .. now : heard' = [heard EXCEPT ![id] = t]
  /\ served' = served + 1
  /\ UNCHANGED now

Hear(id) ==
  /\ roster[id] # Nobody
  /\ heard' = [heard EXCEPT ![id] = now]
  /\ UNCHANGED <<roster, served, now>>

Evict(id) ==
  /\ roster[id] # Nobody
  /\ now - heard[id] > Lost
  /\ roster' = [roster EXCEPT ![id] = Nobody]
  /\ heard' = [heard EXCEPT ![id] = 0]
  /\ UNCHANGED <<served, now>>

RosterTick ==
  /\ now < MaxTime
  /\ now' = now + 1
  /\ UNCHANGED <<roster, heard, served>>

RosterNext ==
  \/ \E id \in PlayerIDs : \/ \E gid \in GroupIDs : Enter(id, gid)
                           \/ Hear(id)
                           \/ Evict(id)
  \/ RosterTick

RosterSpec == RosterInit /\ [][RosterNext]_rosterVars
=============================================================================

----------------------------- MODULE FastIndex -----------------------------
(***************************************************************************)
(* The table that gives every player of the voice server a small index     *)
(* (VoiceServer/src/object/FastIndex.go), together with the capacity check *)
(* its only caller makes before it adds (AllGroups.go, CreatePlayer).      *)
(*                                                                         *)
(* The slots are protected by a lock, so one locked section is one action  *)
(* here (module FastIndexLock has the lock and the probing loop, and is    *)
(* shown to implement this module).  The count and the cursor are written  *)
(* AFTER the lock is released: Count++ is a load and a store, and          *)
(* nextAddPos is stored last, each a step other connections interleave     *)
(* with.                                                                   *)
(***************************************************************************)
EXTENDS Integers, FiniteSets

CONSTANTS
  Conns,     (* the goroutines that add: one per TCP connection              *)
  Players,   (* the player objects that can be put in the table              *)
  Nobody,    (* nil                                                          *)
  MaxCount   (* the capacity: MAX_PLAYER in AllGroups.go                     *)

ASSUME FastIndexAssumption == /\ MaxCount \in Nat \ {0}
                              /\ Nobody \notin Players

VARIABLES
  list,        (* the slots                                                  *)
  Count,       (* the counter CreatePlayer compares with the capacity        *)
  nextAddPos,  (* where the next Add starts to look for a free slot          *)
  adding,      (* how far each connection is in CreatePlayer's Add           *)
  indexPanic   (* list[maxCount] was evaluated: the process is gone          *)

indexVars == <<list, Count, nextAddPos, adding, indexPanic>>

Slots == 0 .. MaxCount - 1

\* The position Add returns when it finds no free slot.
NotFound == -1

AddSteps == {"out", "admitted", "claimed", "loaded", "counted", "added"}

NotAdding == [step |-> "out", value |-> Nobody, pos |-> NotFound, seen |-> 0]

IndexTypeOK ==
  /\ list \in [Slots -> Players \cup {Nobody}]
  /\ Count \in Nat
  /\ nextAddPos \in 0 .. MaxCount
  /\ adding \in [Conns -> [step  : AddSteps,
                           value : Players \cup {Nobody},
                           pos   : Slots \cup {NotFound},
                           seen  : Nat]]
  /\ indexPanic \in BOOLEAN

IndexInit ==
  /\ list = [s \in Slots |-> Nobody]
  /\ Count = 0
  /\ nextAddPos = 0
  /\ adding = [c \in Conns |-> NotAdding]
  /\ indexPanic = FALSE

-----------------------------------------------------------------------------
(***************************************************************************)
(* The order in which Add probes the slots: from the cursor upwards, then  *)
(* round to slot 0.                                                        *)
(***************************************************************************)
Distance(s) == IF s >= nextAddPos THEN s - nextAddPos
                                  ELSE s + MaxCount - nextAddPos

FirstFree(s) ==
  /\ list[s] = Nobody
  /\ \A r \in Slots : Distance(r) < Distance(s) => list[r] # Nobody

\* CreatePlayer reads Count, without a lock, and goes on while there is room.
Admit(c) ==
  /\ ~indexPanic
  /\ adding[c].step = "out"
  /\ Count < MaxCount
  /\ adding' = [adding EXCEPT ![c].step = "admitted"]
  /\ UNCHANGED <<list, Count, nextAddPos, indexPanic>>

\* CreatePlayer finds that the player exists already: nothing is added.
Abandon(c) ==
  /\ ~indexPanic
  /\ adding[c].step = "admitted"
  /\ adding' = [adding EXCEPT ![c] = NotAdding]
  /\ UNCHANGED <<list, Count, nextAddPos, indexPanic>>

\* Mutant: the slot at the cursor is taken without looking.
Claim_Blind(c, v) ==
  /\ ~indexPanic
  /\ adding[c].step = "admitted"
  /\ nextAddPos < MaxCount
  /\ list' = [list EXCEPT ![nextAddPos] = v]
  /\ adding' = [adding EXCEPT ![c] =
                  [step |-> "claimed", value |-> v, pos |-> nextAddPos, seen |-> 0]]
  /\ UNCHANGED <<Count, nextAddPos, indexPanic>>

\* Add, the locked section: the first free slot takes v.
Claim(c, v) ==
  /\ ~indexPanic
  /\ adding[c].step = "admitted"
  /\ nextAddPos < MaxCount
  /\ \E s \in Slots :
       /\ FirstFree(s)
       /\ list' = [list EXCEPT ![s] = v]
       /\ adding' = [adding EXCEPT ![c] =
                       [step |-> "claimed", value |-> v, pos |-> s, seen |-> 0]]
  /\ UNCHANGED <<Count, nextAddPos, indexPanic>>

\* Add, the locked section: every slot is taken, the result is -1.
FindNone(c, v) ==
  /\ ~indexPanic
  /\ adding[c].step = "admitted"
  /\ nextAddPos < MaxCount
  /\ \A s \in Slots : list[s] # Nobody
  /\ adding' = [adding EXCEPT ![c] =
                  [step |-> "added", value |-> v, pos |-> NotFound, seen |-> 0]]
  /\ UNCHANGED <<list, Count, nextAddPos, indexPanic>>

\* Add, the locked section: the cursor is one past the table, so the first
\* probe, list[maxCount], is an index out of range and the process dies.
ProbePastEnd(c) ==
  /\ ~indexPanic
  /\ adding[c].step = "admitted"
  /\ nextAddPos = MaxCount
  /\ indexPanic' = TRUE
  /\ UNCHANGED <<list, Count, nextAddPos, adding>>

\* this.Count++ after the unlock: the load ...
LoadCount(c) ==
  /\ ~indexPanic
  /\ adding[c].step = "claimed"
  /\ adding' = [adding EXCEPT ![c].step = "loaded", ![c].seen = Count]
  /\ UNCHANGED <<list, Count, nextAddPos, indexPanic>>

\* ... and the store.
StoreCount(c) ==
  /\ ~indexPanic
  /\ adding[c].step = "loaded"
  /\ Count' = adding[c].seen + 1
  /\ adding' = [adding EXCEPT ![c].step = "counted"]
  /\ UNCHANGED <<list, nextAddPos, indexPanic>>

\* Mutant: the cursor stays on the slot just taken.
StoreCursor_Stays(c) ==
  /\ ~indexPanic
  /\ adding[c].step = "counted"
  /\ nextAddPos' = adding[c].pos
  /\ adding' = [adding EXCEPT ![c].step = "added"]
  /\ UNCHANGED <<list, Count, indexPanic>>

\* Mutant: the cursor skips a slot.
StoreCursor_Skips(c) ==
  /\ ~indexPanic
  /\ adding[c].step = "counted"
  /\ nextAddPos' = adding[c].pos + 2
  /\ adding' = [adding EXCEPT ![c].step = "added"]
  /\ UNCHANGED <<list, Count, indexPanic>>

\* this.nextAddPos = p + 1, without wrapping round, after the unlock.
StoreCursor(c) ==
  /\ ~indexPanic
  /\ adding[c].step = "counted"
  /\ nextAddPos' = adding[c].pos + 1
  /\ adding' = [adding EXCEPT ![c].step = "added"]
  /\ UNCHANGED <<list, Count, indexPanic>>

\* Add returns: the caller takes the position.
Return(c) ==
  /\ ~indexPanic
  /\ adding[c].step = "added"
  /\ adding' = [adding EXCEPT ![c] = NotAdding]
  /\ UNCHANGED <<list, Count, nextAddPos, indexPanic>>

\* DelByIndex: the slot becomes free; Count and nextAddPos are not touched.
\* A position that is not in the table is ignored.
DelByIndex(s) ==
  /\ ~indexPanic
  /\ list' = IF s \in Slots THEN [list EXCEPT ![s] = Nobody] ELSE list
  /\ UNCHANGED <<Count, nextAddPos, adding, indexPanic>>

\* Get: what the slot holds, or nil for a position that is not in the table.
Get(s) == IF s \in Slots THEN list[s] ELSE Nobody

-----------------------------------------------------------------------------
AddStep(c) ==
  \/ Admit(c)
  \/ Abandon(c)
  \/ \E v \in Players : Claim(c, v)
  \/ \E v \in Players : FindNone(c, v)
  \/ ProbePastEnd(c)
  \/ LoadCount(c)
  \/ StoreCount(c)
  \/ StoreCursor(c)
  \/ Return(c)

IndexNext ==
  \/ \E c \in Conns : AddStep(c)
  \/ \E s \in Slots : DelByIndex(s)

IndexSpec == IndexInit /\ [][IndexNext]_indexVars

-----------------------------------------------------------------------------
(***************************************************************************)
(* Properties.                                                             *)
(***************************************************************************)

\* With one connection the cursor is the count whenever no Add is under way,
\* and every slot from the cursor on is still untouched: slots are handed out
\* in order, one freed by DelByIndex is never handed out again, and the table
\* serves maxCount players in the life of the process, not at a time.  (Two
\* connections lose increments and store old cursors: see DiesOnlyWhenFull of
\* VoiceServer for what holds then.)
SlotsHandedOutOnce ==
  (\A c \in Conns : adding[c].step \in {"out", "admitted"})
    => /\ nextAddPos = Count
       /\ \A s \in Slots : s >= nextAddPos => list[s] = Nobody

\* A slot in use is freed only by DelByIndex: whatever the connections race
\* on, no Add takes the slot of a player that is still in the table
\* (FindPlayerByIndex would then answer for the wrong player).
OccupiedSlotKept ==
  [][\A s \in Slots : list[s] # Nobody => list'[s] \in {list[s], Nobody}]_indexVars
=============================================================================

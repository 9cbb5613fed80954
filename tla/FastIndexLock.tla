--------------------------- MODULE FastIndexLock ---------------------------
(***************************************************************************)
(* FastIndex.go step by step: the write lock, the probing loop of Add and  *)
(* the locked section of DelByIndex.  FastIndex has each locked section as *)
(* one action; Implements states that this module implements it.           *)
(***************************************************************************)
EXTENDS Integers

CONSTANTS
  Conns,     (* the goroutines that add: one per TCP connection              *)
  Deleters,  (* the goroutines that delete: one per datagram being handled   *)
  Players,   (* the player objects that can be put in the table              *)
  Nobody,    (* nil, and the holder of a lock that is free                   *)
  MaxCount   (* the capacity                                                 *)

ASSUME LockAssumption == /\ MaxCount \in Nat \ {0}
                         /\ Nobody \notin Players
                         /\ Nobody \notin Conns \cup Deleters
                         /\ Conns \cap Deleters = {}

VARIABLES
  list, Count, nextAddPos, indexPanic,  (* as in FastIndex                   *)
  lock,    (* who holds the write lock                                       *)
  op,      (* the Add of each connection: its step and its local variables   *)
  del      (* the position each deleter is about to clear, or MaxCount       *)

vars == <<list, Count, nextAddPos, indexPanic, lock, op, del>>

Slots == 0 .. MaxCount - 1

OpSteps == {"out", "admitted", "locked", "probe", "found", "none",
            "claimed", "loaded", "counted", "added"}

\* v, p and c are Add's argument, probe position and probe count; seen is the
\* value Count++ has loaded.
NotAdding == [step |-> "out", v |-> Nobody, p |-> -1, c |-> 0, seen |-> 0]

TypeOK ==
  /\ list \in [Slots -> Players \cup {Nobody}]
  /\ Count \in Nat
  /\ nextAddPos \in 0 .. MaxCount
  /\ indexPanic \in BOOLEAN
  /\ lock \in Conns \cup Deleters \cup {Nobody}
  /\ op \in [Conns -> [step : OpSteps, v : Players \cup {Nobody},
                       p : -1 .. MaxCount, c : 0 .. MaxCount, seen : Nat]]
  /\ del \in [Deleters -> 0 .. MaxCount]

Init ==
  /\ list = [s \in Slots |-> Nobody]
  /\ Count = 0
  /\ nextAddPos = 0
  /\ indexPanic = FALSE
  /\ lock = Nobody
  /\ op = [g \in Conns |-> NotAdding]
  /\ del = [d \in Deleters |-> MaxCount]

-----------------------------------------------------------------------------
At(g, step) == ~indexPanic /\ op[g].step = step

Goto(g, step) == op' = [op EXCEPT ![g].step = step]

Admit(g) ==
  /\ At(g, "out")
  /\ Count < MaxCount
  /\ Goto(g, "admitted")
  /\ UNCHANGED <<list, Count, nextAddPos, indexPanic, lock, del>>

Abandon(g) ==
  /\ At(g, "admitted")
  /\ op' = [op EXCEPT ![g] = NotAdding]
  /\ UNCHANGED <<list, Count, nextAddPos, indexPanic, lock, del>>

\* Mutant: Add does not wait for the lock.
Acquire_NoWait(g, v) ==
  /\ At(g, "admitted")
  /\ lock' = g
  /\ op' = [op EXCEPT ![g].step = "locked", ![g].v = v]
  /\ UNCHANGED <<list, Count, nextAddPos, indexPanic, del>>

\* this.lock.Lock() in Add.
Acquire(g, v) ==
  /\ At(g, "admitted")
  /\ lock = Nobody
  /\ lock' = g
  /\ op' = [op EXCEPT ![g].step = "locked", ![g].v = v]
  /\ UNCHANGED <<list, Count, nextAddPos, indexPanic, del>>

\* p := this.nextAddPos, which others store without the lock.  The bounds
\* check of the first this.list[p] depends on p alone and is part of the step.
StartLoop(g) ==
  /\ At(g, "locked")
  /\ IF nextAddPos < MaxCount
       THEN /\ op' = [op EXCEPT ![g].step = "probe", ![g].p = nextAddPos]
            /\ UNCHANGED indexPanic
       ELSE /\ indexPanic' = TRUE
            /\ UNCHANGED op
  /\ UNCHANGED <<list, Count, nextAddPos, lock, del>>

\* One iteration finds the slot free and takes it.
ProbeFree(g) ==
  /\ At(g, "probe")
  /\ op[g].c < MaxCount
  /\ list[op[g].p] = Nobody
  /\ list' = [list EXCEPT ![op[g].p] = op[g].v]
  /\ Goto(g, "found")
  /\ UNCHANGED <<Count, nextAddPos, indexPanic, lock, del>>

\* Mutant: the loop runs once too often.
ProbeTaken_OnceMore(g) ==
  /\ At(g, "probe")
  /\ op[g].c <= MaxCount
  /\ list[op[g].p] # Nobody
  /\ op' = [op EXCEPT ![g].c = @ + 1, ![g].p = (@ + 1) % MaxCount]
  /\ UNCHANGED <<list, Count, nextAddPos, indexPanic, lock, del>>

\* One iteration finds the slot taken: c++, and p = (p + 1) % total.
ProbeTaken(g) ==
  /\ At(g, "probe")
  /\ op[g].c < MaxCount
  /\ list[op[g].p] # Nobody
  /\ op' = [op EXCEPT ![g].c = @ + 1, ![g].p = (@ + 1) % MaxCount]
  /\ UNCHANGED <<list, Count, nextAddPos, indexPanic, lock, del>>

EndLoop(g) ==
  /\ At(g, "probe")
  /\ op[g].c = MaxCount
  /\ Goto(g, "none")
  /\ UNCHANGED <<list, Count, nextAddPos, indexPanic, lock, del>>

\* Mutant: the early return keeps the lock.
UnlockFound_Forgotten(g) ==
  /\ At(g, "found")
  /\ Goto(g, "claimed")
  /\ UNCHANGED <<list, Count, nextAddPos, indexPanic, lock, del>>

\* The two calls of Unlock in Add: before the return of p, and of -1.
UnlockFound(g) ==
  /\ At(g, "found")
  /\ lock' = Nobody
  /\ Goto(g, "claimed")
  /\ UNCHANGED <<list, Count, nextAddPos, indexPanic, del>>

UnlockNone(g) ==
  /\ At(g, "none")
  /\ lock' = Nobody
  /\ op' = [op EXCEPT ![g].step = "added", ![g].p = -1]
  /\ UNCHANGED <<list, Count, nextAddPos, indexPanic, del>>

LoadCount(g) ==
  /\ At(g, "claimed")
  /\ op' = [op EXCEPT ![g].step = "loaded", ![g].seen = Count]
  /\ UNCHANGED <<list, Count, nextAddPos, indexPanic, lock, del>>

StoreCount(g) ==
  /\ At(g, "loaded")
  /\ Count' = op[g].seen + 1
  /\ Goto(g, "counted")
  /\ UNCHANGED <<list, nextAddPos, indexPanic, lock, del>>

StoreCursor(g) ==
  /\ At(g, "counted")
  /\ nextAddPos' = op[g].p + 1
  /\ Goto(g, "added")
  /\ UNCHANGED <<list, Count, indexPanic, lock, del>>

Return(g) ==
  /\ At(g, "added")
  /\ op' = [op EXCEPT ![g] = NotAdding]
  /\ UNCHANGED <<list, Count, nextAddPos, indexPanic, lock, del>>

\* DelByIndex: lock, then clear the slot and unlock.
DelAcquire(d, s) ==
  /\ ~indexPanic
  /\ del[d] = MaxCount
  /\ lock = Nobody
  /\ lock' = d
  /\ del' = [del EXCEPT ![d] = s]
  /\ UNCHANGED <<list, Count, nextAddPos, indexPanic, op>>

DelClear(d) ==
  /\ ~indexPanic
  /\ del[d] # MaxCount
  /\ list' = [list EXCEPT ![del[d]] = Nobody]
  /\ lock' = Nobody
  /\ del' = [del EXCEPT ![d] = MaxCount]
  /\ UNCHANGED <<Count, nextAddPos, indexPanic, op>>

-----------------------------------------------------------------------------
\* What a connection does once it has asked for the lock.
Proceed(g) ==
  \/ StartLoop(g)
  \/ ProbeFree(g)
  \/ ProbeTaken(g)
  \/ EndLoop(g)
  \/ UnlockFound(g)
  \/ UnlockNone(g)
  \/ LoadCount(g)
  \/ StoreCount(g)
  \/ StoreCursor(g)
  \/ Return(g)

Next ==
  \/ \E g \in Conns : \/ Admit(g)
                      \/ Abandon(g)
                      \/ \E v \in Players : Acquire(g, v)
                      \/ Proceed(g)
  \/ \E d \in Deleters : \/ \E s \in Slots : DelAcquire(d, s)
                         \/ DelClear(d)

\* The Go scheduler runs every goroutine that can run.
Fairness == /\ \A g \in Conns : WF_vars(Proceed(g))
            /\ \A d \in Deleters : WF_vars(DelClear(d))

Spec == Init /\ [][Next]_vars /\ Fairness

-----------------------------------------------------------------------------
(***************************************************************************)
(* The refinement.  An Add takes effect when it reads the cursor: the lock *)
(* freezes the slots from there on, so the slot it will take is decided.   *)
(***************************************************************************)
\* The slots the loop of g has yet to probe, in the order it will.
Ahead(g) == {k \in 0 .. MaxCount - 1 - op[g].c :
               list[(op[g].p + k) % MaxCount] = Nobody}

Target(g) == LET k == CHOOSE i \in Ahead(g) : \A j \in Ahead(g) : i <= j
             IN  (op[g].p + k) % MaxCount

WillClaim(g) == op[g].step = "probe" /\ Ahead(g) # {}

WillFail(g) == op[g].step = "probe" /\ Ahead(g) = {}

AbstractList ==
  [s \in Slots |-> IF \E g \in Conns : WillClaim(g) /\ Target(g) = s
                     THEN LET g == CHOOSE h \in Conns : WillClaim(h)
                          IN  op[g].v
                     ELSE list[s]]

AbstractAdd(g) ==
  CASE op[g].step \in {"out", "admitted", "locked"} ->
         [step |-> IF op[g].step = "out" THEN "out" ELSE "admitted",
          value |-> Nobody, pos |-> -1, seen |-> 0]
    [] WillClaim(g) ->
         [step |-> "claimed", value |-> op[g].v, pos |-> Target(g), seen |-> 0]
    [] WillFail(g) \/ op[g].step = "none" ->
         [step |-> "added", value |-> op[g].v, pos |-> -1, seen |-> 0]
    [] op[g].step \in {"found", "claimed", "loaded", "counted", "added"} ->
         [step |-> IF op[g].step = "found" THEN "claimed" ELSE op[g].step,
          value |-> op[g].v, pos |-> op[g].p, seen |-> op[g].seen]

AbstractAdding == [g \in Conns |-> AbstractAdd(g)]

FI == INSTANCE FastIndex WITH list <- AbstractList, adding <- AbstractAdding

-----------------------------------------------------------------------------
\* The loop under the lock is the atomic Add of FastIndex: it takes the first
\* free slot after the cursor it read, -1 is the answer only when every slot is
\* taken at that moment, and no delete falls between the two
\* (FastIndex.go, Add and DelByIndex).
Implements == FI!IndexSpec

\* Every path through Add and DelByIndex gives the lock back, the early return
\* from inside the loop included: a lock that is held is free again in time,
\* unless the process dies with it.
LockReleased == (lock # Nobody) ~> (lock = Nobody \/ indexPanic)
=============================================================================

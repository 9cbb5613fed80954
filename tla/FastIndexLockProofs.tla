------------------------ MODULE FastIndexLockProofs ------------------------
(***************************************************************************)
(* Proofs about FastIndexLock, for any number of connections, deleters and *)
(* slots: its types, and that Add and DelByIndex under their lock are the  *)
(* atomic steps of FastIndex, so that what is proved of those steps holds  *)
(* of the code with its lock and its loop.                                 *)
(*                                                                         *)
(* The invariant says who holds the lock at which line, and what the local *)
(* variables of Add are worth there.  From the read of the cursor to the   *)
(* end of the loop nobody else writes a slot, so the slot the loop will    *)
(* stop at is decided by that read, although nextAddPos itself may be      *)
(* stored by others meanwhile.                                             *)
(***************************************************************************)
EXTENDS FastIndexLock, WellFoundedInduction, TLAPS

\* The lines of Add between Lock and Unlock.
InLock == {"locked", "probe", "found", "none"}

Held == /\ \A g \in Conns : op[g].step \in InLock => lock = g
        /\ \A d \in Deleters : del[d] # MaxCount => lock = d

\* The local variables of Add: a value until it returns, a slot once the cursor was
\* read, no position after a loop in vain.
Locals(g) ==
  /\ op[g].step = "out" => op[g] = NotAdding
  /\ op[g].step = "admitted" => op[g] = [NotAdding EXCEPT !.step = "admitted"]
  /\ op[g].step \notin {"out", "admitted"} => op[g].v \in Players
  /\ op[g].step = "locked" => op[g].c = 0
  /\ op[g].step \in {"probe", "found", "claimed", "loaded", "counted"} => op[g].p \in Slots
  /\ op[g].step = "added" => op[g].p # MaxCount
  /\ op[g].step \in InLock => op[g].seen = 0

LockInv == /\ TypeOK
           /\ Held
           /\ \A g \in Conns : Locals(g)

-----------------------------------------------------------------------------
(***************************************************************************)
(* Facts about the loop.                                                   *)
(***************************************************************************)
\* (p + 1) % total and the probes after it wrap round the end once at most.
LEMMA WrapsOnce ==
  ASSUME NEW N \in Nat \ {0}, NEW x \in 0 .. 2 * N - 1
  PROVE  x % N = IF x < N THEN x ELSE x - N
OBVIOUS

\* The same for the size of the table.
LEMMA ProbeWraps ==
  \A x \in 0 .. 2 * MaxCount - 1 : x % MaxCount = IF x < MaxCount THEN x ELSE x - MaxCount
BY LockAssumption, WrapsOnce DEF LockAssumption

\* The probe at p + 1 is the next one of the loop, and the later ones follow it.
LEMMA NextProbe ==
  ASSUME NEW p \in Slots, NEW k \in 0 .. MaxCount - 2
  PROVE  (((p + 1) % MaxCount) + k) % MaxCount = (p + (k + 1)) % MaxCount
<1>. USE LockAssumption DEF LockAssumption, Slots
<1>. DEFINE q == (p + 1) % MaxCount
<1>1. q = IF p + 1 < MaxCount THEN p + 1 ELSE 0
  <2>1. p + 1 \in 0 .. 2 * MaxCount - 1
    OBVIOUS
  <2>. QED BY <2>1, ProbeWraps
<1>2. q \in Slots
  BY <1>1
<1>. HIDE DEF q
<1>3. (q + k) % MaxCount = IF q + k < MaxCount THEN q + k ELSE q + k - MaxCount
  <2>1. q + k \in 0 .. 2 * MaxCount - 1
    BY <1>2
  <2>. QED BY <1>2, <2>1, ProbeWraps
<1>4. (p + (k + 1)) % MaxCount = IF p + (k + 1) < MaxCount THEN p + (k + 1)
                                                         ELSE p + (k + 1) - MaxCount
  <2>1. p + (k + 1) \in 0 .. 2 * MaxCount - 1
    OBVIOUS
  <2>. QED BY <2>1, ProbeWraps
<1>5. (q + k) % MaxCount = (p + (k + 1)) % MaxCount
  BY <1>1, <1>2, <1>3, <1>4
<1>. QED BY <1>5 DEF q

\* A set of positions has a first one.
LEMMA HasMinimum ==
  ASSUME NEW S, S \subseteq Nat, S # {}
  PROVE  \E i \in S : \A j \in S : i <= j
<1>. DEFINE R == OpToRel(<, Nat)
<1>1. PICK i \in S : \A j \in S : <<j, i>> \notin R
  BY NatLessThanWellFounded, WFMin, Zenon
<1>2. \A j \in S : ~(j < i)
  BY <1>1 DEF OpToRel
<1>. QED BY <1>2

Nearest(S) == CHOOSE i \in S : \A j \in S : i <= j

\* What CHOOSE picks is that first one.
LEMMA NearestIsFirst ==
  ASSUME NEW S, S \subseteq Nat, S # {}
  PROVE  Nearest(S) \in S /\ \A j \in S : Nearest(S) <= j
<1>1. \E i \in S : \A j \in S : i <= j
  BY HasMinimum
<1>. QED BY <1>1 DEF Nearest

\* The slot the loop will stop at, before and after a step.
LEMMA TargetIsNearest ==
  ASSUME NEW g
  PROVE  /\ Target(g) = (op[g].p + Nearest(Ahead(g))) % MaxCount
         /\ Target(g)' = (op'[g].p + Nearest(Ahead(g)')) % MaxCount
BY DEF Target, Nearest

-----------------------------------------------------------------------------
(***************************************************************************)
(* The invariant.                                                          *)
(***************************************************************************)
OpStates == [step : OpSteps, v : Players \cup {Nobody}, p : -1 .. MaxCount, c : 0 .. MaxCount,
             seen : Nat]

\* What Add assigns to its local variables.
LEMMA OpAssigns ==
  ASSUME NEW r \in OpStates, NEW step \in OpSteps
  PROVE  /\ \A p \in -1 .. MaxCount : [r EXCEPT !.step = step, !.p = p] \in OpStates
         /\ \A c \in 0 .. MaxCount, p \in -1 .. MaxCount : [r EXCEPT !.c = c, !.p = p] \in OpStates
         /\ \A seen \in Nat : [r EXCEPT !.step = step, !.seen = seen] \in OpStates
BY DEF OpStates

\* A step of one connection that fits its lock and its local variables.
LEMMA OpMoves ==
  ASSUME LockInv, NEW g \in Conns, NEW r \in OpStates, op' = [op EXCEPT ![g] = r],
         list' \in [Slots -> Players \cup {Nobody}], Count' \in Nat,
         nextAddPos' \in 0 .. MaxCount, indexPanic' \in BOOLEAN,
         lock' = lock \/ (lock = Nobody /\ lock' = g) \/ (lock = g /\ lock' = Nobody),
         r.step \in InLock => lock' = g, del' = del, Locals(g)'
  PROVE  LockInv'
<1>. USE DEF LockInv, TypeOK, OpStates
<1>1. TypeOK'
  OBVIOUS
<1>2. \A h \in Conns : h # g => op'[h] = op[h]
  OBVIOUS
<1>3. Held'
  BY <1>2, LockAssumption DEF LockAssumption, Held
<1>4. \A h \in Conns : Locals(h)'
  BY <1>2 DEF Locals
<1>. QED BY <1>1, <1>3, <1>4

\* At the start nobody holds the lock.
LEMMA LockInvHoldsFirst == Init => LockInv
<1>. SUFFICES ASSUME Init PROVE LockInv
  OBVIOUS
<1>. USE LockAssumption DEF LockAssumption, Init
<1>1. NotAdding \in OpStates
  BY DEF NotAdding, OpStates, OpSteps
<1>2. TypeOK
  <2>1. op \in [Conns -> OpStates]
    BY <1>1, Zenon
  <2>4. list \in [Slots -> Players \cup {Nobody}]
    OBVIOUS
  <2>5. del \in [Deleters -> 0 .. MaxCount]
    OBVIOUS
  <2>2. /\ list \in [Slots -> Players \cup {Nobody}]
        /\ del \in [Deleters -> 0 .. MaxCount]
    BY <2>4, <2>5
  <2>3. /\ Count \in Nat
        /\ nextAddPos \in 0 .. MaxCount
        /\ lock \in Conns \cup Deleters \cup {Nobody}
    OBVIOUS
  <2>6. indexPanic \in BOOLEAN
    BY Zenon
  <2>. HIDE DEF Init
  <2>. QED BY <2>1, <2>2, <2>3, <2>6, Zenon DEF TypeOK, OpStates
<1>3. \A g \in Conns : Locals(g) /\ op[g].step = "out"
  BY DEF Locals, NotAdding
<1>. QED BY <1>2, <1>3 DEF LockInv, Held, InLock

\* Each line of Add leaves the lock and the local variables as the next expects them.
LEMMA AddKeepsLockInv ==
  ASSUME LockInv, NEW g \in Conns,
         Admit(g) \/ Abandon(g) \/ (\E v \in Players : Acquire(g, v)) \/ Proceed(g)
  PROVE  LockInv'
<1>. USE LockAssumption DEF LockAssumption, Slots, At
<1>. DEFINE r == op[g]
<1>1. r \in OpStates /\ Locals(g) /\ (r.step \in InLock => lock = g)
  BY DEF LockInv, TypeOK, OpStates, Held
<1>11. /\ list \in [Slots -> Players \cup {Nobody}]
       /\ Count \in Nat
       /\ nextAddPos \in 0 .. MaxCount
       /\ indexPanic \in BOOLEAN
       /\ op \in [Conns -> OpStates]
  BY DEF LockInv, TypeOK, OpStates
<1>. USE <1>11
<1>2. CASE Admit(g) \/ Abandon(g)
  <2>1. PICK q : /\ q = [NotAdding EXCEPT !.step = "admitted"] \/ q = NotAdding
                 /\ op' = [op EXCEPT ![g] = q]
    BY <1>1, <1>2 DEF Admit, Abandon, Goto, Locals
  <2>2. q \in OpStates /\ q.step \notin InLock /\ op'[g] = q
    BY <2>1 DEF OpStates, OpSteps, NotAdding, InLock
  <2>3. Locals(g)'
    BY <2>1, <2>2 DEF Locals, NotAdding, InLock
  <2>. QED BY <1>2, <2>1, <2>2, <2>3, OpMoves DEF Admit, Abandon
<1>3. ASSUME NEW v \in Players, Acquire(g, v)
      PROVE  LockInv'
  <2>. DEFINE q == [r EXCEPT !.step = "locked", !.v = v]
  <2>1. op' = [op EXCEPT ![g] = q] /\ op'[g] = q
    BY <1>3 DEF Acquire
  <2>2. q \in OpStates
    BY <1>1 DEF OpStates, OpSteps
  <2>3. Locals(g)'
    BY <1>1, <1>3, <2>1 DEF Acquire, Locals, NotAdding, InLock, OpStates
  <2>. HIDE DEF q
  <2>. QED BY <1>3, <2>1, <2>2, <2>3, OpMoves DEF Acquire
<1>4. ASSUME StartLoop(g)
      PROVE  LockInv'
  <2>1. CASE nextAddPos < MaxCount
    <3>. DEFINE q == [r EXCEPT !.step = "probe", !.p = nextAddPos]
    <3>1. op' = [op EXCEPT ![g] = q] /\ op'[g] = q /\ r.step = "locked"
      BY <1>4, <2>1 DEF StartLoop
    <3>2. q \in OpStates
      <4>1. nextAddPos \in -1 .. MaxCount /\ "probe" \in OpSteps
        BY DEF OpSteps
      <4>. QED BY <1>1, <4>1, OpAssigns, Zenon
    <3>3. /\ q.step = "probe" /\ q.p = nextAddPos
          /\ q.v = r.v /\ q.seen = r.seen
      BY <1>1 DEF OpStates
    <3>. HIDE DEF q
    <3>5. Locals(g)'
      BY <1>1, <2>1, <3>1, <3>3 DEF Locals, InLock
    <3>4. lock = g
      BY <1>1, <3>1 DEF InLock
    <3>. QED BY <1>4, <2>1, <3>1, <3>2, <3>4, <3>5, OpMoves DEF StartLoop
  <2>2. CASE ~(nextAddPos < MaxCount)
    BY <1>4, <2>2 DEF StartLoop, LockInv, TypeOK, Held, Locals
  <2>. QED BY <2>1, <2>2
<1>5. ASSUME ProbeFree(g)
      PROVE  LockInv'
  <2>. DEFINE q == [r EXCEPT !.step = "found"]
  <2>1. op' = [op EXCEPT ![g] = q] /\ op'[g] = q /\ r.step = "probe"
    BY <1>5 DEF ProbeFree, Goto
  <2>2. q \in OpStates
    BY <1>1 DEF OpStates, OpSteps
  <2>3. Locals(g)'
    BY <1>1, <2>1 DEF Locals, InLock, OpStates
  <2>4. lock = g /\ r.p \in Slots /\ r.v \in Players
    BY <1>1, <2>1 DEF InLock, Locals
  <2>5. list' \in [Slots -> Players \cup {Nobody}]
    BY <1>5, <2>4 DEF ProbeFree
  <2>. HIDE DEF q
  <2>. QED BY <1>5, <2>1, <2>2, <2>3, <2>4, <2>5, OpMoves DEF ProbeFree
<1>6. ASSUME ProbeTaken(g)
      PROVE  LockInv'
  <2>. DEFINE q == [r EXCEPT !.c = @ + 1, !.p = (@ + 1) % MaxCount]
  <2>1. op' = [op EXCEPT ![g] = q] /\ op'[g] = q /\ r.step = "probe" /\ r.c < MaxCount
    BY <1>6 DEF ProbeTaken
  <2>2. (r.p + 1) % MaxCount \in Slots
    <3>1. r.p \in Slots
      BY <1>1, <2>1 DEF Locals
    <3>. QED BY <3>1, WrapsOnce
  <2>3. q \in OpStates
    <3>1. r.c + 1 \in 0 .. MaxCount /\ (r.p + 1) % MaxCount \in -1 .. MaxCount
      BY <1>1, <2>1, <2>2 DEF OpStates
    <3>2. \A step \in OpSteps : \A c \in 0 .. MaxCount, p \in -1 .. MaxCount :
            [r EXCEPT !.c = c, !.p = p] \in OpStates
      BY <1>1, OpAssigns, Zenon
    <3>3. "probe" \in OpSteps
      BY DEF OpSteps
    <3>. QED BY <3>1, <3>2, <3>3, Zenon
  <2>4. /\ q.step = "probe" /\ q.p = (r.p + 1) % MaxCount
        /\ q.v = r.v /\ q.seen = r.seen
    BY <1>1, <2>1 DEF OpStates
  <2>. HIDE DEF q
  <2>5. Locals(g)' /\ lock = g
    BY <1>1, <2>1, <2>2, <2>4 DEF Locals, InLock
  <2>. QED BY <1>6, <2>1, <2>3, <2>4, <2>5, OpMoves DEF ProbeTaken
<1>7. ASSUME EndLoop(g) \/ UnlockFound(g)
      PROVE  LockInv'
  <2>1. PICK step : /\ op' = [op EXCEPT ![g].step = step]
                    /\ \/ r.step = "probe" /\ step = "none"
                       \/ r.step = "found" /\ step = "claimed"
    BY <1>7 DEF EndLoop, UnlockFound, Goto
  <2>. DEFINE q == [r EXCEPT !.step = step]
  <2>2. op' = [op EXCEPT ![g] = q] /\ op'[g] = q
    BY <2>1
  <2>3. q \in OpStates
    BY <1>1, <2>1 DEF OpStates, OpSteps
  <2>4. Locals(g)' /\ q.step = step /\ lock = g
    BY <1>1, <2>1, <2>2 DEF Locals, InLock, OpStates
  <2>. HIDE DEF q
  <2>5. \/ step = "none" /\ lock' = lock
        \/ step = "claimed" /\ lock' = Nobody
    BY <1>7, <2>1 DEF EndLoop, UnlockFound
  <2>. QED BY <1>7, <2>2, <2>3, <2>4, <2>5, OpMoves DEF EndLoop, UnlockFound, InLock
<1>8. ASSUME UnlockNone(g) \/ LoadCount(g)
      PROVE  LockInv'
  <2>. DEFINE q == IF r.step = "none" THEN [r EXCEPT !.step = "added", !.p = -1]
                                      ELSE [r EXCEPT !.step = "loaded", !.seen = Count]
  <2>1. op' = [op EXCEPT ![g] = q] /\ op'[g] = q /\ r.step \in {"none", "claimed"}
    BY <1>8 DEF UnlockNone, LoadCount
  <2>2. q \in OpStates
    <3>1. -1 \in -1 .. MaxCount /\ "added" \in OpSteps /\ "loaded" \in OpSteps
      BY DEF OpSteps
    <3>. QED BY <1>1, <1>11, <3>1, OpAssigns, Zenon
  <2>3. Locals(g)' /\ q.step \notin InLock
    <3>1. /\ r.step = "none" => q.step = "added" /\ q.p = -1
          /\ r.step = "claimed" => q.step = "loaded" /\ q.p = r.p
          /\ q.v = r.v
      BY <1>1, <2>1 DEF OpStates
    <3>. HIDE DEF q
    <3>. QED BY <1>1, <2>1, <3>1 DEF Locals, InLock
  <2>4. \/ lock = g /\ lock' = Nobody
        \/ lock' = lock
    BY <1>1, <1>8 DEF UnlockNone, LoadCount, InLock
  <2>. HIDE DEF q
  <2>. QED BY <1>8, <2>1, <2>2, <2>3, <2>4, OpMoves DEF UnlockNone, LoadCount
<1>9. ASSUME StoreCount(g) \/ StoreCursor(g)
      PROVE  LockInv'
  <2>1. PICK step : /\ op' = [op EXCEPT ![g].step = step]
                    /\ \/ r.step = "loaded" /\ step = "counted"
                       \/ r.step = "counted" /\ step = "added"
    BY <1>9 DEF StoreCount, StoreCursor, Goto
  <2>. DEFINE q == [r EXCEPT !.step = step]
  <2>2. op' = [op EXCEPT ![g] = q] /\ op'[g] = q
    BY <2>1
  <2>3. q \in OpStates
    BY <1>1, <2>1 DEF OpStates, OpSteps
  <2>4. Locals(g)' /\ q.step = step
    BY <1>1, <2>1, <2>2 DEF Locals, InLock, OpStates
  <2>5. r.p \in Slots /\ r.seen \in Nat
    BY <1>1, <2>1 DEF Locals, OpStates
  <2>6. Count' \in Nat /\ nextAddPos' \in 0 .. MaxCount
    BY <1>9, <2>5 DEF StoreCount, StoreCursor
  <2>. HIDE DEF q
  <2>. QED BY <1>9, <2>1, <2>2, <2>3, <2>4, <2>6, OpMoves DEF StoreCount, StoreCursor, InLock
<1>10. ASSUME Return(g)
       PROVE  LockInv'
  <2>1. NotAdding \in OpStates /\ NotAdding.step \notin InLock
    BY DEF OpStates, OpSteps, NotAdding, InLock
  <2>2. op' = [op EXCEPT ![g] = NotAdding] /\ Locals(g)'
    BY <1>10 DEF Return, Locals, NotAdding, InLock
  <2>. QED BY <1>10, <2>1, <2>2, OpMoves DEF Return
<1>. QED BY <1>2, <1>3, <1>4, <1>5, <1>6, <1>7, <1>8, <1>9, <1>10 DEF Proceed

\* A delete waits for the lock, and gives it back.
LEMMA DeleteKeepsLockInv ==
  ASSUME LockInv, NEW d \in Deleters, (\E s \in Slots : DelAcquire(d, s)) \/ DelClear(d)
  PROVE  LockInv'
<1>. USE LockAssumption DEF LockAssumption, LockInv, TypeOK, Slots, DelAcquire, DelClear
<1>1. TypeOK'
  <2>1. ASSUME NEW s \in Slots, DelAcquire(d, s)
        PROVE  TypeOK'
    BY <2>1
  <2>2. ASSUME DelClear(d)
        PROVE  TypeOK'
    BY <2>2
  <2>. QED BY <2>1, <2>2
<1>2. Held'
  BY DEF Held, InLock
<1>3. \A h \in Conns : Locals(h)'
  BY DEF Locals
<1>. QED BY <1>1, <1>2, <1>3

\* Every step of Add and DelByIndex keeps the invariant.
LEMMA LockInvStep ==
  ASSUME LockInv, [Next]_vars
  PROVE  LockInv'
<1>1. CASE UNCHANGED vars
  BY <1>1 DEF vars, LockInv, TypeOK, Held, Locals
<1>. QED BY <1>1, AddKeepsLockInv, DeleteKeepsLockInv DEF Next

\* So it holds in every state.
LEMMA LockInvHolds == Spec => []LockInv
<1>1. LockInv /\ [Next]_vars => LockInv'
  BY LockInvStep
<1>. QED BY <1>1, LockInvHoldsFirst, PTL DEF Spec

\* FastIndex.go keeps its types line by line, the probe position inside the table
\* included: only the cursor itself can point one past its end.
THEOREM LockTypeCorrect == Spec => []TypeOK
<1>1. LockInv => TypeOK
  BY DEF LockInv
<1>. QED BY <1>1, LockInvHolds, PTL

-----------------------------------------------------------------------------
(***************************************************************************)
(* What FastIndex sees.                                                    *)
(***************************************************************************)
\* While no loop is about to succeed the slots are as they are.
Unclaimed ==
  LockInv /\ (\A g \in Conns : ~WillClaim(g)) => AbstractList = list

\* In a state, and in the next.
LEMMA ListUnclaimed == Unclaimed /\ Unclaimed'
<1>1. Unclaimed
  BY DEF Unclaimed, LockInv, TypeOK, AbstractList
<1>2. Unclaimed'
  BY <1>1, PTL
<1>. QED BY <1>1, <1>2

\* A probe stays inside the table.
LEMMA SlotAhead ==
  ASSUME NEW p \in Slots, NEW k \in 0 .. MaxCount - 1
  PROVE  (p + k) % MaxCount \in Slots
BY LockAssumption, WrapsOnce DEF LockAssumption, Slots

\* The loop that will succeed is alone under the lock, and has its slot already.
Claimed(g) ==
  LockInv /\ WillClaim(g) => /\ Target(g) \in Slots
                             /\ AbstractList = [list EXCEPT ![Target(g)] = op[g].v]

\* In a state, and in the next.
LEMMA ListClaimed ==
  ASSUME NEW g \in Conns
  PROVE  Claimed(g) /\ Claimed(g)'
<1>1. ASSUME LockInv, WillClaim(g)
      PROVE  Target(g) \in Slots
  <2>1. Ahead(g) \subseteq 0 .. MaxCount - 1
    BY <1>1, LockAssumption DEF LockAssumption, Ahead, LockInv, TypeOK
  <2>2. Nearest(Ahead(g)) \in 0 .. MaxCount - 1
    BY <1>1, <2>1, NearestIsFirst DEF WillClaim
  <2>3. op[g].p \in Slots
    BY <1>1 DEF LockInv, Locals, WillClaim
  <2>. QED BY <2>2, <2>3, SlotAhead, TargetIsNearest
<1>2. ASSUME LockInv, WillClaim(g)
      PROVE  AbstractList = [list EXCEPT ![Target(g)] = op[g].v]
  <2>1. \A h \in Conns : WillClaim(h) => h = g
    BY <1>2 DEF LockInv, Held, InLock, WillClaim
  <2>2. (CHOOSE h \in Conns : WillClaim(h)) = g
    BY <1>2, <2>1
  <2>. QED BY <1>2, <2>1, <2>2 DEF LockInv, TypeOK, AbstractList
<1>3. Claimed(g)
  BY <1>1, <1>2 DEF Claimed
<1>4. Claimed(g)'
  BY <1>3, PTL
<1>. QED BY <1>3, <1>4

\* A step that neither writes a slot nor decides about one.
LEMMA ListStays ==
  ASSUME LockInv, LockInv', list' = list,
         \A g \in Conns : /\ WillClaim(g)' <=> WillClaim(g)
                          /\ WillClaim(g) => Target(g)' = Target(g) /\ op'[g].v = op[g].v
  PROVE  AbstractList' = AbstractList
<1>1. CASE \A g \in Conns : ~WillClaim(g)
  BY <1>1, ListUnclaimed DEF Unclaimed
<1>2. ASSUME NEW g \in Conns, WillClaim(g)
      PROVE  AbstractList' = AbstractList
  BY <1>2, ListClaimed DEF Claimed
<1>. QED BY <1>1, <1>2

\* How far an Add is, by the line it is at.
AddAt(g) ==
  LockInv =>
    /\ op[g].step = "out" => AbstractAdd(g) = FI!NotAdding
    /\ op[g].step \in {"admitted", "locked"} =>
         AbstractAdd(g) = [FI!NotAdding EXCEPT !.step = "admitted"]
    /\ WillClaim(g) =>
         AbstractAdd(g) = [step |-> "claimed", value |-> op[g].v, pos |-> Target(g), seen |-> 0]
    /\ WillFail(g) \/ op[g].step = "none" =>
         AbstractAdd(g) = [step |-> "added", value |-> op[g].v, pos |-> -1, seen |-> 0]
    /\ op[g].step \in {"found", "claimed"} =>
         AbstractAdd(g) = [step |-> "claimed", value |-> op[g].v, pos |-> op[g].p,
                           seen |-> op[g].seen]
    /\ op[g].step \in {"loaded", "counted", "added"} =>
         AbstractAdd(g) = [step |-> op[g].step, value |-> op[g].v, pos |-> op[g].p,
                           seen |-> op[g].seen]

\* In a state, and in the next.
LEMMA AbstractAddAt ==
  ASSUME NEW g \in Conns
  PROVE  AddAt(g) /\ AddAt(g)'
<1>1. AddAt(g)
  BY DEF AddAt, AbstractAdd, WillClaim, WillFail, FI!NotAdding, FI!NotFound
<1>2. AddAt(g)'
  BY <1>1, PTL
<1>. QED BY <1>1, <1>2

\* A step of g changes nothing in what the others are doing, unless it writes a slot
\* while another is probing.
LEMMA EntryMoves ==
  ASSUME LockInv, NEW g \in Conns, \A h \in Conns : h # g => op'[h] = op[h],
         list' = list \/ \A h \in Conns : h # g => op[h].step # "probe"
  PROVE  /\ \A h \in Conns : h # g =>
              /\ WillClaim(h)' <=> WillClaim(h)
              /\ WillClaim(h) => Target(h)' = Target(h)
         /\ AbstractAdding' = [AbstractAdding EXCEPT ![g] = AbstractAdd(g)']
<1>1. ASSUME NEW h \in Conns, h # g
      PROVE  /\ WillClaim(h)' <=> WillClaim(h)
             /\ WillFail(h)' <=> WillFail(h)
             /\ WillClaim(h) => Target(h)' = Target(h)
  <2>1. CASE op[h].step # "probe"
    BY <1>1, <2>1 DEF WillClaim, WillFail
  <2>2. CASE list' = list
    <3>1. Ahead(h)' = Ahead(h)
      BY <1>1, <2>2 DEF Ahead
    <3>. QED BY <1>1, <3>1, TargetIsNearest DEF WillClaim, WillFail
  <2>. QED BY <1>1, <2>1, <2>2
<1>2. ASSUME NEW h \in Conns, h # g
      PROVE  AbstractAdd(h)' = AbstractAdd(h)
  <2>1. op[h].step \in OpSteps /\ op'[h] = op[h]
    BY <1>2 DEF LockInv, TypeOK
  <2>. QED BY <1>1, <1>2, <2>1 DEF AbstractAdd
<1>. QED BY <1>1, <1>2 DEF AbstractAdding

-----------------------------------------------------------------------------
(***************************************************************************)
(* Every line maps to a step of FastIndex or to none.                      *)
(***************************************************************************)
Maps == FI!IndexNext \/ UNCHANGED FI!indexVars

\* Outside the loop nothing about the slots is decided.
LEMMA QuietMoves ==
  ASSUME LockInv, LockInv', NEW g \in Conns, \A h \in Conns : h # g => op'[h] = op[h],
         list' = list, op[g].step # "probe", op'[g].step # "probe"
  PROVE  /\ AbstractList' = AbstractList
         /\ AbstractAdding' = [AbstractAdding EXCEPT ![g] = AbstractAdd(g)']
         /\ AbstractAdding[g] = AbstractAdd(g)
<1>1. /\ \A h \in Conns : h # g => /\ WillClaim(h)' <=> WillClaim(h)
                                   /\ WillClaim(h) => Target(h)' = Target(h)
      /\ AbstractAdding' = [AbstractAdding EXCEPT ![g] = AbstractAdd(g)']
  BY EntryMoves
<1>2. ~WillClaim(g) /\ ~WillClaim(g)'
  BY DEF WillClaim
<1>3. AbstractList' = AbstractList
  BY <1>1, <1>2, ListStays
<1>. QED BY <1>1, <1>3 DEF AbstractAdding

\* The lines before the lock is asked for, and asking for it.
LEMMA EnterMaps ==
  ASSUME LockInv, LockInv', NEW g \in Conns,
         Admit(g) \/ Abandon(g) \/ \E v \in Players : Acquire(g, v)
  PROVE  Maps
<1>. USE AbstractAddAt DEF AddAt, At, Goto, InLock, Maps
<1>1. op[g] \in OpStates /\ op \in [Conns -> OpStates]
  BY DEF LockInv, TypeOK, OpStates
<1>2. CASE Admit(g)
  <2>1. /\ op[g].step = "out" /\ op'[g].step = "admitted" /\ list' = list
        /\ \A h \in Conns : h # g => op'[h] = op[h]
    BY <1>1, <1>2 DEF Admit, OpStates
  <2>2. /\ AbstractList' = AbstractList
        /\ AbstractAdding[g] = FI!NotAdding
        /\ AbstractAdding' = [AbstractAdding EXCEPT ![g] = [FI!NotAdding EXCEPT !.step = "admitted"]]
    BY <2>1, QuietMoves
  <2>3. FI!Admit(g)
    BY <1>2, <2>2 DEF Admit, FI!Admit, FI!NotAdding
  <2>. QED BY <2>3 DEF FI!IndexNext, FI!AddStep
<1>3. CASE Abandon(g)
  <2>1. /\ op[g].step = "admitted" /\ op'[g].step = "out" /\ list' = list
        /\ \A h \in Conns : h # g => op'[h] = op[h]
    BY <1>1, <1>3 DEF Abandon, NotAdding
  <2>2. /\ AbstractList' = AbstractList
        /\ AbstractAdding[g] = [FI!NotAdding EXCEPT !.step = "admitted"]
        /\ AbstractAdding' = [AbstractAdding EXCEPT ![g] = FI!NotAdding]
    BY <2>1, QuietMoves
  <2>3. FI!Abandon(g)
    BY <1>3, <2>2 DEF Abandon, FI!Abandon, FI!NotAdding
  <2>. QED BY <2>3 DEF FI!IndexNext, FI!AddStep
<1>4. ASSUME NEW v \in Players, Acquire(g, v)
      PROVE  Maps
  <2>1. /\ op[g].step = "admitted" /\ op'[g].step = "locked" /\ list' = list
        /\ \A h \in Conns : h # g => op'[h] = op[h]
    BY <1>1, <1>4 DEF Acquire, OpStates
  <2>2. /\ AbstractList' = AbstractList
        /\ AbstractAdding[g] = [FI!NotAdding EXCEPT !.step = "admitted"]
        /\ AbstractAdding' = [AbstractAdding EXCEPT ![g] = [FI!NotAdding EXCEPT !.step = "admitted"]]
    BY <2>1, QuietMoves
  <2>3. AbstractAdding' = AbstractAdding
    BY <2>2 DEF AbstractAdding
  <2>. QED BY <1>4, <2>2, <2>3 DEF Acquire, FI!indexVars
<1>. QED BY <1>2, <1>3, <1>4

\* What FastIndex keeps of an Add.
Entry(step, v, p, seen) == [step |-> step, value |-> v, pos |-> p, seen |-> seen]

\* What FastIndex assigns to it.
LEMMA StepAssigned ==
  ASSUME NEW t, NEW v, NEW p, NEW n, NEW step
  PROVE  [Entry(t, v, p, n) EXCEPT !.step = step] = Entry(step, v, p, n)
BY DEF Entry

\* The same for the count that was read.
LEMMA SeenAssigned ==
  ASSUME NEW t, NEW v, NEW p, NEW n, NEW seen
  PROVE  [Entry(t, v, p, n) EXCEPT !.seen = seen] = Entry(t, v, p, seen)
BY DEF Entry

\* And what it reads.
LEMMA EntryFields ==
  ASSUME NEW t, NEW v, NEW p, NEW n
  PROVE  Entry(t, v, p, n).step = t /\ Entry(t, v, p, n).pos = p /\ Entry(t, v, p, n).seen = n
BY DEF Entry

\* The lines after the loop: the calls of Unlock, the count, the cursor.
LEMMA LeaveMaps ==
  ASSUME LockInv, LockInv', NEW g \in Conns,
         \/ UnlockFound(g) \/ UnlockNone(g)
         \/ LoadCount(g) \/ StoreCount(g) \/ StoreCursor(g) \/ Return(g)
  PROVE  Maps
<1>. USE DEF At, Goto, Maps
<1>1. op[g] \in OpStates /\ op \in [Conns -> OpStates] /\ Locals(g)
  BY DEF LockInv, TypeOK, OpStates
<1>9. AbstractAdding \in [Conns -> {AbstractAdd(h) : h \in Conns}]
  BY DEF AbstractAdding
<1>2. CASE UnlockFound(g)
  <2>1. /\ op[g].step = "found" /\ op'[g].step = "claimed" /\ list' = list
        /\ op'[g].v = op[g].v /\ op'[g].p = op[g].p /\ op'[g].seen = op[g].seen
        /\ \A h \in Conns : h # g => op'[h] = op[h]
    BY <1>1, <1>2 DEF UnlockFound, OpStates
  <2>2. /\ AbstractList' = AbstractList
        /\ AbstractAdding' = [AbstractAdding EXCEPT ![g] = AbstractAdding[g]]
    BY <2>1, QuietMoves, AbstractAddAt DEF AddAt, Entry
  <2>3. AbstractAdding' = AbstractAdding
    BY <2>2 DEF AbstractAdding
  <2>. QED BY <1>2, <2>2, <2>3 DEF UnlockFound, FI!indexVars
<1>3. CASE UnlockNone(g)
  <2>1. /\ op[g].step = "none" /\ op'[g].step = "added" /\ list' = list
        /\ op'[g].v = op[g].v /\ op'[g].p = -1 /\ op'[g].seen = 0
        /\ \A h \in Conns : h # g => op'[h] = op[h]
    BY <1>1, <1>3 DEF UnlockNone, OpStates, Locals, InLock
  <2>2. /\ AbstractList' = AbstractList
        /\ AbstractAdding' = [AbstractAdding EXCEPT ![g] = AbstractAdding[g]]
    BY <2>1, QuietMoves, AbstractAddAt DEF AddAt, Entry
  <2>3. AbstractAdding' = AbstractAdding
    BY <2>2 DEF AbstractAdding
  <2>. QED BY <1>3, <2>2, <2>3 DEF UnlockNone, FI!indexVars
<1>4. CASE LoadCount(g)
  <2>1. /\ op[g].step = "claimed" /\ op'[g].step = "loaded" /\ list' = list
        /\ op'[g].v = op[g].v /\ op'[g].p = op[g].p /\ op'[g].seen = Count
        /\ \A h \in Conns : h # g => op'[h] = op[h]
    BY <1>1, <1>4 DEF LoadCount, OpStates
  <2>2. /\ AbstractList' = AbstractList
        /\ AbstractAdding[g] = Entry("claimed", op[g].v, op[g].p, op[g].seen)
        /\ AbstractAdding' = [AbstractAdding EXCEPT ![g] =
             Entry("loaded", op[g].v, op[g].p, Count)]
    BY <2>1, QuietMoves, AbstractAddAt DEF AddAt, Entry
  <2>. DEFINE f == [AbstractAdding EXCEPT ![g].step = "loaded"]
  <2>3. [Entry("claimed", op[g].v, op[g].p, op[g].seen) EXCEPT !.step = "loaded"]
          = Entry("loaded", op[g].v, op[g].p, op[g].seen)
    BY StepAssigned
  <2>7. f = [AbstractAdding EXCEPT ![g] = Entry("loaded", op[g].v, op[g].p, op[g].seen)]
    BY <1>9, <2>2, <2>3
  <2>8. [AbstractAdding EXCEPT ![g].step = "loaded", ![g].seen = Count]
          = [f EXCEPT ![g].seen = Count]
    OBVIOUS
  <2>. HIDE DEF f
  <2>9. [Entry("loaded", op[g].v, op[g].p, op[g].seen) EXCEPT !.seen = Count]
          = Entry("loaded", op[g].v, op[g].p, Count)
    BY SeenAssigned
  <2>10. [f EXCEPT ![g].seen = Count]
           = [AbstractAdding EXCEPT ![g] = Entry("loaded", op[g].v, op[g].p, Count)]
    BY <1>9, <2>7, <2>9
  <2>4. AbstractAdding' = [AbstractAdding EXCEPT ![g].step = "loaded", ![g].seen = Count]
    BY <2>2, <2>8, <2>10, Zenon
  <2>6. AbstractAdding[g].step = "claimed" /\ AbstractAdding[g].pos = op[g].p
        /\ AbstractAdding[g].seen = op[g].seen
    BY <2>2, EntryFields
  <2>5. FI!LoadCount(g)
    BY <1>4, <2>2, <2>4, <2>6 DEF LoadCount, FI!LoadCount
  <2>. QED BY <2>5 DEF FI!IndexNext, FI!AddStep
<1>5. CASE StoreCount(g)
  <2>1. /\ op[g].step = "loaded" /\ op'[g].step = "counted" /\ list' = list
        /\ op'[g].v = op[g].v /\ op'[g].p = op[g].p /\ op'[g].seen = op[g].seen
        /\ \A h \in Conns : h # g => op'[h] = op[h]
    BY <1>1, <1>5 DEF StoreCount, OpStates
  <2>2. /\ AbstractList' = AbstractList
        /\ AbstractAdding[g] = Entry("loaded", op[g].v, op[g].p, op[g].seen)
        /\ AbstractAdding' = [AbstractAdding EXCEPT ![g] =
             Entry("counted", op[g].v, op[g].p, op[g].seen)]
    BY <2>1, QuietMoves, AbstractAddAt DEF AddAt, Entry
  <2>3. [Entry("loaded", op[g].v, op[g].p, op[g].seen) EXCEPT !.step = "counted"]
          = Entry("counted", op[g].v, op[g].p, op[g].seen)
    BY StepAssigned
  <2>4. AbstractAdding' = [AbstractAdding EXCEPT ![g].step = "counted"]
    BY <1>9, <2>2, <2>3
  <2>6. AbstractAdding[g].step = "loaded" /\ AbstractAdding[g].pos = op[g].p
        /\ AbstractAdding[g].seen = op[g].seen
    BY <2>2, EntryFields
  <2>5. FI!StoreCount(g)
    BY <1>5, <2>2, <2>4, <2>6 DEF StoreCount, FI!StoreCount
  <2>. QED BY <2>5 DEF FI!IndexNext, FI!AddStep
<1>6. CASE StoreCursor(g)
  <2>1. /\ op[g].step = "counted" /\ op'[g].step = "added" /\ list' = list
        /\ op'[g].v = op[g].v /\ op'[g].p = op[g].p /\ op'[g].seen = op[g].seen
        /\ \A h \in Conns : h # g => op'[h] = op[h]
    BY <1>1, <1>6 DEF StoreCursor, OpStates
  <2>2. /\ AbstractList' = AbstractList
        /\ AbstractAdding[g] = Entry("counted", op[g].v, op[g].p, op[g].seen)
        /\ AbstractAdding' = [AbstractAdding EXCEPT ![g] =
             Entry("added", op[g].v, op[g].p, op[g].seen)]
    BY <2>1, QuietMoves, AbstractAddAt DEF AddAt, Entry
  <2>3. [Entry("counted", op[g].v, op[g].p, op[g].seen) EXCEPT !.step = "added"]
          = Entry("added", op[g].v, op[g].p, op[g].seen)
    BY StepAssigned
  <2>4. AbstractAdding' = [AbstractAdding EXCEPT ![g].step = "added"]
    BY <1>9, <2>2, <2>3
  <2>6. AbstractAdding[g].step = "counted" /\ AbstractAdding[g].pos = op[g].p
        /\ AbstractAdding[g].seen = op[g].seen
    BY <2>2, EntryFields
  <2>5. FI!StoreCursor(g)
    BY <1>6, <2>2, <2>4, <2>6 DEF StoreCursor, FI!StoreCursor
  <2>. QED BY <2>5 DEF FI!IndexNext, FI!AddStep
<1>7. CASE Return(g)
  <2>1. /\ op[g].step = "added" /\ op'[g].step = "out" /\ list' = list
        /\ \A h \in Conns : h # g => op'[h] = op[h]
    BY <1>1, <1>7 DEF Return, NotAdding
  <2>2. /\ AbstractList' = AbstractList
        /\ AbstractAdding[g].step = "added"
        /\ AbstractAdding' = [AbstractAdding EXCEPT ![g] = FI!NotAdding]
    BY <2>1, QuietMoves, AbstractAddAt DEF AddAt, Entry
  <2>3. FI!Return(g)
    BY <1>7, <2>2 DEF Return, FI!Return
  <2>. QED BY <2>3 DEF FI!IndexNext, FI!AddStep
<1>. QED BY <1>2, <1>3, <1>4, <1>5, <1>6, <1>7

-----------------------------------------------------------------------------
(***************************************************************************)
(* The loop: the read of the cursor decides, and the probes confirm it.    *)
(***************************************************************************)
\* Counted from the cursor, the slots come in the order in which the loop probes them.
LEMMA DistanceIsProbe ==
  ASSUME nextAddPos \in Slots
  PROVE  /\ \A k \in 0 .. MaxCount - 1 : FI!Distance((nextAddPos + k) % MaxCount) = k
         /\ \A s \in Slots : /\ FI!Distance(s) \in 0 .. MaxCount - 1
                             /\ (nextAddPos + FI!Distance(s)) % MaxCount = s
<1>. USE LockAssumption DEF LockAssumption, Slots, FI!Distance
<1>1. ASSUME NEW k \in 0 .. MaxCount - 1
      PROVE  FI!Distance((nextAddPos + k) % MaxCount) = k
  <2>1. (nextAddPos + k) % MaxCount
          = IF nextAddPos + k < MaxCount THEN nextAddPos + k ELSE nextAddPos + k - MaxCount
    <3>1. nextAddPos + k \in 0 .. 2 * MaxCount - 1
      OBVIOUS
    <3>. QED BY <3>1, ProbeWraps
  <2>. QED BY <2>1
<1>2. ASSUME NEW s \in Slots
      PROVE  /\ FI!Distance(s) \in 0 .. MaxCount - 1
             /\ (nextAddPos + FI!Distance(s)) % MaxCount = s
  <2>. DEFINE x == nextAddPos + FI!Distance(s)
  <2>1. FI!Distance(s) \in 0 .. MaxCount - 1
    OBVIOUS
  <2>2. x \in 0 .. 2 * MaxCount - 1 /\ x \in {s, s + MaxCount}
    OBVIOUS
  <2>3. x % MaxCount = IF x < MaxCount THEN x ELSE x - MaxCount
    BY <2>2, ProbeWraps, Zenon
  <2>4. x % MaxCount = s
    <3>. HIDE DEF x
    <3>. QED BY <2>2, <2>3
  <2>. QED BY <2>1, <2>4
<1>. QED BY <1>1, <1>2

\* A connection that holds the lock is the only one in the loop.
LEMMA OnlyHolderProbes ==
  ASSUME LockInv, NEW g \in Conns, lock = g
  PROVE  \A h \in Conns : h # g => op[h].step \notin InLock
BY DEF LockInv, Held

\* The read of the cursor: it claims the first free slot, or finds that there is none,
\* or ends the process.
LEMMA StartMaps ==
  ASSUME LockInv, LockInv', NEW g \in Conns, StartLoop(g)
  PROVE  Maps
<1>. USE LockAssumption DEF LockAssumption, Slots, At, Maps
<1>1. /\ op \in [Conns -> OpStates] /\ op[g] \in OpStates /\ Locals(g)
      /\ nextAddPos \in 0 .. MaxCount
  BY DEF LockInv, TypeOK, OpStates
<1>2. lock = g /\ lock' = g /\ op[g].step = "locked" /\ list' = list
  BY DEF StartLoop, LockInv, Held, InLock
<1>3. \A h \in Conns : h # g => op'[h] = op[h] /\ op[h].step # "probe"
  BY <1>1, <1>2, OnlyHolderProbes DEF StartLoop, InLock
<1>4. AbstractList = list
  BY <1>2, <1>3, ListUnclaimed DEF Unclaimed, WillClaim
<1>5. AbstractAdding[g] = [FI!NotAdding EXCEPT !.step = "admitted"]
  BY <1>2, AbstractAddAt DEF AddAt, AbstractAdding
<1>6. AbstractAdding' = [AbstractAdding EXCEPT ![g] = AbstractAdd(g)']
  BY <1>2, <1>3, EntryMoves
<1>7. CASE nextAddPos < MaxCount
  <2>1. /\ op'[g].step = "probe" /\ op'[g].p = nextAddPos /\ op'[g].c = 0
        /\ op'[g].v = op[g].v /\ op[g].v \in Players
    BY <1>1, <1>2, <1>7 DEF StartLoop, OpStates, Locals
  <2>2. Ahead(g)' = {k \in 0 .. MaxCount - 1 : list[(nextAddPos + k) % MaxCount] = Nobody}
    BY <1>2, <2>1 DEF Ahead
  <2>3. nextAddPos \in Slots
    BY <1>1, <1>7
  <2>4. CASE Ahead(g)' # {}
    <3>. DEFINE k == Nearest(Ahead(g)')
                s == (nextAddPos + k) % MaxCount
    <3>1. k \in Ahead(g)' /\ \A j \in Ahead(g)' : k <= j
      <4>1. Ahead(g)' \subseteq Nat
        BY <2>2
      <4>. HIDE DEF k
      <4>. QED BY <2>4, <4>1, NearestIsFirst DEF k
    <3>. HIDE DEF k
    <3>2. WillClaim(g)' /\ Target(g)' = s
      BY <2>1, <2>4, TargetIsNearest DEF WillClaim, k
    <3>3. s \in Slots /\ AbstractList' = [list EXCEPT ![s] = op[g].v]
      BY <1>2, <2>1, <3>2, ListClaimed DEF Claimed
    <3>4. AbstractAdd(g)' = [step |-> "claimed", value |-> op[g].v, pos |-> s, seen |-> 0]
      BY <2>1, <3>2, AbstractAddAt DEF AddAt
    <3>5. FI!FirstFree(s)
      <4>1. AbstractList[s] = Nobody /\ FI!Distance(s) = k
        BY <1>4, <2>2, <2>3, <3>1, DistanceIsProbe
      <4>2. ASSUME NEW r \in Slots, FI!Distance(r) < FI!Distance(s)
            PROVE  AbstractList[r] # Nobody
        <5>1. /\ FI!Distance(r) \in 0 .. MaxCount - 1
              /\ (nextAddPos + FI!Distance(r)) % MaxCount = r
          BY <2>3, DistanceIsProbe
        <5>2. FI!Distance(r) \notin Ahead(g)'
          BY <2>2, <3>1, <4>1, <4>2, <5>1
        <5>. QED BY <1>4, <2>2, <5>1, <5>2
      <4>. QED BY <4>1, <4>2 DEF FI!FirstFree, FI!Slots
    <3>. HIDE DEF s
    <3>6. FI!Claim(g, op[g].v)
      BY <1>4, <1>5, <1>6, <1>7, <3>3, <3>4, <3>5
      DEF FI!Claim, FI!Slots, StartLoop, FI!NotAdding
    <3>. QED BY <2>1, <3>6 DEF FI!IndexNext, FI!AddStep
  <2>5. CASE Ahead(g)' = {}
    <3>1. \A h \in Conns : ~WillClaim(h)'
      BY <1>3, <2>5 DEF WillClaim
    <3>2. AbstractList' = list
      BY <1>2, <3>1, ListUnclaimed DEF Unclaimed
    <3>3. AbstractAdd(g)' = [step |-> "added", value |-> op[g].v, pos |-> -1, seen |-> 0]
      BY <2>1, <2>5, AbstractAddAt DEF AddAt, WillFail
    <3>4. \A s \in Slots : AbstractList[s] # Nobody
      BY <1>4, <2>2, <2>3, <2>5, DistanceIsProbe
    <3>5. FI!FindNone(g, op[g].v)
      BY <1>4, <1>5, <1>6, <1>7, <3>2, <3>3, <3>4
      DEF FI!FindNone, FI!Slots, FI!NotFound, StartLoop, FI!NotAdding
    <3>. QED BY <2>1, <3>5 DEF FI!IndexNext, FI!AddStep
  <2>. QED BY <2>4, <2>5
<1>8. CASE ~(nextAddPos < MaxCount)
  <2>1. op' = op /\ indexPanic' = TRUE /\ nextAddPos = MaxCount
    BY <1>1, <1>8 DEF StartLoop
  <2>2. AbstractList' = list
    BY <1>2, <1>3, <2>1, ListUnclaimed DEF Unclaimed, WillClaim
  <2>3. AbstractAdding' = AbstractAdding
    <3>1. AbstractAdd(g)' = [FI!NotAdding EXCEPT !.step = "admitted"]
      BY <1>2, <2>1, AbstractAddAt DEF AddAt
    <3>. QED BY <1>5, <1>6, <3>1 DEF AbstractAdding
  <2>4. FI!ProbePastEnd(g)
    BY <1>4, <1>5, <2>1, <2>2, <2>3 DEF FI!ProbePastEnd, StartLoop, FI!NotAdding
  <2>. QED BY <2>4 DEF FI!IndexNext, FI!AddStep
<1>. QED BY <1>7, <1>8

\* The probe that finds a free slot finds the one decided.
LEMMA FoundMaps ==
  ASSUME LockInv, LockInv', NEW g \in Conns, ProbeFree(g)
  PROVE  Maps
<1>. USE LockAssumption DEF LockAssumption, Slots, At, Goto, Maps
<1>1. op \in [Conns -> OpStates] /\ op[g] \in OpStates /\ Locals(g)
  BY DEF LockInv, TypeOK, OpStates
<1>2. /\ lock = g /\ op[g].step = "probe" /\ op'[g].step = "found" /\ op[g].p \in Slots
      /\ op'[g].v = op[g].v /\ op'[g].p = op[g].p /\ op'[g].seen = 0
  BY <1>1 DEF ProbeFree, OpStates, Locals, LockInv, Held, InLock
<1>3. \A h \in Conns : h # g => op'[h] = op[h] /\ op[h].step # "probe"
  BY <1>1, <1>2, OnlyHolderProbes DEF ProbeFree, InLock
<1>4. WillClaim(g) /\ Target(g) = op[g].p
  <2>1. op[g].p % MaxCount = op[g].p
    BY <1>2, WrapsOnce
  <2>2. 0 \in Ahead(g) /\ Ahead(g) \subseteq Nat
    BY <1>1, <1>2, <2>1 DEF Ahead, ProbeFree, OpStates
  <2>3. Nearest(Ahead(g)) = 0
    BY <2>2, NearestIsFirst
  <2>. QED BY <1>2, <2>1, <2>2, <2>3, TargetIsNearest DEF WillClaim
<1>5. AbstractList = list'
  BY <1>4, ListClaimed DEF Claimed, ProbeFree
<1>6. AbstractList' = list'
  BY <1>2, <1>3, ListUnclaimed DEF Unclaimed, WillClaim
<1>7. AbstractAdd(g)' = AbstractAdd(g)
  BY <1>2, <1>4, AbstractAddAt DEF AddAt
<1>8. AbstractAdding' = AbstractAdding
  BY <1>3, <1>7, EntryMoves DEF AbstractAdding
<1>. QED BY <1>5, <1>6, <1>8 DEF FI!indexVars, ProbeFree

\* The probe that finds a slot taken goes on to the one decided.
LEMMA TakenMaps ==
  ASSUME LockInv, LockInv', NEW g \in Conns, ProbeTaken(g)
  PROVE  Maps
<1>. USE LockAssumption DEF LockAssumption, Slots, At, Maps
<1>1. op \in [Conns -> OpStates] /\ op[g] \in OpStates /\ Locals(g)
  BY DEF LockInv, TypeOK, OpStates
<1>2. /\ op[g].step = "probe" /\ op'[g].step = "probe" /\ list' = list
      /\ op[g].p \in Slots /\ op[g].c \in 0 .. MaxCount - 1
      /\ op'[g].v = op[g].v /\ op'[g].p = (op[g].p + 1) % MaxCount
      /\ op'[g].c = op[g].c + 1
  BY <1>1 DEF ProbeTaken, OpStates, Locals
<1>3. \A h \in Conns : h # g => op'[h] = op[h]
  BY <1>1 DEF ProbeTaken
<1>4. \A k \in 0 .. MaxCount - 2 :
        (((op[g].p + 1) % MaxCount) + k) % MaxCount = (op[g].p + (k + 1)) % MaxCount
  BY <1>2, NextProbe
<1>5. \A k \in Nat : k \in Ahead(g)' <=> k + 1 \in Ahead(g)
  BY <1>2, <1>4 DEF Ahead
<1>6. 0 \notin Ahead(g)
  <2>1. op[g].p % MaxCount = op[g].p
    BY <1>2, WrapsOnce
  <2>. QED BY <1>2, <2>1 DEF Ahead, ProbeTaken
<1>7. Ahead(g) \subseteq 0 .. MaxCount - 1 /\ Ahead(g)' \subseteq 0 .. MaxCount - 2
  BY <1>2 DEF Ahead
<1>8. Ahead(g)' = {} <=> Ahead(g) = {}
  <2>1. \A k \in Ahead(g) : k - 1 \in Ahead(g)'
    BY <1>5, <1>6, <1>7
  <2>2. \A k \in Ahead(g)' : k + 1 \in Ahead(g)
    BY <1>5, <1>7
  <2>. QED BY <2>1, <2>2
<1>9. Ahead(g) # {} => Target(g)' = Target(g)
  <2>1. SUFFICES ASSUME Ahead(g) # {}
                 PROVE  Target(g)' = Target(g)
    OBVIOUS
  <2>. DEFINE i == Nearest(Ahead(g))
              j == Nearest(Ahead(g)')
  <2>2. i \in Ahead(g) /\ \A k \in Ahead(g) : i <= k
    BY <1>7, <2>1, NearestIsFirst
  <2>3. j \in Ahead(g)' /\ \A k \in Ahead(g)' : j <= k
    BY <1>7, <1>8, <2>1, NearestIsFirst
  <2>4. /\ Target(g) = (op[g].p + i) % MaxCount
        /\ Target(g)' = (op'[g].p + j) % MaxCount
    BY TargetIsNearest
  <2>. HIDE DEF i, j
  <2>5. i = j + 1 /\ j \in 0 .. MaxCount - 2
    <3>1. i \in Nat /\ i # 0 /\ j \in Nat
      BY <1>6, <1>7, <2>2, <2>3
    <3>2. i - 1 \in Ahead(g)' /\ j + 1 \in Ahead(g)
      BY <1>5, <2>2, <2>3, <3>1
    <3>. QED BY <1>7, <2>2, <2>3, <3>1, <3>2
  <2>. QED BY <1>2, <1>4, <2>4, <2>5
<1>10. WillClaim(g)' <=> WillClaim(g)
  BY <1>2, <1>8 DEF WillClaim
<1>11. AbstractList' = AbstractList
  <2>1. \A h \in Conns : /\ WillClaim(h)' <=> WillClaim(h)
                         /\ WillClaim(h) => Target(h)' = Target(h) /\ op'[h].v = op[h].v
    BY <1>2, <1>3, <1>9, <1>10, EntryMoves DEF WillClaim
  <2>. QED BY <1>2, <2>1, ListStays
<1>12. AbstractAdd(g)' = AbstractAdd(g)
  <2>1. CASE WillClaim(g)
    BY <1>2, <1>9, <1>10, <2>1, AbstractAddAt DEF AddAt, WillClaim
  <2>2. CASE ~WillClaim(g)
    BY <1>2, <1>8, <2>2, AbstractAddAt DEF AddAt, WillClaim, WillFail
  <2>. QED BY <2>1, <2>2
<1>13. AbstractAdding' = AbstractAdding
  BY <1>2, <1>3, <1>12, EntryMoves DEF AbstractAdding
<1>. QED BY <1>11, <1>13 DEF FI!indexVars, ProbeTaken

\* A loop that has probed every slot was to fail from the start.
LEMMA EndMaps ==
  ASSUME LockInv, LockInv', NEW g \in Conns, EndLoop(g)
  PROVE  Maps
<1>. USE LockAssumption DEF LockAssumption, At, Goto, Maps
<1>1. op \in [Conns -> OpStates] /\ op[g] \in OpStates /\ Locals(g)
  BY DEF LockInv, TypeOK, OpStates
<1>2. /\ op[g].step = "probe" /\ op'[g].step = "none" /\ op'[g].v = op[g].v /\ list' = list
      /\ op[g].c = MaxCount
  BY <1>1 DEF EndLoop, OpStates
<1>3. \A h \in Conns : h # g => op'[h] = op[h]
  BY <1>1 DEF EndLoop
<1>4. WillFail(g) /\ ~WillClaim(g) /\ ~WillClaim(g)'
  BY <1>2 DEF WillFail, WillClaim, Ahead
<1>5. AbstractList' = AbstractList
  <2>1. \A h \in Conns : /\ WillClaim(h)' <=> WillClaim(h)
                         /\ WillClaim(h) => Target(h)' = Target(h) /\ op'[h].v = op[h].v
    BY <1>2, <1>3, <1>4, EntryMoves
  <2>. QED BY <1>2, <2>1, ListStays
<1>6. AbstractAdd(g)' = AbstractAdd(g)
  BY <1>2, <1>4, AbstractAddAt DEF AddAt
<1>7. AbstractAdding' = AbstractAdding
  BY <1>2, <1>3, <1>6, EntryMoves DEF AbstractAdding
<1>. QED BY <1>5, <1>7 DEF FI!indexVars, EndLoop

-----------------------------------------------------------------------------
(***************************************************************************)
(* DelByIndex, and the theorem.                                            *)
(***************************************************************************)
\* A delete under the lock falls between no two probes of a loop.
LEMMA DeleteMaps ==
  ASSUME LockInv, LockInv', NEW d \in Deleters,
         (\E s \in Slots : DelAcquire(d, s)) \/ DelClear(d)
  PROVE  Maps
<1>. USE LockAssumption DEF LockAssumption, Maps
<1>1. op' = op
  BY DEF DelAcquire, DelClear
<1>2. \A h \in Conns : op[h].step # "probe"
  BY DEF DelAcquire, DelClear, LockInv, TypeOK, Held, InLock
<1>3. AbstractList = list /\ AbstractList' = list'
  BY <1>1, <1>2, ListUnclaimed DEF Unclaimed, WillClaim
<1>4. AbstractAdding' = AbstractAdding
  <2>1. ASSUME NEW h \in Conns
        PROVE  AbstractAdd(h)' = AbstractAdd(h)
    BY <1>1, <1>2, <2>1 DEF AbstractAdd, WillClaim, WillFail
  <2>. QED BY <2>1 DEF AbstractAdding
<1>5. CASE \E s \in Slots : DelAcquire(d, s)
  BY <1>3, <1>4, <1>5 DEF FI!indexVars, DelAcquire
<1>6. CASE DelClear(d)
  <2>1. del[d] \in Slots
    BY <1>6 DEF DelClear, LockInv, TypeOK, Slots
  <2>2. FI!DelByIndex(del[d])
    BY <1>3, <1>4, <1>6, <2>1 DEF DelClear, FI!DelByIndex, FI!Slots, Slots
  <2>. QED BY <2>1, <2>2 DEF FI!IndexNext, FI!Slots, Slots
<1>. QED BY <1>5, <1>6

\* An empty table is an empty table.
LEMMA InitMaps == Init => FI!IndexInit
<1>. SUFFICES ASSUME Init PROVE FI!IndexInit
  OBVIOUS
<1>1. LockInv /\ \A g \in Conns : op[g].step = "out"
  BY LockInvHoldsFirst DEF Init, NotAdding
<1>2. AbstractList = list
  BY <1>1, ListUnclaimed DEF Unclaimed, WillClaim
<1>3. AbstractAdding = [c \in Conns |-> FI!NotAdding]
  BY <1>1, AbstractAddAt DEF AddAt, AbstractAdding
<1>. QED BY <1>2, <1>3 DEF Init, FI!IndexInit, FI!Slots, Slots

\* Every step of Add and DelByIndex maps to one of FastIndex or to none.
LEMMA NextMaps ==
  ASSUME LockInv, LockInv', [Next]_vars
  PROVE  Maps
<1>1. CASE UNCHANGED vars
  <2>1. op' = op /\ list' = list
    BY <1>1 DEF vars
  <2>2. AbstractList' = AbstractList
    BY <2>1 DEF AbstractList, WillClaim, Target, Ahead
  <2>3. AbstractAdding' = AbstractAdding
    BY <2>1 DEF AbstractAdding, AbstractAdd, WillClaim, WillFail, Target, Ahead
  <2>. QED BY <1>1, <2>2, <2>3 DEF vars, Maps, FI!indexVars
<1>. QED BY <1>1, EnterMaps, LeaveMaps, StartMaps, FoundMaps, TakenMaps, EndMaps, DeleteMaps
         DEF Next, Proceed

\* The lock and the loop of Add are the atomic Add of FastIndex, and DelByIndex falls
\* between two Adds and never into one: for any number of connections and slots, and
\* with the cursor stored by others while the loop runs (FastIndex.go, Add and
\* DelByIndex).
THEOREM LockImplementsIndex == Spec => Implements
<1>1. LockInv /\ LockInv' /\ [Next]_vars => [FI!IndexNext]_FI!indexVars
  BY NextMaps DEF Maps
<1>. QED BY <1>1, InitMaps, LockInvHolds, PTL DEF Spec, Implements, FI!IndexSpec
=============================================================================

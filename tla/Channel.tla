------------------------------ MODULE Channel ------------------------------
(***************************************************************************)
(* The command channel of the client (NetVoice/Source/Channel.h), through  *)
(* which the callers of EnterGroup and LeaveGroup, the reconnecting socket *)
(* thread among them, hand commands to the one command thread              *)
(* (GameProxy.cpp:63-82).                                                  *)
(*                                                                         *)
(* The list is changed under the lock, and the count after it, so the two  *)
(* differ in between.  The two events are auto-reset: a signal is kept for *)
(* one waiter, and two signals are as good as one.                         *)
(***************************************************************************)
EXTENDS Integers, Sequences, FiniteSets

CONSTANTS
  Putters,   (* the threads that put                                         *)
  Cap,       (* m_Cap                                                        *)
  MaxPuts    (* bound: how many commands each putter puts                    *)

ASSUME ChannelAssumption ==
  /\ IsFiniteSet(Putters)
  /\ Cap \in Nat \ {0}
  /\ MaxPuts \in Nat

VARIABLES
  m_List, m_Count,
  m_NotifyGet, m_NotifyPut,  (* whether the event is signalled               *)
  put,        (* where each putter is, and how many commands it has put      *)
  get,        (* where the command thread is                                 *)
  taken,      (* the commands it has taken so far, in order                  *)
  badPop      (* front() and pop_front() of an empty list                    *)

vars == <<m_List, m_Count, m_NotifyGet, m_NotifyPut, put, get, taken, badPop>>

Commands == Putters \X (1 .. MaxPuts)

TypeOK ==
  /\ m_List \in Seq(Commands)
  /\ m_Count \in Nat
  /\ m_NotifyGet \in BOOLEAN
  /\ m_NotifyPut \in BOOLEAN
  /\ put \in [Putters -> [step : {"try", "wait", "count", "signal"}, n : 0 .. MaxPuts]]
  /\ get \in {"try", "wait", "count", "signal"}
  /\ taken \in Seq(Commands)
  /\ badPop \in BOOLEAN

Init ==
  /\ m_List = <<>>
  /\ m_Count = 0
  /\ m_NotifyGet = FALSE
  /\ m_NotifyPut = FALSE
  /\ put = [t \in Putters |-> [step |-> "try", n |-> 0]]
  /\ get = "try"
  /\ taken = <<>>
  /\ badPop = FALSE

-----------------------------------------------------------------------------
(***************************************************************************)
(* Put.                                                                    *)
(***************************************************************************)
PutAt(t, step) == put[t].step = step

\* The locked section, with room: the next command of t is pushed.
Push(t) ==
  /\ PutAt(t, "try")
  /\ put[t].n < MaxPuts
  /\ m_Count < Cap
  /\ m_List' = Append(m_List, <<t, put[t].n + 1>>)
  /\ put' = [put EXCEPT ![t].step = "count", ![t].n = @ + 1]
  /\ UNCHANGED <<m_Count, m_NotifyGet, m_NotifyPut, get, taken, badPop>>

\* The locked section, without: wait for m_NotifyPut.
FindFull(t) ==
  /\ PutAt(t, "try")
  /\ put[t].n < MaxPuts
  /\ m_Count >= Cap
  /\ put' = [put EXCEPT ![t].step = "wait"]
  /\ UNCHANGED <<m_List, m_Count, m_NotifyGet, m_NotifyPut, get, taken, badPop>>

\* The wait ends and takes the signal with it; Put calls itself.
WakePutter(t) ==
  /\ PutAt(t, "wait")
  /\ m_NotifyPut
  /\ m_NotifyPut' = FALSE
  /\ put' = [put EXCEPT ![t].step = "try"]
  /\ UNCHANGED <<m_List, m_Count, m_NotifyGet, get, taken, badPop>>

\* InterlockedIncrement, after the lock.
CountPut(t) ==
  /\ PutAt(t, "count")
  /\ m_Count' = m_Count + 1
  /\ put' = [put EXCEPT ![t].step = "signal"]
  /\ UNCHANGED <<m_List, m_NotifyGet, m_NotifyPut, get, taken, badPop>>

SignalPut(t) ==
  /\ PutAt(t, "signal")
  /\ m_NotifyGet' = TRUE
  /\ put' = [put EXCEPT ![t].step = "try"]
  /\ UNCHANGED <<m_List, m_Count, m_NotifyPut, get, taken, badPop>>

-----------------------------------------------------------------------------
(***************************************************************************)
(* Get, by the command thread.                                             *)
(***************************************************************************)
\* Mutant: the count is not looked at.
Pop_NoCheck ==
  /\ get = "try"
  /\ IF m_List = <<>>
       THEN /\ badPop' = TRUE
            /\ UNCHANGED <<m_List, taken>>
       ELSE /\ taken' = Append(taken, Head(m_List))
            /\ m_List' = Tail(m_List)
            /\ UNCHANGED badPop
  /\ get' = "count"
  /\ UNCHANGED <<m_Count, m_NotifyGet, m_NotifyPut, put>>

\* Mutant: the newest command is taken.
Pop_Newest ==
  /\ get = "try"
  /\ m_Count > 0
  /\ taken' = Append(taken, m_List[Len(m_List)])
  /\ m_List' = SubSeq(m_List, 1, Len(m_List) - 1)
  /\ get' = "count"
  /\ UNCHANGED <<m_Count, m_NotifyGet, m_NotifyPut, put, badPop>>

\* The locked section, with a command.
Pop ==
  /\ get = "try"
  /\ m_Count > 0
  /\ IF m_List = <<>>
       THEN /\ badPop' = TRUE
            /\ UNCHANGED <<m_List, taken>>
       ELSE /\ taken' = Append(taken, Head(m_List))
            /\ m_List' = Tail(m_List)
            /\ UNCHANGED badPop
  /\ get' = "count"
  /\ UNCHANGED <<m_Count, m_NotifyGet, m_NotifyPut, put>>

FindEmpty ==
  /\ get = "try"
  /\ m_Count = 0
  /\ get' = "wait"
  /\ UNCHANGED <<m_List, m_Count, m_NotifyGet, m_NotifyPut, put, taken, badPop>>

WakeGetter ==
  /\ get = "wait"
  /\ m_NotifyGet
  /\ m_NotifyGet' = FALSE
  /\ get' = "try"
  /\ UNCHANGED <<m_List, m_Count, m_NotifyPut, put, taken, badPop>>

CountGet ==
  /\ get = "count"
  /\ m_Count' = m_Count - 1
  /\ get' = "signal"
  /\ UNCHANGED <<m_List, m_NotifyGet, m_NotifyPut, put, taken, badPop>>

\* Mutant: nobody tells the putters there is room again.
SignalGet_Forgotten ==
  /\ get = "signal"
  /\ get' = "try"
  /\ UNCHANGED <<m_List, m_Count, m_NotifyGet, m_NotifyPut, put, taken, badPop>>

SignalGet ==
  /\ get = "signal"
  /\ m_NotifyPut' = TRUE
  /\ get' = "try"
  /\ UNCHANGED <<m_List, m_Count, m_NotifyGet, put, taken, badPop>>

-----------------------------------------------------------------------------
PutStep(t) == Push(t) \/ FindFull(t) \/ WakePutter(t) \/ CountPut(t) \/ SignalPut(t)

GetStep == Pop \/ FindEmpty \/ WakeGetter \/ CountGet \/ SignalGet

Next == (\E t \in Putters : PutStep(t)) \/ GetStep

Spec == Init /\ [][Next]_vars

-----------------------------------------------------------------------------
(***************************************************************************)
(* Properties.                                                             *)
(***************************************************************************)
\* The list is a queue: commands leave it in the order they were pushed, and
\* since the count lags behind the list it may exceed the capacity, by one for
\* each other putter that passed the check (Put, Channel.h:46 against 54).
Queue == INSTANCE Fifo WITH Items <- Commands, queue <- m_List,
                            Capacity <- Cap + Cardinality(Putters) - 1

ListIsFifo == Queue!FifoSpec

\* With one getter the count never says there is a command when the list is
\* empty: front() is never called on an empty list (Get, Channel.h:62-64).
NeverPopsEmpty == ~badPop
=============================================================================

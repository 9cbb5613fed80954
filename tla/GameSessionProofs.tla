------------------------- MODULE GameSessionProofs -------------------------
(***************************************************************************)
(* Proofs about Channel, for any number of putting threads, any capacity   *)
(* and any number of commands: its types, that the list is never popped    *)
(* empty, and that the list is a queue which grows past the capacity by    *)
(* no more than the other putters.                                         *)
(*                                                                         *)
(* All rest on how far the count, changed outside the lock, is from the    *)
(* length of the list: by the putters and the getter that have changed the *)
(* list and not yet the count.                                             *)
(*                                                                         *)
(* And about GameSession, for any capacity of the channel, any number of   *)
(* breaks and any bound on the commands: the session uses the channel as   *)
(* Channel has it, so what is proved of it holds here; its types; that it  *)
(* never starts a second voice session over a running one; and that the    *)
(* microphone comes back as it was asked for.                              *)
(***************************************************************************)
EXTENDS GameSession, FiniteSetTheorems, SequenceTheorems, TLAPS

\* The putters between the push and the increment.
Uncounted == {t \in Putters : put[t].step = "count"}

\* The command the getter has popped and not yet counted out.
Popped == IF get = "count" THEN 1 ELSE 0

CountInv ==
  /\ m_Count + Cardinality(Uncounted) = Len(m_List) + Popped
  /\ get = "count" => m_Count > 0
  /\ ~badPop

ChannelInv == TypeOK /\ CountInv

-----------------------------------------------------------------------------
\* The putters are finitely many, so the uncounted ones have a number.
LEMMA UncountedIsFinite ==
  /\ IsFiniteSet(Uncounted)
  /\ Cardinality(Uncounted) \in Nat
<1>1. IsFiniteSet(Uncounted)
  BY FS_Subset, ChannelAssumption DEF ChannelAssumption, Uncounted
<1>2. QED
  BY <1>1, FS_CardinalityType

\* A push puts a command of this putter at the end of the list.
LEMMA PushAppends ==
  ASSUME TypeOK, NEW t \in Putters, Push(t)
  PROVE  /\ m_List' \in Seq(Commands)
         /\ Len(m_List') = Len(m_List) + 1
         /\ \A i \in 1 .. Len(m_List) : m_List'[i] = m_List[i]
<1>1. put[t].n + 1 \in 1 .. MaxPuts
  BY ChannelAssumption DEF ChannelAssumption, TypeOK, Push
<1>2. <<t, put[t].n + 1>> \in Commands
  BY <1>1 DEF Commands
<1>3. QED
  BY <1>2, AppendProperties DEF TypeOK, Push

\* A pop takes the first command of a list that is not empty.
LEMMA PopTakesHead ==
  ASSUME TypeOK, m_List # <<>>
  PROVE  /\ Head(m_List) \in Commands
         /\ Tail(m_List) \in Seq(Commands)
         /\ Len(Tail(m_List)) = Len(m_List) - 1
         /\ Len(m_List) > 0
BY HeadTailProperties, LenProperties, EmptySeq DEF TypeOK

-----------------------------------------------------------------------------
(***************************************************************************)
(* The invariant: the steps of a putter.                                   *)
(***************************************************************************)
\* The list is one longer, and one more putter has to count.
LEMMA PushStep ==
  ASSUME ChannelInv, NEW t \in Putters, Push(t)
  PROVE  ChannelInv'
<1> USE ChannelAssumption DEF ChannelAssumption, ChannelInv, TypeOK
<1>1. m_List' \in Seq(Commands) /\ Len(m_List') = Len(m_List) + 1
  BY PushAppends
<1>2. put' = [put EXCEPT ![t].step = "count", ![t].n = @ + 1]
      /\ put[t].step = "try" /\ put[t].n < MaxPuts
      /\ UNCHANGED <<m_Count, m_NotifyGet, m_NotifyPut, get, taken, badPop>>
  BY DEF Push, PutAt
<1>3. put' \in [Putters -> [step : {"try", "wait", "count", "signal"}, n : 0 .. MaxPuts]]
  BY <1>2
<1>4. Uncounted' = Uncounted \cup {t} /\ t \notin Uncounted
  BY <1>2 DEF Uncounted
<1>5. Cardinality(Uncounted') = Cardinality(Uncounted) + 1
  BY <1>4, UncountedIsFinite, FS_AddElement
<1>6. Popped' = Popped /\ Popped \in Nat
  BY <1>2 DEF Popped
<1>7. Len(m_List) \in Nat
  BY LenProperties
<1>8. CountInv'
  <2>1. m_Count + Cardinality(Uncounted) = Len(m_List) + Popped
    BY DEF CountInv
  <2>2. m_Count' + Cardinality(Uncounted') = Len(m_List') + Popped'
    <3>1. m_Count' = m_Count /\ m_Count \in Nat
      BY <1>2
    <3> HIDE DEF ChannelInv, TypeOK
    <3>2. QED
      BY <3>1, <1>1, <1>5, <1>6, <1>7, <2>1, UncountedIsFinite
  <2>3. (get = "count" => m_Count > 0) /\ ~badPop
    BY DEF CountInv
  <2>4. QED
    BY <1>2, <2>2, <2>3 DEF CountInv
<1>9. QED
  BY <1>1, <1>2, <1>3, <1>8

\* The count is one more, and one putter fewer has to count.
LEMMA CountPutStep ==
  ASSUME ChannelInv, NEW t \in Putters, CountPut(t)
  PROVE  ChannelInv'
<1> USE DEF ChannelInv, TypeOK
<1>1. /\ put[t].step = "count"
      /\ m_Count' = m_Count + 1
      /\ put' = [put EXCEPT ![t].step = "signal"]
      /\ UNCHANGED <<m_List, m_NotifyGet, m_NotifyPut, get, taken, badPop>>
  BY DEF CountPut, PutAt
<1>2. put' \in [Putters -> [step : {"try", "wait", "count", "signal"}, n : 0 .. MaxPuts]]
  BY <1>1
<1>3. Uncounted' = Uncounted \ {t} /\ t \in Uncounted
  BY <1>1 DEF Uncounted
<1>4. Cardinality(Uncounted') = Cardinality(Uncounted) - 1
  BY <1>3, UncountedIsFinite, FS_RemoveElement
<1>5. Popped' = Popped /\ Popped \in Nat /\ Len(m_List) \in Nat
  BY <1>1, LenProperties DEF Popped
<1>6. CountInv'
  <2>1. m_Count + Cardinality(Uncounted) = Len(m_List) + Popped
    BY DEF CountInv
  <2>2. m_Count' + Cardinality(Uncounted') = Len(m_List') + Popped'
    BY <1>1, <1>4, <1>5, <2>1, UncountedIsFinite
  <2>3. m_Count' > 0 /\ ~badPop
    BY <1>1 DEF CountInv
  <2>4. QED
    BY <1>1, <2>2, <2>3 DEF CountInv
<1>7. QED
  BY <1>1, <1>2, <1>6

\* The other steps of a putter change neither the list nor the count.
LEMMA WaitStep ==
  ASSUME ChannelInv, NEW t \in Putters, FindFull(t) \/ WakePutter(t) \/ SignalPut(t)
  PROVE  ChannelInv'
<1> USE DEF ChannelInv, TypeOK
<1>1. PICK s \in {"try", "wait"} : put' = [put EXCEPT ![t].step = s]
  BY DEF FindFull, WakePutter, SignalPut
<1>2. /\ put[t].step # "count"
      /\ m_NotifyGet' \in BOOLEAN
      /\ m_NotifyPut' \in BOOLEAN
      /\ UNCHANGED <<m_List, m_Count, get, taken, badPop>>
  BY DEF FindFull, WakePutter, SignalPut, PutAt
<1>3. put' \in [Putters -> [step : {"try", "wait", "count", "signal"}, n : 0 .. MaxPuts]]
  BY <1>1
<1>4. Uncounted' = Uncounted
  BY <1>1, <1>2 DEF Uncounted
<1>5. CountInv'
  BY <1>2, <1>4 DEF CountInv, Popped
<1>6. QED
  BY <1>2, <1>3, <1>5

-----------------------------------------------------------------------------
(***************************************************************************)
(* The steps of the command thread.                                        *)
(***************************************************************************)
\* The count promises a command, and it is never ahead of the list.
LEMMA PopFindsOne ==
  ASSUME ChannelInv, Pop
  PROVE  m_List # <<>>
<1>1. Len(m_List) = m_Count + Cardinality(Uncounted) /\ m_Count > 0 /\ m_Count \in Nat
  BY LenProperties, UncountedIsFinite DEF ChannelInv, CountInv, TypeOK, Pop, Popped
<1>2. Len(m_List) > 0
  BY <1>1, UncountedIsFinite
<1>3. QED
  BY <1>2, EmptySeq

\* The list is one shorter, and the getter has to count.
LEMMA PopStep ==
  ASSUME ChannelInv, Pop
  PROVE  ChannelInv'
<1> USE DEF ChannelInv, TypeOK
<1>1. /\ get = "try"
      /\ m_Count > 0
      /\ taken' = Append(taken, Head(m_List))
      /\ m_List' = Tail(m_List)
      /\ get' = "count"
      /\ UNCHANGED <<m_Count, m_NotifyGet, m_NotifyPut, put, badPop>>
  BY PopFindsOne DEF Pop
<1>2. /\ m_List' \in Seq(Commands)
      /\ Len(m_List') = Len(m_List) - 1
      /\ taken' \in Seq(Commands)
      /\ Len(m_List) \in Nat
  BY <1>1, PopFindsOne, PopTakesHead, AppendProperties, LenProperties
<1>3. Uncounted' = Uncounted /\ Popped = 0 /\ Popped' = 1
  BY <1>1 DEF Uncounted, Popped
<1>4. CountInv'
  BY <1>1, <1>2, <1>3, UncountedIsFinite DEF CountInv
<1>5. QED
  BY <1>1, <1>2, <1>4

\* The count is one less, and the getter has counted.
LEMMA CountGetStep ==
  ASSUME ChannelInv, CountGet
  PROVE  ChannelInv'
<1> USE DEF ChannelInv, TypeOK
<1>1. /\ get = "count"
      /\ m_Count' = m_Count - 1
      /\ get' = "signal"
      /\ UNCHANGED <<m_List, m_NotifyGet, m_NotifyPut, put, taken, badPop>>
  BY DEF CountGet
<1>2. m_Count' \in Nat
  BY <1>1 DEF CountInv
<1>3. Uncounted' = Uncounted /\ Popped = 1 /\ Popped' = 0 /\ Len(m_List) \in Nat
  BY <1>1, LenProperties DEF Uncounted, Popped
<1>4. CountInv'
  BY <1>1, <1>3, UncountedIsFinite DEF CountInv
<1>5. QED
  BY <1>1, <1>2, <1>4

\* The other steps of the command thread change neither the list nor the count.
LEMMA GetWaitStep ==
  ASSUME ChannelInv, FindEmpty \/ WakeGetter \/ SignalGet
  PROVE  ChannelInv'
<1> USE DEF ChannelInv, TypeOK
<1>1. /\ get # "count"
      /\ get' \in {"try", "wait"}
      /\ m_NotifyGet' \in BOOLEAN
      /\ m_NotifyPut' \in BOOLEAN
      /\ UNCHANGED <<m_List, m_Count, put, taken, badPop>>
  BY DEF FindEmpty, WakeGetter, SignalGet
<1>2. CountInv'
  BY <1>1 DEF CountInv, Uncounted, Popped
<1>3. QED
  BY <1>1, <1>2

-----------------------------------------------------------------------------
\* The channel begins empty, with nobody in it.
LEMMA ChannelInvHoldsFirst == Init => ChannelInv
<1> SUFFICES ASSUME Init
             PROVE  ChannelInv
  OBVIOUS
<1>1. TypeOK
  <2>1. [step |-> "try", n |-> 0] \in
          [step : {"try", "wait", "count", "signal"}, n : 0 .. MaxPuts]
    BY ChannelAssumption DEF ChannelAssumption
  <2>2. put \in [Putters -> [step : {"try", "wait", "count", "signal"}, n : 0 .. MaxPuts]]
    BY <2>1 DEF Init
  <2>3. m_List \in Seq(Commands) /\ taken \in Seq(Commands)
    BY EmptySeq DEF Init
  <2>4. QED
    BY <2>2, <2>3 DEF Init, TypeOK
<1>2. Cardinality(Uncounted) = 0
  <2>1. Uncounted = {}
    BY DEF Init, Uncounted
  <2>2. QED
    BY <2>1, FS_EmptySet
<1>3. CountInv
  BY <1>2, EmptySeq DEF Init, CountInv, Popped
<1>4. QED
  BY <1>1, <1>3 DEF ChannelInv

\* Every step of the channel keeps the invariant.
LEMMA ChannelInvStep ==
  ASSUME ChannelInv, [Next]_vars
  PROVE  ChannelInv'
<1>1. CASE UNCHANGED vars
  BY <1>1 DEF vars, ChannelInv, TypeOK, CountInv, Uncounted, Popped
<1>2. CASE Next
  BY <1>2, PushStep, CountPutStep, WaitStep, PopStep, CountGetStep, GetWaitStep
     DEF Next, PutStep, GetStep
<1>3. QED
  BY <1>1, <1>2

\* So the invariant always holds.
LEMMA ChannelInvHolds == Spec => []ChannelInv
<1>1. ChannelInv /\ [Next]_vars => ChannelInv'
  BY ChannelInvStep
<1>2. QED
  BY <1>1, ChannelInvHoldsFirst, PTL DEF Spec

-----------------------------------------------------------------------------
(***************************************************************************)
(* The theorems.                                                           *)
(***************************************************************************)
\* The types of the channel, and with them that the count, which Get decrements
\* after the unlock (Channel.h), is never negative.
THEOREM ChannelTypeCorrect == Spec => []TypeOK
<1>1. ChannelInv => TypeOK
  BY DEF ChannelInv
<1>2. QED
  BY <1>1, ChannelInvHolds, PTL

\* front() and pop_front() are never called on an empty list (Get, Channel.h),
\* for any number of putters: the count lags behind every push and the one getter
\* looks again only when it has counted.
THEOREM NeverPopsEmptyHolds == Spec => []NeverPopsEmpty
<1>1. ChannelInv => NeverPopsEmpty
  BY DEF ChannelInv, CountInv, NeverPopsEmpty
<1>2. QED
  BY <1>1, ChannelInvHolds, PTL

\* A push that finds room makes the list no longer than the capacity and the
\* other putters together.
LEMMA PushFits ==
  ASSUME ChannelInv, NEW t \in Putters, Push(t)
  PROVE  Len(m_List) + 1 <= Cap + Cardinality(Putters) - 1
<1>1. Len(m_List) + Popped = m_Count + Cardinality(Uncounted) /\ m_Count < Cap
      /\ Popped \in Nat
  BY DEF ChannelInv, CountInv, Push, Popped
<1>2. Cardinality(Uncounted) <= Cardinality(Putters) - 1
  <2>1. IsFiniteSet(Putters \ {t}) /\ Cardinality(Putters \ {t}) = Cardinality(Putters) - 1
    BY FS_RemoveElement, ChannelAssumption DEF ChannelAssumption
  <2>2. Uncounted \subseteq Putters \ {t}
    BY DEF Push, PutAt, Uncounted
  <2>3. QED
    BY <2>1, <2>2, FS_Subset
<1>3. /\ m_Count \in Nat
      /\ Len(m_List) \in Nat
      /\ Cardinality(Putters) \in Nat
  BY LenProperties, FS_CardinalityType, ChannelAssumption
     DEF ChannelInv, TypeOK, ChannelAssumption
<1>4. QED
  BY <1>1, <1>2, <1>3, UncountedIsFinite, ChannelAssumption DEF ChannelAssumption

\* The list implements a queue of the capacity and the other putters: commands
\* leave it in the order they were pushed, none is lost, doubled or overtaken
\* between the two events (Put and Get, Channel.h).
THEOREM ChannelIsFifo == Spec => ListIsFifo
<1>1. Init => Queue!FifoInit
  BY DEF Init, Queue!FifoInit
<1>2. ASSUME ChannelInv, [Next]_vars
      PROVE  [Queue!FifoNext]_m_List
  <2>1. ASSUME NEW t \in Putters, Push(t)
        PROVE  Queue!Append1OrMore
    <3>1. /\ m_List \in Seq(Commands)
          /\ m_List' \in Seq(Commands)
          /\ Len(m_List') = Len(m_List) + 1
          /\ \A i \in 1 .. Len(m_List) : m_List'[i] = m_List[i]
      BY <1>2, <2>1, PushAppends DEF ChannelInv, TypeOK
    <3>2. Len(m_List') \in Len(m_List) + 1 .. Cap + Cardinality(Putters) - 1
      <4>1. Len(m_List) \in Nat /\ Cap \in Nat /\ Cardinality(Putters) \in Nat
        BY <3>1, LenProperties, FS_CardinalityType, ChannelAssumption DEF ChannelAssumption
      <4>2. QED
        BY <1>2, <2>1, <3>1, <4>1, PushFits
    <3>3. \A i \in 1 .. Len(m_List') : m_List'[i] \in Commands
      BY <3>1, ElementOfSeq
    <3>4. SubSeq(m_List', 1, Len(m_List)) = m_List
      BY <3>1
    <3>5. QED
      BY <3>2, <3>3, <3>4 DEF Queue!Append1OrMore
  <2>2. ASSUME Pop
        PROVE  Queue!Remove1OrMore
    <3>1. m_List # <<>> /\ m_List' = Tail(m_List)
      BY <1>2, <2>2, PopFindsOne DEF Pop
    <3>2. m_List \in Seq(Commands) /\ 1 \in 1 .. Len(m_List)
      BY <1>2, <3>1, PopTakesHead, LenProperties DEF ChannelInv, TypeOK
    <3>3. m_List' = SubSeq(m_List, 1 + 1, Len(m_List))
      BY <3>1, <3>2
    <3>4. QED
      BY <3>2, <3>3 DEF Queue!Remove1OrMore
  <2>3. ASSUME m_List' = m_List
        PROVE  [Queue!FifoNext]_m_List
    BY <2>3
  <2>4. QED
    BY <1>2, <2>1, <2>2, <2>3
       DEF Next, vars, PutStep, GetStep, FindFull, WakePutter, CountPut, SignalPut,
           FindEmpty, WakeGetter, CountGet, SignalGet, Queue!FifoNext
<1>3. ChannelInv /\ [Next]_vars => [Queue!FifoNext]_m_List
  BY <1>2
<1>4. QED
  BY <1>1, <1>3, ChannelInvHolds, PTL DEF Spec, ListIsFifo, Queue!FifoSpec

-----------------------------------------------------------------------------
(***************************************************************************)
(* The session uses the channel.                                           *)
(***************************************************************************)
\* Every step of the session is one of the channel or leaves it alone.
LEMMA SessionStepIsChannelStep == [SessionNext]_sessionVars => [Next]_vars
<1>1. Socket \in Putters /\ App \in Putters
  BY GameSessionAssumption DEF GameSessionAssumption
<1>. QED
  BY <1>1
     DEF SessionNext, AppStep, CmdStep, SocketStep, EnterGroup, LeaveGroup,
         TerminateThreads, CallLeaveGroup, StopConnect, Poll, Get, Send, Connect,
         ConnectFails, SendHandshake, ShakenHands, HandshakeRefused, ShakeAgain,
         Reenter, Ready, ReadEnterGroupAck, ReadFails, WakeUp, Break, HandleRequest,
         ReachCapacity, Next, sessionVars, clientVars, linkVars, vars

\* The session implements Channel: its two putters and one getter are threads
\* that do all the rest of the session in between (GameProxy.cpp:45-82, 125).
THEOREM UsesChannel == SessionSpec => Spec
<1>1. SessionInit => Init
  BY DEF SessionInit
<1>. QED BY <1>1, SessionStepIsChannelStep, PTL DEF SessionSpec, Spec

\* The command thread never pops an empty list, whatever the application, the
\* reconnects and the answers do meanwhile (Channel.h:62-64).
THEOREM SessionNeverPopsEmpty == SessionSpec => []NeverPopsEmpty
BY UsesChannel, NeverPopsEmptyHolds, PTL

\* The commands of the application and of the reconnects leave the channel in
\* the order in which they were put (Channel.h:44-65).
THEOREM SessionListIsFifo == SessionSpec => ListIsFifo
BY UsesChannel, ChannelIsFifo, PTL

-----------------------------------------------------------------------------
(***************************************************************************)
(* Types.                                                                  *)
(***************************************************************************)
\* The types of the session, and the invariant of its channel.
SessionTypes == ChannelInv /\ SessionTypeOK

\* A channel step keeps what was sent among what was taken.
LEMMA SentStaysTaken ==
  ASSUME SessionTypes, [Next]_vars
  PROVE  /\ ChannelInv' /\ TypeOK'
         /\ Len(taken) \in Nat /\ Len(taken') \in Nat
         /\ Len(taken') >= Len(taken)
<1>1. ChannelInv' /\ TypeOK'
  BY ChannelInvStep DEF SessionTypes, ChannelInv
<1>2. Len(taken) \in Nat /\ Len(taken') \in Nat
  BY <1>1, LenProperties DEF SessionTypes, ChannelInv, TypeOK
<1>3. CASE UNCHANGED taken
  BY <1>1, <1>2, <1>3
<1>4. CASE Pop /\ m_List # <<>>
  BY <1>1, <1>2, <1>4, PopTakesHead, AppendProperties DEF Pop, SessionTypes, ChannelInv, TypeOK
<1>. QED
  BY <1>3, <1>4
     DEF Next, vars, PutStep, GetStep, Push, FindFull, WakePutter, CountPut, SignalPut,
         Pop, FindEmpty, WakeGetter, CountGet, SignalGet

\* At first everything has its type.
LEMMA SessionTypesHoldFirst == SessionInit => SessionTypes
<1>. SUFFICES ASSUME SessionInit
              PROVE  SessionTypes
  OBVIOUS
<1>1. ChannelInv /\ TypeOK
  BY ChannelInvHoldsFirst DEF SessionInit, ChannelInv
<1>2. c2s \in Seq(Requests) /\ s2c \in Seq(Acks) /\ taken = <<>> /\ Len(taken) = 0
  BY EmptySeq DEF SessionInit, Init
<1>3. breaks \in 0 .. MaxBreaks /\ sent \in 0 .. Len(taken)
  BY <1>2, GameSessionAssumption DEF GameSessionAssumption, SessionInit
<1>4. /\ m_GroupID \in BOOLEAN /\ m_CanSpeak \in BOOLEAN /\ param \in BOOLEAN
      /\ handshaken \in BOOLEAN /\ link \in BOOLEAN /\ full \in BOOLEAN
      /\ early \in BOOLEAN
  BY DEF SessionInit
<1>5. /\ app = "enter" /\ sock = "connect" /\ cmd = "poll" /\ m_Status = "NOTHING"
      /\ voice = [running |-> 0, mic |-> FALSE]
  BY DEF SessionInit
<1>. QED
  BY <1>1, <1>2, <1>3, <1>4, <1>5 DEF SessionTypes, SessionTypeOK

\* The application's steps keep the types.
LEMMA AppKeepsTypes ==
  ASSUME SessionTypes, [Next]_vars, AppStep \/ CallLeaveGroup \/ StopConnect
  PROVE  SessionTypeOK'
<1>a. TypeOK' /\ sent \in 0 .. Len(taken')
  BY SentStaysTaken DEF SessionTypes, SessionTypeOK
<1>. USE <1>a DEF SessionTypes, SessionTypeOK, clientVars, linkVars
<1>1. CASE EnterGroup
  BY <1>1, GameSessionAssumption DEF EnterGroup, GameSessionAssumption
<1>2. CASE LeaveGroup
  BY <1>2 DEF LeaveGroup
<1>3. CASE TerminateThreads
  BY <1>3 DEF TerminateThreads
<1>4. CASE CallLeaveGroup
  BY <1>4 DEF CallLeaveGroup
<1>5. CASE StopConnect
  BY <1>5 DEF StopConnect
<1>. QED BY <1>1, <1>2, <1>3, <1>4, <1>5 DEF AppStep

\* So do the command thread's ...
LEMMA CmdKeepsTypes ==
  ASSUME SessionTypes, [Next]_vars, CmdStep
  PROVE  SessionTypeOK'
<1>a. TypeOK' /\ sent \in 0 .. Len(taken')
  BY SentStaysTaken DEF SessionTypes, SessionTypeOK
<1>. USE <1>a DEF SessionTypes, SessionTypeOK, clientVars, linkVars
<1>1. CASE Poll
  BY <1>1 DEF Poll
<1>2. CASE Get
  BY <1>2 DEF Get
<1>3. CASE Send
  <2>1. ASSUME NEW c
        PROVE  Append(c2s, RequestOf(c)) \in Seq(Requests)
    BY AppendProperties DEF RequestOf, Requests
  <2>2. sent' \in 0 .. Len(taken')
    BY <1>3 DEF Send, Holding, vars
  <2>. QED BY <1>3, <2>1, <2>2 DEF Send
<1>. QED BY <1>1, <1>2, <1>3 DEF CmdStep

\* ... the socket thread's ...
LEMMA SocketKeepsTypes ==
  ASSUME SessionTypes, [Next]_vars, SocketStep \/ ConnectFails
  PROVE  SessionTypeOK'
<1>a. TypeOK' /\ sent \in 0 .. Len(taken')
  BY SentStaysTaken DEF SessionTypes, SessionTypeOK
<1>. USE <1>a DEF SessionTypes, SessionTypeOK, clientVars, linkVars
<1>1. <<>> \in Seq(Requests) /\ <<>> \in Seq(Acks)
  BY EmptySeq
<1>2. s2c # <<>> => Tail(s2c) \in Seq(Acks)
  BY HeadTailProperties
<1>3. CASE Connect
  BY <1>1, <1>3 DEF Connect
<1>4. CASE ConnectFails
  BY <1>4, GameSessionAssumption DEF GameSessionAssumption, ConnectFails
<1>5. CASE SendHandshake
  <2>1. Append(c2s, "HANDSHAKE") \in Seq(Requests)
    BY AppendProperties DEF Requests
  <2>. QED BY <1>5, <2>1 DEF SendHandshake
<1>6. CASE ShakenHands
  BY <1>2, <1>6 DEF ShakenHands
<1>13. CASE HandshakeRefused
  BY <1>2, <1>13 DEF HandshakeRefused
<1>7. CASE ShakeAgain
  <2>1. /\ sock' \in {"connect", "ended"} /\ link' \in BOOLEAN /\ c2s' = <<>> /\ s2c' = <<>>
        /\ UNCHANGED <<app, cmd, sent, clientVars, full, breaks, early>>
    BY <1>7 DEF ShakeAgain, Loop
  <2>. QED BY <1>1, <2>1
<1>8. CASE Reenter
  BY <1>8 DEF Reenter
<1>9. CASE Ready
  BY <1>9 DEF Ready
<1>10. CASE ReadEnterGroupAck
  <2>1. [running |-> voice.running + 1, mic |-> m_CanSpeak] \in [running : Nat, mic : BOOLEAN]
    OBVIOUS
  <2>2. voice' \in [running : Nat, mic : BOOLEAN] /\ m_GroupID' \in BOOLEAN
    BY <1>10, <2>1 DEF ReadEnterGroupAck
  <2>3. sock' \in {"read", "ended"} /\ s2c' \in Seq(Acks)
    BY <1>2, <1>10 DEF ReadEnterGroupAck, Loop
  <2>4. UNCHANGED <<app, cmd, sent, m_Status, m_CanSpeak, param, handshaken, link, c2s,
                    full, breaks, early>>
    BY <1>10 DEF ReadEnterGroupAck
  <2>. QED BY <2>2, <2>3, <2>4
<1>11. CASE ReadFails
  <2>1. [voice EXCEPT !.running = 0] \in [running : Nat, mic : BOOLEAN]
    OBVIOUS
  <2>. QED BY <1>11, <2>1 DEF ReadFails
<1>12. CASE WakeUp
  <2>1. early' \in BOOLEAN
    BY <1>12 DEF WakeUp
  <2>2. sock' \in {"connect", "ended"}
        /\ UNCHANGED <<app, cmd, sent, clientVars, linkVars, full, breaks>>
    BY <1>12 DEF WakeUp, Loop
  <2>. QED BY <2>1, <2>2
<1>. QED
  BY <1>3, <1>4, <1>5, <1>6, <1>7, <1>8, <1>9, <1>10, <1>11, <1>12, <1>13 DEF SocketStep

\* ... and the server's and the network's.
LEMMA ServerKeepsTypes ==
  ASSUME SessionTypes, [Next]_vars, Break \/ HandleRequest \/ ReachCapacity
  PROVE  SessionTypeOK'
<1>a. TypeOK' /\ sent \in 0 .. Len(taken')
  BY SentStaysTaken DEF SessionTypes, SessionTypeOK
<1>. USE <1>a DEF SessionTypes, SessionTypeOK, clientVars, linkVars
<1>1. CASE Break
  <2>1. PICK n \in 0 .. Len(s2c) : s2c' = SubSeq(s2c, 1, n)
    BY <1>1 DEF Break
  <2>2. \A i \in 1 .. n : s2c[i] \in Acks
    BY <2>1, ElementOfSeq, LenProperties
  <2>3. n \in Int
    BY <2>1
  <2>4. s2c' \in Seq(Acks)
    BY <2>1, <2>2, <2>3, SubSeqProperties
  <2>5. breaks' \in 0 .. MaxBreaks /\ c2s' \in Seq(Requests)
    BY <1>1, EmptySeq, GameSessionAssumption DEF Break, GameSessionAssumption
  <2>6. link' \in BOOLEAN /\ UNCHANGED <<app, sock, cmd, sent, clientVars, full, early>>
    BY <1>1 DEF Break
  <2>. QED BY <2>4, <2>5, <2>6
<1>2. CASE HandleRequest
  <2>1. \A a \in Acks : Append(s2c, a) \in Seq(Acks)
    BY AppendProperties
  <2>2. Tail(c2s) \in Seq(Requests) /\ <<>> \in Seq(Requests)
    BY <1>2, HeadTailProperties, EmptySeq DEF HandleRequest
  <2>3. c2s' \in Seq(Requests) /\ link' \in BOOLEAN
    BY <1>2, <2>2 DEF HandleRequest
  <2>4. s2c' \in Seq(Acks)
    BY <1>2, <2>1 DEF HandleRequest, Acks
  <2>5. UNCHANGED <<app, sock, cmd, sent, clientVars, full, breaks, early>>
    BY <1>2 DEF HandleRequest
  <2>. QED BY <2>3, <2>4, <2>5
<1>3. CASE ReachCapacity
  BY <1>3 DEF ReachCapacity
<1>. QED BY <1>1, <1>2, <1>3

\* Every step keeps the types.
LEMMA SessionTypesStep == SessionTypes /\ [SessionNext]_sessionVars => SessionTypes'
<1>1. ASSUME SessionTypes, UNCHANGED sessionVars
      PROVE  SessionTypes'
  <2>1. UNCHANGED vars
    BY <1>1 DEF sessionVars
  <2>2. ChannelInv'
    BY <1>1, <2>1, ChannelInvStep DEF SessionTypes
  <2>. QED
    BY <1>1, <2>2 DEF SessionTypes, SessionTypeOK, TypeOK, sessionVars, vars, clientVars, linkVars
<1>2. ASSUME SessionTypes, SessionNext
      PROVE  SessionTypes'
  <2>1. [Next]_vars
    BY <1>2, SessionStepIsChannelStep
  <2>2. ChannelInv'
    BY <1>2, <2>1, ChannelInvStep DEF SessionTypes
  <2>. QED
    BY <1>2, <2>1, <2>2, AppKeepsTypes, CmdKeepsTypes, SocketKeepsTypes, ServerKeepsTypes
       DEF SessionNext, SessionTypes
<1>. QED BY <1>1, <1>2

\* The types of the whole session, the number of voice sessions and of commands
\* sent among them.
THEOREM SessionTypeCorrect == SessionSpec => []SessionTypeOK
<1>1. SessionTypes => SessionTypeOK
  BY DEF SessionTypes
<1>. QED BY <1>1, SessionTypesHoldFirst, SessionTypesStep, PTL DEF SessionSpec

-----------------------------------------------------------------------------
(***************************************************************************)
(* One voice session.  A call of EnterGroup is a command in the channel,   *)
(* then a request, then an answer, then a running voice session: there is  *)
(* at most one such thing, wherever it is.                                 *)
(***************************************************************************)
\* The commands of the channel in the order they were put.
Queued == taken \o m_List

\* What an EnterGroup is now, at which place.
At(p, i) ==
  \/ p = "channel" /\ i \in sent + 1 .. Len(Queued) /\ RequestOf(Queued[i]) = "ENTER_GROUP"
  \/ p = "c2s" /\ i \in 1 .. Len(c2s) /\ c2s[i] = "ENTER_GROUP"
  \/ p = "s2c" /\ i \in 1 .. Len(s2c) /\ s2c[i] = "ENTER_GROUP_OK"
  \/ p = "voice" /\ i \in 1 .. voice.running

Places == {"channel", "c2s", "s2c", "voice"}

AtMostOne == \A p, q \in Places, i, j \in Nat : At(p, i) /\ At(q, j) => p = q /\ i = j

NoneLeft == \A p \in Places, i \in Nat : ~At(p, i)

\* How many commands the application has pushed, and that the socket thread is
\* in Put only when it enters the group again.
PutterInv ==
  /\ app = "enter" => put[App].n = (IF put[App].step \in {"try", "wait"} THEN 0 ELSE 1)
  /\ app \in {"store", "entered"} => put[App].n = 1 /\ put[App].step = "try"
  /\ app = "leave" => put[App].n = (IF put[App].step \in {"try", "wait"} THEN 1 ELSE 2)
  /\ sock \notin {"reenter", "ended"} => put[Socket].step = "try"

\* Where nothing is left: on a connection not shaken hands on yet, once the
\* group was entered, until the socket thread has pushed its command.
SocketInv ==
  /\ ~link => c2s = <<>>
  /\ get = "wait" => sent = Len(taken)
  /\ m_GroupID => put[App].n >= 1
  /\ ~NoneLeft => put[App].n >= 1
  /\ sock = "sleep" => ~link /\ s2c = <<>> /\ voice.running = 0
  /\ sock \in {"connect", "hello", "shake"} /\ m_GroupID => NoneLeft
  /\ sock = "reenter" => m_GroupID /\ (put[Socket].step \in {"try", "wait"} => NoneLeft)

VoiceInv == SessionTypes /\ AtMostOne /\ PutterInv /\ SocketInv

\* The channel holds commands, and the server's messages have their types.
LEMMA PlaceTypes ==
  ASSUME SessionTypes
  PROVE  /\ taken \in Seq(Commands) /\ m_List \in Seq(Commands)
         /\ Queued \in Seq(Commands)
         /\ Len(taken) \in Nat /\ Len(m_List) \in Nat /\ Len(Queued) = Len(taken) + Len(m_List)
         /\ sent \in 0 .. Len(taken)
         /\ c2s \in Seq(Requests) /\ Len(c2s) \in Nat
         /\ s2c \in Seq(Acks) /\ Len(s2c) \in Nat
         /\ voice.running \in Nat
<1>1. /\ taken \in Seq(Commands) /\ m_List \in Seq(Commands)
      /\ sent \in 0 .. Len(taken) /\ c2s \in Seq(Requests) /\ s2c \in Seq(Acks)
      /\ voice.running \in Nat
  BY DEF SessionTypes, SessionTypeOK, TypeOK
<1>. QED BY <1>1, LenProperties, ConcatProperties DEF Queued

\* A push is at the end of the queue.
LEMMA PushQueues ==
  ASSUME SessionTypes, NEW t \in Putters, Push(t)
  PROVE  /\ Len(Queued') = Len(Queued) + 1
         /\ \A i \in 1 .. Len(Queued) : Queued'[i] = Queued[i]
         /\ Queued'[Len(Queued) + 1] = <<t, put[t].n + 1>>
<1>1. /\ m_List' = Append(m_List, <<t, put[t].n + 1>>) /\ taken' = taken
  BY DEF Push
<1>2. <<t, put[t].n + 1>> \in Commands
  BY ChannelAssumption
     DEF ChannelAssumption, Push, SessionTypes, SessionTypeOK, TypeOK, Commands
<1>3. /\ m_List' \in Seq(Commands) /\ Len(m_List') = Len(m_List) + 1
      /\ \A i \in 1 .. Len(m_List) : m_List'[i] = m_List[i]
      /\ m_List'[Len(m_List) + 1] = <<t, put[t].n + 1>>
  BY <1>1, <1>2, PlaceTypes, AppendProperties
<1>4. /\ Len(Queued') = Len(taken) + Len(m_List')
      /\ \A i \in 1 .. Len(taken) + Len(m_List') :
           Queued'[i] = IF i <= Len(taken) THEN taken[i] ELSE m_List'[i - Len(taken)]
  <2>1. Queued' = taken \o m_List'
    BY <1>1 DEF Queued
  <2>. QED BY <1>3, <2>1, PlaceTypes, ConcatProperties
<1>5. \A i \in 1 .. Len(taken) + Len(m_List) :
        Queued[i] = IF i <= Len(taken) THEN taken[i] ELSE m_List[i - Len(taken)]
  BY PlaceTypes, ConcatProperties DEF Queued
<1>6. Len(Queued') = Len(Queued) + 1
  BY <1>3, <1>4, PlaceTypes
<1>7. ASSUME NEW i \in 1 .. Len(Queued)
      PROVE  Queued'[i] = Queued[i]
  <2>1. CASE i <= Len(taken)
    <3>1. i \in 1 .. Len(taken) + Len(m_List') /\ i \in 1 .. Len(taken) + Len(m_List)
      BY <1>3, <2>1, PlaceTypes
    <3>. QED BY <1>4, <1>5, <2>1, <3>1
  <2>2. CASE ~(i <= Len(taken))
    <3>1. /\ i \in 1 .. Len(taken) + Len(m_List') /\ i \in 1 .. Len(taken) + Len(m_List)
          /\ i - Len(taken) \in 1 .. Len(m_List)
      BY <1>3, <2>2, PlaceTypes
    <3>. QED BY <1>3, <1>4, <1>5, <2>2, <3>1
  <2>. QED BY <2>1, <2>2
<1>8. Queued'[Len(Queued) + 1] = <<t, put[t].n + 1>>
  BY <1>3, <1>4, PlaceTypes
<1>. QED BY <1>6, <1>7, <1>8

\* A pop moves a command from the list to the taken ones: the queue is the same.
LEMMA PopQueues ==
  ASSUME SessionTypes, Pop
  PROVE  Queued' = Queued
<1>1. m_List # <<>> /\ taken' = Append(taken, Head(m_List)) /\ m_List' = Tail(m_List)
  BY PopFindsOne DEF Pop, SessionTypes
<1>2. Head(m_List) \in Commands /\ Tail(m_List) \in Seq(Commands)
      /\ Len(Tail(m_List)) = Len(m_List) - 1
      /\ \A i \in 1 .. Len(Tail(m_List)) : Tail(m_List)[i] = m_List[i + 1]
      /\ Head(m_List) = m_List[1]
  BY <1>1, PlaceTypes, HeadTailProperties
<1>3. /\ taken' \in Seq(Commands) /\ Len(taken') = Len(taken) + 1
      /\ \A i \in 1 .. Len(taken) : taken'[i] = taken[i]
      /\ taken'[Len(taken) + 1] = Head(m_List)
  BY <1>1, <1>2, PlaceTypes, AppendProperties
<1>4. /\ Queued' \in Seq(Commands)
      /\ Len(Queued') = Len(taken') + Len(m_List')
      /\ \A i \in 1 .. Len(taken') + Len(m_List') :
           Queued'[i] = IF i <= Len(taken') THEN taken'[i] ELSE m_List'[i - Len(taken')]
  BY <1>1, <1>2, <1>3, ConcatProperties DEF Queued
<1>5. \A i \in 1 .. Len(taken) + Len(m_List) :
        Queued[i] = IF i <= Len(taken) THEN taken[i] ELSE m_List[i - Len(taken)]
  BY PlaceTypes, ConcatProperties DEF Queued
<1>6. Len(Queued') = Len(Queued)
  BY <1>1, <1>2, <1>3, <1>4, PlaceTypes
<1>7. ASSUME NEW i \in 1 .. Len(Queued)
      PROVE  Queued'[i] = Queued[i]
  <2>0. /\ i \in 1 .. Len(taken') + Len(m_List') /\ i \in 1 .. Len(taken) + Len(m_List)
        /\ Len(m_List') = Len(m_List) - 1 /\ i \in Nat
    BY <1>1, <1>2, <1>4, <1>6, PlaceTypes
  <2>1. CASE i <= Len(taken)
    <3>1. i \in 1 .. Len(taken) /\ i <= Len(taken')
      BY <1>3, <2>0, <2>1, PlaceTypes
    <3>. QED BY <1>3, <1>4, <1>5, <2>0, <2>1, <3>1
  <2>2. CASE i = Len(taken) + 1
    BY <1>2, <1>3, <1>4, <1>5, <1>6, <2>2, PlaceTypes
  <2>3. CASE i > Len(taken) + 1
    <3>1. /\ ~(i <= Len(taken')) /\ ~(i <= Len(taken))
          /\ i - Len(taken') \in 1 .. Len(Tail(m_List))
          /\ i - Len(taken') + 1 = i - Len(taken)
      BY <1>1, <1>2, <1>3, <2>0, <2>3, PlaceTypes
    <3>2. Queued'[i] = Tail(m_List)[i - Len(taken')]
      BY <1>1, <1>4, <2>0, <3>1
    <3>3. Queued[i] = m_List[i - Len(taken)]
      BY <1>5, <2>0, <3>1
    <3>. QED BY <1>2, <3>1, <3>2, <3>3
  <2>. QED BY <2>1, <2>2, <2>3, PlaceTypes
<1>. QED BY <1>4, <1>6, <1>7, PlaceTypes, SeqEqual

\* A step that leaves no more than there was.
Fewer == \A p \in Places, i \in Nat : At(p, i)' => At(p, i)

\* Such a step keeps at most one, and none.
LEMMA FewerKeeps ==
  ASSUME AtMostOne, Fewer
  PROVE  AtMostOne' /\ (NoneLeft => NoneLeft')
BY DEF AtMostOne, Fewer, NoneLeft

\* What a step outside the channel leaves alone.
LEMMA OutsideFewer ==
  ASSUME UNCHANGED <<vars, sent, c2s, s2c, voice>>
  PROVE  Fewer
BY DEF Fewer, At, Queued, vars

\* A put that pushes nothing, or a command that is no EnterGroup.
LEMMA PutFewer ==
  ASSUME SessionTypes, NEW t \in Putters, PutStep(t), UNCHANGED <<sent, c2s, s2c, voice>>,
         Push(t) => RequestOf(<<t, put[t].n + 1>>) = "LEAVE_GROUP"
  PROVE  Fewer
<1>1. CASE Push(t)
  <2>1. ASSUME NEW i \in Nat, i \in sent' + 1 .. Len(Queued'),
               RequestOf(Queued'[i]) = "ENTER_GROUP"
        PROVE  i \in sent + 1 .. Len(Queued) /\ RequestOf(Queued[i]) = "ENTER_GROUP"
    <3>1. i # Len(Queued) + 1
      BY <1>1, <2>1, PushQueues
    <3>2. i \in sent + 1 .. Len(Queued)
      BY <1>1, <2>1, <3>1, PushQueues, PlaceTypes
    <3>3. i \in 1 .. Len(Queued)
      BY <3>2, PlaceTypes
    <3>. QED BY <1>1, <2>1, <3>2, <3>3, PushQueues
  <2>. QED BY <2>1 DEF Fewer, At
<1>2. CASE ~Push(t)
  <2>1. Queued' = Queued
    BY <1>2 DEF PutStep, FindFull, WakePutter, CountPut, SignalPut, Queued
  <2>. QED BY <2>1 DEF Fewer, At
<1>. QED BY <1>1, <1>2

\* A push when nothing is left makes one.
LEMMA PushMakesOne ==
  ASSUME SessionTypes, NoneLeft, NEW t \in Putters, Push(t), UNCHANGED <<sent, c2s, s2c, voice>>
  PROVE  AtMostOne'
<1>1. ASSUME NEW p \in Places, NEW i \in Nat, At(p, i)'
      PROVE  p = "channel" /\ i = Len(Queued) + 1
  <2>1. ~At(p, i)
    BY DEF NoneLeft
  <2>2. p = "channel"
    BY <1>1, <2>1 DEF At
  <2>3. i \in sent + 1 .. Len(Queued') /\ RequestOf(Queued'[i]) = "ENTER_GROUP"
    BY <1>1, <2>2 DEF At
  <2>4. ASSUME i # Len(Queued) + 1
        PROVE  FALSE
    <3>1. i \in sent + 1 .. Len(Queued)
      BY <2>3, <2>4, PushQueues, PlaceTypes
    <3>2. i \in 1 .. Len(Queued)
      BY <3>1, PlaceTypes
    <3>3. Queued'[i] = Queued[i]
      BY <3>2, PushQueues
    <3>. QED BY <2>1, <2>2, <2>3, <3>1, <3>3 DEF At
  <2>. QED BY <2>2, <2>4
<1>. QED BY <1>1 DEF AtMostOne

\* The getter changes nothing of the queue.
LEMMA GetFewer ==
  ASSUME SessionTypes, GetStep, UNCHANGED <<sent, c2s, s2c, voice>>
  PROVE  Fewer
<1>1. Queued' = Queued
  BY PopQueues DEF GetStep, FindEmpty, WakeGetter, CountGet, SignalGet, Queued
<1>. QED BY <1>1 DEF Fewer, At

\* Send takes the first command not sent off the channel, and puts its request
\* on the connection or nowhere.
LEMMA SendMoves ==
  ASSUME SessionTypes, AtMostOne, Send
  PROVE  AtMostOne' /\ (NoneLeft => NoneLeft')
<1>1. /\ sent' = sent + 1 /\ sent' \in 1 .. Len(taken)
      /\ Queued' = Queued /\ s2c' = s2c /\ voice' = voice
  BY PlaceTypes DEF Send, Holding, Queued, vars, clientVars
<1>2. Queued[sent'] = taken[sent']
  BY <1>1, PlaceTypes, ConcatProperties DEF Queued
<1>3. sent' \in sent + 1 .. Len(Queued)
  BY <1>1, PlaceTypes
<1>4. CASE c2s' = c2s
  <2>1. Fewer
    BY <1>1, <1>4, PlaceTypes DEF Fewer, At
  <2>. QED BY <2>1, FewerKeeps
<1>5. CASE c2s' = Append(c2s, RequestOf(taken[sent']))
  <2>1. RequestOf(taken[sent']) \in Requests
    BY DEF RequestOf, Requests
  <2>2. /\ Len(c2s') = Len(c2s) + 1
        /\ \A i \in 1 .. Len(c2s) : c2s'[i] = c2s[i]
        /\ c2s'[Len(c2s) + 1] = RequestOf(taken[sent'])
    BY <1>5, <2>1, PlaceTypes, AppendProperties
  <2>3. ASSUME NEW p \in Places, NEW i \in Nat, At(p, i)'
        PROVE  \/ At(p, i) /\ ~(p = "channel" /\ i = sent') /\ ~(p = "c2s" /\ i = Len(c2s) + 1)
               \/ p = "c2s" /\ i = Len(c2s) + 1 /\ At("channel", sent')
    <3>1. CASE p = "channel"
      BY <1>1, <2>3, <3>1, PlaceTypes DEF At
    <3>2. CASE p = "c2s"
      <4>1. i \in 1 .. Len(c2s') /\ c2s'[i] = "ENTER_GROUP"
        BY <2>3, <3>2 DEF At
      <4>2. CASE i = Len(c2s) + 1
        BY <1>2, <1>3, <2>2, <3>2, <4>1, <4>2 DEF At
      <4>3. CASE i # Len(c2s) + 1
        <5>1. i \in 1 .. Len(c2s)
          BY <2>2, <4>1, <4>3, PlaceTypes
        <5>. QED BY <2>2, <3>2, <4>1, <4>3, <5>1 DEF At
      <4>. QED BY <4>2, <4>3
    <3>3. CASE p \in {"s2c", "voice"}
      BY <1>1, <2>3, <3>3 DEF At
    <3>. QED BY <3>1, <3>2, <3>3 DEF Places
  <2>4. sent' \in Nat /\ "channel" \in Places
    BY <1>1, PlaceTypes DEF Places
  <2>. QED BY <2>3, <2>4 DEF AtMostOne, NoneLeft
<1>. QED BY <1>4, <1>5, <1>1 DEF Send

\* Reading an answer that enters no group takes nothing away.
LEMMA ReadSkips ==
  ASSUME SessionTypes, AtMostOne, s2c # <<>>, s2c' = Tail(s2c), Head(s2c) # "ENTER_GROUP_OK",
         UNCHANGED <<vars, sent, c2s, voice>>
  PROVE  AtMostOne' /\ (NoneLeft => NoneLeft')
<1>1. /\ Len(s2c') = Len(s2c) - 1
      /\ \A i \in 1 .. Len(s2c') : s2c'[i] = s2c[i + 1]
  BY PlaceTypes, HeadTailProperties
<1>2. Queued' = Queued
  BY DEF Queued, vars
<1>3. ASSUME NEW p \in Places, NEW i \in Nat, At(p, i)'
      PROVE  IF p = "s2c" THEN At(p, i + 1) ELSE At(p, i)
  <2>1. CASE p = "s2c"
    <3>1. i \in 1 .. Len(s2c') /\ s2c'[i] = "ENTER_GROUP_OK"
      BY <1>3, <2>1 DEF At
    <3>2. i + 1 \in 1 .. Len(s2c)
      BY <1>1, <3>1, PlaceTypes
    <3>. QED BY <1>1, <2>1, <3>1, <3>2 DEF At
  <2>2. CASE p # "s2c"
    BY <1>2, <1>3, <2>2 DEF At
  <2>. QED BY <2>1, <2>2
<1>4. \A i, j \in Nat : i + 1 \in Nat /\ (i + 1 = j + 1 => i = j)
  OBVIOUS
<1>. QED BY <1>3, <1>4 DEF AtMostOne, NoneLeft

\* Reading the answer that enters the group makes it a running voice session.
LEMMA ReadMoves ==
  ASSUME SessionTypes, AtMostOne, s2c # <<>>, s2c' = Tail(s2c), Head(s2c) = "ENTER_GROUP_OK",
         voice'.running = voice.running + 1, UNCHANGED <<vars, sent, c2s>>
  PROVE  AtMostOne'
<1>1. /\ Len(s2c') = Len(s2c) - 1
      /\ \A i \in 1 .. Len(s2c') : s2c'[i] = s2c[i + 1]
      /\ Head(s2c) = s2c[1]
  BY PlaceTypes, HeadTailProperties
<1>2. Queued' = Queued
  BY DEF Queued, vars
<1>3. At("s2c", 1)
  BY <1>1, PlaceTypes, HeadTailProperties DEF At
<1>4. ASSUME NEW p \in Places, NEW i \in Nat, At(p, i)'
      PROVE  p = "voice" /\ i = voice.running + 1
  <2>1. CASE p = "s2c"
    <3>1. i \in 1 .. Len(s2c') /\ s2c'[i] = "ENTER_GROUP_OK"
      BY <1>4, <2>1 DEF At
    <3>2. i + 1 \in 1 .. Len(s2c) /\ i + 1 # 1 /\ i + 1 \in Nat
      BY <1>1, <3>1, PlaceTypes
    <3>3. At("s2c", i + 1)
      BY <1>1, <3>1, <3>2 DEF At
    <3>. QED BY <1>3, <3>2, <3>3 DEF AtMostOne, Places
  <2>2. CASE p \in {"channel", "c2s"}
    <3>1. At(p, i)
      BY <1>2, <1>4, <2>2 DEF At
    <3>. QED BY <1>3, <2>2, <3>1 DEF AtMostOne, Places
  <2>3. CASE p = "voice"
    <3>1. i \in 1 .. voice.running + 1
      BY <1>4, <2>3 DEF At
    <3>2. ASSUME i # voice.running + 1
          PROVE  FALSE
      <4>1. i \in 1 .. voice.running
        BY <3>1, <3>2, PlaceTypes
      <4>2. At("voice", i)
        BY <4>1 DEF At
      <4>. QED BY <1>3, <4>2 DEF AtMostOne, Places
    <3>. QED BY <2>3, <3>2
  <2>. QED BY <2>1, <2>2, <2>3 DEF Places
<1>. QED BY <1>4 DEF AtMostOne

\* The server turns a request into its answer.
LEMMA HandleMoves ==
  ASSUME SessionTypes, AtMostOne, HandleRequest
  PROVE  AtMostOne' /\ (NoneLeft => NoneLeft')
<1>1. c2s # <<>> /\ Queued' = Queued /\ sent' = sent /\ voice' = voice
  BY DEF HandleRequest, Queued, vars, clientVars
<1>2. /\ Len(Tail(c2s)) = Len(c2s) - 1 /\ Head(c2s) = c2s[1] /\ Len(c2s) >= 1
      /\ \A i \in 1 .. Len(Tail(c2s)) : Tail(c2s)[i] = c2s[i + 1]
  BY <1>1, PlaceTypes, HeadTailProperties
<1>3. ASSUME NEW i \in Nat, At("c2s", i)'
      PROVE  i + 1 \in Nat /\ i + 1 # 1 /\ At("c2s", i + 1)
  <2>1. i \in 1 .. Len(c2s') /\ c2s'[i] = "ENTER_GROUP"
    BY <1>3 DEF At
  <2>2. c2s' # <<>>
    BY <2>1, EmptySeq
  <2>3. c2s' = Tail(c2s)
    BY <2>2 DEF HandleRequest
  <2>4. i + 1 \in 1 .. Len(c2s) /\ i + 1 # 1 /\ i + 1 \in Nat
    BY <1>2, <2>1, <2>3, PlaceTypes
  <2>. QED BY <1>2, <2>1, <2>3, <2>4 DEF At
<1>4. ASSUME NEW i \in Nat, At("s2c", i)'
      PROVE  At("s2c", i) \/ (i = Len(s2c) + 1 /\ At("c2s", 1))
  <2>1. i \in 1 .. Len(s2c') /\ s2c'[i] = "ENTER_GROUP_OK"
    BY <1>4 DEF At
  <2>2. ASSUME i \in 1 .. Len(s2c), s2c[i] = "ENTER_GROUP_OK"
        PROVE  At("s2c", i)
    BY <2>2 DEF At
  <2>3. ASSUME NEW a \in Acks, s2c' = Append(s2c, a),
               a = "ENTER_GROUP_OK" => Head(c2s) = "ENTER_GROUP"
        PROVE  At("s2c", i) \/ (i = Len(s2c) + 1 /\ At("c2s", 1))
    <3>1. /\ Len(s2c') = Len(s2c) + 1 /\ s2c'[Len(s2c) + 1] = a
          /\ \A k \in 1 .. Len(s2c) : s2c'[k] = s2c[k]
      BY <2>3, PlaceTypes, AppendProperties
    <3>2. CASE i = Len(s2c) + 1
      <4>1. c2s[1] = "ENTER_GROUP"
        BY <1>2, <2>1, <2>3, <3>1, <3>2
      <4>2. 1 \in 1 .. Len(c2s)
        BY <1>2, PlaceTypes
      <4>. QED BY <3>2, <4>1, <4>2 DEF At
    <3>3. CASE i # Len(s2c) + 1
      <4>1. i \in 1 .. Len(s2c)
        BY <2>1, <3>1, <3>3, PlaceTypes
      <4>. QED BY <2>1, <2>2, <3>1, <4>1
    <3>. QED BY <3>2, <3>3
  <2>4. \/ s2c' = s2c
        \/ \E a \in Acks : /\ s2c' = Append(s2c, a)
                           /\ a = "ENTER_GROUP_OK" => Head(c2s) = "ENTER_GROUP"
    BY DEF HandleRequest, Acks
  <2>. QED BY <2>1, <2>2, <2>3, <2>4
<1>5. ASSUME NEW p \in {"channel", "voice"}, NEW i \in Nat, At(p, i)'
      PROVE  At(p, i)
  BY <1>1, <1>5 DEF At
<1>6. \A i, j \in Nat : i + 1 \in Nat /\ (i + 1 = j + 1 => i = j)
  OBVIOUS
<1>7. ASSUME NoneLeft
      PROVE  NoneLeft'
  BY <1>3, <1>4, <1>5, <1>7 DEF NoneLeft, Places
<1>8. ASSUME NEW p \in Places, NEW q \in Places, NEW i \in Nat, NEW j \in Nat, At(p, i)', At(q, j)'
      PROVE  p = q /\ i = j
  <2>1. CASE At("c2s", 1)
    <3>1. \A r \in Places, k \in Nat : At(r, k) => r = "c2s" /\ k = 1
      BY <2>1 DEF AtMostOne, Places
    <3>2. ASSUME NEW r \in Places, NEW k \in Nat, At(r, k)'
          PROVE  r = "s2c" /\ k = Len(s2c) + 1
      BY <1>3, <1>4, <1>5, <3>1, <3>2 DEF Places
    <3>. QED BY <1>8, <3>2
  <2>2. CASE ~At("c2s", 1)
    <3>1. ASSUME NEW r \in Places, NEW k \in Nat, At(r, k)'
          PROVE  IF r = "c2s" THEN At(r, k + 1) ELSE At(r, k)
      BY <1>3, <1>4, <1>5, <2>2, <3>1 DEF Places
    <3>. QED BY <1>6, <1>8, <3>1 DEF AtMostOne
  <2>. QED BY <2>1, <2>2
<1>. QED BY <1>7, <1>8 DEF AtMostOne

\* A break, or a new connection, only loses what is on its way.
LEMMA LinkFewer ==
  ASSUME SessionTypes, UNCHANGED <<vars, sent, voice>>, c2s' = <<>>,
         s2c' = <<>> \/ \E n \in 0 .. Len(s2c) : s2c' = SubSeq(s2c, 1, n)
  PROVE  Fewer
<1>1. Queued' = Queued
  BY DEF Queued, vars
<1>2. ASSUME NEW i \in Nat, i \in 1 .. Len(s2c')
      PROVE  i \in 1 .. Len(s2c) /\ s2c'[i] = s2c[i]
  <2>1. s2c' # <<>>
    BY <1>2, EmptySeq
  <2>2. PICK n \in 0 .. Len(s2c) : s2c' = SubSeq(s2c, 1, n)
    BY <2>1
  <2>3. \A k \in 1 .. n : s2c[k] \in Acks
    BY <2>2, PlaceTypes, ElementOfSeq
  <2>4. n \in Int /\ 1 \in Int
    BY <2>2, PlaceTypes
  <2>5. /\ Len(s2c') = (IF 1 <= n THEN n - 1 + 1 ELSE 0)
        /\ \A k \in 1 .. n - 1 + 1 : s2c'[k] = s2c[1 + k - 1]
    BY <2>2, <2>3, <2>4, SubSeqProperties
  <2>6. i \in 1 .. n - 1 + 1 /\ 1 + i - 1 = i
    BY <1>2, <2>2, <2>5, PlaceTypes
  <2>. QED BY <2>2, <2>5, <2>6, PlaceTypes
<1>3. ~ \E i \in Nat : i \in 1 .. Len(c2s')
  BY EmptySeq
<1>. QED BY <1>1, <1>2, <1>3 DEF Fewer, At

\* A handshake on its way is no EnterGroup.
LEMMA HandshakeFewer ==
  ASSUME SessionTypes, SendHandshake
  PROVE  Fewer
<1>1. Queued' = Queued /\ sent' = sent /\ s2c' = s2c /\ voice' = voice
  BY DEF SendHandshake, Queued, vars, clientVars
<1>2. CASE c2s' = c2s
  BY <1>1, <1>2 DEF Fewer, At
<1>3. CASE c2s' = Append(c2s, "HANDSHAKE")
  <2>1. /\ Len(c2s') = Len(c2s) + 1 /\ c2s'[Len(c2s) + 1] = "HANDSHAKE"
        /\ \A k \in 1 .. Len(c2s) : c2s'[k] = c2s[k]
    BY <1>3, PlaceTypes, AppendProperties DEF Requests
  <2>2. ASSUME NEW i \in Nat, i \in 1 .. Len(c2s'), c2s'[i] = "ENTER_GROUP"
        PROVE  i \in 1 .. Len(c2s) /\ c2s[i] = "ENTER_GROUP"
    <3>1. i # Len(c2s) + 1
      BY <2>1, <2>2
    <3>2. i \in 1 .. Len(c2s)
      BY <2>1, <2>2, <3>1, PlaceTypes
    <3>. QED BY <2>1, <2>2, <3>2
  <2>. QED BY <1>1, <2>2 DEF Fewer, At
<1>. QED BY <1>2, <1>3 DEF SendHandshake

\* Stopping the voice.
LEMMA StopFewer ==
  ASSUME SessionTypes, ReadFails
  PROVE  Fewer
<1>1. Queued' = Queued /\ sent' = sent /\ s2c' = s2c /\ c2s' = c2s /\ voice'.running = 0
  BY DEF SessionTypes, SessionTypeOK, ReadFails, Queued, vars, linkVars
<1>. QED BY <1>1 DEF Fewer, At

\* When the command thread waits for more and there is no more, an EnterGroup
\* is nowhere unless on the connection or running.
LEMMA DrainedLeavesNone ==
  ASSUME SessionTypes, SocketInv, sock = "sleep", get = "wait", m_List = <<>>
  PROVE  NoneLeft
<1>1. Len(m_List) = 0 /\ Len(c2s) = 0 /\ Len(s2c) = 0 /\ voice.running = 0 /\ sent = Len(taken)
  BY EmptySeq DEF SocketInv
<1>2. ~ \E i \in Nat : i \in sent + 1 .. Len(Queued)
  BY <1>1, PlaceTypes
<1>. QED BY <1>1, <1>2 DEF NoneLeft, At

\* What a step of Put does to the putters.
LEMMA PutSteps ==
  ASSUME SessionTypes, NEW t \in Putters, PutStep(t)
  PROVE  /\ \A s \in Putters \ {t} : put'[s] = put[s]
         /\ UNCHANGED <<get, taken>>
         /\ Push(t) => /\ put[t].step = "try" /\ put'[t].step = "count"
                       /\ put'[t].n = put[t].n + 1
         /\ ~Push(t) => /\ put'[t].n = put[t].n
                        /\ \/ put[t].step = "try" /\ put'[t].step = "wait"
                           \/ put[t].step = "wait" /\ put'[t].step = "try"
                           \/ put[t].step = "count" /\ put'[t].step = "signal"
                           \/ put[t].step = "signal" /\ put'[t].step = "try"
<1>1. put \in [Putters -> [step : {"try", "wait", "count", "signal"}, n : 0 .. MaxPuts]]
  BY DEF SessionTypes, SessionTypeOK, TypeOK
<1>2. CASE Push(t)
  BY <1>1, <1>2 DEF Push, PutAt
<1>3. CASE ~Push(t) /\ FindFull(t)
  BY <1>1, <1>3 DEF FindFull, PutAt
<1>4. CASE ~Push(t) /\ WakePutter(t)
  BY <1>1, <1>4 DEF WakePutter, PutAt
<1>5. CASE ~Push(t) /\ CountPut(t)
  BY <1>1, <1>5 DEF CountPut, PutAt
<1>6. CASE ~Push(t) /\ SignalPut(t)
  BY <1>1, <1>6 DEF SignalPut, PutAt
<1>. QED BY <1>2, <1>3, <1>4, <1>5, <1>6 DEF PutStep

\* The two putters.
LEMMA TwoPutters == /\ App \in Putters /\ Socket \in Putters /\ App # Socket
                    /\ App \in Putters \ {Socket} /\ Socket \in Putters \ {App}
BY GameSessionAssumption DEF GameSessionAssumption

\* The application's steps: its first command is pushed when nothing is left,
\* and its second enters no group.
LEMMA AppKeepsVoice ==
  ASSUME VoiceInv, AppStep \/ CallLeaveGroup \/ StopConnect
  PROVE  AtMostOne' /\ PutterInv' /\ SocketInv'
<1>t. /\ app \in {"enter", "store", "entered", "leave", "left", "stop", "stopped"}
      /\ put[App].n \in Nat /\ SessionTypes
      /\ AtMostOne /\ PutterInv /\ SocketInv
  BY TwoPutters DEF VoiceInv, SessionTypes, SessionTypeOK, TypeOK
<1>1. CASE AppStep /\ PutStep(App) /\ app \in {"enter", "leave"}
  <2>1. /\ UNCHANGED <<sock, cmd, sent, m_GroupID, voice, link, c2s, s2c>>
        /\ app = "enter" => app' = (IF put[App].step = "signal" THEN "store" ELSE "enter")
        /\ app = "leave" => app' = (IF put[App].step = "signal" THEN "left" ELSE "leave")
    BY <1>1 DEF AppStep, EnterGroup, LeaveGroup, TerminateThreads, PutReturns, clientVars, linkVars
  <2>2. /\ put'[Socket] = put[Socket] /\ UNCHANGED <<get, taken>>
        /\ Push(App) => /\ put[App].step = "try" /\ put'[App].step = "count"
                        /\ put'[App].n = put[App].n + 1
        /\ ~Push(App) => /\ put'[App].n = put[App].n
                         /\ \/ put[App].step = "try" /\ put'[App].step = "wait"
                            \/ put[App].step = "wait" /\ put'[App].step = "try"
                            \/ put[App].step = "count" /\ put'[App].step = "signal"
                            \/ put[App].step = "signal" /\ put'[App].step = "try"
    BY <1>1, <1>t, PutSteps, TwoPutters
  <2>3. PutterInv'
    BY <1>1, <1>t, <2>1, <2>2 DEF PutterInv
  <2>4. CASE Push(App) /\ app = "enter"
    <3>1. put[App].n = 0 /\ put'[App].n = 1
      BY <1>t, <2>2, <2>4 DEF PutterInv
    <3>2. NoneLeft /\ ~m_GroupID
      BY <1>t, <3>1 DEF SocketInv
    <3>3. AtMostOne'
      BY <1>t, <2>1, <2>4, <3>2, PushMakesOne, TwoPutters
    <3>4. SocketInv'
      BY <1>t, <2>1, <2>2, <3>1, <3>2 DEF SocketInv
    <3>. QED BY <2>3, <3>3, <3>4
  <2>5. CASE ~(Push(App) /\ app = "enter")
    <3>1. Push(App) => put[App].n + 1 = 2
      BY <1>1, <1>t, <2>2, <2>5 DEF PutterInv
    <3>2. Push(App) => RequestOf(<<App, put[App].n + 1>>) = "LEAVE_GROUP"
      BY <3>1 DEF RequestOf
    <3>3. Fewer
      BY <1>1, <1>t, <2>1, <3>2, PutFewer, TwoPutters
    <3>4. AtMostOne' /\ (NoneLeft => NoneLeft')
      BY <1>t, <3>3, FewerKeeps
    <3>5. SocketInv'
      BY <1>t, <2>1, <2>2, <3>4 DEF SocketInv
    <3>. QED BY <2>3, <3>4, <3>5
  <2>. QED BY <2>4, <2>5
<1>2. CASE ~(AppStep /\ PutStep(App) /\ app \in {"enter", "leave"})
  <2>1. /\ UNCHANGED <<vars, sent, m_GroupID, voice, link, c2s, s2c>>
        /\ sock' = sock \/ sock' = "ended"
        /\ \/ app = "store" /\ app' = "entered"
           \/ app = "entered" /\ app' = "leave"
           \/ app' \in {"stop", "stopped"}
    BY <1>2 DEF AppStep, EnterGroup, LeaveGroup, TerminateThreads, CallLeaveGroup, StopConnect,
                clientVars, linkVars
  <2>2. UNCHANGED <<put, get, taken>>
    BY <2>1 DEF vars
  <2>3. AtMostOne' /\ (NoneLeft => NoneLeft')
    BY <1>t, <2>1, OutsideFewer, FewerKeeps
  <2>4. PutterInv'
    BY <1>t, <2>1, <2>2 DEF PutterInv
  <2>5. SocketInv'
    BY <1>t, <2>1, <2>2, <2>3 DEF SocketInv
  <2>. QED BY <2>3, <2>4, <2>5
<1>. QED BY <1>1, <1>2

\* The command thread's steps.
LEMMA CmdKeepsVoice ==
  ASSUME VoiceInv, CmdStep
  PROVE  AtMostOne' /\ PutterInv' /\ SocketInv'
<1>t. /\ SessionTypes /\ AtMostOne /\ PutterInv /\ SocketInv
      /\ get \in {"try", "wait", "count", "signal"} /\ sent \in 0 .. Len(taken)
  BY DEF VoiceInv, SessionTypes, SessionTypeOK, TypeOK
<1>1. CASE Poll
  <2>1. UNCHANGED <<vars, app, sock, sent, m_GroupID, voice, link, c2s, s2c>>
    BY <1>1 DEF Poll, clientVars, linkVars
  <2>2. UNCHANGED <<put, get, taken>>
    BY <2>1 DEF vars
  <2>3. AtMostOne' /\ (NoneLeft => NoneLeft')
    BY <1>t, <2>1, OutsideFewer, FewerKeeps
  <2>. QED BY <1>t, <2>1, <2>2, <2>3 DEF PutterInv, SocketInv
<1>2. CASE Get
  <2>1. GetStep /\ ~Holding /\ UNCHANGED <<app, sock, sent, m_GroupID, voice, link, c2s, s2c>>
    BY <1>2 DEF Get, clientVars, linkVars
  <2>2. AtMostOne' /\ (NoneLeft => NoneLeft')
    BY <1>t, <2>1, GetFewer, FewerKeeps
  <2>3. put' = put /\ (get' = "wait" => get = "try" /\ taken' = taken)
    BY <2>1 DEF GetStep, Pop, FindEmpty, WakeGetter, CountGet, SignalGet
  <2>4. get' = "wait" => sent' = Len(taken')
    BY <1>t, <2>1, <2>3, PlaceTypes DEF Holding
  <2>. QED BY <1>t, <2>1, <2>2, <2>3, <2>4 DEF PutterInv, SocketInv
<1>3. CASE Send
  <2>1. /\ get = "try" /\ UNCHANGED <<vars, app, sock, m_GroupID, voice, link, s2c>>
        /\ c2s' = IF link THEN Append(c2s, RequestOf(taken[sent'])) ELSE c2s
    BY <1>3 DEF Send, Holding, clientVars
  <2>2. UNCHANGED <<put, get, taken>>
    BY <2>1 DEF vars
  <2>3. AtMostOne' /\ (NoneLeft => NoneLeft')
    BY <1>3, <1>t, SendMoves
  <2>. QED BY <1>t, <2>1, <2>2, <2>3 DEF PutterInv, SocketInv
<1>. QED BY <1>1, <1>2, <1>3 DEF CmdStep

\* The steps of the network and the server.
LEMMA ServerKeepsVoice ==
  ASSUME VoiceInv, Break \/ HandleRequest \/ ReachCapacity
  PROVE  AtMostOne' /\ PutterInv' /\ SocketInv'
<1>t. SessionTypes /\ AtMostOne /\ PutterInv /\ SocketInv
  BY DEF VoiceInv
<1>1. CASE Break
  <2>1. /\ UNCHANGED <<vars, app, sock, sent, m_GroupID, voice>> /\ link /\ ~link'
        /\ c2s' = <<>> /\ \E n \in 0 .. Len(s2c) : s2c' = SubSeq(s2c, 1, n)
    BY <1>1 DEF Break, clientVars
  <2>2. UNCHANGED <<put, get, taken>>
    BY <2>1 DEF vars
  <2>3. AtMostOne' /\ (NoneLeft => NoneLeft')
    BY <1>t, <2>1, LinkFewer, FewerKeeps
  <2>. QED BY <1>t, <2>1, <2>2, <2>3 DEF PutterInv, SocketInv
<1>2. CASE HandleRequest
  <2>1. /\ UNCHANGED <<vars, app, sock, sent, m_GroupID, voice>> /\ link
        /\ ~link' => c2s' = <<>>
    BY <1>2 DEF HandleRequest, clientVars
  <2>2. UNCHANGED <<put, get, taken>>
    BY <2>1 DEF vars
  <2>3. AtMostOne' /\ (NoneLeft => NoneLeft')
    BY <1>2, <1>t, HandleMoves
  <2>. QED BY <1>t, <2>1, <2>2, <2>3 DEF PutterInv, SocketInv
<1>3. CASE ReachCapacity
  <2>1. UNCHANGED <<vars, app, sock, sent, m_GroupID, voice, link, c2s, s2c>>
    BY <1>3 DEF ReachCapacity, clientVars, linkVars
  <2>2. UNCHANGED <<put, get, taken>>
    BY <2>1 DEF vars
  <2>3. AtMostOne' /\ (NoneLeft => NoneLeft')
    BY <1>t, <2>1, OutsideFewer, FewerKeeps
  <2>. QED BY <1>t, <2>1, <2>2, <2>3 DEF PutterInv, SocketInv
<1>. QED BY <1>1, <1>2, <1>3

\* The socket thread's steps: it enters the group again when nothing is left.
LEMMA SocketKeepsVoice ==
  ASSUME ~early', VoiceInv, SocketStep \/ ConnectFails
  PROVE  AtMostOne' /\ PutterInv' /\ SocketInv'
<1>t. /\ SessionTypes /\ AtMostOne /\ PutterInv /\ SocketInv
      /\ put[App].n \in Nat /\ put[Socket].step \in {"try", "wait", "count", "signal"}
  BY TwoPutters DEF VoiceInv, SessionTypes, SessionTypeOK, TypeOK
<1>1. CASE Connect \/ ShakeAgain
  <2>1. /\ UNCHANGED <<vars, app, sent, m_GroupID, voice>> /\ c2s' = <<>> /\ s2c' = <<>>
        /\ sock \in {"connect", "shake"} /\ sock' \in {"hello", "connect", "ended"}
    BY <1>1 DEF Connect, ShakeAgain, Loop, clientVars
  <2>2. UNCHANGED <<put, get, taken>>
    BY <2>1 DEF vars
  <2>3. AtMostOne' /\ (NoneLeft => NoneLeft')
    BY <1>t, <2>1, LinkFewer, FewerKeeps
  <2>. QED BY <1>t, <2>1, <2>2, <2>3 DEF PutterInv, SocketInv
<1>2. CASE SendHandshake
  <2>1. /\ UNCHANGED <<vars, app, sent, m_GroupID, voice, link, s2c>>
        /\ c2s' = (IF link THEN Append(c2s, "HANDSHAKE") ELSE c2s)
        /\ sock = "hello" /\ sock' = "shake"
    BY <1>2 DEF SendHandshake, clientVars
  <2>2. UNCHANGED <<put, get, taken>>
    BY <2>1 DEF vars
  <2>3. AtMostOne' /\ (NoneLeft => NoneLeft')
    BY <1>2, <1>t, HandshakeFewer, FewerKeeps
  <2>. QED BY <1>t, <2>1, <2>2, <2>3 DEF PutterInv, SocketInv
<1>3. CASE ShakenHands \/ HandshakeRefused
  <2>1. /\ UNCHANGED <<vars, app, sent, m_GroupID, voice, link, c2s>>
        /\ s2c # <<>> /\ s2c' = Tail(s2c) /\ Head(s2c) # "ENTER_GROUP_OK"
        /\ sock = "shake" /\ sock' \in {"reenter", "ready", "ended"}
        /\ sock' = "reenter" => m_GroupID
    BY <1>3 DEF ShakenHands, HandshakeRefused, clientVars
  <2>2. UNCHANGED <<put, get, taken>>
    BY <2>1 DEF vars
  <2>3. AtMostOne' /\ (NoneLeft => NoneLeft')
    BY <1>t, <2>1, ReadSkips
  <2>. QED BY <1>t, <2>1, <2>2, <2>3 DEF PutterInv, SocketInv
<1>4. CASE sock = "reenter" /\ Reenter
  <2>1. /\ PutStep(Socket) /\ UNCHANGED <<app, sent, m_GroupID, voice, link, c2s, s2c>>
        /\ sock' = IF put[Socket].step = "signal" THEN "restore" ELSE "reenter"
    BY <1>4 DEF Reenter, PutReturns, clientVars, linkVars
  <2>2. /\ put'[App] = put[App] /\ UNCHANGED <<get, taken>>
        /\ Push(Socket) => put[Socket].step = "try" /\ put'[Socket].step = "count"
        /\ ~Push(Socket) => \/ put[Socket].step = "try" /\ put'[Socket].step = "wait"
                            \/ put[Socket].step = "wait" /\ put'[Socket].step = "try"
                            \/ put[Socket].step = "count" /\ put'[Socket].step = "signal"
                            \/ put[Socket].step = "signal" /\ put'[Socket].step = "try"
    BY <1>t, <2>1, PutSteps, TwoPutters
  <2>3. m_GroupID /\ put[App].n >= 1 /\ (put[Socket].step \in {"try", "wait"} => NoneLeft)
    BY <1>4, <1>t DEF SocketInv
  <2>4. PutterInv'
    BY <1>t, <2>1, <2>2 DEF PutterInv
  <2>5. CASE Push(Socket)
    <3>1. AtMostOne'
      BY <1>t, <2>1, <2>2, <2>3, <2>5, PushMakesOne, TwoPutters
    <3>. QED BY <1>t, <2>1, <2>2, <2>3, <2>4, <2>5, <3>1 DEF SocketInv
  <2>6. CASE ~Push(Socket)
    <3>1. AtMostOne' /\ (NoneLeft => NoneLeft')
      BY <1>t, <2>1, <2>6, PutFewer, FewerKeeps, TwoPutters
    <3>. QED BY <1>t, <2>1, <2>2, <2>3, <2>4, <2>6, <3>1 DEF SocketInv
  <2>. QED BY <2>5, <2>6
<1>5. CASE (sock # "reenter" /\ Reenter) \/ Ready \/ ConnectFails
  <2>1. /\ UNCHANGED <<vars, app, sent, m_GroupID, voice, link, c2s, s2c>>
        /\ \/ sock = "restore" /\ sock' = "ready"
           \/ sock = "ready" /\ sock' = "read"
           \/ sock' = sock
    BY <1>5 DEF Reenter, Ready, ConnectFails, clientVars, linkVars
  <2>2. UNCHANGED <<put, get, taken>>
    BY <2>1 DEF vars
  <2>3. AtMostOne' /\ (NoneLeft => NoneLeft')
    BY <1>t, <2>1, OutsideFewer, FewerKeeps
  <2>. QED BY <1>t, <2>1, <2>2, <2>3 DEF PutterInv, SocketInv
<1>6. CASE ReadEnterGroupAck
  <2>1. /\ UNCHANGED <<vars, app, sent, link, c2s>> /\ s2c # <<>> /\ s2c' = Tail(s2c)
        /\ sock = "read" /\ sock' \in {"read", "ended"}
        /\ IF Head(s2c) = "ENTER_GROUP_OK" THEN voice'.running = voice.running + 1
                                           ELSE voice' = voice /\ m_GroupID' = m_GroupID
    BY <1>6 DEF ReadEnterGroupAck, Loop
  <2>2. UNCHANGED <<put, get, taken>>
    BY <2>1 DEF vars
  <2>3. PutterInv'
    BY <1>t, <2>1, <2>2 DEF PutterInv
  <2>4. CASE Head(s2c) = "ENTER_GROUP_OK"
    <3>1. At("s2c", 1)
      BY <2>1, <2>4, PlaceTypes, HeadTailProperties, <1>t DEF At
    <3>2. put[App].n >= 1
      BY <1>t, <3>1 DEF SocketInv, NoneLeft, Places
    <3>3. AtMostOne'
      BY <1>t, <2>1, <2>4, ReadMoves
    <3>. QED BY <1>t, <2>1, <2>2, <2>3, <3>2, <3>3 DEF SocketInv
  <2>5. CASE Head(s2c) # "ENTER_GROUP_OK"
    <3>1. AtMostOne' /\ (NoneLeft => NoneLeft')
      BY <1>t, <2>1, <2>5, ReadSkips
    <3>. QED BY <1>t, <2>1, <2>2, <2>3, <2>5, <3>1 DEF SocketInv
  <2>. QED BY <2>4, <2>5
<1>7. CASE ReadFails
  <2>1. /\ UNCHANGED <<vars, app, sent, m_GroupID, link, c2s, s2c>>
        /\ ~link /\ s2c = <<>> /\ sock = "read" /\ sock' = "sleep"
    BY <1>7 DEF ReadFails, linkVars
  <2>2. UNCHANGED <<put, get, taken>>
    BY <2>1 DEF vars
  <2>3. voice'.running = 0
    BY <1>7, <1>t DEF ReadFails, SessionTypes, SessionTypeOK
  <2>4. AtMostOne' /\ (NoneLeft => NoneLeft')
    BY <1>7, <1>t, StopFewer, FewerKeeps
  <2>. QED BY <1>t, <2>1, <2>2, <2>3, <2>4 DEF PutterInv, SocketInv
<1>8. CASE WakeUp
  <2>1. /\ UNCHANGED <<vars, app, sent, m_GroupID, voice, link, c2s, s2c>>
        /\ sock = "sleep" /\ get = "wait" /\ m_List = <<>> /\ sock' \in {"connect", "ended"}
    BY <1>8 DEF WakeUp, Drained, Loop, clientVars, linkVars
  <2>2. UNCHANGED <<put, get, taken>>
    BY <2>1 DEF vars
  <2>3. NoneLeft
    BY <1>t, <2>1, DrainedLeavesNone
  <2>4. AtMostOne' /\ NoneLeft'
    BY <1>t, <2>1, <2>3, OutsideFewer, FewerKeeps
  <2>. QED BY <1>t, <2>1, <2>2, <2>4 DEF PutterInv, SocketInv
<1>. QED BY <1>1, <1>2, <1>3, <1>4, <1>5, <1>6, <1>7, <1>8 DEF SocketStep

\* At first nothing was put.
LEMMA VoiceInvHoldsFirst == SessionInit => VoiceInv
<1>. SUFFICES ASSUME SessionInit
              PROVE  VoiceInv
  OBVIOUS
<1>1. SessionTypes
  BY SessionTypesHoldFirst
<1>2. /\ taken = <<>> /\ m_List = <<>> /\ c2s = <<>> /\ s2c = <<>> /\ voice.running = 0
      /\ sent = 0 /\ app = "enter" /\ sock = "connect" /\ get = "try" /\ ~m_GroupID
      /\ put = [t \in Putters |-> [step |-> "try", n |-> 0]]
  BY DEF SessionInit, Init
<1>3. Len(Queued) = 0 /\ Len(c2s) = 0 /\ Len(s2c) = 0
  BY <1>1, <1>2, PlaceTypes, EmptySeq
<1>4. NoneLeft
  BY <1>2, <1>3 DEF NoneLeft, At
<1>5. put[App] = [step |-> "try", n |-> 0] /\ put[Socket] = [step |-> "try", n |-> 0]
  BY <1>2, TwoPutters
<1>6. AtMostOne /\ PutterInv /\ SocketInv
  BY <1>2, <1>4, <1>5 DEF AtMostOne, NoneLeft, PutterInv, SocketInv
<1>. QED BY <1>1, <1>6 DEF VoiceInv

\* A sleep that was too short is not forgotten.
LEMMA EarlyLasts == [SessionNext]_sessionVars /\ early => early'
<1>1. CASE SessionNext
  BY <1>1 DEF SessionNext, AppStep, EnterGroup, LeaveGroup, TerminateThreads,
       CallLeaveGroup, StopConnect, CmdStep, Poll, Get, Send, SocketStep, Connect,
       ConnectFails, SendHandshake, ShakenHands, HandshakeRefused, ShakeAgain, Reenter,
       Ready, ReadEnterGroupAck, ReadFails, WakeUp, Break, HandleRequest, ReachCapacity
<1>2. CASE UNCHANGED sessionVars
  BY <1>2 DEF sessionVars
<1>. QED BY <1>1, <1>2

\* Every step keeps the invariant, unless it ends a sleep too early.
LEMMA VoiceInvStep ==
  ~early' /\ VoiceInv /\ [SessionNext]_sessionVars => VoiceInv'
<1>1. ASSUME ~early', VoiceInv, SessionNext
      PROVE  VoiceInv'
  <2>1. SessionTypes'
    BY <1>1, SessionTypesStep DEF VoiceInv
  <2>. QED
    BY <1>1, <2>1, AppKeepsVoice, CmdKeepsVoice, SocketKeepsVoice, ServerKeepsVoice
       DEF SessionNext, VoiceInv
<1>2. ASSUME VoiceInv, UNCHANGED sessionVars
      PROVE  VoiceInv'
  <2>1. SessionTypes'
    BY <1>2, SessionTypesStep DEF VoiceInv
  <2>2. UNCHANGED <<vars, app, sock, sent, m_GroupID, voice, link, c2s, s2c>>
    BY <1>2 DEF sessionVars, clientVars, linkVars
  <2>3. UNCHANGED <<put, get, taken>>
    BY <2>2 DEF vars
  <2>4. AtMostOne' /\ (NoneLeft => NoneLeft')
    BY <1>2, <2>2, OutsideFewer, FewerKeeps DEF VoiceInv
  <2>. QED BY <1>2, <2>1, <2>2, <2>3, <2>4 DEF VoiceInv, PutterInv, SocketInv
<1>. QED BY <1>1, <1>2

\* Start is never called while a voice session runs, for any number of breaks
\* and any capacity of the channel, as long as the five seconds after each break
\* were enough for the commands of before it to be sent: a second session
\* would lose the first one's socket and threads (GameProxy.cpp:122-127,
\* 143-150, 182, 186).
THEOREM OneVoiceSessionHolds == SessionSpec => []OneVoiceSession
<1>1. early \/ VoiceInv => OneVoiceSession
  <2>. SUFFICES ASSUME VoiceInv, ~early, voice.running > 1
                PROVE  FALSE
    BY PlaceTypes DEF OneVoiceSession, VoiceInv
  <2>1. voice.running \in Nat
    BY PlaceTypes DEF VoiceInv
  <2>2. 1 \in 1 .. voice.running /\ 2 \in 1 .. voice.running
    BY <2>1
  <2>3. At("voice", 1) /\ At("voice", 2)
    BY <2>2 DEF At
  <2>4. 1 # 2 /\ 1 \in Nat /\ 2 \in Nat
    OBVIOUS
  <2>. QED BY <2>3, <2>4 DEF VoiceInv, AtMostOne, Places
<1>2. (early \/ VoiceInv) /\ [SessionNext]_sessionVars => (early \/ VoiceInv)'
  BY VoiceInvStep, EarlyLasts
<1>. QED BY <1>1, <1>2, VoiceInvHoldsFirst, PTL DEF SessionSpec

-----------------------------------------------------------------------------
(***************************************************************************)
(* The microphone of a client whose answers come after the calls they      *)
(* answer.                                                                 *)
(***************************************************************************)
\* What MicAsAsked supposes: no answer overtakes the call of EnterGroup.
Returned == voice.running > 0 => app \notin {"enter", "store"}

Asked == app \notin {"enter", "store"}

\* A group that was entered was asked for; from then on m_CanSpeak is what was
\* asked for, and so is the parameter the socket thread stores in it again.
MicInv ==
  /\ m_GroupID \/ voice.running > 0 => Asked
  /\ Asked => m_CanSpeak = CanSpeak
  /\ sock \in {"reenter", "restore"} => m_GroupID /\ param = CanSpeak
  /\ voice.running > 0 => voice.mic = CanSpeak

\* A step after which that still holds keeps the invariant.
LEMMA MicInvStep ==
  ASSUME SessionTypes, MicInv, Returned', [SessionNext]_sessionVars
  PROVE  MicInv'
<1>1. CASE EnterGroup
  BY <1>1 DEF EnterGroup, MicInv, Asked, clientVars
<1>2. CASE \/ LeaveGroup \/ TerminateThreads \/ CallLeaveGroup \/ StopConnect
  BY <1>2 DEF LeaveGroup, TerminateThreads, CallLeaveGroup, StopConnect, MicInv, Asked,
              clientVars
<1>3. CASE CmdStep
  BY <1>3 DEF CmdStep, Poll, Get, Send, MicInv, Asked, clientVars
<1>4. CASE \/ Connect \/ SendHandshake \/ HandshakeRefused \/ ShakeAgain \/ Ready \/ WakeUp
           \/ ConnectFails
  BY <1>4 DEF Connect, SendHandshake, HandshakeRefused, ShakeAgain, Ready, WakeUp,
              ConnectFails, Loop, MicInv, Asked, clientVars
<1>5. CASE ShakenHands
  BY <1>5 DEF ShakenHands, MicInv, Asked
<1>6. CASE Reenter
  BY <1>6 DEF Reenter, MicInv, Asked, clientVars
<1>7. CASE ReadEnterGroupAck
  <2>1. CASE Head(s2c) = "ENTER_GROUP_OK"
    <3>1. /\ voice' = [running |-> voice.running + 1, mic |-> m_CanSpeak]
          /\ UNCHANGED <<app, m_CanSpeak, param>>
          /\ sock' \notin {"reenter", "restore"}
      BY <1>7, <2>1 DEF ReadEnterGroupAck, Loop
    <3>2. voice'.running > 0
      BY <3>1, PlaceTypes
    <3>3. Asked /\ Asked'
      BY <3>1, <3>2 DEF Returned, Asked
    <3>. QED BY <3>1, <3>3 DEF MicInv
  <2>2. CASE Head(s2c) # "ENTER_GROUP_OK"
    BY <1>7, <2>2 DEF ReadEnterGroupAck, Loop, MicInv, Asked
  <2>. QED BY <2>1, <2>2
<1>8. CASE ReadFails
  <2>1. voice'.running = 0
    BY <1>8 DEF ReadFails, SessionTypes, SessionTypeOK
  <2>. QED BY <1>8, <2>1 DEF ReadFails, MicInv, Asked
<1>9. CASE Break \/ HandleRequest \/ ReachCapacity
  BY <1>9 DEF Break, HandleRequest, ReachCapacity, MicInv, Asked, clientVars
<1>10. CASE UNCHANGED sessionVars
  BY <1>10 DEF sessionVars, clientVars, MicInv, Asked
<1>. QED BY <1>1, <1>2, <1>3, <1>4, <1>5, <1>6, <1>7, <1>8, <1>9, <1>10
         DEF SessionNext, AppStep, SocketStep

\* However often the connection is lost, the voice runs with the microphone that
\* was asked for, as long as no answer overtakes the call (GameProxy.cpp:51-52
\* and 125).
THEOREM SessionMicAsAsked == SessionSpec => MicAsAsked
<1>1. SessionInit => MicInv
  BY DEF SessionInit, MicInv, Asked
<1>2. SessionTypes /\ MicInv /\ Returned' /\ [SessionNext]_sessionVars => MicInv'
  BY MicInvStep
<1>3. MicInv => (voice.running > 0 => voice.mic = CanSpeak)
  BY DEF MicInv
<1>4. Returned <=> (voice.running > 0 => app \notin {"enter", "store"})
  BY DEF Returned
<1>. QED BY <1>1, <1>2, <1>3, <1>4, SessionTypesHoldFirst, SessionTypesStep, PTL
         DEF SessionSpec, MicAsAsked
=============================================================================

------------------------- MODULE VoiceSessionProofs -------------------------
(***************************************************************************)
(* Proofs about VoiceSession, for any number of sessions, requests and     *)
(* faults: its types, that Stop leaves no heartbeat thread whose handle it *)
(* had, and that only a second answer, a datagram received twice or an     *)
(* error makes a running session deaf.                                     *)
(***************************************************************************)
EXTENDS VoiceSession, TLAPS

\* Where the threads can be while the owner is somewhere: between two sessions
\* the play thread has left, and from its end on the receive thread is none.
Threads ==
  /\ owner = "idle" => play = "out"
  /\ owner # "idle" => session # 0
  /\ owner \in {"killed", "waiting", "idle"} => rx = "none"

\* Once Stop has ended the thread whose handle was stored, it does not run.
StoredEnds == owner \in {"waiting", "idle"} => m_Thread2 \notin heartbeats

ThreadInv == TypeOK /\ Threads /\ StoredEnds

-----------------------------------------------------------------------------
(***************************************************************************)
(* The threads.                                                            *)
(***************************************************************************)
\* Nothing runs yet.
LEMMA ThreadInvHoldsFirst == Init => ThreadInv
BY VoiceSessionAssumption
   DEF VoiceSessionAssumption, Init, ThreadInv, TypeOK, Threads, StoredEnds

\* Start and Stop keep the invariant.
LEMMA OwnerStep ==
  ASSUME ThreadInv, Start \/ CloseSocket \/ StopStep
  PROVE  ThreadInv'
<1>. USE VoiceSessionAssumption
     DEF VoiceSessionAssumption, ThreadInv, TypeOK, Threads, StoredEnds
<1>1. CASE Start
  BY <1>1 DEF Start, netVars, Sessions, Datagrams
<1>2. CASE CloseSocket
  BY <1>2 DEF CloseSocket, playVars
<1>3. CASE TerminateReceiver
  BY <1>3 DEF TerminateReceiver, netVars
<1>4. CASE TerminateHeartbeat
  BY <1>4 DEF TerminateHeartbeat, netVars, playVars
<1>5. CASE StopReturn
  BY <1>5 DEF StopReturn, netVars, playVars
<1>. QED BY <1>1, <1>2, <1>3, <1>4, <1>5 DEF StopStep

\* The receive thread belongs to a session.
LEMMA ReceiverHasSession ==
  ASSUME ThreadInv, rx # "none"
  PROVE  session \in Sessions
BY VoiceSessionAssumption
   DEF VoiceSessionAssumption, ThreadInv, Threads, TypeOK, Sessions

\* What recv does to the network and to the number of faults.
LEMMA RecvType ==
  ASSUME TypeOK, NEW kinds, Recv(kinds) \/ SocketError
  PROVE  /\ net' \in SUBSET net
         /\ net' \subseteq Datagrams
         /\ faults' \in 0 .. MaxFaults
         /\ faults' >= faults
         /\ peer' = peer
BY VoiceSessionAssumption DEF VoiceSessionAssumption, TypeOK, Recv, SocketError

\* The receive thread keeps the invariant.
LEMMA ReceiverKeepsThreads ==
  ASSUME ThreadInv, ReceiverStep
  PROVE  ThreadInv'
<1>. USE VoiceSessionAssumption
     DEF VoiceSessionAssumption, ThreadInv, TypeOK, Threads, StoredEnds, RxStep
<1>1. CASE SendRequestConnect
  <2>1. session \in Sessions
    BY <1>1, ReceiverHasSession DEF SendRequestConnect
  <2>2. asked' \in 1 .. MaxRequests
    BY <1>1 DEF SendRequestConnect
  <2>3. net' \subseteq Datagrams
    BY <1>1, <2>1, <2>2 DEF SendRequestConnect, Datagram, Datagrams
  <2>. QED BY <1>1, <2>2, <2>3 DEF SendRequestConnect, playVars
<1>2. CASE SendFails
  BY <1>2 DEF SendFails, SocketError, playVars
<1>3. CASE WaitRequestAck
  BY <1>3, RecvType DEF WaitRequestAck, playVars
<1>4. CASE AskAgain
  BY <1>4, RecvType DEF AskAgain, playVars
<1>5. CASE CreateHeartbeat
  BY <1>5, ReceiverHasSession DEF CreateHeartbeat, playVars, netVars
<1>6. CASE StoreHeartbeat
  BY <1>6, ReceiverHasSession DEF StoreHeartbeat, playVars, netVars
<1>7. CASE WaitVoiceData
  BY <1>7, RecvType DEF WaitVoiceData, playVars
<1>8. CASE GiveUp
  BY <1>8, RecvType DEF GiveUp, playVars
<1>9. CASE JitterPut
  BY <1>9 DEF JitterPut, netVars
<1>10. CASE JitterPutDone
  BY <1>10 DEF JitterPutDone, netVars
<1>. QED
  BY <1>1, <1>2, <1>3, <1>4, <1>5, <1>6, <1>7, <1>8, <1>9, <1>10 DEF ReceiverStep

\* So does the play thread.
LEMMA PlayKeepsThreads ==
  ASSUME ThreadInv, PlayStep
  PROVE  ThreadInv'
BY DEF PlayStep, NextFrame, JitterGet, JitterGetDone, ThreadInv, TypeOK, Threads,
       StoredEnds, threadVars, netVars

\* And the network and the server.
LEMMA NetKeepsThreads ==
  ASSUME ThreadInv, (\E d \in net : RequestConnect(d) \/ Lose(d)) \/ VoiceData
  PROVE  ThreadInv'
<1>. USE DEF ThreadInv, TypeOK, Threads, StoredEnds, threadVars, playVars
<1>1. ASSUME NEW d \in net, RequestConnect(d)
      PROVE  ThreadInv'
  <2>1. d.to \in Sessions /\ Datagram("ack", d.to, d.n) \in Datagrams
    BY <1>1 DEF RequestConnect, Datagrams, Datagram
  <2>2. net' \subseteq Datagrams
    BY <1>1, <2>1 DEF RequestConnect, Arriving
  <2>. QED BY <1>1, <2>1, <2>2 DEF RequestConnect
<1>2. ASSUME NEW d \in net, Lose(d)
      PROVE  ThreadInv'
  BY <1>2 DEF Lose
<1>3. CASE VoiceData
  <2>1. Datagram("voice", peer, 0) \in Datagrams
    BY <1>3 DEF VoiceData, Datagrams, Datagram
  <2>. QED BY <1>3, <2>1 DEF VoiceData, Arriving
<1>. QED BY <1>1, <1>2, <1>3

\* Every step keeps the invariant.
LEMMA ThreadInvStep == ThreadInv /\ [Next]_vars => ThreadInv'
<1>1. ThreadInv /\ UNCHANGED vars => ThreadInv'
  BY DEF vars, threadVars, playVars, netVars, ThreadInv, TypeOK, Threads, StoredEnds
<1>. QED
  BY <1>1, OwnerStep, ReceiverKeepsThreads, PlayKeepsThreads, NetKeepsThreads DEF Next

\* The types are right: who holds the lock of the jitter buffer is inside it,
\* and a lock nobody inside holds is one left by a killed receive thread
\* (VoiceModule.cpp:97-99, VoiceProxy.cpp:45).
THEOREM SessionTypeCorrect == Spec => []TypeOK
<1>1. ThreadInv => TypeOK
  BY DEF ThreadInv
<1>. QED BY <1>1, ThreadInvHoldsFirst, ThreadInvStep, PTL DEF Spec

\* After Stop no heartbeat thread runs whose handle had been stored
\* (VoiceProxy.cpp:45-46 and 197), however often the session is started.
THEOREM HeartbeatsEndHolds == Spec => []HeartbeatsEnd
<1>1. ThreadInv => HeartbeatsEnd
  BY DEF ThreadInv, StoredEnds, HeartbeatsEnd
<1>. QED BY <1>1, ThreadInvHoldsFirst, ThreadInvStep, PTL DEF Spec

-----------------------------------------------------------------------------
(***************************************************************************)
(* The datagrams of a session that has asked once and met no fault.        *)
(***************************************************************************)
\* The requests and answers of the running session on their way.
Control == {d \in net : d.to = session /\ d.kind # "voice"}

\* Nothing is addressed to a session to come, and no request or answer of this
\* one is numbered higher than the requests sent.
Addressed ==
  /\ \A d \in net : d.to <= session
  /\ \A d \in Control : d.n <= asked
  /\ peer <= session

\* One request makes one answer: it is on its way as one of the two while the
\* receive thread waits for it, and neither is once it has it.
OneAnswer ==
  owner = "running" /\ asked <= 1 /\ faults = 0 =>
    /\ rx = "request" /\ asked = 0 => Control = {}
    /\ rx = "wait" => \E kind \in {"request", "ack"} :
                        Control \subseteq {Datagram(kind, session, 1)}
    /\ rx \notin {"request", "wait"} => Control = {}
    /\ rx # "ended"

AnswerInv == ThreadInv /\ Addressed /\ OneAnswer

\* Nothing is on its way yet.
LEMMA AnswerInvHoldsFirst == Init => AnswerInv
<1>1. Init => Addressed /\ OneAnswer
  BY DEF Init, Addressed, OneAnswer, Control
<1>. QED BY <1>1, ThreadInvHoldsFirst DEF AnswerInv

\* A session that starts has no datagrams; stopping only takes some away.
LEMMA OwnerKeepsAnswer ==
  ASSUME AnswerInv, Start \/ CloseSocket \/ StopStep
  PROVE  Addressed' /\ OneAnswer'
<1>. USE DEF AnswerInv, Addressed, OneAnswer, Control, ThreadInv, TypeOK
<1>1. CASE Start
  <2>1. Control' = {}
    BY <1>1 DEF Start, netVars, Sessions, Datagrams
  <2>2. Addressed'
    BY <1>1, <2>1 DEF Start, netVars, Sessions, Datagrams
  <2>. QED BY <1>1, <2>1, <2>2 DEF Start
<1>2. CASE CloseSocket
  BY <1>2 DEF CloseSocket
<1>3. CASE StopStep
  BY <1>3 DEF StopStep, TerminateReceiver, TerminateHeartbeat, StopReturn,
              netVars, playVars
<1>. QED BY <1>1, <1>2, <1>3

\* What recv leaves of the requests and answers: fewer, without the one it
\* returned unless that is counted as a fault.
LEMMA RecvControl ==
  ASSUME AnswerInv, UNCHANGED <<session, asked>>, NEW kinds, Recv(kinds) \/ SocketError
  PROVE  /\ Addressed'
         /\ Control' \subseteq Control
         /\ faults' >= faults
         /\ faults' = faults /\ Recv(kinds) =>
              \E d \in net : d.to = session /\ d.kind \in kinds /\ net' = net \ {d}
BY VoiceSessionAssumption
   DEF VoiceSessionAssumption, AnswerInv, Addressed, Control, ThreadInv, TypeOK,
       Recv, SocketError

\* The receive thread takes the one answer, or asks again.
LEMMA ReceiverKeepsAnswer ==
  ASSUME AnswerInv, ReceiverStep
  PROVE  Addressed' /\ OneAnswer'
<1>. USE DEF RxStep
<1>1. CASE SendRequestConnect
  <2>1. session \in Sessions /\ asked \in Nat /\ asked' = asked + 1 /\ rx' = "wait"
    BY <1>1, ReceiverHasSession, VoiceSessionAssumption
       DEF SendRequestConnect, AnswerInv, ThreadInv, TypeOK, VoiceSessionAssumption
  <2>2. /\ net' = net \cup {Datagram("request", session, asked')}
        /\ UNCHANGED <<session, owner, peer, faults>>
    BY <1>1 DEF SendRequestConnect
  <2>3. Addressed'
    <3>1. \A d \in Control : d.n \in Nat
      BY DEF Control, Datagrams, AnswerInv, ThreadInv, TypeOK
    <3>2. Control' \subseteq Control \cup {Datagram("request", session, asked')}
      BY <2>2 DEF Control
    <3>3. \A d \in Control' : d.n <= asked'
      BY <2>1, <3>1, <3>2 DEF AnswerInv, Addressed, Datagram
    <3>4. \A d \in net' : d.to <= session
      BY <2>1, <2>2 DEF AnswerInv, Addressed, Datagram, Sessions
    <3>. QED BY <2>2, <3>3, <3>4 DEF AnswerInv, Addressed
  <2>4. ASSUME owner = "running", asked' <= 1, faults = 0
        PROVE  Control' \subseteq {Datagram("request", session, 1)}
    <3>1. asked = 0 /\ rx = "request"
      BY <1>1, <2>1, <2>4 DEF SendRequestConnect
    <3>2. Control = {}
      BY <3>1, <2>4 DEF AnswerInv, OneAnswer
    <3>. QED BY <2>1, <2>2, <3>1, <3>2 DEF Control, Datagram
  <2>. QED BY <2>1, <2>2, <2>3, <2>4 DEF OneAnswer
<1>2. CASE SendFails
  BY <1>2, VoiceSessionAssumption
     DEF SendFails, SocketError, AnswerInv, Addressed, OneAnswer, Control, playVars, IsActive,
         ThreadInv, TypeOK, VoiceSessionAssumption
<1>3. CASE WaitRequestAck
  <2>1. /\ Recv({"ack"}) /\ rx = "wait" /\ rx' = "spawn"
        /\ UNCHANGED <<session, owner, asked>>
    BY <1>3 DEF WaitRequestAck
  <2>2. ASSUME owner = "running", asked <= 1, faults' = 0
        PROVE  Control' = {}
    <3>1. faults = 0
      BY <2>1, <2>2, RecvControl DEF AnswerInv, ThreadInv, TypeOK
    <3>2. PICK kind \in {"request", "ack"} : Control \subseteq {Datagram(kind, session, 1)}
      BY <2>1, <2>2, <3>1 DEF AnswerInv, OneAnswer
    <3>3. PICK d \in net : d.to = session /\ d.kind \in {"ack"} /\ net' = net \ {d}
      BY <2>1, <2>2, <3>1, RecvControl
    <3>4. d = Datagram(kind, session, 1)
      BY <3>2, <3>3 DEF Control
    <3>. QED BY <2>1, <3>2, <3>3, <3>4 DEF Control
  <2>. QED BY <2>1, <2>2, RecvControl DEF OneAnswer
<1>4. CASE AskAgain
  <2>1. /\ Recv({"voice"}) \/ SocketError
        /\ rx = "wait" /\ rx' = "request"
        /\ UNCHANGED <<session, owner, asked>>
    BY <1>4 DEF AskAgain
  <2>2. ASSUME asked = 0, owner = "running", faults' = 0
        PROVE  Control' = {}
    BY <2>1, <2>2, RecvControl DEF AnswerInv, Addressed, Control, ThreadInv, TypeOK, Datagrams
  <2>. QED BY <2>1, <2>2, RecvControl DEF OneAnswer
<1>5. CASE CreateHeartbeat \/ StoreHeartbeat \/ JitterPut \/ JitterPutDone
  BY <1>5 DEF CreateHeartbeat, StoreHeartbeat, JitterPut, JitterPutDone, AnswerInv,
              Addressed, OneAnswer, Control, playVars, netVars
<1>6. CASE WaitVoiceData
  <2>1. /\ Recv({"voice"}) /\ rx = "recv" /\ rx' = "put"
        /\ UNCHANGED <<session, owner, asked>>
    BY <1>6 DEF WaitVoiceData
  <2>2. ASSUME owner = "running", asked <= 1, faults' = 0
        PROVE  Control' = {}
    BY <2>1, <2>2, RecvControl DEF AnswerInv, OneAnswer, ThreadInv, TypeOK
  <2>. QED BY <2>1, <2>2, RecvControl DEF OneAnswer
<1>7. CASE GiveUp
  <2>1. /\ Recv({"ack"}) \/ SocketError
        /\ rx = "recv" /\ rx' = "ended"
        /\ UNCHANGED <<session, owner, asked>>
    BY <1>7 DEF GiveUp
  <2>2. ASSUME owner = "running", asked <= 1, faults' = 0
        PROVE  FALSE
    <3>1. faults = 0 /\ Control = {}
      BY <2>1, <2>2, RecvControl DEF AnswerInv, OneAnswer, ThreadInv, TypeOK
    <3>2. ~SocketError
      BY <2>2, <3>1 DEF SocketError, IsActive
    <3>3. PICK d \in net : d.to = session /\ d.kind = "ack"
      BY <2>1, <3>2 DEF Recv
    <3>. QED BY <3>1, <3>3 DEF Control
  <2>. QED BY <2>1, <2>2, RecvControl DEF OneAnswer
<1>. QED BY <1>1, <1>2, <1>3, <1>4, <1>5, <1>6, <1>7 DEF ReceiverStep

\* The server turns a request into its answer; voice is no answer.
LEMMA NetKeepsAnswer ==
  ASSUME AnswerInv, (\E d \in net : RequestConnect(d) \/ Lose(d)) \/ VoiceData
  PROVE  Addressed' /\ OneAnswer'
<1>1. ASSUME NEW d \in net, RequestConnect(d)
      PROVE  Addressed' /\ OneAnswer'
  <2>1. /\ d.kind = "request" /\ peer' = d.to
        /\ net' = (net \ {d}) \cup Arriving(Datagram("ack", d.to, d.n))
        /\ UNCHANGED <<session, owner, rx, asked, faults>>
    BY <1>1 DEF RequestConnect, threadVars
  <2>2. d.to <= session /\ (d.to = session => d \in Control /\ d.n <= asked)
    BY <2>1 DEF AnswerInv, Addressed, Control
  <2>3. Addressed'
    BY <2>1, <2>2 DEF AnswerInv, Addressed, Control, Arriving, Datagram
  <2>4. CASE d.to = session
    <3>1. Control # {}
      BY <2>2, <2>4
    <3>2. ASSUME NEW kind \in {"request", "ack"},
                 Control \subseteq {Datagram(kind, session, 1)}
          PROVE  Control' \subseteq {Datagram("ack", session, 1)}
      <4>1. d = Datagram(kind, session, 1)
        BY <2>2, <2>4, <3>2
      <4>2. d.n = 1
        BY <4>1 DEF Datagram
      <4>3. Control' \subseteq (Control \ {d}) \cup {Datagram("ack", session, 1)}
        BY <2>1, <2>4, <4>2 DEF Control, Arriving
      <4>. QED BY <3>2, <4>1, <4>3
    <3>. QED BY <2>1, <2>3, <3>1, <3>2 DEF AnswerInv, OneAnswer
  <2>5. CASE d.to # session
    <3>1. Control' \subseteq Control
      BY <2>1, <2>5 DEF Control, Arriving, Datagram
    <3>. QED BY <2>1, <2>3, <3>1 DEF AnswerInv, OneAnswer
  <2>. QED BY <2>4, <2>5
<1>2. ASSUME NEW d \in net, Lose(d)
      PROVE  Addressed' /\ OneAnswer'
  BY <1>2 DEF Lose, AnswerInv, Addressed, OneAnswer, Control, threadVars, playVars
<1>3. CASE VoiceData
  BY <1>3 DEF VoiceData, AnswerInv, Addressed, OneAnswer, Control, Arriving, Datagram,
              threadVars, playVars
<1>. QED BY <1>1, <1>2, <1>3

\* Every step keeps the invariant.
LEMMA AnswerInvStep == AnswerInv /\ [Next]_vars => AnswerInv'
<1>1. AnswerInv /\ [Next]_vars => ThreadInv'
  BY ThreadInvStep DEF AnswerInv
<1>2. AnswerInv /\ (UNCHANGED vars \/ PlayStep) => Addressed' /\ OneAnswer'
  BY DEF vars, PlayStep, NextFrame, JitterGet, JitterGetDone, threadVars, playVars, netVars,
         AnswerInv, Addressed, OneAnswer, Control
<1>. QED
  BY <1>1, <1>2, OwnerKeepsAnswer, ReceiverKeepsAnswer, NetKeepsAnswer DEF Next, AnswerInv

\* However voice, requests and answers overtake each other, a running session
\* stops listening only after a second request, a datagram received twice or an
\* error (VoiceProxy.cpp:175-211).
THEOREM DeafOnlyBySecondAnswerHolds == Spec => []DeafOnlyBySecondAnswer
<1>1. AnswerInv => DeafOnlyBySecondAnswer
  BY VoiceSessionAssumption
     DEF VoiceSessionAssumption, AnswerInv, OneAnswer, DeafOnlyBySecondAnswer, IsActive,
         ThreadInv, TypeOK
<1>. QED BY <1>1, AnswerInvHoldsFirst, AnswerInvStep, PTL DEF Spec
=============================================================================

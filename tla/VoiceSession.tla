---------------------------- MODULE VoiceSession ----------------------------
(***************************************************************************)
(* The voice session of the client (NetVoice/Source/VoiceProxy.cpp): the   *)
(* thread that starts and stops it, the receive thread that asks the       *)
(* server for a connection and then puts voice into the jitter buffer, the *)
(* heartbeat threads, and the play thread of VoiceModule.cpp, which takes  *)
(* the voice out again.  Datagrams are lost, duplicated and reordered.     *)
(*                                                                         *)
(* Stop ends the receive thread with TerminateThread, wherever it is: in   *)
(* the jitter buffer, or in the heap, whose lock it takes to put messages  *)
(* together.                                                               *)
(***************************************************************************)
EXTENDS Integers

CONSTANTS
  MaxSessions,   (* bound: how often Start is called                         *)
  MaxRequests,   (* bound: how often one session asks for a connection       *)
  MaxFaults      (* bound: datagrams received twice, errors of send and recv *)

ASSUME VoiceSessionAssumption ==
  /\ MaxSessions \in Nat
  /\ MaxRequests \in Nat
  /\ MaxFaults \in Nat

VARIABLES
  session,      (* the number of the last Start: it names socket and threads *)
  owner,        (* where the thread that starts and stops is                 *)
  rx,           (* m_Thread1: where the receive thread is                    *)
  asked,        (* how many requests this session has sent                   *)
  heartbeats,   (* the heartbeat threads that run, by their session          *)
  m_Thread2,    (* the stored handle of one; 0 at first                      *)
  play,         (* where the play thread is                                  *)
  m_JBufferLock,(* who is in the jitter buffer                               *)
  heap,         (* the lock of the heap: usable, or an "orphan"              *)
  net,          (* the datagrams on their way                                *)
  peer,         (* Player.Addr: the session the server sends voice to        *)
  faults

threadVars == <<owner, rx, asked, heartbeats, m_Thread2>>
playVars == <<play, m_JBufferLock, heap>>
netVars == <<net, peer, faults>>
vars == <<session, threadVars, playVars, netVars>>

Sessions == 1 .. MaxSessions

\* Requests and their answers are told apart by the number of the request.
Datagrams == [kind : {"request", "ack"}, to : Sessions, n : 1 .. MaxRequests]
             \cup [kind : {"voice"}, to : Sessions, n : {0}]

Datagram(kind, s, n) == [kind |-> kind, to |-> s, n |-> n]

\* Who holds the lock is inside; a receive thread killed inside leaves it to
\* nobody.
TypeOK ==
  /\ session \in 0 .. MaxSessions
  /\ owner \in {"idle", "running", "closed", "killed", "waiting"}
  /\ rx \in {"none", "request", "wait", "spawn", "store", "recv", "put", "inPut", "ended"}
  /\ asked \in 0 .. MaxRequests
  /\ heartbeats \subseteq Sessions
  /\ m_Thread2 \in {0} \cup Sessions
  /\ play \in {"out", "wait", "get", "inGet"}
  /\ m_JBufferLock \in {"free", "rx", "play", "orphan"}
  /\ heap \in {"free", "orphan"}
  /\ (m_JBufferLock = "rx") <=> (rx = "inPut")
  /\ (m_JBufferLock = "play") <=> (play = "inGet")
  /\ net \subseteq Datagrams
  /\ peer \in {0} \cup Sessions
  /\ faults \in 0 .. MaxFaults

Init ==
  /\ session = 0
  /\ owner = "idle"
  /\ rx = "none" /\ asked = 0
  /\ heartbeats = {} /\ m_Thread2 = 0
  /\ play = "out" /\ m_JBufferLock = "free" /\ heap = "free"
  /\ net = {} /\ peer = 0 /\ faults = 0

\* m_Socket # -1
IsActive == owner = "running"

-----------------------------------------------------------------------------
(***************************************************************************)
(* Start and Stop, called in turn by the socket thread of GameProxy.cpp.   *)
(***************************************************************************)
Start ==
  /\ owner = "idle"
  /\ heap = "free"
  /\ session < MaxSessions
  /\ session' = session + 1
  /\ owner' = "running"
  /\ rx' = "request" /\ asked' = 0
  /\ play' = "wait"
  /\ UNCHANGED <<heartbeats, m_Thread2, m_JBufferLock, heap, netVars>>

\* closesocket; what was on its way to the socket is lost.
CloseSocket ==
  /\ owner = "running"
  /\ owner' = "closed"
  /\ net' = {d \in net : d.kind = "request"}
  /\ UNCHANGED <<session, rx, asked, heartbeats, m_Thread2, playVars, peer, faults>>

\* Mutant: the heartbeat thread is ended before the thread that creates it.
TerminateReceiver_Last ==
  /\ owner = "closed"
  /\ owner' = "killed"
  /\ heartbeats' = heartbeats \ {m_Thread2}
  /\ UNCHANGED <<session, rx, asked, m_Thread2, playVars, netVars>>

\* TerminateThread(m_Thread1): a lock the thread holds is never released, the
\* one of the jitter buffer or, wherever it was, that of the heap.
TerminateReceiver ==
  /\ owner = "closed"
  /\ owner' = "killed"
  /\ rx' = "none"
  /\ m_JBufferLock' = IF m_JBufferLock = "rx" THEN "orphan" ELSE m_JBufferLock
  /\ heap' \in IF rx \in {"none", "ended"} THEN {heap} ELSE {heap, "orphan"}
  /\ UNCHANGED <<session, asked, heartbeats, m_Thread2, play, netVars>>

\* TerminateThread(m_Thread2), then StopPlayStream clears m_IsPlayRunning.
TerminateHeartbeat ==
  /\ owner = "killed"
  /\ owner' = "waiting"
  /\ heartbeats' = heartbeats \ {m_Thread2}
  /\ UNCHANGED <<session, rx, asked, m_Thread2, playVars, netVars>>

\* StopPlayStream has waited for the play thread.
StopReturn ==
  /\ owner = "waiting"
  /\ play = "out"
  /\ owner' = "idle"
  /\ UNCHANGED <<session, rx, asked, heartbeats, m_Thread2, playVars, netVars>>

-----------------------------------------------------------------------------
(***************************************************************************)
(* ProcessSocket, by the receive thread.                                   *)
(***************************************************************************)
RxStep(from, to) ==
  /\ rx = from
  /\ rx' = to
  /\ UNCHANGED <<session, owner>>

SendRequestConnect ==
  /\ RxStep("request", "wait")
  /\ IsActive
  /\ asked < MaxRequests
  /\ asked' = asked + 1
  /\ net' = net \cup {Datagram("request", session, asked')}
  /\ UNCHANGED <<heartbeats, m_Thread2, playVars, peer, faults>>

\* send or recv fails: on a socket that is closed, or because the network
\* reports an error.
SocketError ==
  /\ \/ ~IsActive /\ UNCHANGED faults
     \/ IsActive /\ faults < MaxFaults /\ faults' = faults + 1
  /\ UNCHANGED <<net, peer>>

SendFails ==
  /\ RxStep("request", "ended")
  /\ SocketError
  /\ UNCHANGED <<asked, heartbeats, m_Thread2, playVars>>

\* recv returns a datagram of this socket; the network may deliver it again.
Recv(kinds) ==
  \E d \in net :
    /\ d.to = session
    /\ d.kind \in kinds
    /\ \/ net' = net \ {d} /\ UNCHANGED faults
       \/ faults < MaxFaults /\ faults' = faults + 1 /\ UNCHANGED net
    /\ UNCHANGED peer

\* Mutant: any datagram passes for the answer.
WaitRequestAck_Any ==
  /\ RxStep("wait", "spawn")
  /\ Recv({"ack", "voice"})
  /\ UNCHANGED <<asked, heartbeats, m_Thread2, playVars>>

WaitRequestAck ==
  /\ RxStep("wait", "spawn")
  /\ Recv({"ack"})
  /\ UNCHANGED <<asked, heartbeats, m_Thread2, playVars>>

\* Anything but an answer, voice that overtook it included: ask again.
AskAgain ==
  /\ RxStep("wait", "request")
  /\ Recv({"voice"}) \/ SocketError
  /\ UNCHANGED <<asked, heartbeats, m_Thread2, playVars>>

\* CreateThread of the heartbeat thread, and the assignment of its handle.
CreateHeartbeat ==
  /\ RxStep("spawn", "store")
  /\ heartbeats' = heartbeats \cup {session}
  /\ UNCHANGED <<asked, m_Thread2, playVars, netVars>>

StoreHeartbeat ==
  /\ RxStep("store", "recv")
  /\ m_Thread2' = session
  /\ UNCHANGED <<asked, heartbeats, playVars, netVars>>

WaitVoiceData ==
  /\ RxStep("recv", "put")
  /\ Recv({"voice"})
  /\ UNCHANGED <<asked, heartbeats, m_Thread2, playVars>>

\* Anything but voice ends the thread.
GiveUp ==
  /\ RxStep("recv", "ended")
  /\ Recv({"ack"}) \/ SocketError
  /\ UNCHANGED <<asked, heartbeats, m_Thread2, playVars>>

\* Mutant: JitterPut does not take the lock.
JitterPut_NoWait ==
  /\ RxStep("put", "inPut")
  /\ m_JBufferLock' = "rx"
  /\ UNCHANGED <<asked, heartbeats, m_Thread2, play, heap, netVars>>

JitterPut ==
  /\ RxStep("put", "inPut")
  /\ m_JBufferLock = "free"
  /\ m_JBufferLock' = "rx"
  /\ UNCHANGED <<asked, heartbeats, m_Thread2, play, heap, netVars>>

JitterPutDone ==
  /\ RxStep("inPut", "recv")
  /\ m_JBufferLock' = "free"
  /\ UNCHANGED <<asked, heartbeats, m_Thread2, play, heap, netVars>>

-----------------------------------------------------------------------------
(***************************************************************************)
(* ThreadPlayStream, woken by the sound card for every frame.              *)
(***************************************************************************)
IsPlayRunning == owner \notin {"idle", "waiting"}

\* Mutant: the flag is not looked at.
NextFrame_NoCheck ==
  /\ play = "wait"
  /\ play' = "get"
  /\ UNCHANGED <<session, threadVars, m_JBufferLock, heap, netVars>>

NextFrame ==
  /\ play = "wait"
  /\ play' = IF IsPlayRunning THEN "get" ELSE "out"
  /\ UNCHANGED <<session, threadVars, m_JBufferLock, heap, netVars>>

JitterGet ==
  /\ play = "get"
  /\ m_JBufferLock = "free"
  /\ m_JBufferLock' = "play"
  /\ play' = "inGet"
  /\ UNCHANGED <<session, threadVars, heap, netVars>>

\* The jitter buffer frees the packet, and the frame is played, or the sound
\* card fails and the thread leaves.
JitterGetDone ==
  /\ play = "inGet"
  /\ heap = "free"
  /\ m_JBufferLock' = "free"
  /\ play' \in {"wait", "out"}
  /\ UNCHANGED <<session, threadVars, heap, netVars>>

-----------------------------------------------------------------------------
(***************************************************************************)
(* The network and the server, which are VoiceServer's RequestConnect and  *)
(* VoiceData as this client meets them.                                    *)
(***************************************************************************)
\* An answer to a socket that is closed reaches nobody.
Arriving(d) == IF IsActive /\ d.to = session THEN {d} ELSE {}

RequestConnect(d) ==
  /\ d.kind = "request"
  /\ peer' = d.to
  /\ net' = (net \ {d}) \cup Arriving(Datagram("ack", d.to, d.n))
  /\ UNCHANGED <<session, threadVars, playVars, faults>>

\* Another player of the group speaks.
VoiceData ==
  /\ peer # 0
  /\ net' = net \cup Arriving(Datagram("voice", peer, 0))
  /\ UNCHANGED <<session, threadVars, playVars, peer, faults>>

Lose(d) ==
  /\ net' = net \ {d}
  /\ UNCHANGED <<session, threadVars, playVars, peer, faults>>

-----------------------------------------------------------------------------
StopStep == TerminateReceiver \/ TerminateHeartbeat \/ StopReturn

ReceiverStep ==
  \/ SendRequestConnect \/ SendFails
  \/ WaitRequestAck \/ AskAgain
  \/ CreateHeartbeat \/ StoreHeartbeat
  \/ WaitVoiceData \/ GiveUp
  \/ JitterPut \/ JitterPutDone

PlayStep == NextFrame \/ JitterGet \/ JitterGetDone

Next ==
  \/ Start \/ CloseSocket \/ StopStep
  \/ ReceiverStep
  \/ PlayStep
  \/ (\E d \in net : RequestConnect(d) \/ Lose(d)) \/ VoiceData

\* The threads run when they can, and the sound card goes on asking for frames.
\* Nothing is assumed of the network.
Fairness == WF_vars(StopStep) /\ WF_vars(PlayStep)

Spec == Init /\ [][Next]_vars /\ Fairness

-----------------------------------------------------------------------------
(***************************************************************************)
(* Properties.                                                             *)
(***************************************************************************)
\* Stop comes back, and with it the thread that reconnects, unless a receive
\* thread was killed inside the jitter buffer or the heap (Stop,
\* VoiceProxy.cpp:41-50, which waits for the play thread).
StopReturns ==
  (owner = "closed") ~> (owner = "idle" \/ m_JBufferLock = "orphan" \/ heap = "orphan")

\* The read error branch of GameProxy.cpp, whose comment promises to reconnect
\* (line 181), goes on only when Stop comes back.
Reconnects == (owner = "closed") ~> (owner = "idle")

\* After Stop the heartbeat thread of the session is gone, unless the receive
\* thread was killed before it had stored the handle (VoiceProxy.cpp:45-46 and
\* 197): Stop ends the two in the order that makes this so.
HeartbeatsEnd == owner = "idle" /\ session \in heartbeats => m_Thread2 # session

\* A running session stops listening only after a second request, a datagram
\* delivered twice or an error: however voice, requests and answers overtake
\* each other, one request and its one answer never end the receive loop
\* (VoiceProxy.cpp:175-211).
DeafOnlyBySecondAnswer == IsActive /\ rx = "ended" => asked > 1 \/ faults > 0
=============================================================================

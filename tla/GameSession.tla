----------------------------- MODULE GameSession -----------------------------
(***************************************************************************)
(* The TCP session of the client (NetVoice/Source/GameProxy.cpp): the      *)
(* application's thread, the socket thread, which connects, reads and      *)
(* connects again, and the command thread, which sends what the other two  *)
(* put into the Channel.                                                   *)
(*                                                                         *)
(* The application enters a group once, as main.cpp does, and may leave it *)
(* and stop.  Starting and stopping the voice is atomic here; how Stop can *)
(* fail to return is in VoiceSession.                                      *)
(***************************************************************************)
EXTENDS Channel

CONSTANTS
  App, Socket, (* the two putters                                            *)
  MaxBreaks,   (* bound: connections lost and connects refused               *)
  CanSpeak     (* what the application enters its group with                 *)

ASSUME GameSessionAssumption ==
  /\ App # Socket
  /\ Putters = {App, Socket}
  /\ MaxBreaks \in Nat
  /\ MaxPuts >= MaxBreaks + 2
  /\ CanSpeak \in BOOLEAN

VARIABLES
  app,         (* where the application is                                   *)
  sock,        (* where the socket thread is                                 *)
  cmd,         (* whether the command thread polls m_Status, or is in Get's
                  loop, which it never leaves                                *)
  sent,        (* how many of the commands taken it has sent                 *)
  m_Status, m_GroupID, m_CanSpeak,
  param,       (* the CanSpeak parameter of the socket thread's EnterGroup   *)
  handshaken,  (* handshakecount # 0                                         *)
  link,        (* whether m_Socket is connected                              *)
  c2s, s2c,    (* the messages on their way on it                            *)
  full,        (* the server has reached its capacity                        *)
  voice,       (* m_VoiceProxy: how many sessions it runs, and the microphone*)
  breaks,
  early        (* a sleep was over before the command thread had sent all there
                  was                                                        *)

clientVars == <<m_Status, m_GroupID, m_CanSpeak, param, handshaken, voice>>
linkVars == <<link, c2s, s2c>>
sessionVars == <<vars, app, sock, cmd, sent, clientVars, linkVars, full, breaks, early>>

\* The application's second command is LeaveGroup; all others are EnterGroup.
RequestOf(c) == IF c = <<App, 2>> THEN "LEAVE_GROUP" ELSE "ENTER_GROUP"

Requests == {"HANDSHAKE", "ENTER_GROUP", "LEAVE_GROUP"}
Acks == {"HANDSHAKE_OK", "HANDSHAKE_FAILED", "ENTER_GROUP_OK", "ENTER_GROUP_FAILED"}

SessionTypeOK ==
  /\ TypeOK
  /\ app \in {"enter", "store", "entered", "leave", "left", "stop", "stopped"}
  /\ sock \in {"connect", "hello", "shake", "reenter", "restore", "ready", "read",
               "sleep", "ended"}
  /\ cmd \in {"poll", "loop", "ended"}
  /\ sent \in 0 .. Len(taken)
  /\ m_Status \in {"NOTHING", "CONNECTING", "CONNECTED", "DISCONNECTED", "STOP"}
  /\ m_GroupID \in BOOLEAN
  /\ m_CanSpeak \in BOOLEAN
  /\ param \in BOOLEAN
  /\ handshaken \in BOOLEAN
  /\ link \in BOOLEAN
  /\ c2s \in Seq(Requests)
  /\ s2c \in Seq(Acks)
  /\ full \in BOOLEAN
  /\ voice \in [running : Nat, mic : BOOLEAN]
  /\ breaks \in 0 .. MaxBreaks
  /\ early \in BOOLEAN

\* StartConnect has created the two threads.
SessionInit ==
  /\ Init
  /\ app = "enter" /\ sock = "connect" /\ cmd = "poll" /\ sent = 0
  /\ m_Status = "NOTHING" /\ m_GroupID = FALSE /\ m_CanSpeak = FALSE
  /\ param = FALSE /\ handshaken = FALSE
  /\ link = FALSE /\ c2s = <<>> /\ s2c = <<>> /\ full = FALSE
  /\ voice = [running |-> 0, mic |-> FALSE]
  /\ breaks = 0 /\ early = FALSE

-----------------------------------------------------------------------------
(***************************************************************************)
(* The application: EnterGroup puts the command, then stores m_CanSpeak.   *)
(***************************************************************************)
\* The last step of Put.
PutReturns(t) == put[t].step = "signal"

EnterGroup ==
  \/ /\ app = "enter"
     /\ PutStep(App)
     /\ app' = IF PutReturns(App) THEN "store" ELSE "enter"
     /\ UNCHANGED <<sock, cmd, sent, clientVars, linkVars, full, breaks, early>>
  \/ /\ app = "store"
     /\ m_CanSpeak' = CanSpeak
     /\ app' = "entered"
     /\ UNCHANGED <<vars, sock, cmd, sent, m_Status, m_GroupID, param,
                    handshaken, voice, linkVars, full, breaks, early>>

CallLeaveGroup ==
  /\ app = "entered"
  /\ app' = "leave"
  /\ UNCHANGED <<vars, sock, cmd, sent, clientVars, linkVars, full, breaks, early>>

LeaveGroup ==
  /\ app = "leave"
  /\ PutStep(App)
  /\ app' = IF PutReturns(App) THEN "left" ELSE "leave"
  /\ UNCHANGED <<sock, cmd, sent, clientVars, linkVars, full, breaks, early>>

\* StopConnect stores the status, then terminates the threads.  The voice is
\* left running.
StopConnect ==
  /\ app \in {"entered", "left"}
  /\ app' = "stop"
  /\ m_Status' = "STOP"
  /\ UNCHANGED <<vars, sock, cmd, sent, m_GroupID, m_CanSpeak, param, handshaken,
                 voice, linkVars, full, breaks, early>>

TerminateThreads ==
  /\ app = "stop"
  /\ app' = "stopped"
  /\ sock' = "ended"
  /\ cmd' = "ended"
  /\ UNCHANGED <<vars, sent, clientVars, linkVars, full, breaks, early>>

-----------------------------------------------------------------------------
(***************************************************************************)
(* ProcessCmdChannel, by the command thread.                               *)
(***************************************************************************)
Poll ==
  /\ cmd = "poll"
  /\ \/ m_Status = "CONNECTED" /\ cmd' = "loop"
     \/ m_Status = "STOP" /\ cmd' = "ended"
  /\ UNCHANGED <<vars, app, sock, sent, clientVars, linkVars, full, breaks, early>>

\* Get has returned a command that is not sent yet.
Holding == get = "try" /\ sent < Len(taken)

Get ==
  /\ cmd = "loop"
  /\ ~Holding
  /\ GetStep
  /\ UNCHANGED <<app, sock, cmd, sent, clientVars, linkVars, full, breaks, early>>

\* SendEnterGroup and SendLeaveGroup.  Nobody looks at what send returns.
Send ==
  /\ cmd = "loop"
  /\ Holding
  /\ sent' = sent + 1
  /\ c2s' = IF link THEN Append(c2s, RequestOf(taken[sent'])) ELSE c2s
  /\ UNCHANGED <<vars, app, sock, cmd, clientVars, link, s2c, full, breaks, early>>

-----------------------------------------------------------------------------
(***************************************************************************)
(* ProcessSocket, by the socket thread.                                    *)
(***************************************************************************)
\* Both loops look at m_Status at their tops: sock is "connect" or "read" once
\* they have.
Loop(top) == IF m_Status = "STOP" THEN "ended" ELSE top

Connect ==
  /\ sock = "connect"
  /\ m_Status' = "CONNECTING"
  /\ link' = TRUE /\ c2s' = <<>> /\ s2c' = <<>>
  /\ sock' = "hello"
  /\ UNCHANGED <<vars, app, cmd, sent, m_GroupID, m_CanSpeak, param, handshaken, voice,
                 full, breaks, early>>

ConnectFails ==
  /\ sock = "connect"
  /\ breaks < MaxBreaks
  /\ breaks' = breaks + 1
  /\ m_Status' = "DISCONNECTED"
  /\ UNCHANGED <<vars, app, sock, cmd, sent, m_GroupID, m_CanSpeak, param, handshaken,
                 voice, linkVars, full, early>>

SendHandshake ==
  /\ sock = "hello"
  /\ sock' = "shake"
  /\ c2s' = IF link THEN Append(c2s, "HANDSHAKE") ELSE c2s
  /\ UNCHANGED <<vars, app, cmd, sent, clientVars, link, s2c, full, breaks, early>>

\* Mutant: the handshakes are not counted.
ShakenHands_Uncounted ==
  /\ sock = "shake"
  /\ s2c # <<>> /\ Head(s2c) = "HANDSHAKE_OK"
  /\ s2c' = Tail(s2c)
  /\ sock' = IF handshaken /\ m_GroupID THEN "reenter" ELSE "ready"
  /\ param' = m_CanSpeak
  /\ UNCHANGED <<vars, app, cmd, sent, m_Status, m_GroupID, m_CanSpeak,
                 handshaken, voice, link, c2s, full, breaks, early>>

\* From the second time on the group is entered again.
ShakenHands ==
  /\ sock = "shake"
  /\ s2c # <<>> /\ Head(s2c) = "HANDSHAKE_OK"
  /\ s2c' = Tail(s2c)
  /\ handshaken' = TRUE
  /\ sock' = IF handshaken /\ m_GroupID THEN "reenter" ELSE "ready"
  /\ param' = m_CanSpeak
  /\ UNCHANGED <<vars, app, cmd, sent, m_Status, m_GroupID, m_CanSpeak, voice,
                 link, c2s, full, breaks, early>>

HandshakeRefused ==
  /\ sock = "shake"
  /\ s2c # <<>> /\ Head(s2c) = "HANDSHAKE_FAILED"
  /\ s2c' = Tail(s2c)
  /\ sock' = "ended"
  /\ UNCHANGED <<vars, app, cmd, sent, clientVars, link, c2s, full, breaks, early>>

\* No answer, or the answer to something else: the socket is closed.
ShakeAgain ==
  /\ sock = "shake"
  /\ IF s2c = <<>> THEN ~link ELSE Head(s2c) \notin {"HANDSHAKE_OK", "HANDSHAKE_FAILED"}
  /\ link' = FALSE /\ c2s' = <<>> /\ s2c' = <<>>
  /\ sock' = Loop("connect")
  /\ UNCHANGED <<vars, app, cmd, sent, clientVars, full, breaks, early>>

\* EnterGroup(m_GroupID, m_PlayerID, m_CanSpeak): what it stores in the end is
\* what m_CanSpeak was when it was called.
Reenter ==
  \/ /\ sock = "reenter"
     /\ PutStep(Socket)
     /\ sock' = IF PutReturns(Socket) THEN "restore" ELSE "reenter"
     /\ UNCHANGED <<app, cmd, sent, clientVars, linkVars, full, breaks, early>>
  \/ /\ sock = "restore"
     /\ m_CanSpeak' = param
     /\ sock' = "ready"
     /\ UNCHANGED <<vars, app, cmd, sent, m_Status, m_GroupID, param, handshaken,
                    voice, linkVars, full, breaks, early>>

Ready ==
  /\ sock = "ready"
  /\ m_Status' = "CONNECTED"
  /\ sock' = "read"
  /\ UNCHANGED <<vars, app, cmd, sent, m_GroupID, m_CanSpeak, param, handshaken, voice,
                 linkVars, full, breaks, early>>

ReadEnterGroupAck ==
  /\ sock = "read"
  /\ s2c # <<>>
  /\ s2c' = Tail(s2c)
  /\ IF Head(s2c) = "ENTER_GROUP_OK"
       THEN /\ m_GroupID' = TRUE
            /\ voice' = [running |-> voice.running + 1, mic |-> m_CanSpeak]
       ELSE UNCHANGED <<m_GroupID, voice>>
  /\ sock' = Loop("read")
  /\ UNCHANGED <<vars, app, cmd, sent, m_Status, m_CanSpeak, param, handshaken,
                 link, c2s, full, breaks, early>>

\* Mutants: the voice is not stopped; the microphone is forgotten, as when the
\* server has taken the player out of the group.
ReadFails_VoiceStays ==
  /\ sock = "read"
  /\ s2c = <<>> /\ ~link
  /\ sock' = "sleep"
  /\ UNCHANGED <<vars, app, cmd, sent, clientVars, linkVars, full, breaks, early>>

ReadFails_ForgetsMic ==
  /\ sock = "read"
  /\ s2c = <<>> /\ ~link
  /\ voice' = [voice EXCEPT !.running = 0]
  /\ m_CanSpeak' = FALSE
  /\ sock' = "sleep"
  /\ UNCHANGED <<vars, app, cmd, sent, m_Status, m_GroupID, param, handshaken,
                 linkVars, full, breaks, early>>

\* The voice is stopped, and the socket left as it is.
ReadFails ==
  /\ sock = "read"
  /\ s2c = <<>> /\ ~link
  /\ voice' = [voice EXCEPT !.running = 0]
  /\ sock' = "sleep"
  /\ UNCHANGED <<vars, app, cmd, sent, m_Status, m_GroupID, m_CanSpeak, param,
                 handshaken, linkVars, full, breaks, early>>

\* The command thread has sent what there was and waits for more.
Drained == cmd = "loop" /\ get = "wait" /\ m_List = <<>>

\* Nothing but the length of Sleep(5000) makes the socket thread wait for that.
WakeUp ==
  /\ sock = "sleep"
  /\ sock' = Loop("connect")
  /\ early' = (early \/ ~Drained)
  /\ UNCHANGED <<vars, app, cmd, sent, clientVars, linkVars, full, breaks>>

-----------------------------------------------------------------------------
(***************************************************************************)
(* The network and the server, as this client meets them.                  *)
(***************************************************************************)
\* The server crashes or the line breaks.  What the server had sent may arrive.
Break ==
  /\ link
  /\ breaks < MaxBreaks
  /\ breaks' = breaks + 1
  /\ link' = FALSE
  /\ c2s' = <<>>
  /\ \E n \in 0 .. Len(s2c) : s2c' = SubSeq(s2c, 1, n)
  /\ UNCHANGED <<vars, app, sock, cmd, sent, clientVars, full, early>>

\* The handlers, in the order of the messages.  A handshake that fails closes
\* the connection; LEAVE_GROUP is not implemented.
HandleRequest ==
  /\ link
  /\ c2s # <<>>
  /\ \/ /\ Head(c2s) = "HANDSHAKE"
        /\ s2c' = Append(s2c, "HANDSHAKE_OK") /\ c2s' = Tail(c2s) /\ UNCHANGED link
     \/ /\ Head(c2s) = "HANDSHAKE"
        /\ s2c' = Append(s2c, "HANDSHAKE_FAILED") /\ c2s' = <<>> /\ link' = FALSE
     \/ /\ Head(c2s) = "ENTER_GROUP"
        /\ s2c' = Append(s2c, IF full THEN "ENTER_GROUP_FAILED" ELSE "ENTER_GROUP_OK")
        /\ c2s' = Tail(c2s) /\ UNCHANGED link
     \/ Head(c2s) = "LEAVE_GROUP" /\ c2s' = Tail(c2s) /\ UNCHANGED <<link, s2c>>
  /\ UNCHANGED <<vars, app, sock, cmd, sent, clientVars, full, breaks, early>>

\* Other clients have used up the server's capacity, which never comes back.
ReachCapacity ==
  /\ ~full
  /\ full' = TRUE
  /\ UNCHANGED <<vars, app, sock, cmd, sent, clientVars, linkVars, breaks, early>>

-----------------------------------------------------------------------------
AppStep == EnterGroup \/ LeaveGroup \/ TerminateThreads

CmdStep == Poll \/ Get \/ Send

SocketStep ==
  \/ Connect \/ SendHandshake
  \/ ShakenHands \/ HandshakeRefused \/ ShakeAgain
  \/ Reenter \/ Ready
  \/ ReadEnterGroupAck \/ ReadFails \/ WakeUp

SessionNext ==
  \/ AppStep \/ CallLeaveGroup \/ StopConnect
  \/ CmdStep
  \/ SocketStep \/ ConnectFails
  \/ Break \/ HandleRequest \/ ReachCapacity

\* The threads and the server run when they can.
SessionFairness == WF_sessionVars(AppStep) /\ WF_sessionVars(CmdStep)
                   /\ WF_sessionVars(SocketStep) /\ WF_sessionVars(HandleRequest)

SessionSpec == SessionInit /\ [][SessionNext]_sessionVars /\ SessionFairness

-----------------------------------------------------------------------------
(***************************************************************************)
(* Properties.                                                             *)
(***************************************************************************)
\* Start is never called while a voice session runs: a second one would lose
\* the first one's socket and threads.  However an answer, a break and the
\* command put again are ordered, there is one answer for one Stop
\* (GameProxy.cpp:122-127, 143-150, 182), as long as the five seconds after each
\* break have let the command thread send what it had: nothing else keeps an old
\* command from being answered on the new connection too.
OneVoiceSession == early \/ voice.running <= 1

\* An EnterGroup call that returned before its answer was handled has the voice
\* run with the microphone it asked for, after every reconnect as well; only a
\* call overtaken by its answer does not (GameProxy.cpp:51-52 and 125).
MicAsAsked ==
  [](voice.running > 0 => app \notin {"enter", "store"})
    => [](voice.running > 0 => voice.mic = CanSpeak)

\* On a connection that holds the group is entered, and once entered it is
\* entered again after every break: the voice comes back, unless the server is
\* full or turns the client away, or the session is stopped
\* (GameProxy.cpp:122-127).
EntersGroup ==
  /\ (app = "entered") ~> (m_GroupID \/ breaks > 0 \/ full \/ sock = "ended")
  /\ m_GroupID ~> (voice.running > 0 \/ full \/ sock = "ended")

\* Nobody waits for ever: the socket thread, which puts a command of its own,
\* gets back to reading, and calls of EnterGroup and LeaveGroup return, unless
\* the session has ended (Channel.h:48, GameProxy.cpp:51, 60 and 125).
NobodyHangs ==
  /\ (sock # "read") ~> (sock \in {"read", "ended"})
  /\ (app \in {"enter", "leave"}) ~> (app \notin {"enter", "leave"} \/ sock = "ended")
=============================================================================

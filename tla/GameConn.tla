------------------------------ MODULE GameConn ------------------------------
(***************************************************************************)
(* One TCP connection of the voice server from the bytes to the handlers:  *)
(* message/GameTransfer.go puts packets together from whatever pieces the  *)
(* network delivers, handle/GameService.go limits the time for the first   *)
(* one and looks up the handler of each.                                   *)
(*                                                                         *)
(* A packet is a header of 32 bits and a body.  Its bytes are the pairs    *)
(* <<packet, position>>, so that bytes taken for what they are not show.   *)
(***************************************************************************)
EXTENDS Integers, Sequences

CONSTANTS
  Cmds,      (* the commands the client sends                                *)
  Lens,      (* the lengths of their bodies; a message is never empty        *)
  MaxSent,   (* bound: how many packets the client sends                     *)
  Strays     (* what a header read out of step can look like                 *)

ASSUME GameConnAssumption ==
  /\ \A c \in Cmds : c \in Nat /\ c < 4096
  /\ \A l \in Lens : l \in Nat /\ l > 0 /\ l < 524288
  /\ MaxSent \in Nat
  /\ Strays \subseteq Nat

VARIABLES
  sent,      (* the packets the client has written                           *)
  net,       (* their bytes the server has not read yet                      *)
  cut,       (* the connection is closed or lost: net is all that will come  *)
  told,      (* and the server's end of it has been told, by a FIN or a RST  *)
  timer,     (* the read deadline: "set", "expired" or "clear"               *)
  part,      (* which part of a packet read() is putting together            *)
  header,    (* the header before the body being read                        *)
  buf,       (* what read() has of its part                                  *)
  handled,   (* the messages looked up, in order: packet 0 is an empty one   *)
  conn       (* "open", "closed", or "panic": the process is gone            *)

clientVars == <<sent, net, cut, told>>
serverVars == <<timer, part, header, buf, handled, conn>>
vars == <<clientVars, serverVars>>

-----------------------------------------------------------------------------
(***************************************************************************)
(* GameHeader: the length in bits 0-18, the command in bits 20-31.  The    *)
(* numbers are 2^12, 2^19 and 2^20.                                        *)
(***************************************************************************)
GameHeaderSize == 4

SetLen(h, len) == (h \div 524288) * 524288 + (len % 524288)

\* Mutant: the command overlaps the split bit.
SetCmd_Shift19(h, cmd) == (h % 524288) + (cmd % 4096) * 524288

SetCmd(h, cmd) == (h % 1048576) + (cmd % 4096) * 1048576

GetLen(h) == h % 524288

GetCmd(h) == h \div 1048576

\* WritePacket sets the command, then the length.
HeaderOf(p) == SetLen(SetCmd(0, p.cmd), p.len)

BytesOf(i, p) == [k \in 1 .. GameHeaderSize + p.len |-> <<i, k>>]

HeaderBytes(i) == [k \in 1 .. GameHeaderSize |-> <<i, k>>]

BodyBytes(i) == [k \in 1 .. sent[i].len |-> <<i, GameHeaderSize + k>>]

\* What the call of read() that is going on was asked for.
Needed == IF part = "header" THEN GameHeaderSize ELSE GetLen(header)

-----------------------------------------------------------------------------
TypeOK ==
  /\ sent \in Seq([cmd : Cmds, len : Lens])
  /\ net \in Seq(Nat \X Nat)
  /\ cut \in BOOLEAN
  /\ told \in BOOLEAN
  /\ timer \in {"set", "expired", "clear"}
  /\ part \in {"header", "body"}
  /\ header \in Nat
  /\ buf \in Seq(Nat \X Nat) /\ Len(buf) <= Needed
  /\ handled \in Seq([cmd : Nat, packet : Nat])
  /\ conn \in {"open", "closed", "panic"}

\* Mutant: no limit for the first packet.
Init_NoLimit ==
  /\ sent = <<>> /\ net = <<>> /\ cut = FALSE /\ told = FALSE
  /\ timer = "clear"
  /\ part = "header" /\ header = 0 /\ buf = <<>>
  /\ handled = <<>>
  /\ conn = "open"

\* The server has accepted the connection and set the deadline.
Init ==
  /\ sent = <<>> /\ net = <<>> /\ cut = FALSE /\ told = FALSE
  /\ timer = "set"
  /\ part = "header" /\ header = 0 /\ buf = <<>>
  /\ handled = <<>>
  /\ conn = "open"

-----------------------------------------------------------------------------
(***************************************************************************)
(* The client, the network and the clock.                                  *)
(***************************************************************************)
WritePacket(p) ==
  /\ ~cut
  /\ Len(sent) < MaxSent
  /\ sent' = Append(sent, p)
  /\ net' = net \o BytesOf(Len(sent'), p)
  /\ UNCHANGED <<cut, told, serverVars>>

\* The client goes or the line breaks: the bytes on their way arrive up to
\* some point, the middle of a packet as well as any other.  A line can break
\* without a word, and the code asks for no keep-alive that would notice.
Cut ==
  /\ ~cut
  /\ cut' = TRUE
  /\ told' \in BOOLEAN
  /\ \E n \in 0 .. Len(net) : net' = SubSeq(net, 1, n)
  /\ UNCHANGED <<sent, serverVars>>

\* The 30 seconds are over.
Expire ==
  /\ timer = "set"
  /\ timer' = "expired"
  /\ UNCHANGED <<clientVars, part, header, buf, handled, conn>>

-----------------------------------------------------------------------------
(***************************************************************************)
(* GameTransfer.read: it loops over Conn.Read, which returns any number of *)
(* the bytes that are there, until it has what it was asked for.           *)
(***************************************************************************)
Reading == conn = "open" /\ Len(buf) < Needed

\* Mutant: Conn.Read is given a buffer longer than the rest of the part.
Read_PastEnd ==
  /\ Reading
  /\ timer # "expired"
  /\ \E n \in 1 .. Len(net) :
       /\ buf' = buf \o SubSeq(net, 1, n)
       /\ net' = SubSeq(net, n + 1, Len(net))
  /\ UNCHANGED <<sent, cut, told, timer, part, header, handled, conn>>

Read ==
  /\ Reading
  /\ timer # "expired"
  /\ \E n \in 1 .. Len(net) :
       /\ Len(buf) + n <= Needed
       /\ buf' = buf \o SubSeq(net, 1, n)
       /\ net' = SubSeq(net, n + 1, Len(net))
  /\ UNCHANGED <<sent, cut, told, timer, part, header, handled, conn>>

\* Conn.Read returns an error: the deadline has passed, whatever has arrived,
\* or the end of the connection has come and no byte is left before it.  If the
\* line broke without a word and there is no deadline, it does not return.
ReadError == Reading /\ (timer = "expired" \/ (told /\ net = <<>>))

\* ReadPacket has the header.  Bytes out of step can mean any header.
ReadHeader ==
  /\ conn = "open"
  /\ part = "header"
  /\ Len(buf) = GameHeaderSize
  /\ \/ \E i \in 1 .. Len(sent) : buf = HeaderBytes(i) /\ header' = HeaderOf(sent[i])
     \/ /\ \A i \in 1 .. Len(sent) : buf # HeaderBytes(i)
        /\ header' \in Strays
  /\ part' = "body"
  /\ buf' = <<>>
  /\ UNCHANGED <<clientVars, timer, handled, conn>>

-----------------------------------------------------------------------------
(***************************************************************************)
(* handleGameConn: the loop body for one message, then the next ReadPacket.*)
(***************************************************************************)
HandlerMap == 0 .. 1023

\* The commands whose handlers follow msg.Req without looking: HANDSHAKE,
\* ENTER_GROUP and ADJUST_PLAYER_ATTR.
Dereferencing == {1, 3, 8}

HANDSHAKE == 1

\* Mutant: every message sets the deadline anew.
Dispatch_RenewsLimit(packet) ==
  LET cmd == GetCmd(header)
  IN  /\ handled' = Append(handled, [cmd |-> cmd, packet |-> packet])
      /\ conn' = IF cmd \notin HandlerMap \/ (packet = 0 /\ cmd \in Dereferencing)
                   THEN "panic" ELSE conn
      /\ UNCHANGED clientVars
      /\ timer' = "set"
      /\ part' = "header"
      /\ buf' = <<>>
      /\ UNCHANGED header

\* The first message clears the deadline.  A handler that finds no request in
\* its message, and a command past the table, end the process; a handshake
\* that fails closes the connection; an unknown command is logged.
Dispatch(packet) ==
  LET cmd == GetCmd(header)
  IN  /\ handled' = Append(handled, [cmd |-> cmd, packet |-> packet])
      /\ timer' = "clear"
      /\ conn' = IF cmd \notin HandlerMap \/ (packet = 0 /\ cmd \in Dereferencing)
                   THEN "panic" ELSE conn
      /\ \/ UNCHANGED clientVars
         \/ /\ cmd = HANDSHAKE /\ packet # 0
            /\ cut' = TRUE /\ told' = TRUE /\ net' = <<>> /\ UNCHANGED sent
      /\ part' = "header"
      /\ buf' = <<>>
      /\ UNCHANGED header

\* The body is complete and Unmarshal accepts it ...
ReadBody ==
  /\ conn = "open"
  /\ part = "body"
  /\ Len(buf) = Needed
  /\ \E i \in 1 .. Len(sent) : buf = BodyBytes(i) /\ Dispatch(i)

\* ... or, for bytes that are no message, returns an error.
RefuseBody ==
  /\ conn = "open"
  /\ part = "body"
  /\ Len(buf) = Needed
  /\ \A i \in 1 .. Len(sent) : buf # BodyBytes(i)
  /\ conn' = "closed"
  /\ UNCHANGED <<clientVars, timer, part, header, buf, handled>>

\* An error while the header is read ends the connection.
FailHeader ==
  /\ ReadError
  /\ part = "header"
  /\ conn' = "closed"
  /\ UNCHANGED <<clientVars, timer, part, header, buf, handled>>

\* Mutant: after an error in the body the loop reads the rest of it again.
FailBody_Retries ==
  /\ ReadError
  /\ part = "body"
  /\ UNCHANGED vars

\* An error while the body is read is overwritten by the result of Unmarshal,
\* which makes an empty message of no bytes.
FailBody ==
  /\ ReadError
  /\ part = "body"
  /\ Dispatch(0)

-----------------------------------------------------------------------------
ServerStep == Read \/ ReadHeader \/ ReadBody \/ RefuseBody \/ FailHeader \/ FailBody

Next ==
  \/ \E p \in [cmd : Cmds, len : Lens] : WritePacket(p)
  \/ Cut
  \/ Expire
  \/ ServerStep

\* The goroutine of the connection runs when it can, and time passes.  Nothing
\* is assumed of the client.
Fairness == WF_vars(ServerStep) /\ WF_vars(Expire)

Spec == Init /\ [][Next]_vars /\ Fairness

-----------------------------------------------------------------------------
(***************************************************************************)
(* Properties.                                                             *)
(***************************************************************************)
\* However the network cuts the stream into pieces, the messages handlers see
\* are the packets sent, in order, each with its own command and whole body,
\* up to the first empty message (GameTransfer.read and ReadPacket).
HandledAsSent ==
  \A k \in 1 .. Len(handled) :
    (\A j \in 1 .. k : handled[j].packet # 0)
      => handled[k] = [cmd |-> sent[k].cmd, packet |-> k]

\* The limit is gone once a packet was handled: from then on a connection is
\* closed only because it was lost, closed by the handshake, or out of step
\* (GameService.go:52-53).
LimitOnlyForFirst ==
  [][conn = "open" /\ conn' = "closed" /\ handled # <<>>
       => cut \/ handled[1].packet = 0]_vars

\* A client that does not get a header through in time is let go, whether it
\* stays silent or the line broke without a word (GameService.go:46-51).
HeaderInTime ==
  (part = "header" /\ handled = <<>>) ~> (part = "body" \/ handled # <<>> \/ conn # "open")

\* What GameService.go:45 says: a connection receives its first packet in time
\* or is over.  A header whose body does not come is enough to get round it.
FirstPacketInTime ==
  (handled = <<>>) ~> (conn # "open" \/ (handled # <<>> /\ handled[1].packet # 0))

\* The server lets go of every connection that is over, whatever was being read
\* (defer conn.Close(), GameService.go:43), unless nothing tells it so and the
\* first message, which lifts the limit, was handled.
LostConnectionEnds == cut ~> (conn # "open" \/ (~told /\ handled # <<>>))
=============================================================================

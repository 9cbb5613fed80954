--------------------------- MODULE GameConnProofs ---------------------------
(***************************************************************************)
(* Proofs about GameConn, for any commands, lengths and strays, any number *)
(* of packets and any way the network cuts them into pieces: the messages  *)
(* handled are the packets sent, and the time limit is for the first only. *)
(***************************************************************************)
EXTENDS GameConn, SequenceTheorems, TLAPS

Packets == [cmd : Cmds, len : Lens]

-----------------------------------------------------------------------------
(***************************************************************************)
(* The header.                                                             *)
(***************************************************************************)
\* GetLen and GetCmd return what SetCmd and SetLen stored: the two fields do
\* not overlap, and neither overlaps the split bit (GameTransfer.go:27-39).
THEOREM HeaderRoundTrip ==
  ASSUME NEW p \in Packets
  PROVE  /\ HeaderOf(p) \in Nat
         /\ GetLen(HeaderOf(p)) = p.len
         /\ GetCmd(HeaderOf(p)) = p.cmd
<1>1. /\ p.cmd \in Nat /\ p.cmd < 4096
      /\ p.len \in Nat /\ p.len > 0 /\ p.len < 524288
  BY GameConnAssumption, SMT DEF GameConnAssumption, Packets
<1>2. SetCmd(0, p.cmd) = p.cmd * 1048576
  BY <1>1, SMT DEF SetCmd
<1>3. (p.cmd * 1048576) \div 524288 = p.cmd * 2 /\ p.len % 524288 = p.len
  BY <1>1, SMT
<1>4. HeaderOf(p) = p.cmd * 1048576 + p.len
  BY <1>1, <1>2, <1>3, SMT DEF HeaderOf, SetLen
<1>5. (p.cmd * 1048576 + p.len) % 524288 = p.len
  BY <1>1, SMT
<1>6. (p.cmd * 1048576 + p.len) \div 1048576 = p.cmd
  BY <1>1, SMT
<1>. QED BY <1>1, <1>4, <1>5, <1>6, SMT DEF GetLen, GetCmd

-----------------------------------------------------------------------------
(***************************************************************************)
(* Types.                                                                  *)
(***************************************************************************)
\* A part is at most as long as its header says, and that is a number.
LEMMA LengthIsNat ==
  ASSUME NEW h \in Nat
  PROVE  GetLen(h) \in Nat /\ GetCmd(h) \in Nat
BY SMT DEF GetLen, GetCmd

\* What is needed is a number.
LEMMA NeededIsNat == TypeOK => Needed \in Nat /\ Len(buf) \in Nat /\ Len(net) \in Nat
                               /\ Len(sent) \in Nat /\ Len(handled) \in Nat
BY LengthIsNat, LenProperties DEF TypeOK, Needed, GameHeaderSize

\* A read moves the first bytes of the net behind those it has.
LEMMA ReadMoves ==
  ASSUME TypeOK, NEW n \in 1 .. Len(net)
  PROVE  /\ SubSeq(net, 1, n) \in Seq(Nat \X Nat) /\ Len(SubSeq(net, 1, n)) = n
         /\ \A k \in 1 .. n : SubSeq(net, 1, n)[k] = net[k]
         /\ SubSeq(net, n + 1, Len(net)) \in Seq(Nat \X Nat)
         /\ Len(SubSeq(net, n + 1, Len(net))) = Len(net) - n
         /\ \A k \in 1 .. Len(net) - n : SubSeq(net, n + 1, Len(net))[k] = net[k + n]
<1>1. Len(net) \in Nat /\ n \in Nat /\ 1 <= n /\ n <= Len(net)
  BY NeededIsNat
<1>2. \A k \in 1 .. Len(net) : net[k] \in Nat \X Nat
  BY ElementOfSeq DEF TypeOK
<1>3. /\ SubSeq(net, 1, n) \in Seq(Nat \X Nat) /\ Len(SubSeq(net, 1, n)) = n - 1 + 1
      /\ \A k \in 1 .. n - 1 + 1 : SubSeq(net, 1, n)[k] = net[1 + k - 1]
  <2>1. \A k \in 1 .. n : net[k] \in Nat \X Nat
    BY <1>1, <1>2
  <2>. QED BY <1>1, <2>1, SubSeqProperties
<1>4. /\ SubSeq(net, n + 1, Len(net)) \in Seq(Nat \X Nat)
      /\ Len(SubSeq(net, n + 1, Len(net)))
           = IF n + 1 <= Len(net) THEN Len(net) - (n + 1) + 1 ELSE 0
      /\ \A k \in 1 .. Len(net) - (n + 1) + 1 :
           SubSeq(net, n + 1, Len(net))[k] = net[n + 1 + k - 1]
  <2>1. \A k \in n + 1 .. Len(net) : net[k] \in Nat \X Nat
    BY <1>1, <1>2
  <2>2. n + 1 \in Int /\ Len(net) \in Int
    BY <1>1
  <2>. QED BY <2>1, <2>2, SubSeqProperties
<1>5. n - 1 + 1 = n /\ Len(net) - (n + 1) + 1 = Len(net) - n
      /\ (~(n + 1 <= Len(net)) => Len(net) - n = 0)
  BY <1>1
<1>6. ASSUME NEW k \in 1 .. n
      PROVE  SubSeq(net, 1, n)[k] = net[k]
  <2>1. k \in 1 .. n - 1 + 1 /\ 1 + k - 1 = k
    BY <1>1
  <2>. QED BY <1>3, <2>1
<1>7. ASSUME NEW k \in 1 .. Len(net) - n
      PROVE  SubSeq(net, n + 1, Len(net))[k] = net[k + n]
  <2>1. k \in 1 .. Len(net) - (n + 1) + 1 /\ n + 1 + k - 1 = k + n
    BY <1>1
  <2>. QED BY <1>4, <2>1
<1>. QED BY <1>3, <1>4, <1>5, <1>6, <1>7

\* The bytes of a packet.
LEMMA BytesAre ==
  ASSUME NEW i \in Nat, NEW p \in Packets
  PROVE  /\ BytesOf(i, p) \in Seq(Nat \X Nat) /\ Len(BytesOf(i, p)) = GameHeaderSize + p.len
         /\ \A k \in 1 .. GameHeaderSize + p.len : BytesOf(i, p)[k] = <<i, k>>
<1>1. GameHeaderSize + p.len \in Nat
  BY GameConnAssumption, SMT DEF GameConnAssumption, Packets, GameHeaderSize
<1>2. \A k \in 1 .. GameHeaderSize + p.len : <<i, k>> \in Nat \X Nat
  BY <1>1
<1>3. BytesOf(i, p) = [k \in 1 .. GameHeaderSize + p.len |-> <<i, k>>]
  BY DEF BytesOf
<1>4. BytesOf(i, p) \in Seq(Nat \X Nat)
  BY <1>1, <1>2, <1>3, IsASeq
<1>5. Len(BytesOf(i, p)) = GameHeaderSize + p.len
  BY <1>1, <1>3, <1>4, LenProperties
<1>. QED BY <1>3, <1>4, <1>5

\* Handling a message keeps the types.
LEMMA DispatchTypes ==
  ASSUME TypeOK, conn = "open", NEW packet \in Nat, Dispatch(packet)
  PROVE  TypeOK'
<1>1. <<>> \in Seq(Nat \X Nat) /\ Len(<<>>) = 0
  BY EmptySeq
<1>2. /\ sent' \in Seq(Packets) /\ net' \in Seq(Nat \X Nat) /\ cut' \in BOOLEAN /\ told' \in BOOLEAN
      /\ timer' \in {"set", "expired", "clear"} /\ part' = "header" /\ header' \in Nat
      /\ buf' = <<>> /\ conn' \in {"open", "closed", "panic"}
  BY <1>1 DEF Dispatch, TypeOK, Packets, clientVars
<1>3. [cmd |-> GetCmd(header), packet |-> packet] \in [cmd : Nat, packet : Nat]
  BY LengthIsNat DEF TypeOK
<1>4. handled' \in Seq([cmd : Nat, packet : Nat])
  BY <1>3, AppendProperties DEF Dispatch, TypeOK
<1>5. Len(buf') <= Needed'
  BY <1>1, <1>2 DEF Needed, GameHeaderSize
<1>. QED BY <1>1, <1>2, <1>4, <1>5 DEF TypeOK, Packets

\* Every step keeps the types.
LEMMA TypesStep == TypeOK /\ [Next]_vars => TypeOK'
<1>. SUFFICES ASSUME TypeOK, [Next]_vars
              PROVE  TypeOK'
  OBVIOUS
<1>1. ASSUME NEW p \in Packets, WritePacket(p)
      PROVE  TypeOK'
  <2>1. /\ sent' = Append(sent, p) /\ net' = net \o BytesOf(Len(sent'), p)
        /\ UNCHANGED <<cut, told, timer, part, header, buf, handled, conn>>
    BY <1>1 DEF WritePacket, serverVars
  <2>2. sent' \in Seq(Packets) /\ Len(sent') \in Nat
    BY <2>1, AppendProperties, LenProperties DEF TypeOK, Packets
  <2>3. net' \in Seq(Nat \X Nat)
    BY <2>1, <2>2, BytesAre, ConcatProperties DEF TypeOK
  <2>. QED BY <2>1, <2>2, <2>3 DEF TypeOK, Needed, Packets
<1>2. CASE Cut
  <2>1. PICK n \in 0 .. Len(net) : net' = SubSeq(net, 1, n)
    BY <1>2 DEF Cut
  <2>2. CASE n = 0
    <3>1. net' = <<>>
      BY <2>1, <2>2, SubSeqEmpty
    <3>. QED BY <1>2, <3>1, EmptySeq DEF Cut, TypeOK, serverVars, Needed
  <2>3. CASE n # 0
    <3>1. n \in 1 .. Len(net)
      BY <2>1, <2>3, NeededIsNat
    <3>. QED BY <1>2, <2>1, <3>1, ReadMoves DEF Cut, TypeOK, serverVars, Needed
  <2>. QED BY <2>2, <2>3
<1>3. CASE Expire
  BY <1>3 DEF Expire, TypeOK, clientVars, Needed
<1>4. CASE Read
  <2>1. PICK n \in 1 .. Len(net) : /\ Len(buf) + n <= Needed
                                   /\ buf' = buf \o SubSeq(net, 1, n)
                                   /\ net' = SubSeq(net, n + 1, Len(net))
    BY <1>4 DEF Read
  <2>2. UNCHANGED <<sent, cut, told, timer, part, header, handled, conn>>
    BY <1>4 DEF Read
  <2>3. buf' \in Seq(Nat \X Nat) /\ Len(buf') = Len(buf) + n /\ net' \in Seq(Nat \X Nat)
    BY <2>1, ReadMoves, ConcatProperties DEF TypeOK
  <2>. QED BY <2>1, <2>2, <2>3 DEF TypeOK, Needed
<1>5. CASE ReadHeader
  <2>1. header' \in Nat
    <3>1. CASE \E i \in 1 .. Len(sent) : header' = HeaderOf(sent[i])
      BY <3>1, HeaderRoundTrip, ElementOfSeq DEF TypeOK, Packets
    <3>2. CASE header' \in Strays
      BY <3>2, GameConnAssumption DEF GameConnAssumption
    <3>. QED BY <1>5, <3>1, <3>2 DEF ReadHeader
  <2>2. /\ part' = "body" /\ buf' = <<>>
        /\ UNCHANGED <<sent, net, cut, told, timer, handled, conn>>
    BY <1>5 DEF ReadHeader, clientVars
  <2>3. Needed' = GetLen(header') /\ Needed' \in Nat
    BY <2>1, <2>2, LengthIsNat DEF Needed
  <2>4. buf' \in Seq(Nat \X Nat) /\ Len(buf') <= Needed'
    BY <2>2, <2>3, EmptySeq
  <2>. QED BY <2>1, <2>2, <2>4 DEF TypeOK
<1>6. CASE ReadBody
  <2>1. PICK i \in 1 .. Len(sent) : Dispatch(i)
    BY <1>6 DEF ReadBody
  <2>2. i \in Nat
    BY NeededIsNat
  <2>. QED BY <1>6, <2>1, <2>2, DispatchTypes DEF ReadBody
<1>7. CASE FailBody
  <2>1. conn = "open" /\ Dispatch(0) /\ 0 \in Nat
    BY <1>7 DEF FailBody, ReadError, Reading
  <2>. QED BY <2>1, DispatchTypes
<1>8. CASE RefuseBody \/ FailHeader
  BY <1>8 DEF RefuseBody, FailHeader, TypeOK, clientVars, Needed
<1>9. CASE UNCHANGED vars
  BY <1>9 DEF vars, clientVars, serverVars, TypeOK, Needed
<1>. QED BY <1>1, <1>2, <1>3, <1>4, <1>5, <1>6, <1>7, <1>8, <1>9 DEF Next, ServerStep, Packets

\* At first everything has its type.
LEMMA TypesHoldFirst == Init => TypeOK
<1>. SUFFICES ASSUME Init
              PROVE  TypeOK
  OBVIOUS
<1>1. /\ sent \in Seq([cmd : Cmds, len : Lens]) /\ net \in Seq(Nat \X Nat)
      /\ buf \in Seq(Nat \X Nat) /\ handled \in Seq([cmd : Nat, packet : Nat])
  BY EmptySeq DEF Init
<1>2. Len(buf) <= Needed
  BY EmptySeq DEF Init, Needed, GameHeaderSize
<1>. QED BY <1>1, <1>2 DEF Init, TypeOK

\* The types of the connection: a part never gets longer than its header says,
\* and every command looked up is a number (GameTransfer.go:71-82).
THEOREM ConnTypeCorrect == Spec => []TypeOK
BY TypesHoldFirst, TypesStep, PTL DEF Spec

-----------------------------------------------------------------------------
(***************************************************************************)
(* The stream: what read() has and what is still on the net, in one.  Read *)
(* moves the border between the two; the stream loses its head only when a *)
(* header or a body is complete, and grows only at its end.                *)
(***************************************************************************)
Total == Len(buf) + Len(net)

Byte(k) == IF k <= Len(buf) THEN buf[k] ELSE net[k - Len(buf)]

Size(j) == GameHeaderSize + sent[j].len

\* Each byte is one of a packet sent, and is followed by the rest of its
\* packet and then by the next one, as far as the stream goes.
Runs ==
  \A k \in 1 .. Total :
    /\ Byte(k) \in Nat \X Nat
    /\ Byte(k)[1] \in 1 .. Len(sent) /\ Byte(k)[2] \in 1 .. Size(Byte(k)[1])
    /\ \A d \in 0 .. Total - k :
         /\ Byte(k)[2] + d <= Size(Byte(k)[1]) => Byte(k + d) = <<Byte(k)[1], Byte(k)[2] + d>>
         /\ Byte(k)[2] + d = Size(Byte(k)[1]) + 1 => Byte(k + d) = <<Byte(k)[1] + 1, 1>>

InStep == \A j \in 1 .. Len(handled) : handled[j].packet # 0

\* The stream begins where the last message ended ...
Begins ==
  /\ Total > 0 => Byte(1) = <<Len(handled) + 1, IF part = "header" THEN 1 ELSE 5>>
  /\ part = "body" => /\ Len(handled) < Len(sent)
                      /\ header = HeaderOf(sent[Len(handled) + 1])

\* ... and, unless it was cut, ends with the last packet sent.
Ends ==
  ~cut => IF Total = 0 THEN part = "header" /\ Len(handled) = Len(sent)
                       ELSE Byte(Total) = <<Len(sent), Size(Len(sent))>>

\* What was handled until the connection got out of step.
Prefix ==
  \A k \in 1 .. Len(handled) :
    (\A j \in 1 .. k : handled[j].packet # 0)
      => k <= Len(sent) /\ handled[k] = [cmd |-> sent[k].cmd, packet |-> k]

\* Getting out of step, and the deadline, once a message was handled.
Limits ==
  /\ handled # <<>> => timer = "clear"
  /\ \A k \in 2 .. Len(handled) : handled[k].packet = 0 => cut
  /\ told => cut

StreamInv == TypeOK /\ Prefix /\ Limits /\ (InStep => Runs /\ Begins /\ Ends)

\* A packet is longer than its header.
LEMMA Sizes ==
  ASSUME TypeOK, NEW j \in 1 .. Len(sent)
  PROVE  sent[j] \in Packets /\ Size(j) \in Nat /\ Size(j) > 4 /\ Size(j) = 4 + sent[j].len
<1>1. sent[j] \in Packets
  BY ElementOfSeq DEF TypeOK, Packets
<1>2. sent[j].len \in Nat /\ sent[j].len > 0
  BY <1>1, GameConnAssumption, SMT DEF GameConnAssumption, Packets
<1>. QED BY <1>1, <1>2 DEF Size, GameHeaderSize

\* The stream has numbers for its length.
LEMMA TotalIsNat == TypeOK => Total \in Nat
BY NeededIsNat DEF Total

\* Places in a later part of the stream are places in the stream.
LEMMA Places ==
  ASSUME NEW a \in Nat, NEW b \in Nat, NEW s \in Nat, b <= a - s,
         NEW k \in 1 .. b, NEW d \in 0 .. b - k
  PROVE  /\ d \in 0 .. a - (k + s) /\ k + d \in 1 .. b
         /\ (k + d) + s = (k + s) + d
OBVIOUS

\* A later part of the stream runs like all of it.
LEMMA PartRuns ==
  ASSUME TypeOK, TypeOK', Runs, sent' = sent, NEW s \in Nat, Total' <= Total - s,
         \A k \in 1 .. Total' : Byte(k)' = Byte(k + s)
  PROVE  Runs'
<1>1. Total \in Nat /\ Total' \in Nat
  <2>1. (TypeOK => Total \in Nat)'
    BY TotalIsNat, PTL
  <2>. QED BY <2>1, TotalIsNat
<1>2. \A j : Size(j)' = Size(j)
  BY DEF Size
<1>. SUFFICES ASSUME NEW k \in 1 .. Total'
              PROVE  /\ Byte(k)' \in Nat \X Nat
                     /\ Byte(k)'[1] \in 1 .. Len(sent)
                     /\ Byte(k)'[2] \in 1 .. Size(Byte(k)'[1])
                     /\ \A d \in 0 .. Total' - k :
                          /\ Byte(k)'[2] + d <= Size(Byte(k)'[1])
                               => Byte(k + d)' = <<Byte(k)'[1], Byte(k)'[2] + d>>
                          /\ Byte(k)'[2] + d = Size(Byte(k)'[1]) + 1
                               => Byte(k + d)' = <<Byte(k)'[1] + 1, 1>>
  BY <1>2 DEF Runs
<1>3. k + s \in 1 .. Total /\ Byte(k)' = Byte(k + s)
  BY <1>1
<1>4. /\ Byte(k + s) \in Nat \X Nat
      /\ Byte(k + s)[1] \in 1 .. Len(sent) /\ Byte(k + s)[2] \in 1 .. Size(Byte(k + s)[1])
  BY <1>3 DEF Runs
<1>5. ASSUME NEW d \in 0 .. Total' - k
      PROVE  /\ Byte(k)'[2] + d <= Size(Byte(k)'[1])
                  => Byte(k + d)' = <<Byte(k)'[1], Byte(k)'[2] + d>>
             /\ Byte(k)'[2] + d = Size(Byte(k)'[1]) + 1
                  => Byte(k + d)' = <<Byte(k)'[1] + 1, 1>>
  <2>1. d \in 0 .. Total - (k + s) /\ k + d \in 1 .. Total' /\ (k + d) + s = (k + s) + d
    BY <1>1, Places
  <2>2. Byte(k + d)' = Byte((k + s) + d)
    BY <2>1
  <2>3. /\ Byte(k + s)[2] + d <= Size(Byte(k + s)[1])
             => Byte((k + s) + d) = <<Byte(k + s)[1], Byte(k + s)[2] + d>>
        /\ Byte(k + s)[2] + d = Size(Byte(k + s)[1]) + 1
             => Byte((k + s) + d) = <<Byte(k + s)[1] + 1, 1>>
    BY <1>3, <2>1 DEF Runs
  <2>. QED BY <1>3, <2>2, <2>3
<1>. QED BY <1>3, <1>4, <1>5

\* A packet is written behind the stream.
LEMMA WriteRuns ==
  ASSUME TypeOK, TypeOK', Runs, Ends, NEW p \in Packets, WritePacket(p)
  PROVE  /\ Runs'
         /\ Total' = Total + 4 + p.len /\ Total' > Total
         /\ \A k \in 1 .. Total : Byte(k)' = Byte(k)
         /\ Total = 0 => Byte(1)' = <<Len(sent) + 1, 1>>
         /\ Byte(Total)' = <<Len(sent) + 1, 4 + p.len>>
         /\ Len(sent') = Len(sent) + 1 /\ sent'[Len(sent) + 1] = p
         /\ \A j \in 1 .. Len(sent) : sent'[j] = sent[j]
<1>1. /\ Total \in Nat /\ Total' \in Nat /\ Len(buf) \in Nat /\ Len(net) \in Nat
      /\ Len(sent) \in Nat
  <2>1. (TypeOK => Total \in Nat)'
    BY TotalIsNat, PTL
  <2>. QED BY <2>1, TotalIsNat, NeededIsNat
<1>2. p.len \in Nat /\ p.len > 0
  BY GameConnAssumption, SMT DEF GameConnAssumption, Packets
<1>3. /\ Len(sent') = Len(sent) + 1 /\ sent'[Len(sent) + 1] = p
      /\ \A j \in 1 .. Len(sent) : sent'[j] = sent[j]
  BY AppendProperties DEF WritePacket, TypeOK, Packets
<1>4. buf' = buf /\ ~cut
  BY DEF WritePacket, serverVars
<1>5. /\ Len(net') = Len(net) + (4 + p.len)
      /\ \A k \in 1 .. Len(net) : net'[k] = net[k]
      /\ \A e \in 1 .. 4 + p.len : net'[Len(net) + e] = <<Len(sent) + 1, e>>
  <2>. DEFINE B == BytesOf(Len(sent) + 1, p)
  <2>1. net' = net \o B /\ net \in Seq(Nat \X Nat)
    BY <1>3 DEF WritePacket, TypeOK
  <2>2. Len(sent) + 1 \in Nat
    BY <1>1
  <2>3. /\ B \in Seq(Nat \X Nat) /\ Len(B) = 4 + p.len
        /\ \A k \in 1 .. 4 + p.len : B[k] = <<Len(sent) + 1, k>>
    BY <2>2, BytesAre DEF GameHeaderSize
  <2>. HIDE DEF B
  <2>a. Len(B) = 4 + p.len
    BY <2>3
  <2>4. /\ Len(net') = Len(net) + Len(B)
        /\ \A k \in 1 .. Len(net) + Len(B) :
             net'[k] = IF k <= Len(net) THEN net[k] ELSE B[k - Len(net)]
    BY <2>1, <2>3, ConcatProperties
  <2>5. ASSUME NEW e \in 1 .. 4 + p.len
        PROVE  net'[Len(net) + e] = <<Len(sent) + 1, e>>
    <3>1. Len(net) + e \in 1 .. Len(net) + Len(B) /\ ~(Len(net) + e <= Len(net))
          /\ Len(net) + e - Len(net) = e
      BY <1>1, <1>2, <2>a
    <3>2. net'[Len(net) + e] = B[Len(net) + e - Len(net)]
      BY <2>4, <3>1
    <3>. QED BY <2>3, <3>1, <3>2
  <2>6. ASSUME NEW k \in 1 .. Len(net)
        PROVE  net'[k] = net[k]
    <3>1. k \in 1 .. Len(net) + Len(B) /\ k <= Len(net)
      BY <1>1, <1>2, <2>3
    <3>. QED BY <2>4, <3>1
  <2>. QED BY <2>3, <2>4, <2>5, <2>6
<1>6. Total' = Total + 4 + p.len
  BY <1>1, <1>2, <1>4, <1>5 DEF Total
<1>7. ASSUME NEW k \in 1 .. Total
      PROVE  Byte(k)' = Byte(k)
  <2>1. CASE k <= Len(buf)
    BY <1>4, <2>1 DEF Byte
  <2>2. CASE ~(k <= Len(buf))
    <3>1. k - Len(buf) \in 1 .. Len(net)
      BY <1>1, <2>2 DEF Total
    <3>. QED BY <1>4, <1>5, <2>2, <3>1 DEF Byte
  <2>. QED BY <2>1, <2>2
<1>8. ASSUME NEW k, k - Total \in 1 .. 4 + p.len, k \in Nat
      PROVE  Byte(k)' = <<Len(sent) + 1, k - Total>>
  <2>1. ~(k <= Len(buf)) /\ k - Len(buf) = Len(net) + (k - Total)
    BY <1>1, <1>2, <1>8 DEF Total
  <2>2. Byte(k)' = net'[k - Len(buf)]
    BY <1>4, <2>1 DEF Byte
  <2>. QED BY <1>5, <1>8, <2>1, <2>2
<1>9. \A j \in 1 .. Len(sent) : Size(j)' = Size(j)
  BY <1>3 DEF Size
<1>10. \A j : j = Len(sent) + 1 => Size(j)' = 4 + p.len
  BY <1>3 DEF Size, GameHeaderSize
<1>11. ASSUME NEW k \in 1 .. Total'
       PROVE  /\ Byte(k)' \in Nat \X Nat
              /\ Byte(k)'[1] \in 1 .. Len(sent')
              /\ Byte(k)'[2] \in 1 .. Size(Byte(k)[1])'
              /\ \A d \in 0 .. Total' - k :
                   /\ Byte(k)'[2] + d <= Size(Byte(k)[1])'
                        => Byte(k + d)' = <<Byte(k)'[1], Byte(k)'[2] + d>>
                   /\ Byte(k)'[2] + d = Size(Byte(k)[1])' + 1
                        => Byte(k + d)' = <<Byte(k)'[1] + 1, 1>>
  <2>1. CASE k <= Total
    <3>1. k \in 1 .. Total /\ Byte(k)' = Byte(k)
      BY <1>7, <2>1, <1>1
    <3>2. /\ Byte(k) \in Nat \X Nat /\ Byte(k)[1] \in 1 .. Len(sent)
          /\ Byte(k)[2] \in 1 .. Size(Byte(k)[1])
      BY <3>1 DEF Runs
    <3>3. Size(Byte(k)[1])' = Size(Byte(k)[1]) /\ Size(Byte(k)[1]) \in Nat
      BY <1>9, <3>1, <3>2, Sizes
    <3>4. Byte(Total) = <<Len(sent), Size(Len(sent))>>
      BY <1>1, <1>4, <3>1 DEF Ends
    <3>5. ASSUME NEW d \in 0 .. Total' - k
          PROVE  /\ Byte(k)[2] + d <= Size(Byte(k)[1])
                      => Byte(k + d)' = <<Byte(k)[1], Byte(k)[2] + d>>
                 /\ Byte(k)[2] + d = Size(Byte(k)[1]) + 1
                      => Byte(k + d)' = <<Byte(k)[1] + 1, 1>>
      <4>1. CASE k + d <= Total
        <5>1. d \in 0 .. Total - k /\ k + d \in 1 .. Total
          BY <1>1, <4>1
        <5>2. Byte(k + d)' = Byte(k + d)
          BY <1>7, <5>1
        <5>. QED BY <3>1, <5>1, <5>2 DEF Runs
      <4>2. CASE k + d > Total
        <5>1. Total - k \in 0 .. Total - k /\ k + (Total - k) = Total /\ Total - k < d
          BY <1>1, <3>1, <4>2
        <5>2. Byte(k)[2] + (Total - k) <= Size(Byte(k)[1])
                => Byte(Total) = <<Byte(k)[1], Byte(k)[2] + (Total - k)>>
          BY <3>1, <5>1 DEF Runs
        <5>3. ASSUME Byte(k)[2] + d <= Size(Byte(k)[1])
              PROVE  FALSE
          <6>1. Byte(k)[2] + (Total - k) < Size(Byte(k)[1])
            BY <1>1, <3>2, <3>3, <5>1, <5>3
          <6>2. Byte(k)[1] = Len(sent) /\ Byte(k)[2] + (Total - k) = Size(Len(sent))
            BY <1>1, <3>2, <3>3, <3>4, <5>2, <6>1
          <6>. QED BY <1>1, <3>2, <3>3, <6>1, <6>2
        <5>4. ASSUME Byte(k)[2] + d = Size(Byte(k)[1]) + 1
              PROVE  Byte(k + d)' = <<Byte(k)[1] + 1, 1>>
          <6>1. Byte(k)[2] + (Total - k) <= Size(Byte(k)[1])
            BY <1>1, <3>2, <3>3, <5>1, <5>4
          <6>2. Byte(k)[1] = Len(sent) /\ Byte(k)[2] + (Total - k) = Size(Len(sent))
            BY <1>1, <3>2, <3>3, <3>4, <5>2, <6>1
          <6>3. k + d \in Nat /\ (k + d) - Total = 1 /\ 1 \in 1 .. 4 + p.len
            BY <1>1, <1>2, <3>2, <3>3, <5>4, <6>2
          <6>. QED BY <1>8, <6>2, <6>3
        <5>. QED BY <5>3, <5>4
      <4>. QED BY <1>1, <4>1, <4>2
    <3>6. Byte(k)[1] \in 1 .. Len(sent')
      BY <1>1, <1>3, <3>2
    <3>. QED BY <3>1, <3>2, <3>3, <3>5, <3>6
  <2>2. CASE ~(k <= Total)
    <3>1. k - Total \in 1 .. 4 + p.len /\ k \in Nat
      BY <1>1, <1>2, <1>6, <2>2
    <3>2. Byte(k)' = <<Len(sent) + 1, k - Total>>
      BY <1>8, <3>1
    <3>3. ASSUME NEW d \in 0 .. Total' - k
          PROVE  /\ (k - Total) + d <= 4 + p.len
                      => Byte(k + d)' = <<Len(sent) + 1, (k - Total) + d>>
                 /\ ~((k - Total) + d = (4 + p.len) + 1)
      <4>1. (k + d) - Total \in 1 .. 4 + p.len /\ (k - Total) + d = (k + d) - Total
            /\ k + d \in Nat
        BY <1>1, <1>2, <1>6, <3>1
      <4>2. ~((k - Total) + d = (4 + p.len) + 1)
        BY <1>1, <1>2, <4>1
      <4>. QED BY <1>8, <4>1, <4>2
    <3>4. Len(sent) + 1 \in 1 .. Len(sent') /\ k - Total \in Nat
      BY <1>1, <1>2, <1>3, <3>1
    <3>5. Byte(k)'[1] = Len(sent) + 1 /\ Byte(k)'[2] = k - Total
          /\ Size(Byte(k)[1])' = 4 + p.len /\ Byte(k)' \in Nat \X Nat
      BY <1>1, <1>10, <3>2, <3>4
    <3>. QED BY <3>1, <3>3, <3>4, <3>5
  <2>. QED BY <2>1, <2>2
<1>12. Runs'
  BY <1>11 DEF Runs
<1>13. Byte(Total)' = <<Len(sent) + 1, 4 + p.len>>
  <2>1. ASSUME NEW k, k = Total'
        PROVE  Byte(k)' = <<Len(sent) + 1, 4 + p.len>>
    <3>1. k - Total = 4 + p.len /\ k - Total \in 1 .. 4 + p.len /\ k \in Nat
      BY <1>1, <1>2, <1>6, <2>1
    <3>. QED BY <1>8, <3>1
  <2>. QED BY <2>1 DEF Byte
<1>14. Total = 0 => Byte(1)' = <<Len(sent) + 1, 1>>
  <2>1. Total = 0 => 1 - Total \in 1 .. 4 + p.len /\ 1 - Total = 1
    BY <1>2
  <2>. QED BY <1>8, <2>1
<1>15. Total' > Total
  BY <1>1, <1>2, <1>6
<1>. QED BY <1>3, <1>6, <1>7, <1>12, <1>13, <1>14, <1>15

\* A read leaves the stream as it is.
LEMMA ReadStream ==
  ASSUME TypeOK, Read
  PROVE  Total' = Total /\ \A k \in 1 .. Total : Byte(k)' = Byte(k)
<1>1. PICK n \in 1 .. Len(net) : /\ buf' = buf \o SubSeq(net, 1, n)
                                 /\ net' = SubSeq(net, n + 1, Len(net))
  BY DEF Read
<1>. DEFINE A == SubSeq(net, 1, n)
            B == SubSeq(net, n + 1, Len(net))
<1>2. /\ A \in Seq(Nat \X Nat) /\ Len(A) = n /\ \A k \in 1 .. n : A[k] = net[k]
      /\ Len(B) = Len(net) - n /\ \A k \in 1 .. Len(net) - n : B[k] = net[k + n]
      /\ buf' = buf \o A /\ net' = B /\ buf \in Seq(Nat \X Nat)
  BY <1>1, ReadMoves DEF TypeOK
<1>. HIDE DEF A, B
<1>3. /\ Len(buf') = Len(buf) + Len(A)
      /\ \A k \in 1 .. Len(buf) + Len(A) :
           buf'[k] = IF k <= Len(buf) THEN buf[k] ELSE A[k - Len(buf)]
  BY <1>2, ConcatProperties
<1>4. Len(buf) \in Nat /\ Len(net) \in Nat /\ n \in Nat /\ 1 <= n /\ n <= Len(net)
      /\ Len(A) = n /\ Len(B) = Len(net) - n
  BY <1>2, NeededIsNat
<1>5. Total = Len(buf) + Len(net) /\ Total' = Len(buf) + Len(A) + Len(B) /\ Total' = Total
  <2>1. Total = Len(buf) + Len(net) /\ Total' = Len(buf') + Len(net')
    BY DEF Total
  <2>2. Len(buf') = Len(buf) + Len(A) /\ Len(net') = Len(B)
    BY <1>2, <1>3
  <2>. QED BY <1>4, <2>1, <2>2
<1>6. ASSUME NEW k \in 1 .. Total
      PROVE  Byte(k)' = Byte(k)
  <2>0. k \in Nat /\ 1 <= k /\ k <= Len(buf) + Len(net)
    BY <1>4, <1>5
  <2>1. CASE k <= Len(buf)
    <3>1. k \in 1 .. Len(buf) + Len(A) /\ k <= Len(buf')
      BY <1>3, <1>4, <2>0, <2>1
    <3>. QED BY <1>3, <2>1, <3>1 DEF Byte
  <2>2. CASE k > Len(buf) /\ k <= Len(buf) + n
    <3>1. /\ k \in 1 .. Len(buf) + Len(A) /\ k <= Len(buf') /\ ~(k <= Len(buf))
          /\ k - Len(buf) \in 1 .. n
      BY <1>3, <1>4, <2>0, <2>2
    <3>2. buf'[k] = net[k - Len(buf)]
      BY <1>2, <1>3, <3>1
    <3>. QED BY <3>1, <3>2 DEF Byte
  <2>3. CASE k > Len(buf) + n
    <3>1. /\ ~(k <= Len(buf')) /\ ~(k <= Len(buf))
          /\ k - Len(buf') \in 1 .. Len(net) - n /\ (k - Len(buf')) + n = k - Len(buf)
      BY <1>3, <1>4, <2>0, <2>3
    <3>2. net'[k - Len(buf')] = net[k - Len(buf)]
      BY <1>2, <3>1
    <3>. QED BY <3>1, <3>2 DEF Byte
  <2>. QED BY <1>4, <2>0, <2>1, <2>2, <2>3
<1>. QED BY <1>5, <1>6

\* The stream begins with what is missing of the next packet.
LEMMA HeadRuns ==
  ASSUME TypeOK, Runs, Begins, Total > 0, NEW m \in {1, 5},
         m = IF part = "header" THEN 1 ELSE 5
  PROVE  /\ Len(handled) + 1 \in 1 .. Len(sent)
         /\ \A k \in 1 .. Total : m + (k - 1) <= Size(Len(handled) + 1)
              => Byte(k) = <<Len(handled) + 1, m + (k - 1)>>
<1>1. Total \in Nat /\ Len(handled) \in Nat
  BY TotalIsNat, NeededIsNat
<1>2. 1 \in 1 .. Total /\ \A k \in 1 .. Total : k - 1 \in 0 .. Total - 1 /\ 1 + (k - 1) = k
  BY <1>1
<1>3. Byte(1) = <<Len(handled) + 1, m>>
  BY DEF Begins
<1>4. Byte(1)[1] = Len(handled) + 1 /\ Byte(1)[2] = m
  BY <1>3
<1>5. /\ Byte(1)[1] \in 1 .. Len(sent)
      /\ \A d \in 0 .. Total - 1 :
           Byte(1)[2] + d <= Size(Byte(1)[1]) => Byte(1 + d) = <<Byte(1)[1], Byte(1)[2] + d>>
  BY <1>2 DEF Runs
<1>. QED BY <1>2, <1>4, <1>5

\* A complete part is the one of the next packet, and is taken off the stream.
LEMMA TakePart ==
  ASSUME TypeOK, TypeOK', Runs, Begins, Len(buf) > 0, sent' = sent, buf' = <<>>, net' = net
  PROVE  /\ Runs' /\ Total = Len(buf) + Total' /\ Total' \in Nat
         /\ \A k \in 1 .. Len(buf) : buf[k] = Byte(k)
         /\ \A k \in 1 .. Total' : Byte(k)' = Byte(k + Len(buf))
<1>1. /\ Len(buf) \in Nat /\ Len(net) \in Nat /\ Len(buf') = 0 /\ Len(net') = Len(net)
      /\ Total \in Nat
  BY NeededIsNat, TotalIsNat, EmptySeq
<1>2. Total = Len(buf) + Total' /\ Total' = Len(net) /\ Total' \in Nat
  BY <1>1 DEF Total
<1>3. ASSUME NEW k \in 1 .. Total'
      PROVE  Byte(k)' = Byte(k + Len(buf))
  <2>1. k \in 1 .. Len(net)
    BY <1>2
  <2>2. ~(k <= Len(buf')) /\ ~(k + Len(buf) <= Len(buf)) /\ k - Len(buf') = k
        /\ k + Len(buf) - Len(buf) = k
    BY <1>1, <2>1
  <2>. QED BY <2>2 DEF Byte
<1>4. Total' <= Total - Len(buf)
  BY <1>1, <1>2
<1>5. Runs'
  BY <1>1, <1>3, <1>4, PartRuns
<1>6. \A k \in 1 .. Len(buf) : buf[k] = Byte(k)
  BY <1>1 DEF Byte
<1>. QED BY <1>2, <1>3, <1>5, <1>6

\* A complete header is the next packet's.
LEMMA HeaderIsNext ==
  ASSUME StreamInv, InStep, part = "header", Len(buf) = GameHeaderSize
  PROVE  /\ Len(handled) + 1 \in 1 .. Len(sent)
         /\ \A i \in 1 .. Len(sent) : buf = HeaderBytes(i) <=> i = Len(handled) + 1
<1>1. TypeOK /\ Runs /\ Begins /\ Len(buf) = 4 /\ Len(net) \in Nat
  BY NeededIsNat DEF StreamInv, GameHeaderSize
<1>2. Total > 0 /\ \A k \in 1 .. 4 : k \in 1 .. Total /\ 1 + (k - 1) = k
  BY <1>1 DEF Total
<1>3. /\ Len(handled) + 1 \in 1 .. Len(sent)
      /\ \A k \in 1 .. Total : 1 + (k - 1) <= Size(Len(handled) + 1)
           => Byte(k) = <<Len(handled) + 1, 1 + (k - 1)>>
  BY <1>1, <1>2, HeadRuns
<1>4. Size(Len(handled) + 1) \in Nat /\ Size(Len(handled) + 1) > 4
  BY <1>1, <1>3, Sizes
<1>5. \A k \in 1 .. 4 : buf[k] = <<Len(handled) + 1, k>>
  <2>. SUFFICES ASSUME NEW k \in 1 .. 4
                PROVE  buf[k] = <<Len(handled) + 1, k>>
    OBVIOUS
  <2>1. buf[k] = Byte(k) /\ k <= Size(Len(handled) + 1)
    BY <1>1, <1>4 DEF Byte
  <2>. QED BY <1>2, <1>3, <2>1
<1>6. \A i : HeaderBytes(i) = [k \in 1 .. 4 |-> <<i, k>>]
  BY DEF HeaderBytes, GameHeaderSize
<1>7. buf = [k \in 1 .. 4 |-> buf[k]]
  BY <1>1, LenProperties DEF TypeOK
<1>8. buf = HeaderBytes(Len(handled) + 1)
  BY <1>5, <1>6, <1>7
<1>9. ASSUME NEW i \in 1 .. Len(sent), buf = HeaderBytes(i)
      PROVE  i = Len(handled) + 1
  <2>1. buf[1] = <<i, 1>> /\ buf[1] = <<Len(handled) + 1, 1>>
    BY <1>5, <1>6, <1>9
  <2>. QED BY <2>1
<1>. QED BY <1>3, <1>8, <1>9

\* A complete body is the next packet's.
LEMMA BodyIsNext ==
  ASSUME StreamInv, InStep, part = "body", Len(buf) = Needed
  PROVE  /\ Len(handled) + 1 \in 1 .. Len(sent)
         /\ header = HeaderOf(sent[Len(handled) + 1])
         /\ Len(buf) = sent[Len(handled) + 1].len /\ Len(buf) > 0
         /\ GetCmd(header) = sent[Len(handled) + 1].cmd
         /\ \A i \in 1 .. Len(sent) : buf = BodyBytes(i) <=> i = Len(handled) + 1
<1>1. /\ TypeOK /\ Runs /\ Begins /\ Len(net) \in Nat /\ Len(buf) \in Nat
      /\ Len(handled) \in Nat /\ Len(sent) \in Nat
  BY NeededIsNat DEF StreamInv
<1>2. Len(handled) + 1 \in 1 .. Len(sent) /\ header = HeaderOf(sent[Len(handled) + 1])
  BY <1>1 DEF Begins
<1>3. /\ sent[Len(handled) + 1] \in Packets /\ Size(Len(handled) + 1) \in Nat
      /\ Size(Len(handled) + 1) = 4 + sent[Len(handled) + 1].len
      /\ Size(Len(handled) + 1) > 4
  BY <1>1, <1>2, Sizes
<1>4. Len(buf) = sent[Len(handled) + 1].len /\ GetCmd(header) = sent[Len(handled) + 1].cmd
  BY <1>2, <1>3, HeaderRoundTrip DEF Needed
<1>5. Len(buf) > 0 /\ Size(Len(handled) + 1) = 4 + Len(buf)
  BY <1>1, <1>3, <1>4
<1>6. Total > 0 /\ \A k \in 1 .. Len(buf) : k \in 1 .. Total /\ 5 + (k - 1) = 4 + k
                                            /\ 4 + k <= 4 + Len(buf)
  BY <1>1, <1>5 DEF Total
<1>7. \A k \in 1 .. Total : 5 + (k - 1) <= Size(Len(handled) + 1)
        => Byte(k) = <<Len(handled) + 1, 5 + (k - 1)>>
  BY <1>1, <1>6, HeadRuns
<1>8. \A k \in 1 .. Len(buf) : buf[k] = <<Len(handled) + 1, 4 + k>>
  <2>. SUFFICES ASSUME NEW k \in 1 .. Len(buf)
                PROVE  buf[k] = <<Len(handled) + 1, 4 + k>>
    OBVIOUS
  <2>1. buf[k] = Byte(k)
    BY <1>1 DEF Byte
  <2>. QED BY <1>5, <1>6, <1>7, <2>1
<1>9. \A i : BodyBytes(i) = [k \in 1 .. sent[i].len |-> <<i, 4 + k>>]
  BY DEF BodyBytes, GameHeaderSize
<1>10. buf = [k \in 1 .. Len(buf) |-> buf[k]]
  BY <1>1, LenProperties DEF TypeOK
<1>11. buf = BodyBytes(Len(handled) + 1)
  BY <1>4, <1>8, <1>9, <1>10
<1>12. ASSUME NEW i \in 1 .. Len(sent), buf = BodyBytes(i)
       PROVE  i = Len(handled) + 1
  <2>1. sent[i].len \in Nat /\ sent[i].len > 0
    BY <1>1, Sizes, GameConnAssumption, SMT DEF Packets, GameConnAssumption
  <2>2. 1 \in 1 .. sent[i].len /\ 1 \in 1 .. Len(buf)
    BY <1>1, <1>5, <2>1
  <2>3. buf[1] = <<i, 4 + 1>> /\ buf[1] = <<Len(handled) + 1, 4 + 1>>
    BY <1>8, <1>9, <1>12, <2>2
  <2>. QED BY <2>3
<1>. QED BY <1>2, <1>4, <1>5, <1>11, <1>12

-----------------------------------------------------------------------------
(***************************************************************************)
(* The steps.                                                              *)
(***************************************************************************)
\* A handled message is the last one.
LEMMA HandledGrows ==
  ASSUME TypeOK, NEW packet \in Nat, Dispatch(packet)
  PROVE  /\ Len(handled') = Len(handled) + 1 /\ Len(handled) \in Nat
         /\ \A j \in 1 .. Len(handled) : handled'[j] = handled[j]
         /\ handled'[Len(handled) + 1] = [cmd |-> GetCmd(header), packet |-> packet]
<1>1. [cmd |-> GetCmd(header), packet |-> packet] \in [cmd : Nat, packet : Nat]
  BY LengthIsNat DEF TypeOK
<1>. QED BY <1>1, AppendProperties, NeededIsNat DEF Dispatch, TypeOK

\* What was handled before stays what it was, and the message handled now is
\* the next packet or puts the connection out of step, as it did before.
LEMMA DispatchPrefix ==
  ASSUME StreamInv, NEW packet \in Nat, Dispatch(packet),
         InStep /\ packet # 0 => /\ packet = Len(handled) + 1 /\ packet <= Len(sent)
                                 /\ GetCmd(header) = sent[packet].cmd
  PROVE  Prefix'
<1>1. sent' = sent
  BY DEF Dispatch, clientVars
<1>2. /\ Len(handled') = Len(handled) + 1 /\ Len(handled) \in Nat
      /\ \A j \in 1 .. Len(handled) : handled'[j] = handled[j]
      /\ handled'[Len(handled) + 1] = [cmd |-> GetCmd(header), packet |-> packet]
  BY HandledGrows DEF StreamInv
<1>. SUFFICES ASSUME NEW k \in 1 .. Len(handled'), \A j \in 1 .. k : handled'[j].packet # 0
              PROVE  k <= Len(sent) /\ handled'[k] = [cmd |-> sent[k].cmd, packet |-> k]
  BY <1>1 DEF Prefix
<1>3. CASE k <= Len(handled)
  <2>1. k \in 1 .. Len(handled) /\ \A j \in 1 .. k : j \in 1 .. Len(handled)
    BY <1>2, <1>3
  <2>2. \A j \in 1 .. k : handled[j].packet # 0
    BY <1>2, <2>1
  <2>. QED BY <1>2, <2>1, <2>2 DEF StreamInv, Prefix
<1>4. CASE ~(k <= Len(handled))
  <2>1. k = Len(handled) + 1 /\ \A j \in 1 .. Len(handled) : j \in 1 .. k
    BY <1>2, <1>4
  <2>2. InStep
    BY <1>2, <2>1 DEF InStep
  <2>3. packet # 0
    <3>1. k \in 1 .. k
      BY <1>2, <2>1
    <3>. QED BY <1>2, <2>1, <3>1
  <2>. QED BY <1>2, <2>1, <2>2, <2>3
<1>. QED BY <1>3, <1>4

\* An empty message after the first is handled only when the connection is cut.
LEMMA DispatchLimits ==
  ASSUME StreamInv, NEW packet \in Nat, Dispatch(packet), packet = 0 => ReadError
  PROVE  Limits' /\ (InStep' => InStep /\ packet # 0)
<1>1. timer' = "clear" /\ (cut => cut') /\ (told' => told \/ cut')
  BY DEF Dispatch, clientVars
<1>2. /\ Len(handled') = Len(handled) + 1 /\ Len(handled) \in Nat
      /\ \A j \in 1 .. Len(handled) : handled'[j] = handled[j]
      /\ handled'[Len(handled) + 1].packet = packet
  <2>1. TypeOK
    BY DEF StreamInv
  <2>2. /\ Len(handled') = Len(handled) + 1 /\ Len(handled) \in Nat
        /\ \A j \in 1 .. Len(handled) : handled'[j] = handled[j]
        /\ handled'[Len(handled) + 1] = [cmd |-> GetCmd(header), packet |-> packet]
    BY <2>1, HandledGrows
  <2>3. handled'[Len(handled) + 1].packet = packet
    BY <2>2
  <2>. QED BY <2>2, <2>3
<1>3. ASSUME NEW k \in 2 .. Len(handled'), handled'[k].packet = 0
      PROVE  cut
  <2>1. CASE k <= Len(handled)
    <3>1. k \in 2 .. Len(handled) /\ k \in 1 .. Len(handled)
      BY <1>2, <2>1
    <3>. QED BY <1>2, <1>3, <3>1 DEF StreamInv, Limits
  <2>2. CASE ~(k <= Len(handled))
    <3>1. k = Len(handled) + 1 /\ Len(handled) > 0
      BY <1>2, <2>2
    <3>2. handled # <<>>
      BY <3>1, EmptySeq
    <3>3. timer = "clear"
      BY <3>2 DEF StreamInv, Limits
    <3>4. told
      BY <1>2, <1>3, <3>1, <3>3 DEF ReadError
    <3>. QED BY <3>4 DEF StreamInv, Limits
  <2>. QED BY <2>1, <2>2
<1>4. ASSUME InStep'
      PROVE  InStep /\ packet # 0
  <2>1. \A j \in 1 .. Len(handled) : j \in 1 .. Len(handled')
    BY <1>2
  <2>2. Len(handled) + 1 \in 1 .. Len(handled')
    BY <1>2
  <2>. QED BY <1>2, <1>4, <2>1, <2>2 DEF InStep
<1>5. told' => cut'
  BY <1>1 DEF StreamInv, Limits
<1>. QED BY <1>1, <1>3, <1>4, <1>5 DEF Limits

\* Handling the next packet.
LEMMA BodyKeepsStream ==
  ASSUME StreamInv, TypeOK', InStep, part = "body", Len(buf) = Needed,
         Dispatch(Len(handled) + 1)
  PROVE  Runs' /\ Begins' /\ Ends'
<1>1. /\ TypeOK /\ Runs /\ Begins /\ Ends /\ Len(handled) \in Nat /\ Len(buf) \in Nat
      /\ Total \in Nat /\ Len(sent) \in Nat
  BY NeededIsNat, TotalIsNat DEF StreamInv
<1>2. /\ Len(handled) + 1 \in 1 .. Len(sent) /\ Len(buf) > 0
      /\ Len(buf) = sent[Len(handled) + 1].len
  BY BodyIsNext
<1>3. Len(handled') = Len(handled) + 1 /\ sent' = sent /\ buf' = <<>> /\ part' = "header"
  BY <1>1, HandledGrows DEF Dispatch, clientVars
<1>4. CASE net' = net /\ cut' = cut
  <2>1. /\ Runs' /\ Total = Len(buf) + Total' /\ Total' \in Nat
        /\ \A k \in 1 .. Total' : Byte(k)' = Byte(k + Len(buf))
    BY <1>1, <1>2, <1>3, <1>4, TakePart
  <2>2. Total > 0 /\ Size(Len(handled) + 1) = 4 + Len(buf)
    BY <1>1, <1>2, <2>1, Sizes
  <2>3. Len(buf) \in 1 .. Total /\ 5 + (Len(buf) - 1) = 4 + Len(buf)
        /\ 4 + Len(buf) <= 4 + Len(buf)
    BY <1>1, <1>2, <2>1
  <2>4. Byte(Len(buf)) = <<Len(handled) + 1, 4 + Len(buf)>>
    BY <1>1, <2>2, <2>3, HeadRuns
  <2>5. Begins'
    <3>1. ASSUME Total' > 0
          PROVE  Byte(1)' = <<Len(handled) + 2, 1>>
      <4>1. 1 \in 1 .. Total' /\ 1 \in 0 .. Total - Len(buf) /\ 1 + Len(buf) = Len(buf) + 1
        BY <1>1, <2>1, <3>1
      <4>2. Byte(1)' = Byte(Len(buf) + 1)
        BY <2>1, <4>1
      <4>3. Byte(Len(buf))[2] + 1 = Size(Byte(Len(buf))[1]) + 1
              => Byte(Len(buf) + 1) = <<Byte(Len(buf))[1] + 1, 1>>
        BY <1>1, <2>3, <4>1 DEF Runs
      <4>4. Byte(Len(buf))[1] = Len(handled) + 1 /\ Byte(Len(buf))[2] = 4 + Len(buf)
        BY <2>4
      <4>5. Len(handled) + 1 + 1 = Len(handled) + 2
        BY <1>1
      <4>. QED BY <2>2, <4>2, <4>3, <4>4, <4>5
    <3>2. Len(handled) + 2 = Len(handled') + 1
      BY <1>1, <1>3
    <3>. QED BY <1>3, <3>1, <3>2 DEF Begins
  <2>6. Ends'
    <3>. SUFFICES ASSUME ~cut
                  PROVE  IF Total' = 0 THEN Len(handled') = Len(sent)
                                       ELSE Byte(Total)' = <<Len(sent), Size(Len(sent))>>
      BY <1>3, <1>4 DEF Ends, Size
    <3>1. Byte(Total) = <<Len(sent), Size(Len(sent))>>
      BY <1>1, <2>2 DEF Ends
    <3>2. CASE Total' = 0
      <4>1. Total = Len(buf)
        BY <1>1, <2>1, <3>2
      <4>2. Len(handled) + 1 = Len(sent)
        BY <2>4, <3>1, <4>1
      <4>. QED BY <1>3, <3>2, <4>2
    <3>3. CASE Total' # 0
      <4>1. ASSUME NEW k, k = Total'
            PROVE  Byte(k)' = <<Len(sent), Size(Len(sent))>>
        <5>1. k \in 1 .. Total' /\ k + Len(buf) = Total
          BY <1>1, <2>1, <3>3, <4>1
        <5>. QED BY <2>1, <3>1, <5>1
      <4>. QED BY <3>3, <4>1 DEF Byte
    <3>. QED BY <3>2, <3>3
  <2>. QED BY <2>1, <2>5, <2>6
<1>5. CASE net' = <<>> /\ cut'
  <2>1. Total' = 0
    BY <1>3, <1>5, EmptySeq DEF Total
  <2>2. Runs'
    BY <2>1 DEF Runs
  <2>. QED BY <1>3, <1>5, <2>1, <2>2 DEF Begins, Ends
<1>. QED BY <1>4, <1>5 DEF Dispatch, clientVars

\* Places behind a header.
LEMMA BehindHeader ==
  ASSUME NEW a \in Nat, NEW b \in Nat, b = a - 4
  PROVE  /\ b > 0 => 1 \in 1 .. b /\ 5 \in 1 .. a
         /\ b = 0 => a = 4 /\ 4 \in 1 .. a
         /\ b # 0 => b \in 1 .. b /\ b + 4 = a
OBVIOUS

\* The next header.
LEMMA HeaderKeepsStream ==
  ASSUME StreamInv, TypeOK', InStep, ReadHeader
  PROVE  Runs' /\ Begins' /\ Ends'
<1>1. /\ TypeOK /\ Runs /\ Begins /\ Ends /\ Len(handled) \in Nat /\ Len(buf) \in Nat
      /\ Total \in Nat /\ Len(sent) \in Nat
  BY NeededIsNat, TotalIsNat DEF StreamInv
<1>2. /\ part = "header" /\ Len(buf) = GameHeaderSize /\ GameHeaderSize = 4 /\ Len(buf) = 4
      /\ buf' = <<>> /\ part' = "body" /\ UNCHANGED <<sent, net, cut, told, handled>>
  BY DEF ReadHeader, clientVars, GameHeaderSize
<1>3. /\ Len(handled) + 1 \in 1 .. Len(sent)
      /\ \A i \in 1 .. Len(sent) : buf = HeaderBytes(i) <=> i = Len(handled) + 1
  BY <1>2, HeaderIsNext
<1>4. header' = HeaderOf(sent[Len(handled) + 1])
  BY <1>3 DEF ReadHeader
<1>5. /\ Runs' /\ Total = 4 + Total' /\ Total' \in Nat
      /\ \A k \in 1 .. Total' : Byte(k)' = Byte(k + 4)
  <2>1. Len(buf) > 0
    BY <1>2
  <2>. QED BY <1>1, <1>2, <2>1, TakePart
<1>a. Total' = Total - 4 /\ Total' \in Nat /\ Total > 0
  <2>1. Total = Len(buf) + Len(net) /\ Total' = Len(net) /\ Len(net) \in Nat
    BY <1>1, <1>2, NeededIsNat, EmptySeq DEF Total
  <2>. QED BY <1>2, <2>1
<1>6. Size(Len(handled) + 1) \in Nat /\ Size(Len(handled) + 1) > 4
  BY <1>1, <1>3, Sizes
<1>7. \A k \in 1 .. Total : 1 + (k - 1) <= Size(Len(handled) + 1)
        => Byte(k) = <<Len(handled) + 1, 1 + (k - 1)>>
  <2>. QED BY <1>1, <1>2, <1>a, HeadRuns
<1>8. Begins'
  <2>1. ASSUME Total' > 0
        PROVE  Byte(1)' = <<Len(handled) + 1, 5>>
    <3>0. 1 + 4 = 5 /\ 1 + (5 - 1) = 5 /\ 5 <= Size(Len(handled) + 1)
      BY <1>6
    <3>1. 1 \in 1 .. Total' /\ 5 \in 1 .. Total
      BY <1>1, <1>a, <2>1, BehindHeader
    <3>2. Byte(1)' = Byte(5)
      BY <1>5, <3>0, <3>1
    <3>. QED BY <1>7, <3>0, <3>1, <3>2
  <2>2. Len(handled) < Len(sent)
    BY <1>1, <1>3
  <2>. QED BY <1>2, <1>4, <2>1, <2>2 DEF Begins
<1>9. Ends'
  <2>. SUFFICES ASSUME ~cut
                PROVE  Total' # 0 /\ Byte(Total)' = <<Len(sent), Size(Len(sent))>>
    BY <1>2 DEF Ends, Size
  <2>1. Byte(Total) = <<Len(sent), Size(Len(sent))>>
    BY <1>1, <1>a DEF Ends
  <2>2. ASSUME Total' = 0
        PROVE  FALSE
    <3>0. 1 + (4 - 1) = 4 /\ 4 <= Size(Len(handled) + 1)
      BY <1>6
    <3>1. Total = 4 /\ 4 \in 1 .. Total
      BY <1>1, <1>a, <2>2, BehindHeader
    <3>2. Byte(Total) = <<Len(handled) + 1, 4>>
      BY <1>7, <3>0, <3>1
    <3>3. Len(sent) = Len(handled) + 1 /\ Size(Len(sent)) = 4
      BY <2>1, <3>2
    <3>. QED BY <1>6, <3>3
  <2>3. ASSUME NEW k, k = Total'
        PROVE  Byte(k)' = <<Len(sent), Size(Len(sent))>>
    <3>1. k \in 1 .. Total' /\ k + 4 = Total
      BY <1>1, <1>a, <2>2, <2>3, BehindHeader
    <3>. QED BY <1>5, <2>1, <3>1
  <2>. QED BY <2>2, <2>3 DEF Byte
<1>. QED BY <1>5, <1>8, <1>9

\* Writing a packet.
LEMMA WriteKeepsStream ==
  ASSUME StreamInv, TypeOK', NEW p \in Packets, WritePacket(p)
  PROVE  Prefix' /\ Limits' /\ (InStep' => Runs' /\ Begins' /\ Ends')
<1>1. TypeOK /\ Len(handled) \in Nat /\ Len(sent) \in Nat /\ Total \in Nat
  BY NeededIsNat, TotalIsNat DEF StreamInv
<1>2. /\ Len(sent') = Len(sent) + 1 /\ sent'[Len(sent) + 1] = p
      /\ \A j \in 1 .. Len(sent) : sent'[j] = sent[j]
  BY <1>1, AppendProperties DEF WritePacket, TypeOK, Packets
<1>3. UNCHANGED <<cut, told, timer, part, header, handled>> /\ ~cut
  BY DEF WritePacket, serverVars
<1>4. Limits'
  BY <1>3 DEF StreamInv, Limits
<1>5. Prefix'
  <2>. SUFFICES ASSUME NEW k \in 1 .. Len(handled), \A j \in 1 .. k : handled[j].packet # 0
                PROVE  k <= Len(sent') /\ handled[k] = [cmd |-> sent'[k].cmd, packet |-> k]
    BY <1>3 DEF Prefix
  <2>1. k <= Len(sent) /\ handled[k] = [cmd |-> sent[k].cmd, packet |-> k]
    BY DEF StreamInv, Prefix
  <2>2. k \in 1 .. Len(sent) /\ k <= Len(sent')
    BY <1>1, <1>2, <2>1
  <2>. QED BY <1>2, <2>1, <2>2
<1>6. ASSUME InStep'
      PROVE  Runs' /\ Begins' /\ Ends'
  <2>1. InStep /\ Runs /\ Begins /\ Ends
    BY <1>3, <1>6 DEF InStep, StreamInv
  <2>2. /\ Runs' /\ Total' = Total + 4 + p.len /\ Total' > Total
        /\ \A k \in 1 .. Total : Byte(k)' = Byte(k)
        /\ Total = 0 => Byte(1)' = <<Len(sent) + 1, 1>>
        /\ Byte(Total)' = <<Len(sent) + 1, 4 + p.len>>
    BY <1>1, <2>1, WriteRuns
  <2>3. Begins'
    <3>1. Byte(1)' = <<Len(handled) + 1, IF part = "header" THEN 1 ELSE 5>>
      <4>1. CASE Total = 0
        BY <1>3, <2>1, <2>2, <4>1 DEF Ends
      <4>2. CASE Total # 0
        <5>1. 1 \in 1 .. Total /\ Total > 0
          BY <1>1, <4>2
        <5>. QED BY <2>1, <2>2, <5>1 DEF Begins
      <4>. QED BY <4>1, <4>2
    <3>2. part = "body" => /\ Len(handled) < Len(sent')
                           /\ header = HeaderOf(sent'[Len(handled) + 1])
      <4>1. part = "body" => Len(handled) + 1 \in 1 .. Len(sent) /\ Len(handled) < Len(sent')
        BY <1>1, <1>2, <2>1 DEF Begins
      <4>. QED BY <1>2, <2>1, <4>1 DEF Begins
    <3>. QED BY <1>3, <3>1, <3>2 DEF Begins
  <2>4. Ends'
    <3>1. \A j : j = Len(sent') => Size(j)' = 4 + p.len
      BY <1>2 DEF Size, GameHeaderSize
    <3>2. Size(Len(sent))' = 4 + p.len
      BY <3>1 DEF Size
    <3>3. Total' # 0
      BY <1>1, <2>2
    <3>. QED BY <1>2, <2>2, <3>2, <3>3 DEF Ends
  <2>. QED BY <2>2, <2>3, <2>4
<1>. QED BY <1>4, <1>5, <1>6

\* Cutting the connection.
LEMMA CutKeepsStream ==
  ASSUME StreamInv, TypeOK', Cut
  PROVE  Prefix' /\ Limits' /\ (InStep' => Runs' /\ Begins' /\ Ends')
<1>1. TypeOK /\ Len(net) \in Nat /\ Len(buf) \in Nat /\ Total = Len(buf) + Len(net)
      /\ Total \in Nat
  BY NeededIsNat, TotalIsNat DEF StreamInv, Total
<1>2. UNCHANGED <<sent, timer, part, header, buf, handled>> /\ cut'
  BY DEF Cut, serverVars
<1>3. Prefix' /\ Limits'
  BY <1>2 DEF StreamInv, Prefix, Limits
<1>4. PICK n \in 0 .. Len(net) : net' = SubSeq(net, 1, n)
  BY DEF Cut
<1>5. Len(net') = n /\ \A k \in 1 .. n : net'[k] = net[k]
  <2>1. CASE n = 0
    BY <1>4, <2>1, SubSeqEmpty, EmptySeq
  <2>2. CASE n # 0
    <3>1. n \in 1 .. Len(net)
      BY <1>1, <2>2
    <3>. QED BY <1>1, <1>4, <3>1, ReadMoves
  <2>. QED BY <2>1, <2>2
<1>6. Total' = Len(buf) + n
  BY <1>2, <1>5 DEF Total
<1>7. Total' <= Total - 0
  BY <1>1, <1>6
<1>8. ASSUME NEW k \in 1 .. Total'
      PROVE  Byte(k)' = Byte(k) /\ k + 0 = k
  <2>0. k \in Nat
    BY <1>1, <1>6
  <2>1. CASE k <= Len(buf)
    BY <1>2, <2>0, <2>1 DEF Byte
  <2>2. CASE ~(k <= Len(buf))
    <3>1. k - Len(buf) \in 1 .. n
      BY <1>1, <1>6, <2>2
    <3>. QED BY <1>2, <1>5, <2>0, <2>2, <3>1 DEF Byte
  <2>. QED BY <2>1, <2>2
<1>9. ASSUME InStep'
      PROVE  Runs' /\ Begins' /\ Ends'
  <2>1. Runs /\ Begins
    BY <1>2, <1>9 DEF InStep, StreamInv
  <2>2. Runs'
    <3>1. \A k \in 1 .. Total' : Byte(k)' = Byte(k + 0)
      BY <1>8
    <3>. QED BY <1>1, <1>2, <1>7, <2>1, <3>1, PartRuns
  <2>3. Total' > 0 => Total > 0 /\ 1 \in 1 .. Total'
    BY <1>1, <1>6
  <2>. QED BY <1>2, <1>8, <2>1, <2>2, <2>3 DEF Begins, Ends
<1>. QED BY <1>3, <1>9

\* A step that moves no byte keeps the stream.
LEMMA IdleKeepsStream ==
  ASSUME StreamInv, UNCHANGED <<sent, net, cut, told, part, header, buf, handled>>
  PROVE  Prefix' /\ (InStep' => Runs' /\ Begins' /\ Ends')
<1>1. Total' = Total /\ (\A k : Byte(k)' = Byte(k)) /\ (\A j : Size(j)' = Size(j))
  BY DEF Total, Byte, Size
<1>2. Prefix' /\ (InStep' <=> InStep)
  BY DEF StreamInv, Prefix, InStep
<1>3. Runs' <=> Runs
  BY <1>1 DEF Runs
<1>4. Byte(Total)' = Byte(Total) /\ Size(Len(sent))' = Size(Len(sent))
  BY DEF Byte, Total, Size
<1>5. (Begins' <=> Begins) /\ (Ends' <=> Ends)
  BY <1>1, <1>4 DEF Begins, Ends
<1>. QED BY <1>2, <1>3, <1>5 DEF StreamInv

\* Every step keeps the stream.
LEMMA StreamStep == StreamInv /\ [Next]_vars => StreamInv'
<1>. SUFFICES ASSUME StreamInv, [Next]_vars
              PROVE  StreamInv'
  OBVIOUS
<1>1. TypeOK /\ TypeOK'
  BY TypesStep DEF StreamInv
<1>2. Len(handled) \in Nat /\ Len(sent) \in Nat /\ Total \in Nat
  BY <1>1, NeededIsNat, TotalIsNat
<1>3. CASE \E p \in Packets : WritePacket(p)
  BY <1>1, <1>3, WriteKeepsStream DEF StreamInv
<1>4. CASE Cut
  BY <1>1, <1>4, CutKeepsStream DEF StreamInv
<1>5. CASE Expire
  <2>1. UNCHANGED <<sent, net, cut, told, part, header, buf, handled, conn>> /\ timer # "clear"
    BY <1>5 DEF Expire, clientVars
  <2>2. handled = <<>>
    BY <2>1 DEF StreamInv, Limits
  <2>3. \A k \in 2 .. Len(handled) : FALSE
    BY <2>2, EmptySeq
  <2>4. Limits'
    BY <2>1, <2>2, <2>3 DEF StreamInv, Limits
  <2>. QED BY <1>1, <2>1, <2>4, IdleKeepsStream DEF StreamInv
<1>6. CASE Read
  <2>1. UNCHANGED <<sent, cut, told, timer, part, header, handled>>
    BY <1>6 DEF Read
  <2>2. Total' = Total /\ \A k \in 1 .. Total : Byte(k)' = Byte(k)
    BY <1>1, <1>6, ReadStream
  <2>3. Prefix' /\ Limits'
    BY <2>1 DEF StreamInv, Prefix, Limits
  <2>4. ASSUME InStep'
        PROVE  Runs' /\ Begins' /\ Ends'
    <3>1. Runs /\ Begins /\ Ends
      BY <2>1, <2>4 DEF StreamInv, InStep
    <3>2. Runs'
      <4>1. \A k \in 1 .. Total' : Byte(k)' = Byte(k + 0)
        BY <1>2, <2>2
      <4>2. Total' <= Total - 0
        BY <1>2, <2>2
      <4>. QED BY <1>1, <2>1, <3>1, <4>1, <4>2, PartRuns
    <3>3. Total > 0 => 1 \in 1 .. Total /\ Total \in 1 .. Total
      BY <1>2
    <3>4. Total > 0 => Byte(Total)' = Byte(Total)
      <4>1. ASSUME NEW k, k = Total, Total > 0
            PROVE  Byte(k)' = Byte(k)
        BY <2>2, <3>3, <4>1
      <4>. QED BY <2>2, <4>1 DEF Byte
    <3>5. ~(Total > 0) => Total = 0
      BY <1>2
    <3>. QED BY <2>1, <2>2, <3>1, <3>2, <3>3, <3>4, <3>5 DEF Begins, Ends, Size
  <2>. QED BY <1>1, <2>3, <2>4 DEF StreamInv
<1>7. CASE ReadHeader
  <2>1. UNCHANGED <<sent, cut, told, timer, handled>>
    BY <1>7 DEF ReadHeader, clientVars
  <2>2. Prefix' /\ Limits' /\ (InStep' => InStep)
    BY <2>1 DEF StreamInv, Prefix, Limits, InStep
  <2>. QED BY <1>1, <1>7, <2>2, HeaderKeepsStream DEF StreamInv
<1>8. CASE ReadBody
  <2>1. PICK i \in 1 .. Len(sent) : buf = BodyBytes(i) /\ Dispatch(i)
    BY <1>8 DEF ReadBody
  <2>2. part = "body" /\ Len(buf) = Needed /\ i \in Nat /\ i # 0
    BY <1>2, <1>8 DEF ReadBody
  <2>3. InStep => /\ i = Len(handled) + 1 /\ i <= Len(sent) /\ GetCmd(header) = sent[i].cmd
    BY <1>2, <2>1, <2>2, BodyIsNext
  <2>4. Prefix'
    BY <2>1, <2>2, <2>3, DispatchPrefix
  <2>5. Limits' /\ (InStep' => InStep)
    BY <2>1, <2>2, DispatchLimits
  <2>6. InStep' => Runs' /\ Begins' /\ Ends'
    BY <1>1, <2>1, <2>2, <2>3, <2>5, BodyKeepsStream
  <2>. QED BY <1>1, <2>4, <2>5, <2>6 DEF StreamInv
<1>9. CASE FailBody
  <2>1. ReadError /\ Dispatch(0) /\ 0 \in Nat
    BY <1>9 DEF FailBody
  <2>. QED BY <1>1, <2>1, DispatchPrefix, DispatchLimits DEF StreamInv
<1>10. CASE RefuseBody \/ FailHeader \/ UNCHANGED vars
  <2>1. UNCHANGED <<sent, net, cut, told, timer, part, header, buf, handled>>
    BY <1>10 DEF RefuseBody, FailHeader, vars, clientVars, serverVars
  <2>2. Limits'
    BY <2>1 DEF StreamInv, Limits
  <2>. QED BY <1>1, <2>1, <2>2, IdleKeepsStream DEF StreamInv
<1>. QED BY <1>3, <1>4, <1>5, <1>6, <1>7, <1>8, <1>9, <1>10 DEF Next, ServerStep, Packets

\* At first the stream is empty.
LEMMA StreamHoldsFirst == Init => StreamInv
<1>. SUFFICES ASSUME Init
              PROVE  StreamInv
  OBVIOUS
<1>1. TypeOK
  BY TypesHoldFirst
<1>2. Len(handled) = 0 /\ Len(sent) = 0 /\ Total = 0 /\ part = "header" /\ handled = <<>> /\ told = FALSE
  BY EmptySeq DEF Init, Total
<1>. QED BY <1>1, <1>2 DEF StreamInv, Prefix, Limits, Runs, Begins, Ends

-----------------------------------------------------------------------------
(***************************************************************************)
(* The theorems.                                                           *)
(***************************************************************************)
\* However the network cuts the stream into pieces and whatever the packets,
\* the messages handled are the packets sent, in order and whole, up to the
\* first empty message (GameTransfer.read and ReadPacket).
THEOREM HandledAsSentHolds == Spec => []HandledAsSent
<1>1. StreamInv => HandledAsSent
  BY DEF StreamInv, Prefix, HandledAsSent
<1>. QED BY <1>1, StreamHoldsFirst, StreamStep, PTL DEF Spec

\* Once a packet was handled in step, the time limit is gone and no message is
\* refused: only a lost connection is closed (GameService.go:46-53).
THEOREM LimitOnlyForFirstHolds == Spec => LimitOnlyForFirst
<1>1. ASSUME StreamInv, [Next]_vars, conn = "open", conn' = "closed", handled # <<>>
      PROVE  cut \/ handled[1].packet = 0
  <2>1. timer = "clear"
    BY <1>1 DEF StreamInv, Limits
  <2>2. CASE FailHeader
    BY <1>1, <2>1, <2>2 DEF FailHeader, ReadError, StreamInv, Limits
  <2>3. CASE RefuseBody
    <3>1. ~InStep
      <4>1. ASSUME InStep
            PROVE  FALSE
        <5>1. /\ Len(handled) + 1 \in 1 .. Len(sent)
              /\ \A i \in 1 .. Len(sent) : buf = BodyBytes(i) <=> i = Len(handled) + 1
          BY <1>1, <2>3, <4>1, BodyIsNext DEF RefuseBody
        <5>. QED BY <2>3, <5>1 DEF RefuseBody
      <4>. QED BY <4>1
    <3>2. PICK j \in 1 .. Len(handled) : handled[j].packet = 0
      BY <3>1 DEF InStep
    <3>3. CASE j = 1
      BY <3>2, <3>3
    <3>4. CASE j # 1
      <4>1. Len(handled) \in Nat
        BY <1>1, NeededIsNat DEF StreamInv
      <4>2. j \in 2 .. Len(handled)
        BY <3>4, <4>1
      <4>. QED BY <1>1, <3>2, <4>2 DEF StreamInv, Limits
    <3>. QED BY <3>3, <3>4
  <2>4. CASE ~FailHeader /\ ~RefuseBody
    BY <1>1, <2>4
       DEF Next, ServerStep, WritePacket, Cut, Expire, Read, ReadHeader, ReadBody, FailBody,
           Dispatch, vars, clientVars, serverVars
  <2>. QED BY <2>2, <2>3, <2>4
<1>2. StreamInv /\ [Next]_vars
        => [conn = "open" /\ conn' = "closed" /\ handled # <<>>
              => cut \/ handled[1].packet = 0]_vars
  BY <1>1
<1>. QED BY <1>2, StreamHoldsFirst, StreamStep, PTL DEF Spec, LimitOnlyForFirst
=============================================================================

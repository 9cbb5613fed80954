-------------------------- MODULE CirBufferProofs --------------------------
(***************************************************************************)
(* Proofs about CirBuffer, for a ring of any size: its types, that data    *)
(* and space make up the ring, that save, load, consume and reset keep it  *)
(* a queue, and that load answers with the oldest bytes; and about the     *)
(* sound threads of PlayBuffer, for any frame and any sound card: that the *)
(* assert of load holds, and that the echo reference is in order.          *)
(*                                                                         *)
(* A position is at most one ring away from what the mask brings back, so  *)
(* the remainder is an addition or a subtraction (MaskOnce), and the       *)
(* functions at the top of CirBuffer.cpp have a value for each of the      *)
(* cases "data in one piece" and "data round the end" (RingPieces).  The   *)
(* two memcpys of save and load are then, byte by byte, the positions of   *)
(* the contents (SaveAppends, LoadTakes).                                  *)
(***************************************************************************)
EXTENDS PlayBuffer, SequenceTheorems, TLAPS

\* What the mask does to a number at most one ring away.
LEMMA MaskOnce ==
  ASSUME NEW n \in Int
  PROVE  /\ n \in 0 .. Size - 1 => Mask(n) = n
         /\ n \in -Size .. -1 => Mask(n) = n + Size
         /\ n \in Size .. 2 * Size - 1 => Mask(n) = n - Size
         /\ Mask(n) \in Positions
<1>1. Size \in Nat \ {0}
  BY CirBufferAssumption DEF CirBufferAssumption
<1>2. n \in 0 .. Size - 1 => n % Size = n
  BY <1>1
<1>3. n \in -Size .. -1 => n % Size = n + Size
  BY <1>1
<1>4. n \in Size .. 2 * Size - 1 => n % Size = n - Size
  BY <1>1
<1>5. n % Size \in 0 .. Size - 1
  BY <1>1
<1>6. QED
  BY <1>1, <1>2, <1>3, <1>4, <1>5 DEF Mask, Positions

\* What can be read and written, in all and before the end of the memory, when
\* the data is in one piece and when it goes round the end.
LEMMA RingPieces ==
  ASSUME m_write \in Positions, m_read \in Positions
  PROVE  /\ Size \in Nat \ {0}
         /\ Data = IF m_write >= m_read THEN m_write - m_read ELSE m_write - m_read + Size
         /\ Space = IF m_read > m_write THEN m_read - m_write - 1
                    ELSE m_read - m_write - 1 + Size
         /\ DataToEnd = IF m_write >= m_read THEN m_write - m_read ELSE Size - m_read
         /\ SpaceToEnd = IF m_read > m_write THEN m_read - m_write - 1
                         ELSE IF m_read = 0 THEN Size - 1 - m_write ELSE Size - m_write
<1>1. /\ Size \in Nat \ {0}
      /\ m_write \in 0 .. Size - 1
      /\ m_read \in 0 .. Size - 1
  BY CirBufferAssumption DEF CirBufferAssumption, Positions
<1>2. Data = IF m_write >= m_read THEN m_write - m_read ELSE m_write - m_read + Size
  <2>1. m_write - m_read \in Int
    BY <1>1
  <2>2. QED
    BY <1>1, <2>1, MaskOnce DEF Data
<1>3. Space = IF m_read > m_write THEN m_read - m_write - 1
              ELSE m_read - m_write - 1 + Size
  <2>1. m_read - (m_write + 1) \in Int
    BY <1>1
  <2>2. QED
    BY <1>1, <2>1, MaskOnce DEF Space
<1>4. DataToEnd = IF m_write >= m_read THEN m_write - m_read ELSE Size - m_read
  <2>1. m_write + (Size - m_read) \in Int
    BY <1>1
  <2>2. Mask(m_write + (Size - m_read)) = IF m_write >= m_read THEN m_write - m_read
                                          ELSE m_write + (Size - m_read)
    BY <1>1, <2>1, MaskOnce
  <2>3. QED
    BY <1>1, <2>2 DEF DataToEnd
<1>5. SpaceToEnd = IF m_read > m_write THEN m_read - m_write - 1
                   ELSE IF m_read = 0 THEN Size - 1 - m_write ELSE Size - m_write
  <2>1. m_read + (Size - 1 - m_write) \in Int
    BY <1>1
  <2>2. Mask(m_read + (Size - 1 - m_write)) =
          IF m_read > m_write THEN m_read - m_write - 1
          ELSE m_read + (Size - 1 - m_write)
    BY <1>1, <2>1, MaskOnce
  <2>3. QED
    BY <1>1, <2>2 DEF SpaceToEnd
<1>6. QED
  BY <1>1, <1>2, <1>3, <1>4, <1>5

\* The position i places after another, for less than one ring.
LEMMA Places ==
  ASSUME NEW p \in Positions, NEW i \in 0 .. Size - 1
  PROVE  /\ Mask(p + i) = IF p + i < Size THEN p + i ELSE p + i - Size
         /\ Mask(p + i) \in Positions
<1>1. Size \in Nat \ {0} /\ p \in 0 .. Size - 1
  BY CirBufferAssumption DEF CirBufferAssumption, Positions
<1>2. p + i \in Int
  BY <1>1
<1>3. QED
  BY <1>1, <1>2, MaskOnce

\* A block is a sequence of at most MaxLen bytes.
LEMMA BlocksAreSeqs ==
  ASSUME NEW block \in Blocks
  PROVE  /\ Len(block) \in 0 .. MaxLen
         /\ Len(block) \in Nat
         /\ block \in [1 .. Len(block) -> Bytes]
         /\ block \in Seq(Bytes)
<1>1. PICK n \in 0 .. MaxLen : block \in [1 .. n -> Bytes]
  BY DEF Blocks
<1>2. n \in Nat
  BY <1>1, CirBufferAssumption DEF CirBufferAssumption
<1>3. block \in Seq(Bytes)
  BY <1>1, <1>2, SeqDef
<1>4. Len(block) = n
  BY <1>1, <1>2, <1>3, LenProperties
<1>5. QED
  BY <1>1, <1>2, <1>3, <1>4

-----------------------------------------------------------------------------
\* A load copies out, in one piece or in two, the bytes from the read position on.
LEMMA LoadTakes ==
  ASSUME RingTypeOK, NEW len \in 0 .. MaxLen, len <= Data, Load(len)
  PROVE  /\ loaded' = [i \in 1 .. len |-> mp_buf[Mask(m_read + i - 1)]]
         /\ loaded' \in Blocks
<1> DEFINE c == DataToEnd
           f == [i \in 1 .. len |-> mp_buf[Mask(m_read + i - 1)]]
<1>1. /\ m_write \in 0 .. Size - 1
      /\ m_read \in 0 .. Size - 1
      /\ Size \in Nat \ {0}
      /\ len \in Nat
      /\ MaxLen \in 0 .. Size
  BY CirBufferAssumption DEF CirBufferAssumption, RingTypeOK, Positions
<1>2. Data < Size /\ c \in Nat /\ m_read + c <= Size
      /\ (c < len => c = Size - m_read)
  BY <1>1, RingPieces DEF Positions
<1>3. \A i \in 1 .. len : Mask(m_read + i - 1) \in Positions
        /\ Mask(m_read + i - 1) = IF m_read + i - 1 < Size THEN m_read + i - 1
                                  ELSE m_read + i - 1 - Size
  <2>1. ASSUME NEW i \in 1 .. len
        PROVE  i - 1 \in 0 .. Size - 1 /\ m_read + (i - 1) = m_read + i - 1
    BY <1>1, <1>2
  <2>2. QED
    BY <1>1, <2>1, Places DEF Positions
<1>4. loaded' = f
  <2>1. CASE c >= len
    <3>1. loaded' = [i \in 1 .. len |-> mp_buf[m_read + i - 1]]
      BY <2>1 DEF Load, CopyOut
    <3>2. \A i \in 1 .. len : Mask(m_read + i - 1) = m_read + i - 1
      BY <1>1, <1>2, <1>3, <2>1
    <3>3. QED
      BY <3>1, <3>2
  <2>2. CASE c < len
    <3> DEFINE a == CopyOut(m_read, c)
               b == CopyOut(0, len - c)
    <3>1. loaded' = a \o b
      BY <1>1, <1>2, <2>2 DEF Load
    <3>2. len - c \in Nat
      BY <1>1, <1>2, <2>2
    <3>3. a \in Seq(Bytes) /\ Len(a) = c /\ \A i \in 1 .. c : a[i] = mp_buf[m_read + i - 1]
      <4>1. \A i \in 1 .. c : mp_buf[m_read + i - 1] \in Bytes
        BY <1>1, <1>2 DEF RingTypeOK, Positions
      <4>2. QED
        BY <1>2, <4>1 DEF CopyOut
    <3>4. b \in Seq(Bytes) /\ Len(b) = len - c /\ \A i \in 1 .. len - c : b[i] = mp_buf[0 + i - 1]
      <4>1. \A i \in 1 .. len - c : mp_buf[0 + i - 1] \in Bytes
        BY <1>1, <1>2 DEF RingTypeOK, Positions
      <4>2. QED
        BY <3>2, <4>1 DEF CopyOut
    <3> HIDE DEF a, b
    <3>5. /\ Len(a \o b) = len
          /\ a \o b \in Seq(Bytes)
          /\ \A i \in 1 .. len : (a \o b)[i] = IF i <= c THEN a[i] ELSE b[i - c]
      <4>1. /\ Len(a \o b) = Len(a) + Len(b)
            /\ a \o b \in Seq(Bytes)
            /\ \A i \in 1 .. Len(a) + Len(b) : (a \o b)[i] = IF i <= Len(a) THEN a[i]
                                                          ELSE b[i - Len(a)]
        BY <3>3, <3>4, ConcatProperties
      <4>2. Len(a) + Len(b) = len
        BY <1>1, <1>2, <3>3, <3>4
      <4>3. QED
        BY <3>3, <4>1, <4>2
    <3>6. \A i \in 1 .. len : (a \o b)[i] = mp_buf[Mask(m_read + i - 1)]
      <4>1. ASSUME NEW i \in 1 .. len
            PROVE  (a \o b)[i] = mp_buf[Mask(m_read + i - 1)]
        <5>1. CASE i <= c
          <6>1. Mask(m_read + i - 1) = m_read + i - 1
            BY <1>1, <1>2, <1>3, <5>1
          <6>2. QED
            BY <3>3, <3>5, <5>1, <6>1
        <5>2. CASE i > c
          <6>1. i - c \in 1 .. len - c /\ Mask(m_read + i - 1) = 0 + (i - c) - 1
            BY <1>1, <1>2, <1>3, <2>2, <5>2
          <6>2. (a \o b)[i] = b[i - c]
            BY <1>1, <1>2, <3>5, <5>2
          <6>3. QED
            BY <3>4, <6>1, <6>2
        <5>3. i <= c \/ i > c
          <6>1. i \in Int /\ c \in Int
            BY <1>2
          <6> HIDE DEF c
          <6>2. QED
            BY <6>1
        <5>4. QED
          BY <5>1, <5>2, <5>3
      <4>2. QED
        BY <4>1
    <3>7. f \in Seq(Bytes) /\ Len(f) = len
      <4>1. \A i \in 1 .. len : mp_buf[Mask(m_read + i - 1)] \in Bytes
        BY <1>3 DEF RingTypeOK
      <4>2. QED
        BY <1>1, <4>1
    <3>8. QED
      BY <3>1, <3>5, <3>6, <3>7, SeqEqual
  <2>3. QED
    BY <1>1, <1>2, <2>1, <2>2
<1>5. f \in Blocks
  <2>1. f \in [1 .. len -> Bytes]
    BY <1>3 DEF RingTypeOK
  <2>2. QED
    BY <2>1 DEF Blocks
<1>6. QED
  BY <1>4, <1>5

-----------------------------------------------------------------------------
\* A save writes the block from the write position on, in one piece or in two, and
\* none of the bytes that wait to be read.
LEMMA SaveWrites ==
  ASSUME RingTypeOK, NEW block \in Blocks, Len(block) <= Space, Save(block)
  PROVE  /\ mp_buf' \in [Positions -> Bytes]
         /\ \A i \in 1 .. Len(block) : mp_buf'[Mask(m_write + i - 1)] = block[i]
         /\ \A j \in 1 .. Data :
              mp_buf'[Mask(m_read + j - 1)] = mp_buf[Mask(m_read + j - 1)]
<1> DEFINE c   == SpaceToEnd
           len == Len(block)
<1>1. /\ m_write \in 0 .. Size - 1
      /\ m_read \in 0 .. Size - 1
      /\ Size \in Nat \ {0}
      /\ len \in Nat
      /\ block \in [1 .. len -> Bytes]
      /\ block \in Seq(Bytes)
      /\ mp_buf \in [0 .. Size - 1 -> Bytes]
  BY CirBufferAssumption, BlocksAreSeqs DEF CirBufferAssumption, RingTypeOK, Positions
<1>2. /\ Data = IF m_write >= m_read THEN m_write - m_read ELSE m_write - m_read + Size
      /\ len <= Size - 1 - Data
      /\ c \in Nat
      /\ m_write + c <= Size
      /\ c < len => c = Size - m_write /\ m_write >= m_read
      /\ Data \in 0 .. Size - 1
  BY <1>1, RingPieces DEF Positions
<1> HIDE DEF len
<1>3. \A i \in 1 .. len : Mask(m_write + i - 1) =
        IF m_write + i - 1 < Size THEN m_write + i - 1 ELSE m_write + i - 1 - Size
  <2>1. ASSUME NEW i \in 1 .. len
        PROVE  i - 1 \in 0 .. Size - 1 /\ m_write + (i - 1) = m_write + i - 1
    BY <1>1, <1>2
  <2>2. QED
    BY <1>1, <2>1, Places DEF Positions
<1>4. \A j \in 1 .. Data : Mask(m_read + j - 1) =
        IF m_read + j - 1 < Size THEN m_read + j - 1 ELSE m_read + j - 1 - Size
  <2>1. ASSUME NEW j \in 1 .. Data
        PROVE  j - 1 \in 0 .. Size - 1 /\ m_read + (j - 1) = m_read + j - 1
    BY <1>1, <1>2
  <2>2. QED
    BY <1>1, <2>1, Places DEF Positions
<1> HIDE DEF c
<1>5. CASE c >= len
  <2>1. mp_buf' = [k \in 0 .. Size - 1 |-> IF k \in m_write .. m_write + len - 1
                                          THEN block[k - m_write + 1] ELSE mp_buf[k]]
    BY <1>1, <1>5 DEF Save, CopyIn, c, len
  <2>2. mp_buf' \in [Positions -> Bytes]
    BY <1>1, <2>1 DEF Positions
  <2>3. ASSUME NEW i \in 1 .. len
        PROVE  mp_buf'[Mask(m_write + i - 1)] = block[i]
    <3>1. Mask(m_write + i - 1) = m_write + i - 1
      BY <1>1, <1>2, <1>3, <1>5
    <3>2. m_write + i - 1 \in 0 .. Size - 1
          /\ m_write + i - 1 \in m_write .. m_write + len - 1
          /\ (m_write + i - 1) - m_write + 1 = i
      BY <1>1, <1>2, <1>5
    <3>3. QED
      BY <2>1, <3>1, <3>2
  <2>4. ASSUME NEW j \in 1 .. Data
        PROVE  mp_buf'[Mask(m_read + j - 1)] = mp_buf[Mask(m_read + j - 1)]
    <3>1. Mask(m_read + j - 1) \in 0 .. Size - 1
          /\ Mask(m_read + j - 1) \notin m_write .. m_write + len - 1
      <4> DEFINE m == Mask(m_read + j - 1)
      <4>1. m = IF m_read + j - 1 < Size THEN m_read + j - 1 ELSE m_read + j - 1 - Size
        BY <1>4
      <4> HIDE DEF m
      <4>2. m_write + len <= Size
        BY <1>1, <1>2, <1>5
      <4>3. m \in 0 .. Size - 1 /\ m \notin m_write .. m_write + len - 1
        BY <1>1, <1>2, <4>1, <4>2
      <4>4. QED
        BY <4>3 DEF m
    <3>2. QED
      BY <2>1, <3>1
  <2>5. QED
    BY <2>2, <2>3, <2>4 DEF len
<1>6. CASE c < len
  <2> DEFINE a == SubSeq(block, 1, c)
             b == SubSeq(block, c + 1, len)
  <2>1. /\ Len(a) = c
        /\ \A i \in 1 .. c : a[i] = block[i]
        /\ Len(b) = len - c
        /\ \A i \in 1 .. len - c : b[i] = block[c + i]
    <3>1. c \in Nat /\ c < len /\ len \in Nat /\ \A i \in 1 .. len : block[i] \in Bytes
      BY <1>1, <1>2, <1>6
    <3>2. Len(a) = c /\ \A i \in 1 .. c : a[i] = block[i]
      <4>1. \A i \in 1 .. c : block[i] \in Bytes
        BY <3>1
      <4>2. /\ Len(a) = IF 1 <= c THEN c - 1 + 1 ELSE 0
            /\ \A i \in 1 .. c - 1 + 1 : a[i] = block[1 + i - 1]
        BY <3>1, <4>1, SubSeqProperties
      <4>3. QED
        BY <3>1, <4>2
    <3>3. Len(b) = len - c /\ \A i \in 1 .. len - c : b[i] = block[c + i]
      <4>1. \A i \in c + 1 .. len : block[i] \in Bytes
        BY <3>1
      <4>2. /\ Len(b) = IF c + 1 <= len THEN len - (c + 1) + 1 ELSE 0
            /\ \A i \in 1 .. len - (c + 1) + 1 : b[i] = block[c + 1 + i - 1]
        BY <3>1, <4>1, SubSeqProperties
      <4>3. QED
        BY <3>1, <4>2
    <3>4. QED
      BY <3>2, <3>3
  <2>2. mp_buf' = CopyIn(CopyIn(mp_buf, m_write, a), 0, b)
    BY <1>1, <1>2, <1>6 DEF Save, c, len
  <2> HIDE DEF a, b
  <2>3. mp_buf' = [k \in 0 .. Size - 1 |->
                     IF k \in 0 .. 0 + (len - c) - 1 THEN b[k - 0 + 1]
                     ELSE IF k \in m_write .. m_write + c - 1 THEN a[k - m_write + 1]
                     ELSE mp_buf[k]]
    BY <1>1, <2>1, <2>2 DEF CopyIn
  <2>4. mp_buf' = [k \in 0 .. Size - 1 |->
                     IF k \in 0 .. len - c - 1 THEN block[c + k + 1]
                     ELSE IF k \in m_write .. m_write + c - 1 THEN block[k - m_write + 1]
                     ELSE mp_buf[k]]
    <3>1. ASSUME NEW k \in 0 .. len - c - 1
          PROVE  b[k - 0 + 1] = block[c + k + 1]
      <4>1. k + 1 \in 1 .. len - c /\ k - 0 + 1 = k + 1 /\ c + (k + 1) = c + k + 1
        BY <1>1, <1>2
      <4>2. QED
        BY <2>1, <4>1
    <3>2. ASSUME NEW k \in m_write .. m_write + c - 1
          PROVE  a[k - m_write + 1] = block[k - m_write + 1]
      <4>1. k - m_write + 1 \in 1 .. c
        BY <1>1, <1>2
      <4>2. QED
        BY <2>1, <4>1
    <3>3. 0 + (len - c) - 1 = len - c - 1
      BY <1>1, <1>2
    <3>4. QED
      BY <2>3, <3>1, <3>2, <3>3
  <2>5. mp_buf' \in [Positions -> Bytes]
    <3>1. ASSUME NEW k \in 0 .. len - c - 1
          PROVE  block[c + k + 1] \in Bytes
      BY <1>1, <1>2
    <3>2. ASSUME NEW k \in m_write .. m_write + c - 1
          PROVE  block[k - m_write + 1] \in Bytes
      BY <1>1, <1>2, <1>6
    <3>3. QED
      BY <1>1, <2>4, <3>1, <3>2 DEF Positions
  <2>6. ASSUME NEW i \in 1 .. len
        PROVE  mp_buf'[Mask(m_write + i - 1)] = block[i]
    <3>1. CASE i <= c
      <4>1. Mask(m_write + i - 1) = m_write + i - 1
        <5>1. m_write + i - 1 < Size
          BY <1>1, <1>2, <3>1
        <5>2. QED
          BY <1>3, <5>1
      <4>2. /\ m_write + i - 1 \in 0 .. Size - 1
            /\ m_write + i - 1 \notin 0 .. len - c - 1
            /\ m_write + i - 1 \in m_write .. m_write + c - 1
            /\ (m_write + i - 1) - m_write + 1 = i
        BY <1>1, <1>2, <1>6, <3>1
      <4>3. QED
        BY <2>4, <4>1, <4>2
    <3>2. CASE i > c
      <4>1. Mask(m_write + i - 1) = IF m_write + i - 1 < Size THEN m_write + i - 1
                                    ELSE m_write + i - 1 - Size
        BY <1>3
      <4>2. /\ Mask(m_write + i - 1) = i - c - 1
            /\ i - c - 1 \in 0 .. len - c - 1
            /\ i - c - 1 \in 0 .. Size - 1
            /\ c + (i - c - 1) + 1 = i
        <5>1. c \in Nat /\ c = Size - m_write /\ len < Size
          BY <1>1, <1>2, <1>6
        <5>2. QED
          BY <1>1, <3>2, <4>1, <5>1
      <4>3. QED
        BY <2>4, <4>2
    <3>3. QED
      BY <1>2, <3>1, <3>2
  <2>7. ASSUME NEW j \in 1 .. Data
        PROVE  mp_buf'[Mask(m_read + j - 1)] = mp_buf[Mask(m_read + j - 1)]
    <3>1. /\ Mask(m_read + j - 1) \in 0 .. Size - 1
          /\ Mask(m_read + j - 1) \notin m_write .. m_write + c - 1
          /\ Mask(m_read + j - 1) \notin 0 .. len - c - 1
      <4> DEFINE m == Mask(m_read + j - 1)
      <4>1. m = IF m_read + j - 1 < Size THEN m_read + j - 1 ELSE m_read + j - 1 - Size
        BY <1>4
      <4> HIDE DEF m
      <4>2. m \in m_read .. m_write - 1
        BY <1>1, <1>2, <1>6, <4>1
      <4>3. len - c - 1 < m_read
        BY <1>1, <1>2, <1>6
      <4>4. /\ m \in 0 .. Size - 1
            /\ m \notin m_write .. m_write + c - 1
            /\ m \notin 0 .. len - c - 1
        BY <1>1, <1>2, <4>2, <4>3
      <4>5. QED
        BY <4>4 DEF m
    <3>2. QED
      BY <2>4, <3>1
  <2>8. QED
    BY <2>5, <2>6, <2>7 DEF len
<1>7. QED
  BY <1>1, <1>2, <1>5, <1>6

-----------------------------------------------------------------------------
(***************************************************************************)
(* Types and space.                                                        *)
(***************************************************************************)
\* The masks keep the positions in the memory, whatever is asked of the ring.
LEMMA RingTypeStep ==
  ASSUME RingTypeOK, [RingNext]_ringVars
  PROVE  RingTypeOK'
<1> USE CirBufferAssumption DEF CirBufferAssumption
<1>1. ASSUME NEW block \in Blocks, Len(block) <= Space, Save(block)
      PROVE  RingTypeOK'
  <2>1. m_write + Len(block) \in Int
    BY BlocksAreSeqs DEF RingTypeOK, Positions
  <2>2. m_write' \in Positions
    BY <1>1, <2>1, MaskOnce DEF Save
  <2>3. mp_buf' \in [Positions -> Bytes]
    BY <1>1, SaveWrites
  <2>4. QED
    BY <1>1, <2>2, <2>3 DEF Save, RingTypeOK
<1>2. ASSUME NEW len \in 0 .. MaxLen, Load(len) \/ Consume(len)
      PROVE  m_read' \in Positions
  <2>1. m_read + len \in Int
    BY DEF RingTypeOK, Positions
  <2>2. QED
    BY <1>2, <2>1, MaskOnce DEF Load, Consume
<1>3. ASSUME NEW len \in 0 .. MaxLen, len <= Data, Load(len)
      PROVE  RingTypeOK'
  BY <1>2, <1>3, LoadTakes DEF Load, RingTypeOK
<1>4. ASSUME NEW cnt \in 0 .. MaxLen, Consume(cnt)
      PROVE  RingTypeOK'
  BY <1>2, <1>4 DEF Consume, RingTypeOK
<1>5. CASE Reset
  BY <1>5 DEF Reset, RingTypeOK, Positions
<1>6. CASE UNCHANGED ringVars
  BY <1>6 DEF ringVars, RingTypeOK
<1>7. QED
  BY <1>1, <1>3, <1>4, <1>5, <1>6 DEF RingNext

\* The types of the ring, for a memory of any size: the positions never leave it,
\* and load copies out bytes of the ring only (CirBuffer.cpp).
THEOREM RingTypeCorrect == RingSpec => []RingTypeOK
<1>1. RingInit => RingTypeOK
  <2> SUFFICES ASSUME RingInit
               PROVE  RingTypeOK
    OBVIOUS
  <2>1. 0 \in Positions /\ 0 \in 0 .. MaxLen
    BY CirBufferAssumption DEF CirBufferAssumption, Positions
  <2>2. <<>> \in [1 .. 0 -> Bytes]
    OBVIOUS
  <2>3. <<>> \in Blocks
    BY <2>1, <2>2 DEF Blocks
  <2>4. QED
    BY <2>1, <2>3 DEF RingInit, RingTypeOK
<1>2. RingTypeOK /\ [RingNext]_ringVars => RingTypeOK'
  BY RingTypeStep
<1>3. QED
  BY <1>1, <1>2, PTL DEF RingSpec

\* Data and space make up the ring but for the one empty position, and no piece
\* before the end of the memory is longer than the whole or passes the end (the
\* functions at the top of CirBuffer.cpp), for every size.
THEOREM SpaceAndDataHold == RingSpec => []SpaceAndData
<1>1. RingTypeOK => SpaceAndData
  <2> SUFFICES ASSUME RingTypeOK
               PROVE  SpaceAndData
    OBVIOUS
  <2>1. m_write \in 0 .. Size - 1 /\ m_read \in 0 .. Size - 1
    BY DEF RingTypeOK, Positions
  <2>2. QED
    BY <2>1, RingPieces DEF SpaceAndData, Positions
<1>2. QED
  BY <1>1, RingTypeCorrect, PTL

-----------------------------------------------------------------------------
(***************************************************************************)
(* The ring as a queue.                                                    *)
(***************************************************************************)
\* The contents are a sequence of as many bytes as there are data.
LEMMA ContentsAreBytes ==
  ASSUME RingTypeOK
  PROVE  /\ Data \in 0 .. Size - 1
         /\ Contents \in Seq(Bytes)
         /\ Len(Contents) = Data
         /\ \A i \in 1 .. Data : /\ Contents[i] = mp_buf[Mask(m_read + i - 1)]
                                 /\ Contents[i] \in Bytes
<1>1. /\ m_write \in 0 .. Size - 1
      /\ m_read \in 0 .. Size - 1
      /\ Size \in Nat \ {0}
  BY CirBufferAssumption DEF CirBufferAssumption, RingTypeOK, Positions
<1>2. Data \in 0 .. Size - 1
  BY <1>1, RingPieces DEF Positions
<1>3. \A i \in 1 .. Data : mp_buf[Mask(m_read + i - 1)] \in Bytes
  <2>1. ASSUME NEW i \in 1 .. Data
        PROVE  Mask(m_read + i - 1) \in Positions
    <3>1. m_read + i - 1 \in Int
      BY <1>1, <1>2
    <3>2. QED
      BY <3>1, MaskOnce
  <2>2. QED
    BY <2>1 DEF RingTypeOK
<1> DEFINE d == Data
<1>4. d \in Nat
  BY <1>2
<1> HIDE DEF d
<1>5. Contents = [i \in 1 .. d |-> mp_buf[Mask(m_read + i - 1)]]
  BY DEF Contents, d
<1>6. Contents \in [1 .. d -> Bytes]
  BY <1>3, <1>5 DEF d
<1>7. Contents \in Seq(Bytes)
  BY <1>4, <1>6, SeqDef
<1>8. Len(Contents) = d
  BY <1>4, <1>6, <1>7, LenProperties
<1>9. QED
  BY <1>2, <1>3, <1>5, <1>7, <1>8 DEF d

\* The contents and their length.
ContentsOK ==
  /\ Data \in 0 .. Size - 1
  /\ Contents \in Seq(Bytes)
  /\ Len(Contents) = Data
  /\ \A i \in 1 .. Data : Contents[i] = mp_buf[Mask(m_read + i - 1)]

\* What ContentsAreBytes says of a state ...
LEMMA ContentsOKNow == RingTypeOK => ContentsOK
BY ContentsAreBytes DEF ContentsOK

\* ... it says of the next one.
LEMMA ContentsOKNext == (RingTypeOK => ContentsOK)'
BY ContentsOKNow, PTL

\* So after a step too, every byte of the contents is where the read position says.
LEMMA ContentsStayBytes ==
  ASSUME RingTypeOK'
  PROVE  /\ Data' \in 0 .. Size - 1
         /\ Contents' \in Seq(Bytes)
         /\ Len(Contents') = Data'
         /\ \A i \in 1 .. Data' : Contents'[i] = mp_buf'[Mask(m_read' + i - 1)]
<1>1. ContentsOK'
  BY ContentsOKNext
<1>2. QED
  BY <1>1 DEF ContentsOK, Mask

\* A save appends its block to the contents.
LEMMA SaveAppends ==
  ASSUME RingTypeOK, NEW block \in Blocks, Len(block) <= Space, Save(block)
  PROVE  /\ Data' = Data + Len(block)
         /\ Data' <= Size - 1
         /\ \A i \in 1 .. Data : Contents'[i] = Contents[i]
<1> DEFINE len == Len(block)
<1>1. /\ m_write \in 0 .. Size - 1
      /\ m_read \in 0 .. Size - 1
      /\ Size \in Nat \ {0}
      /\ len \in Nat
  BY CirBufferAssumption, BlocksAreSeqs DEF CirBufferAssumption, RingTypeOK, Positions
<1>2. RingTypeOK'
  BY RingTypeStep DEF RingNext
<1>3. /\ Data = IF m_write >= m_read THEN m_write - m_read ELSE m_write - m_read + Size
      /\ len <= Size - 1 - Data
      /\ Data \in 0 .. Size - 1
  BY <1>1, RingPieces DEF Positions
<1>4. m_read' = m_read /\ m_write' = Mask(m_write + len)
  BY DEF Save
<1> HIDE DEF len
<1>5. m_write' = IF m_write + len < Size THEN m_write + len ELSE m_write + len - Size
  <2>1. len \in 0 .. Size - 1
    BY <1>1, <1>3
  <2>2. QED
    BY <1>1, <1>4, <2>1, Places DEF Positions
<1>6. Data' = IF m_write' >= m_read THEN m_write' - m_read ELSE m_write' - m_read + Size
  <2>1. m_write' \in Positions /\ m_read' \in Positions
    BY <1>2 DEF RingTypeOK
  <2>2. Data' = Mask(m_write' - m_read')
    BY DEF Data, Mask
  <2>3. m_write' - m_read' \in Int /\ m_write' \in 0 .. Size - 1
    BY <1>1, <2>1 DEF Positions
  <2>4. QED
    BY <1>1, <1>4, <2>2, <2>3, MaskOnce
<1>7. Data' = Data + len
  BY <1>1, <1>3, <1>5, <1>6
<1>8. ASSUME NEW i \in 1 .. Data
      PROVE  Contents'[i] = Contents[i]
  <2>1. i \in 1 .. Data'
    BY <1>1, <1>3, <1>7
  <2>2. Contents'[i] = mp_buf'[Mask(m_read' + i - 1)]
    BY <2>1 DEF Contents, Mask
  <2>3. Contents[i] = mp_buf[Mask(m_read + i - 1)]
    BY DEF Contents
  <2>4. QED
    BY <1>4, <2>2, <2>3, SaveWrites
<1>9. QED
  BY <1>1, <1>3, <1>7, <1>8 DEF len

\* A step that moves only the read position, past some of the data, removes them
\* from the front of the contents.
LEMMA TakeRemoves ==
  ASSUME RingTypeOK, RingTypeOK', NEW cnt \in Nat, cnt <= Data,
         m_read' = Mask(m_read + cnt), UNCHANGED <<mp_buf, m_write>>
  PROVE  Contents' = SubSeq(Contents, cnt + 1, Len(Contents))
<1>1. /\ m_write \in 0 .. Size - 1
      /\ m_read \in 0 .. Size - 1
      /\ Size \in Nat \ {0}
      /\ m_read' \in 0 .. Size - 1
  BY CirBufferAssumption DEF CirBufferAssumption, RingTypeOK, Positions
<1>2. /\ Data = IF m_write >= m_read THEN m_write - m_read ELSE m_write - m_read + Size
      /\ Data \in 0 .. Size - 1
  BY <1>1, RingPieces DEF Positions
<1>3. m_read' = IF m_read + cnt < Size THEN m_read + cnt ELSE m_read + cnt - Size
  <2>1. cnt \in 0 .. Size - 1
    BY <1>1, <1>2
  <2>2. QED
    BY <1>1, <2>1, Places DEF Positions
<1>4. Data' = IF m_write >= m_read' THEN m_write - m_read' ELSE m_write - m_read' + Size
  <2>1. Data' = Mask(m_write - m_read')
    BY DEF Data, Mask
  <2>2. m_write - m_read' \in Int
    BY <1>1
  <2>3. QED
    BY <1>1, <2>1, <2>2, MaskOnce
<1>5. Data' = Data - cnt
  BY <1>1, <1>2, <1>3, <1>4
<1>6. /\ Contents' \in Seq(Bytes)
      /\ Len(Contents') = Data - cnt
      /\ \A i \in 1 .. Data - cnt : Contents'[i] = mp_buf[Mask(m_read' + i - 1)]
  <2>1. /\ Contents' \in Seq(Bytes)
        /\ Len(Contents') = Data'
        /\ \A i \in 1 .. Data' : Contents'[i] = mp_buf'[Mask(m_read' + i - 1)]
    BY ContentsStayBytes
  <2>2. QED
    BY <1>5, <2>1
<1> DEFINE s == SubSeq(Contents, cnt + 1, Len(Contents))
<1>7. /\ Len(Contents) = Data
      /\ Contents \in Seq(Bytes)
      /\ \A i \in 1 .. Data : /\ Contents[i] = mp_buf[Mask(m_read + i - 1)]
                              /\ Contents[i] \in Bytes
  BY ContentsAreBytes
<1>8. /\ s \in Seq(Bytes)
      /\ Len(s) = Data - cnt
      /\ \A i \in 1 .. Data - cnt : s[i] = Contents[cnt + i]
  <2>1. \A i \in cnt + 1 .. Data : Contents[i] \in Bytes
    BY <1>2, <1>7
  <2>2. /\ SubSeq(Contents, cnt + 1, Data) \in Seq(Bytes)
        /\ Len(SubSeq(Contents, cnt + 1, Data)) =
             IF cnt + 1 <= Data THEN Data - (cnt + 1) + 1 ELSE 0
        /\ \A i \in 1 .. Data - (cnt + 1) + 1 :
             SubSeq(Contents, cnt + 1, Data)[i] = Contents[cnt + 1 + i - 1]
    BY <1>2, <2>1, SubSeqProperties
  <2>3. QED
    BY <1>2, <1>7, <2>2
<1>9. ASSUME NEW i \in 1 .. Data - cnt
      PROVE  Contents'[i] = s[i]
  <2>1. Mask(m_read' + i - 1) = Mask(m_read + (cnt + i) - 1)
    <3>1. /\ cnt + i - 1 \in 0 .. Size - 1
          /\ i - 1 \in 0 .. Size - 1
          /\ m_read + (cnt + i - 1) = m_read + (cnt + i) - 1
          /\ m_read' + (i - 1) = m_read' + i - 1
      BY <1>1, <1>2
    <3>2. \A p \in Positions, k \in 0 .. Size - 1 :
            Mask(p + k) = IF p + k < Size THEN p + k ELSE p + k - Size
      BY Places
    <3>3. /\ Mask(m_read + (cnt + i - 1)) =
               IF m_read + (cnt + i - 1) < Size THEN m_read + (cnt + i - 1)
               ELSE m_read + (cnt + i - 1) - Size
          /\ Mask(m_read' + (i - 1)) =
               IF m_read' + (i - 1) < Size THEN m_read' + (i - 1)
               ELSE m_read' + (i - 1) - Size
      BY <1>1, <3>1, <3>2 DEF Positions
    <3>4. m_read + (cnt + i) - 1 < 2 * Size
      BY <1>1, <3>1
    <3>5. QED
      BY <1>1, <1>3, <3>1, <3>3, <3>4
  <2>2. cnt + i \in 1 .. Data
    BY <1>2
  <2>3. QED
    BY <1>6, <1>7, <1>8, <2>1, <2>2
<1> HIDE DEF s
<1>10. Contents' = s
  BY <1>6, <1>8, <1>9, SeqEqual
<1>11. QED
  BY <1>10 DEF s

\* The ring implements a queue of Size - 1 bytes, wherever its contents wrap round
\* the end of the memory and in how many pieces they are copied (CirBuffer.cpp):
\* save only appends, load, consume and reset only remove from the front.
THEOREM CirBufferIsFifo == RingSpec => RingIsFifo
<1>1. RingInit => Ring!FifoInit
  <2> SUFFICES ASSUME RingInit
               PROVE  Contents = <<>>
    BY DEF Ring!FifoInit
  <2>1. 0 \in Positions /\ m_read = 0 /\ m_write = 0
    BY CirBufferAssumption DEF CirBufferAssumption, Positions, RingInit
  <2>2. Data = 0
    BY <2>1, RingPieces
  <2>3. QED
    BY <2>2 DEF Contents
<1>2. ASSUME RingTypeOK, [RingNext]_ringVars
      PROVE  [Ring!FifoNext]_Contents
  <2>1. RingTypeOK'
    BY <1>2, RingTypeStep
  <2>2. /\ Len(Contents) = Data
        /\ Contents \in Seq(Bytes)
        /\ Data \in Nat
        /\ Size \in Nat
    BY <1>2, ContentsAreBytes, CirBufferAssumption DEF CirBufferAssumption
  <2>3. /\ Len(Contents') = Data'
        /\ Contents' \in Seq(Bytes)
        /\ Data' \in Nat
    BY <2>1, ContentsStayBytes
  <2>4. ASSUME NEW block \in Blocks, Len(block) <= Space, Save(block)
        PROVE  [Ring!FifoNext]_Contents
    <3>1. /\ Data' = Data + Len(block)
          /\ Data' <= Size - 1
          /\ \A i \in 1 .. Data : Contents'[i] = Contents[i]
      BY <1>2, <2>4, SaveAppends
    <3>2. Len(block) \in Nat
      BY BlocksAreSeqs
    <3>3. CASE Len(block) = 0
      <4>1. Len(Contents') = Len(Contents)
        BY <2>2, <2>3, <3>1, <3>3
      <4>2. Contents' = Contents
        BY <2>2, <2>3, <3>1, <4>1, SeqEqual
      <4>3. QED
        BY <4>2
    <3>4. CASE Len(block) # 0
      <4>1. Len(Contents') \in Len(Contents) + 1 .. Size - 1
        BY <2>2, <2>3, <3>1, <3>2, <3>4
      <4>2. \A i \in 1 .. Len(Contents') : Contents'[i] \in Bytes
        BY <2>3, ElementOfSeq
      <4>3. SubSeq(Contents', 1, Len(Contents)) = Contents
        <5>1. \A i \in 1 .. Len(Contents) : Contents'[i] \in Bytes
          BY <2>2, <4>1, <4>2
        <5>2. /\ SubSeq(Contents', 1, Len(Contents)) \in Seq(Bytes)
              /\ Len(SubSeq(Contents', 1, Len(Contents))) =
                   IF 1 <= Len(Contents) THEN Len(Contents) - 1 + 1 ELSE 0
              /\ \A i \in 1 .. Len(Contents) - 1 + 1 :
                   SubSeq(Contents', 1, Len(Contents))[i] = Contents'[1 + i - 1]
          BY <2>2, <5>1, SubSeqProperties
        <5>3. /\ Len(SubSeq(Contents', 1, Len(Contents))) = Len(Contents)
              /\ \A i \in 1 .. Len(Contents) :
                   SubSeq(Contents', 1, Len(Contents))[i] = Contents[i]
          BY <2>2, <3>1, <5>2
        <5>4. QED
          BY <2>2, <5>2, <5>3, SeqEqual
      <4>4. Ring!Append1OrMore
        BY <4>1, <4>2, <4>3 DEF Ring!Append1OrMore
      <4>5. QED
        BY <4>4 DEF Ring!FifoNext
    <3>5. QED
      BY <3>3, <3>4
  <2>5. ASSUME NEW cnt \in Nat, cnt <= Data,
               Contents' = SubSeq(Contents, cnt + 1, Len(Contents))
        PROVE  [Ring!FifoNext]_Contents
    <3>1. CASE cnt = 0
      <4>1. Contents' = Contents
        BY <2>2, <2>5, <3>1, SubSeqFull
      <4>2. QED
        BY <4>1
    <3>2. CASE cnt # 0
      <4>1. cnt \in 1 .. Len(Contents)
        BY <2>2, <2>5, <3>2
      <4>2. QED
        BY <2>5, <4>1 DEF Ring!FifoNext, Ring!Remove1OrMore
    <3>3. QED
      BY <3>1, <3>2
  <2>6. ASSUME NEW cnt \in 0 .. MaxLen, cnt <= Data, Load(cnt) \/ Consume(cnt)
        PROVE  [Ring!FifoNext]_Contents
    <3>1. /\ m_read' = Mask(m_read + cnt)
          /\ UNCHANGED <<mp_buf, m_write>>
          /\ cnt \in Nat
      BY <2>6, CirBufferAssumption DEF CirBufferAssumption, Load, Consume
    <3>2. QED
      BY <1>2, <2>1, <2>5, <2>6, <3>1, TakeRemoves
  <2>7. CASE Reset
    <3>1. Data' = 0
      <4>1. 0 % Size = 0
        BY MaskOnce, CirBufferAssumption DEF CirBufferAssumption, Mask
      <4>2. m_write' = 0 /\ m_read' = 0
        BY <2>7 DEF Reset
      <4>3. Data' = Mask(m_write' - m_read')
        BY DEF Data, Mask
      <4>4. QED
        BY <4>1, <4>2, <4>3 DEF Mask
    <3>2. Contents' = <<>>
      BY <2>3, <3>1, EmptySeq
    <3>3. SubSeq(Contents, Data + 1, Len(Contents)) = <<>>
      BY <2>2, SubSeqEmpty
    <3>4. QED
      BY <2>2, <2>5, <3>2, <3>3
  <2>8. CASE UNCHANGED ringVars
    BY <2>8 DEF ringVars, Contents, Data, Mask
  <2>9. QED
    BY <1>2, <2>4, <2>6, <2>7, <2>8 DEF RingNext
<1>3. RingTypeOK /\ [RingNext]_ringVars => [Ring!FifoNext]_Contents
  BY <1>2
<1>4. QED
  BY <1>1, <1>3, RingTypeCorrect, PTL DEF RingSpec, RingIsFifo, Ring!FifoSpec

\* What load copies out are the oldest bytes of the ring, in order, whether it
\* takes them in one memcpy or in two (util_cbuf_load, CirBuffer.cpp).
THEOREM LoadTakesOldest == RingSpec => LoadsOldest
<1> DEFINE Oldest == loaded' = SubSeq(Contents, 1, Len(loaded'))
<1>1. ASSUME RingTypeOK, NEW len \in 0 .. MaxLen, len <= Data, Load(len)
      PROVE  Oldest
  <2>1. loaded' = [i \in 1 .. len |-> mp_buf[Mask(m_read + i - 1)]] /\ loaded' \in Blocks
    BY <1>1, LoadTakes
  <2>2. /\ Len(Contents) = Data
        /\ Data \in Nat
        /\ len \in Nat
        /\ \A i \in 1 .. Data : /\ Contents[i] = mp_buf[Mask(m_read + i - 1)]
                                /\ Contents[i] \in Bytes
    BY <1>1, ContentsAreBytes, CirBufferAssumption DEF CirBufferAssumption
  <2>3. loaded' \in Seq(Bytes) /\ loaded' \in [1 .. Len(loaded') -> Bytes]
        /\ Len(loaded') \in Nat
    BY <2>1, BlocksAreSeqs
  <2>4. Len(loaded') = len
    BY <2>1, <2>2, <2>3
  <2>5. /\ SubSeq(Contents, 1, len) \in Seq(Bytes)
        /\ Len(SubSeq(Contents, 1, len)) = IF 1 <= len THEN len - 1 + 1 ELSE 0
        /\ \A i \in 1 .. len - 1 + 1 : SubSeq(Contents, 1, len)[i] = Contents[1 + i - 1]
    <3>1. \A i \in 1 .. len : Contents[i] \in Bytes
      BY <1>1, <2>2
    <3>2. QED
      BY <2>2, <3>1, SubSeqProperties
  <2>6. /\ Len(SubSeq(Contents, 1, len)) = Len(loaded')
        /\ \A i \in 1 .. Len(loaded') : loaded'[i] = SubSeq(Contents, 1, len)[i]
    BY <1>1, <2>1, <2>2, <2>4, <2>5
  <2>7. QED
    BY <2>3, <2>4, <2>5, <2>6, SeqEqual
<1>2. RingTypeOK /\ [RingNext]_ringVars =>
        [m_read' # m_read /\ loaded' # loaded => Oldest]_ringVars
  BY <1>1 DEF RingNext, Save, Consume, Reset, ringVars
<1>3. QED
  BY <1>2, RingTypeCorrect, PTL DEF RingSpec, LoadsOldest

-----------------------------------------------------------------------------
(***************************************************************************)
(* PlayBuffer.  The invariant reads the ring as a sequence of frames,      *)
(* followed by the frame that is played next: each is one further than the *)
(* one before it, the first of them than the one loaded last.  How many    *)
(* there are follows from how far playing is ahead of recording.           *)
(***************************************************************************)
\* What save adds to the contents is its block.
LEMMA SaveAddsBlock ==
  ASSUME RingTypeOK, NEW block \in Blocks, Len(block) <= Space, Save(block)
  PROVE  \A i \in 1 .. Len(block) : Contents'[Data + i] = block[i]
<1>. DEFINE len == Len(block)
<1>1. /\ m_write \in 0 .. Size - 1
      /\ m_read \in 0 .. Size - 1
      /\ Size \in Nat \ {0}
      /\ len \in Nat
  BY CirBufferAssumption, BlocksAreSeqs DEF CirBufferAssumption, RingTypeOK, Positions
<1>2. RingTypeOK'
  BY RingTypeStep DEF RingNext
<1>3. /\ Data = IF m_write >= m_read THEN m_write - m_read ELSE m_write - m_read + Size
      /\ len <= Size - 1 - Data
      /\ Data \in 0 .. Size - 1
  BY <1>1, RingPieces DEF Positions
<1>4. Data' = Data + len
  BY SaveAppends
<1>5. SUFFICES ASSUME NEW i \in 1 .. len
               PROVE  Contents'[Data + i] = block[i]
  OBVIOUS
<1>6. Contents'[Data + i] = mp_buf'[Mask(m_read' + (Data + i) - 1)]
  <2>1. Data + i \in 1 .. Data'
    BY <1>1, <1>3, <1>4
  <2>. QED BY <1>2, <2>1, ContentsStayBytes
<1>7. mp_buf'[Mask(m_write + i - 1)] = block[i]
  BY SaveWrites
<1>. HIDE DEF len
<1>8. Mask(m_read + (Data + i) - 1) = Mask(m_write + i - 1)
  <2>1. /\ Data + i - 1 \in 0 .. Size - 1
        /\ i - 1 \in 0 .. Size - 1
        /\ m_read + (Data + i - 1) = m_read + (Data + i) - 1
        /\ m_write + (i - 1) = m_write + i - 1
    BY <1>1, <1>3
  <2>2. /\ Mask(m_read + (Data + i - 1)) =
             IF m_read + (Data + i - 1) < Size THEN m_read + (Data + i - 1)
             ELSE m_read + (Data + i - 1) - Size
        /\ Mask(m_write + (i - 1)) =
             IF m_write + (i - 1) < Size THEN m_write + (i - 1)
             ELSE m_write + (i - 1) - Size
    BY <1>1, <2>1, Places DEF Positions
  <2>. QED BY <1>1, <1>3, <2>1, <2>2
<1>9. m_read' = m_read
  BY DEF Save
<1>. QED BY <1>6, <1>7, <1>8, <1>9

\* Where a byte of a frame is among the bytes.
LEMMA FramePlaces ==
  ASSUME NEW n \in Nat, NEW k \in 1 .. n, NEW j \in 1 .. Frame
  PROVE  /\ (k - 1) * Frame + j \in 1 .. n * Frame
         /\ (k - 1) * Frame + j + Frame = k * Frame + j
<1>1. Frame \in Nat \ {0}
  BY PlayBufferAssumption, CirBufferAssumption DEF PlayBufferAssumption, CirBufferAssumption
<1>2. (k - 1) * Frame + Frame = k * Frame /\ (k - 1) * Frame \in Nat
  BY <1>1
<1>3. k * Frame <= n * Frame /\ k * Frame \in Nat /\ n * Frame \in Nat
  <2>1. n * Frame = k * Frame + (n - k) * Frame
    BY <1>1
  <2>2. (n - k) * Frame \in Nat /\ k * Frame \in Nat
    BY <1>1
  <2>. QED BY <2>1, <2>2
<1>. QED BY <1>1, <1>2, <1>3

\* The content of the frame played after a frame.
Following(n) == IF n + 1 \in Bytes THEN n + 1 ELSE 0

\* w: the frames in the ring, and the next to be played.
Reference(w) ==
  /\ w \in Seq(Bytes) /\ Len(w) >= 1
  /\ w[Len(w)] = frameNo
  /\ \A k \in 1 .. Len(w) - 1 : w[k + 1] = Following(w[k])
  /\ loaded # <<>> => w[1] = Following(loaded[1])
  /\ Data = (Len(w) - 1) * Frame
  /\ \A k \in 1 .. Len(w) - 1, j \in 1 .. Frame : Contents[(k - 1) * Frame + j] = w[k]

\* What the capture thread has checked is still there.
Checked == /\ capture = "load" => Data >= Frame
           /\ aborted # "load"

PlayInv == /\ PlayTypeOK
           /\ Checked
           /\ \E w : Reference(w)

\* A frame saved is the next of the sequence.
LEMMA SaveExtends ==
  ASSUME RingTypeOK, frameNo \in Bytes, frameNo' = Following(frameNo),
         Frame <= Space, Save([i \in 1 .. Frame |-> frameNo]), NEW w, Reference(w)
  PROVE  /\ Data' = Data + Frame
         /\ \E v : Reference(v)' /\ Len(v) = Len(w) + 1
<1>1. Frame \in 1 .. MaxLen /\ Frame \in Nat \ {0} /\ 0 \in Bytes
  BY PlayBufferAssumption, CirBufferAssumption DEF PlayBufferAssumption, CirBufferAssumption
<1>. DEFINE block == [i \in 1 .. Frame |-> frameNo]
<1>2. block \in Blocks /\ Len(block) = Frame
  <2>1. block \in [1 .. Frame -> Bytes]
    OBVIOUS
  <2>2. block \in Seq(Bytes)
    BY <1>1, <2>1, SeqDef
  <2>3. Len(block) = Frame
    BY <1>1, <2>1, <2>2, LenProperties
  <2>4. MaxLen \in Nat
    BY CirBufferAssumption DEF CirBufferAssumption
  <2>. QED BY <1>1, <2>1, <2>3, <2>4 DEF Blocks
<1>3. \A i \in 1 .. Frame : block[i] = frameNo
  OBVIOUS
<1>. HIDE DEF block
<1>4. /\ Data' = Data + Frame
      /\ \A i \in 1 .. Data : Contents'[i] = Contents[i]
      /\ \A i \in 1 .. Frame : Contents'[Data + i] = frameNo
  BY <1>2, <1>3, SaveAppends, SaveAddsBlock DEF block
<1>5. frameNo' \in Bytes
  BY <1>1 DEF Following
<1>. DEFINE n == Len(w)
<1>14. PICK v : v = Append(w, frameNo')
  OBVIOUS
<1>6. n \in Nat /\ n >= 1 /\ w \in Seq(Bytes)
  BY LenProperties DEF Reference
<1>7. /\ v \in Seq(Bytes)
      /\ Len(v) = n + 1
      /\ \A k \in 1 .. n : v[k] = w[k]
      /\ v[n + 1] = frameNo'
  BY <1>5, <1>6, <1>14, AppendProperties
<1>. HIDE DEF n
<1>8. Data = (n - 1) * Frame /\ w[n] = frameNo
  BY DEF Reference, n
<1>9. Data' = (Len(v) - 1) * Frame
  <2>1. (n - 1) * Frame + Frame = n * Frame
    BY <1>1, <1>6
  <2>2. Len(v) - 1 = n
    BY <1>6, <1>7
  <2>. QED BY <1>4, <1>8, <2>1, <2>2
<1>10. \A k \in 1 .. Len(v) - 1 : v[k + 1] = Following(v[k])
  <2>1. ASSUME NEW k \in 1 .. n
        PROVE  v[k + 1] = Following(v[k])
    <3>1. CASE k = n
      BY <1>6, <1>7, <1>8, <3>1
    <3>2. CASE k # n
      <4>1. k \in 1 .. n - 1 /\ k + 1 \in 1 .. n /\ k \in 1 .. n
        BY <1>6, <3>2
      <4>2. w[k + 1] = Following(w[k])
        BY <4>1 DEF Reference, n
      <4>. QED BY <1>7, <4>1, <4>2
    <3>. QED BY <3>1, <3>2
  <2>. QED BY <1>6, <1>7, <2>1
<1>11. \A k \in 1 .. Len(v) - 1, j \in 1 .. Frame : Contents'[(k - 1) * Frame + j] = v[k]
  <2>1. ASSUME NEW k \in 1 .. n, NEW j \in 1 .. Frame
        PROVE  Contents'[(k - 1) * Frame + j] = v[k]
    <3>1. CASE k = n
      <4>1. (k - 1) * Frame + j = Data + j
        BY <1>8, <3>1
      <4>. QED BY <1>4, <1>6, <1>7, <1>8, <3>1, <4>1
    <3>2. CASE k # n
      <4>1. k \in 1 .. n - 1 /\ n - 1 \in Nat
        BY <1>6, <3>2
      <4>2. (k - 1) * Frame + j \in 1 .. Data
        BY <1>8, <4>1, FramePlaces
      <4>3. Contents[(k - 1) * Frame + j] = w[k]
        BY <4>1 DEF Reference, n
      <4>. QED BY <1>4, <1>7, <4>2, <4>3
    <3>. QED BY <3>1, <3>2
  <2>. QED BY <1>6, <1>7, <2>1
<1>12. loaded' # <<>> => v[1] = Following(loaded'[1])
  <2>1. loaded' = loaded
    BY DEF Save
  <2>. QED BY <1>6, <1>7, <2>1 DEF Reference
<1>13. Reference(v)'
  BY <1>6, <1>7, <1>9, <1>10, <1>11, <1>12 DEF Reference
<1>. QED BY <1>4, <1>7, <1>13 DEF n

\* A frame loaded is the first of the sequence, whole.
LEMMA LoadShortens ==
  ASSUME RingTypeOK, RingTypeOK', frameNo' = frameNo, Frame <= Data, Load(Frame),
         NEW w, Reference(w)
  PROVE  /\ \A i \in 1 .. Frame : loaded'[i] = w[1]
         /\ Reference(Tail(w))'
         /\ Len(Tail(w)) = Len(w) - 1
<1>1. Frame \in 1 .. MaxLen /\ Frame \in Nat \ {0} /\ Frame \in 0 .. MaxLen
  BY PlayBufferAssumption, CirBufferAssumption DEF PlayBufferAssumption, CirBufferAssumption
<1>. DEFINE n == Len(w)
            v == Tail(w)
<1>2. n \in Nat /\ n >= 1 /\ w \in Seq(Bytes) /\ Data = (n - 1) * Frame /\ w[n] = frameNo
  BY LenProperties DEF Reference
<1>. HIDE DEF n
<1>3. n >= 2
  <2>1. n # 1
    BY <1>1, <1>2
  <2>. QED BY <1>2, <2>1
<1>4. v \in Seq(Bytes) /\ Len(v) = n - 1 /\ \A i \in 1 .. n - 1 : v[i] = w[i + 1]
  <2>1. w # <<>>
    BY <1>2, EmptySeq DEF n
  <2>. QED BY <1>2, <2>1, HeadTailProperties DEF n
<1>5. /\ Data \in Nat
      /\ Contents \in Seq(Bytes)
      /\ Len(Contents) = Data
      /\ \A i \in 1 .. Data : /\ Contents[i] = mp_buf[Mask(m_read + i - 1)]
                              /\ Contents[i] \in Bytes
  BY ContentsAreBytes, CirBufferAssumption DEF CirBufferAssumption
<1>. HIDE DEF v
<1>6. \A k \in 1 .. n - 1, j \in 1 .. Frame : Contents[(k - 1) * Frame + j] = w[k]
  BY DEF Reference, n
<1>7. \A i \in 1 .. Frame : loaded'[i] = w[1]
  <2>1. ASSUME NEW i \in 1 .. Frame
        PROVE  loaded'[i] = w[1]
    <3>1. loaded'[i] = mp_buf[Mask(m_read + i - 1)]
      BY <1>1, LoadTakes
    <3>2. mp_buf[Mask(m_read + i - 1)] = Contents[i]
      BY <1>1, <1>5
    <3>3. 1 \in 1 .. n - 1 /\ (1 - 1) * Frame + i = i
      BY <1>1, <1>2, <1>3
    <3>4. Contents[(1 - 1) * Frame + i] = w[1]
      BY <1>6, <3>3
    <3>. QED BY <3>1, <3>2, <3>3, <3>4
  <2>. QED BY <2>1
<1>8. Contents' = SubSeq(Contents, Frame + 1, Data)
  BY <1>1, <1>5, TakeRemoves DEF Load
<1>9. /\ Contents' \in Seq(Bytes)
      /\ Len(Contents') = Data'
      /\ Len(Contents') = Data - Frame
      /\ \A i \in 1 .. Data - Frame : Contents'[i] = Contents[Frame + i]
  <2>1. \A i \in Frame + 1 .. Data : Contents[i] \in Bytes
    BY <1>1, <1>5
  <2>2. /\ SubSeq(Contents, Frame + 1, Data) \in Seq(Bytes)
        /\ Len(SubSeq(Contents, Frame + 1, Data)) =
             IF Frame + 1 <= Data THEN Data - (Frame + 1) + 1 ELSE 0
        /\ \A i \in 1 .. Data - (Frame + 1) + 1 :
             SubSeq(Contents, Frame + 1, Data)[i] = Contents[Frame + 1 + i - 1]
    BY <1>1, <1>5, <2>1, SubSeqProperties
  <2>3. Len(Contents') = Data'
    BY ContentsStayBytes
  <2>. QED BY <1>1, <1>5, <1>8, <2>2, <2>3
<1>10. Data' = (Len(v) - 1) * Frame
  <2>1. (n - 2) * Frame + Frame = (n - 1) * Frame
    BY <1>1, <1>2
  <2>2. Len(v) - 1 = n - 2
    BY <1>2, <1>4
  <2>. QED BY <1>1, <1>2, <1>9, <2>1, <2>2
<1>11. \A k \in 1 .. Len(v) - 1, j \in 1 .. Frame : Contents'[(k - 1) * Frame + j] = v[k]
  <2>1. ASSUME NEW k \in 1 .. n - 2, NEW j \in 1 .. Frame
        PROVE  Contents'[(k - 1) * Frame + j] = v[k]
    <3>1. n - 2 \in Nat /\ n - 2 = Len(v) - 1
      BY <1>2, <1>3, <1>4
    <3>2. /\ (k - 1) * Frame + j \in 1 .. Data - Frame
          /\ (k - 1) * Frame + j + Frame = ((k + 1) - 1) * Frame + j
          /\ (k - 1) * Frame + j \in Int
      <4>1. /\ (k - 1) * Frame + j \in 1 .. (n - 2) * Frame
            /\ (k - 1) * Frame + j + Frame = k * Frame + j
        BY <3>1, FramePlaces
      <4>2. (n - 2) * Frame = Data - Frame
        BY <1>1, <1>2
      <4>. QED BY <4>1, <4>2
    <3>3. Contents'[(k - 1) * Frame + j] = Contents[Frame + ((k - 1) * Frame + j)]
      BY <1>9, <3>2
    <3>4. Frame + ((k - 1) * Frame + j) = ((k + 1) - 1) * Frame + j
      BY <1>1, <3>2
    <3>5. k + 1 \in 1 .. n - 1
      BY <1>2
    <3>6. Contents[((k + 1) - 1) * Frame + j] = w[k + 1]
      BY <1>6, <3>5
    <3>7. v[k] = w[k + 1]
      BY <1>2, <1>4
    <3>. QED BY <3>3, <3>4, <3>6, <3>7
  <2>. QED BY <1>2, <1>4, <2>1
<1>12. \A k \in 1 .. Len(v) - 1 : v[k + 1] = Following(v[k])
  <2>1. ASSUME NEW k \in 1 .. n - 2
        PROVE  v[k + 1] = Following(v[k])
    <3>1. k + 1 \in 1 .. n - 1 /\ k \in 1 .. n - 1 /\ (k + 1) + 1 = k + 2
      BY <1>2
    <3>2. w[(k + 1) + 1] = Following(w[k + 1])
      BY <3>1 DEF Reference, n
    <3>. QED BY <1>4, <3>1, <3>2
  <2>. QED BY <1>2, <1>4, <2>1
<1>13. v[1] = Following(loaded'[1]) /\ v[Len(v)] = frameNo' /\ Len(v) >= 1
  <2>1. 1 \in 1 .. n - 1 /\ n - 1 \in 1 .. n - 1 /\ 1 \in 1 .. Frame /\ (n - 1) + 1 = n
    BY <1>1, <1>2, <1>3
  <2>2. w[1 + 1] = Following(w[1])
    BY <2>1 DEF Reference, n
  <2>3. v[1] = w[1 + 1] /\ v[n - 1] = w[(n - 1) + 1]
    BY <1>4, <2>1
  <2>. QED BY <1>2, <1>3, <1>4, <1>7, <2>1, <2>2, <2>3
<1>14. Reference(v)'
  <2>1. v' = v
    BY DEF v
  <2>2. v \in Seq(Bytes)
    BY <1>4
  <2>. QED BY <1>10, <1>11, <1>12, <1>13, <2>1, <2>2 DEF Reference
<1>. QED BY <1>4, <1>7, <1>14 DEF n, v

-----------------------------------------------------------------------------
(***************************************************************************)
(* The invariant.                                                          *)
(***************************************************************************)
\* What the assumptions on the constants say together.
LEMMA Bounds == Frame \in 1 .. MaxLen /\ Frame \in Nat \ {0} /\ 0 \in Bytes
BY PlayBufferAssumption, CirBufferAssumption DEF PlayBufferAssumption, CirBufferAssumption

\* An empty ring holds no frame, and frame 0 is played first.
LEMMA PlayInvHoldsFirst == PlayInit => PlayInv
<1>. SUFFICES ASSUME PlayInit PROVE PlayInv
  OBVIOUS
<1>. USE DEF PlayInit
<1>1. 0 \in Positions /\ 0 \in 0 .. MaxLen
  BY CirBufferAssumption DEF CirBufferAssumption, Positions
<1>2. RingTypeOK
  <2>1. <<>> \in [1 .. 0 -> Bytes]
    OBVIOUS
  <2>. QED BY <1>1, <2>1, Bounds DEF RingTypeOK, Blocks
<1>3. PlayTypeOK
  <2>1. playing \in BOOLEAN
    BY Zenon
  <2>2. /\ capture \in {"stopped", "first", "check", "load"}
        /\ voice \in {"stopped", "starting", "started", "stopping"}
        /\ frameNo \in Bytes
        /\ aborted \in {"no", "save", "load"}
    BY Bounds
  <2>. QED BY <1>2, <2>1, <2>2, Zenon DEF PlayTypeOK
<1>4. Data = 0
  BY <1>1, RingPieces
<1>5. PICK w : w = <<0>>
  OBVIOUS
<1>6. w \in Seq(Bytes) /\ Len(w) = 1 /\ w[1] = 0
  BY <1>5, Bounds
<1>7. (Len(w) - 1) * Frame = 0
  BY <1>6, Bounds
<1>8. Reference(w)
  BY <1>4, <1>6, <1>7 DEF Reference
<1>9. Checked
  BY DEF Checked
<1>. QED BY <1>3, <1>8, <1>9 DEF PlayInv

\* A step that leaves the ring, and the frame to be played, alone.
LEMMA RingRests ==
  ASSUME UNCHANGED <<ringVars, frameNo>>, NEW w, Reference(w)
  PROVE  Reference(w)' /\ Data' = Data
<1>1. Data' = Data /\ Contents' = Contents
  BY DEF ringVars, Data, Contents, Mask
<1>. QED BY <1>1 DEF Reference, ringVars

\* Play and capture keep the ring a sequence of frames that follow each other, and
\* only the capture thread takes any out.
LEMMA PlayInvStep ==
  ASSUME PlayInv, [PlayNext]_playVars
  PROVE  PlayInv'
<1>. USE Bounds
<1>1. PICK w : Reference(w)
  BY DEF PlayInv
<1>2. RingTypeOK /\ Checked /\ PlayTypeOK /\ frameNo \in Bytes
  BY DEF PlayInv, PlayTypeOK
<1>3. ASSUME UNCHANGED <<ringVars, frameNo>>, PlayTypeOK', Checked'
      PROVE  PlayInv'
  BY <1>1, <1>3, RingRests DEF PlayInv
<1>4. UNCHANGED ringVars => RingTypeOK' /\ Data' = Data
  BY <1>2 DEF RingTypeOK, ringVars, Data, Mask
<1>5. Data \in Nat
  BY <1>2, ContentsAreBytes, CirBufferAssumption DEF CirBufferAssumption
<1>6. CASE \/ StartCaputerMIC \/ StartPlayStream \/ StopCaptureMIC \/ StopPlayStream
           \/ CaptureBreaks \/ PlayBreaks \/ SkipFirst \/ CheckData \/ UNCHANGED playVars
  <2>. USE DEF StartCaputerMIC, StartPlayStream, StopCaptureMIC, StopPlayStream,
               CaptureBreaks, PlayBreaks, SkipFirst, CheckData, playVars
  <2>1. UNCHANGED <<ringVars, frameNo>>
    BY <1>6
  <2>2. PlayTypeOK'
    <3>1. playing' \in BOOLEAN
      BY <1>2, <1>6 DEF PlayTypeOK
    <3>2. /\ capture' \in {"stopped", "first", "check", "load"}
          /\ voice' \in {"stopped", "starting", "started", "stopping"}
          /\ aborted' = aborted
      BY <1>2, <1>6 DEF PlayTypeOK
    <3>. QED BY <1>2, <1>4, <2>1, <3>1, <3>2 DEF PlayTypeOK
  <2>3. Checked'
    BY <1>2, <1>4, <1>6, <2>1 DEF Checked
  <2>. QED BY <1>3, <2>1, <2>2, <2>3
<1>7. CASE PlayFrame
  <2>1. CASE Frame > Space
    <3>1. UNCHANGED <<ringVars, frameNo, voice, playing, capture>> /\ aborted' = "save"
      BY <1>2, <1>7, <2>1, RingPieces DEF PlayFrame, RingTypeOK, Positions
    <3>2. PlayTypeOK'
      BY <1>2, <1>4, <3>1 DEF PlayTypeOK
    <3>3. Checked'
      BY <1>2, <1>4, <3>1 DEF Checked
    <3>. QED BY <1>3, <3>1, <3>2, <3>3
  <2>2. CASE Frame <= Space
    <3>1. /\ Save([i \in 1 .. Frame |-> frameNo])
          /\ frameNo' = Following(frameNo)
          /\ UNCHANGED <<voice, playing, capture, aborted>>
      BY <1>2, <1>7, <2>2, RingPieces DEF PlayFrame, RingTypeOK, Positions, Following
    <3>2. /\ Data' = Data + Frame
          /\ \E v : Reference(v)' /\ Len(v) = Len(w) + 1
      BY <1>1, <1>2, <2>2, <3>1, SaveExtends
    <3>3. Checked'
      BY <1>2, <1>5, <3>1, <3>2 DEF Checked
    <3>4. RingTypeOK'
      <4>1. [i \in 1 .. Frame |-> frameNo] \in Blocks
        BY <1>2, CirBufferAssumption DEF CirBufferAssumption, Blocks
      <4>2. Len([i \in 1 .. Frame |-> frameNo]) = Frame
        <5>1. [i \in 1 .. Frame |-> frameNo] \in Seq(Bytes)
          BY <4>1, BlocksAreSeqs
        <5>. QED BY <5>1, LenProperties
      <4>. QED BY <1>2, <2>2, <3>1, <4>1, <4>2, RingTypeStep DEF RingNext
    <3>5. PlayTypeOK'
      <4>1. frameNo' \in Bytes
        BY <3>1 DEF Following
      <4>. QED BY <1>2, <3>1, <3>4, <4>1 DEF PlayTypeOK
    <3>. QED BY <3>2, <3>3, <3>5 DEF PlayInv
  <2>3. Space \in Int
    BY <1>2, RingPieces DEF RingTypeOK, Positions
  <2>. QED BY <2>1, <2>2, <2>3
<1>8. CASE LoadFrame
  <2>1. /\ Frame <= Data /\ Load(Frame) /\ capture' = "check"
        /\ UNCHANGED <<voice, playing, frameNo, aborted>>
    BY <1>2, <1>5, <1>8 DEF LoadFrame, Checked
  <2>2. RingTypeOK'
    <3>1. Frame \in 0 .. MaxLen
      BY CirBufferAssumption DEF CirBufferAssumption
    <3>. QED BY <1>2, <2>1, <3>1, RingTypeStep DEF RingNext
  <2>3. Reference(Tail(w))'
    BY <1>1, <1>2, <2>1, <2>2, LoadShortens
  <2>4. PlayTypeOK' /\ Checked'
    BY <1>2, <2>1, <2>2 DEF PlayTypeOK, Checked
  <2>. QED BY <2>3, <2>4 DEF PlayInv
<1>. QED BY <1>6, <1>7, <1>8 DEF PlayNext

\* So the ring is a sequence of frames in every state.
LEMMA PlayInvHolds == PlaySpec => []PlayInv
<1>1. PlayInv /\ [PlayNext]_playVars => PlayInv'
  BY PlayInvStep
<1>. QED BY <1>1, PlayInvHoldsFirst, PTL DEF PlaySpec

\* The threads only save and load, and only what fits: what is proved of the ring
\* holds of the one they share (VoiceModule.cpp:175 and 298).
THEOREM UsesRing == PlaySpec => RingSpec
<1>1. PlayInit => RingInit
  BY Bounds DEF PlayInit, RingInit
<1>2. ASSUME PlayInv, PlayNext
      PROVE  [RingNext]_ringVars
  <2>1. RingTypeOK /\ Checked /\ frameNo \in Bytes /\ Data \in Nat /\ Space \in Int
    BY <1>2, ContentsAreBytes, RingPieces, CirBufferAssumption
       DEF PlayInv, PlayTypeOK, RingTypeOK, Positions, CirBufferAssumption
  <2>2. CASE \/ StartCaputerMIC \/ StartPlayStream \/ StopCaptureMIC \/ StopPlayStream
             \/ CaptureBreaks \/ PlayBreaks \/ SkipFirst \/ CheckData
    BY <2>2 DEF StartCaputerMIC, StartPlayStream, StopCaptureMIC, StopPlayStream,
                CaptureBreaks, PlayBreaks, SkipFirst, CheckData
  <2>3. CASE PlayFrame
    <3>. DEFINE block == [i \in 1 .. Frame |-> frameNo]
    <3>1. block \in Blocks
      BY <2>1, Bounds, CirBufferAssumption DEF CirBufferAssumption, Blocks
    <3>2. Len(block) = Frame
      <4>1. block \in Seq(Bytes)
        BY <3>1, BlocksAreSeqs
      <4>. QED BY <4>1, Bounds, LenProperties
    <3>3. UNCHANGED ringVars \/ (Frame <= Space /\ Save(block))
      BY <2>3 DEF PlayFrame
    <3>. HIDE DEF block
    <3>. QED BY <3>1, <3>2, <3>3 DEF RingNext
  <2>4. CASE LoadFrame
    <3>1. Frame \in 0 .. MaxLen
      BY Bounds, CirBufferAssumption DEF CirBufferAssumption
    <3>2. UNCHANGED ringVars \/ (Frame <= Data /\ Load(Frame))
      BY <2>4 DEF LoadFrame
    <3>. QED BY <3>1, <3>2 DEF RingNext
  <2>. QED BY <1>2, <2>2, <2>3, <2>4 DEF PlayNext
<1>3. PlayInv /\ [PlayNext]_playVars => [RingNext]_ringVars
  BY <1>2 DEF playVars
<1>. QED BY <1>1, <1>3, PlayInvHolds, PTL DEF PlaySpec, RingSpec

\* So it is a queue for the two threads, and a load gives them the oldest bytes.
THEOREM SharedRingIsFifo == PlaySpec => RingIsFifo /\ LoadsOldest /\ []SpaceAndData
BY UsesRing, CirBufferIsFifo, LoadTakesOldest, SpaceAndDataHold

\* The sound threads keep the types of the ring and of their flags, whatever events
\* the sound card raises (VoiceModule.cpp).
THEOREM PlayTypeCorrect == PlaySpec => []PlayTypeOK
<1>1. PlayInv => PlayTypeOK
  BY DEF PlayInv
<1>. QED BY <1>1, PlayInvHolds, PTL

\* The assert of load never fails, although the amount of data was read without the
\* lock: only the capture thread takes data out (VoiceModule.cpp, CirBuffer.cpp:110).
THEOREM LoadAlwaysFits == PlaySpec => []LoadFits
<1>1. PlayInv => LoadFits
  BY DEF PlayInv, Checked, LoadFits
<1>. QED BY <1>1, PlayInvHolds, PTL

\* The capture thread gives the echo canceller whole frames, each the one played
\* after the frame it gave before, across restarts and the end of the ring
\* (VoiceModule.cpp).
THEOREM FramesArriveInOrder == PlaySpec => FramesInOrder
<1>. DEFINE InOrder ==
       loaded' # loaded =>
         /\ \A i \in 1 .. Frame : loaded'[i] = loaded'[1]
         /\ loaded # <<>> => \/ loaded'[1] = loaded[1] + 1
                             \/ loaded'[1] = 0 /\ loaded[1] + 1 \notin Bytes
<1>1. ASSUME PlayInv, PlayInv', PlayNext
      PROVE  InOrder
  <2>1. SUFFICES ASSUME loaded' # loaded PROVE InOrder
    OBVIOUS
  <2>2. frameNo' = frameNo /\ Frame <= Data /\ Load(Frame)
    BY <1>1, <2>1 DEF PlayNext, StartCaputerMIC, StartPlayStream, StopCaptureMIC,
                      StopPlayStream, CaptureBreaks, PlayBreaks, PlayFrame, SkipFirst,
                      CheckData, LoadFrame, ringVars, Save
  <2>3. PICK w : Reference(w)
    BY <1>1 DEF PlayInv
  <2>4. \A i \in 1 .. Frame : loaded'[i] = w[1]
    BY <1>1, <2>2, <2>3, LoadShortens DEF PlayInv, PlayTypeOK
  <2>5. 1 \in 1 .. Frame
    BY Bounds
  <2>6. loaded # <<>> => w[1] = Following(loaded[1])
    BY <2>3 DEF Reference
  <2>. QED BY <2>4, <2>5, <2>6 DEF Following
<1>2. PlayInv /\ PlayInv' /\ [PlayNext]_playVars => [InOrder]_playVars
  BY <1>1
<1>. QED BY <1>2, PlayInvHolds, PTL DEF PlaySpec, FramesInOrder
=============================================================================

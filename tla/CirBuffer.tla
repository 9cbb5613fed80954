----------------------------- MODULE CirBuffer -----------------------------
(***************************************************************************)
(* The ring buffer of the client (NetVoice/Source/CirBuffer.cpp), byte for *)
(* byte.  The positions are size_t and are masked with size - 1, which is  *)
(* % Size for the powers of two it is created with.                        *)
(*                                                                         *)
(* The asserts of save, load and consume are the guards here: what callers *)
(* do about them is in PlayBuffer.                                         *)
(***************************************************************************)
EXTENDS Integers, Sequences

CONSTANTS
  Size,     (* m_buf_size                                                    *)
  Bytes,    (* the data                                                      *)
  MaxLen    (* bound: the longest block saved, loaded or consumed at once    *)

ASSUME CirBufferAssumption ==
  /\ Size \in Nat \ {0}
  /\ \E k \in 0 .. Size : Size = 2^k
  /\ MaxLen \in 0 .. Size

VARIABLES
  mp_buf,   (* the memory                                                    *)
  m_write,  (* where the next byte goes                                      *)
  m_read,   (* where the next byte comes from                                *)
  loaded    (* what the last load copied out                                 *)

ringVars == <<mp_buf, m_write, m_read, loaded>>

Positions == 0 .. Size - 1

Blocks == UNION {[1 .. n -> Bytes] : n \in 0 .. MaxLen}

RingTypeOK ==
  /\ mp_buf \in [Positions -> Bytes]
  /\ m_write \in Positions
  /\ m_read \in Positions
  /\ loaded \in Blocks

\* malloc: the memory holds anything.
RingInit ==
  /\ mp_buf \in [Positions -> Bytes]
  /\ m_write = 0
  /\ m_read = 0
  /\ loaded = <<>>

-----------------------------------------------------------------------------
Mask(n) == n % Size

\* util_cbuf_data and util_cbuf_space: one position always stays empty.
Data == Mask(m_write - m_read)

Space == Mask(m_read - (m_write + 1))

\* Mutant: the last byte before the end is left to the second piece.
DataToEnd_Short == LET end == Size - m_read
                       n   == Mask(m_write + end)
                   IN  IF n < end THEN n ELSE end - 1

\* How much can be read, or written, before the end of the memory.
DataToEnd == LET end == Size - m_read
                 n   == Mask(m_write + end)
             IN  IF n < end THEN n ELSE end

SpaceToEnd == LET end == Size - 1 - m_write
                  n   == Mask(m_read + end)
              IN  IF n <= end THEN n ELSE end + 1

\* memcpy into the ring at a position, and out of it.
CopyIn(buf, at, block) ==
  [k \in DOMAIN buf |-> IF k \in at .. at + Len(block) - 1 THEN block[k - at + 1]
                        ELSE buf[k]]

CopyOut(at, n) == [i \in 1 .. n |-> mp_buf[at + i - 1]]

\* Mutant: the write position is not masked.
Save_NoMask(block) ==
  LET c   == SpaceToEnd
      len == Len(block)
  IN  /\ mp_buf' = IF c >= len THEN CopyIn(mp_buf, m_write, block)
                   ELSE CopyIn(CopyIn(mp_buf, m_write, SubSeq(block, 1, c)),
                               0, SubSeq(block, c + 1, len))
      /\ m_write' = m_write + len
      /\ UNCHANGED <<m_read, loaded>>

\* util_cbuf_save: in one piece if it fits before the end, else in two.
Save(block) ==
  LET c   == SpaceToEnd
      len == Len(block)
  IN  /\ mp_buf' = IF c >= len THEN CopyIn(mp_buf, m_write, block)
                   ELSE CopyIn(CopyIn(mp_buf, m_write, SubSeq(block, 1, c)),
                               0, SubSeq(block, c + 1, len))
      /\ m_write' = Mask(m_write + len)
      /\ UNCHANGED <<m_read, loaded>>

\* util_cbuf_load.
Load(len) ==
  LET c == DataToEnd
  IN  /\ loaded' = IF c >= len THEN CopyOut(m_read, len)
                   ELSE CopyOut(m_read, c) \o CopyOut(0, len - c)
      /\ m_read' = Mask(m_read + len)
      /\ UNCHANGED <<mp_buf, m_write>>

Consume(cnt) ==
  /\ m_read' = Mask(m_read + cnt)
  /\ UNCHANGED <<mp_buf, m_write, loaded>>

Reset ==
  /\ m_read' = 0
  /\ m_write' = 0
  /\ UNCHANGED <<mp_buf, loaded>>

RingNext ==
  \/ \E block \in Blocks : Len(block) <= Space /\ Save(block)
  \/ \E len \in 0 .. MaxLen : len <= Data /\ Load(len)
  \/ \E cnt \in 0 .. MaxLen : cnt <= Data /\ Consume(cnt)
  \/ Reset

RingSpec == RingInit /\ [][RingNext]_ringVars

-----------------------------------------------------------------------------
(***************************************************************************)
(* Properties.                                                             *)
(***************************************************************************)
\* The bytes between the read and the write position, in order.
Contents == [i \in 1 .. Data |-> mp_buf[Mask(m_read + i - 1)]]

\* The ring is a queue of at most Size - 1 bytes, wherever its contents wrap
\* round the end of the memory: save only appends, load, consume and reset only
\* remove from the front.
Ring == INSTANCE Fifo WITH Items <- Bytes, Capacity <- Size - 1, queue <- Contents

RingIsFifo == Ring!FifoSpec

\* load gives the caller the oldest bytes, in order, in one piece or two.
LoadsOldest ==
  [][m_read' # m_read /\ loaded' # loaded =>
       loaded' = SubSeq(Contents, 1, Len(loaded'))]_ringVars

\* Data and space always make up the ring but for the one empty position, and
\* the pieces before the end of the memory are never longer than the whole
\* (the four macros and functions at the top of CirBuffer.cpp).
SpaceAndData ==
  /\ Data + Space = Size - 1
  /\ DataToEnd <= Data /\ m_read + DataToEnd <= Size
  /\ SpaceToEnd <= Space /\ m_write + SpaceToEnd <= Size
=============================================================================

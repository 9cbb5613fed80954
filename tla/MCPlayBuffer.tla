---------------------------- MODULE MCPlayBuffer ----------------------------
(***************************************************************************)
(* TLC instances of PlayBuffer.  A frame is 640 bytes and the ring 4096    *)
(* (Max2nUp of five frames): 5 and 32 units of 128 bytes.                  *)
(***************************************************************************)
EXTENDS PlayBuffer

\* As many contents as frames fit in the ring, and two more.
MCBytes == 0 .. 7
=============================================================================

--------------------------- MODULE MCVoiceSession ---------------------------
(***************************************************************************)
(* TLC instances of VoiceSession.                                          *)
(***************************************************************************)
EXTENDS VoiceSession
=============================================================================

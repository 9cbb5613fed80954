---------------------------- MODULE MCGameSession ----------------------------
(***************************************************************************)
(* TLC instances of GameSession.                                           *)
(***************************************************************************)
EXTENDS GameSession
=============================================================================

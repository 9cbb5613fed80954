-------------------------- MODULE MCFastIndexLock --------------------------
(***************************************************************************)
(* TLC instances of FastIndexLock.                                         *)
(***************************************************************************)
EXTENDS FastIndexLock
=============================================================================

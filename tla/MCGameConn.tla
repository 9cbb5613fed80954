----------------------------- MODULE MCGameConn -----------------------------
(***************************************************************************)
(* TLC instances of GameConn: a handshake, a leave-group request, whose    *)
(* handler looks at nothing, and a command without a handler.              *)
(***************************************************************************)
EXTENDS GameConn

MCCmds == {1, 7, 5}

\* A short packet of a known command, and a command past the handler table.
MCStrays == {HeaderOf([cmd |-> 7, len |-> 1]), HeaderOf([cmd |-> 1024, len |-> 1])}
=============================================================================

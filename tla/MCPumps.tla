------------------------------ MODULE MCPumps ------------------------------
(* Pumps for TLC: more input than both windows hold, so that a peer which  *)
(* echoes it has to be read while it is fed, more output than a pipe       *)
(* holds, and a child that never ends.                                     *)
EXTENDS Pumps
=============================================================================

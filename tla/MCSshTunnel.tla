---------------------------- MODULE MCSshTunnel ----------------------------
(* Small instances of SshTunnel for TLC. *)
EXTENDS SshTunnel, TLC

CONSTANTS c1, c2

\* One connection with more than a window holds, and one whose service sends a
\* little that the client need not read.
LongAndShort == c1 :> [up |-> 2, down |-> 1] @@ c2 :> [up |-> 0, down |-> 1]
=============================================================================

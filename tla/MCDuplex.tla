------------------------------ MODULE MCDuplex ------------------------------
(* DuplexExchange for TLC, on a message-mode named pipe.                   *)
EXTENDS DuplexExchange
=============================================================================

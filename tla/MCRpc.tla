-------------------------------- MODULE MCRpc --------------------------------
(* Servers whose replies end at, one byte behind, and two bytes behind the   *)
(* end of a range, for TLC.                                                  *)
EXTENDS Rpc

MCTotal == [exact |-> 6, one |-> 7, two |-> 8, small |-> 1]
MCServers == DOMAIN MCTotal
MCNewline == [exact |-> TRUE, one |-> FALSE, two |-> TRUE, small |-> FALSE]
=============================================================================

--------------------------- MODULE MCBridgeServer ---------------------------
(* A small instance of BridgeServer: one caller, one process.              *)
EXTENDS BridgeServer

CONSTANT c1

=============================================================================

--------------------------- MODULE MCBridgeClient ---------------------------
(* A small instance of BridgeClient.                                       *)
EXTENDS BridgeClient

CONSTANTS c1, c2

Good(codec) ==
    [protocolVersion |-> "1", methods |-> V2_METHODS, selectedCodec |-> codec,
     maxFrameBytesValid |-> TRUE, codecVersion |-> 1]

\* An acceptable offer of each codec, and one that misses a method.
MCOffers == {Good(codec) : codec \in Codecs}
              \cup {[Good(JSON_RPC_CODEC) EXCEPT !.methods = @ \ {"runtime.ping"}]}

=============================================================================

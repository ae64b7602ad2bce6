---------------------------- MODULE BridgeServer ----------------------------
(***************************************************************************)
(* The engine's end of the stdio bridge (run_bridge_server of              *)
(* rust-engine/crates/dh-engine/src/bridge.rs) with the client of          *)
(* BridgeClient at the other end.  transport[k] is the codec of process    *)
(* k's BridgeTransportState.                                               *)
(***************************************************************************)
EXTENDS BridgeClient

BRIDGE_INITIALIZE_METHODS ==
    {"dh.initialize", "query.search", "query.definition", "query.relationship",
     "query.buildEvidence", "query.callHierarchy", "query.entryPoints"}

\* The codec the engine selects, or "failed".
negotiate_transport(p) ==
    CASE p.codecOverride = "json" -> JSON_RPC_CODEC
      [] p.codecOverride # "json" /\ p.binaryEnabled
           /\ MSGPACK_RPC_CODEC \in p.supportedCodecs
           /\ p.preferredCodec = MSGPACK_RPC_CODEC -> MSGPACK_RPC_CODEC
      [] OTHER -> IF p.codecOverride = "msgpack" THEN "failed" ELSE JSON_RPC_CODEC

\* The engine echoes the frame size the client asked for.
initialize_result(codec) ==
    [protocolVersion |-> "1", methods |-> BRIDGE_INITIALIZE_METHODS,
     selectedCodec |-> codec, maxFrameBytesValid |-> TRUE, codecVersion |-> 1]

\* The request the engine reads next, and whether its codec decodes it.
Reads(k, decodes) ==
    /\ Live(k)
    /\ stdin[k] # <<>>
    /\ (Head(stdin[k]).codec = transport[k]) = decodes
    /\ stdin' = [stdin EXCEPT ![k] = Tail(@)]

\* A frame in the wrong codec: neither the request nor its id can be decoded,
\* so nothing is answered, and the error is terminal.
read_rpc_request_failure(k) ==
    /\ Reads(k, FALSE)
    /\ proc' = [proc EXCEPT ![k] = "gone"]
    /\ UNCHANGED <<clientVars, stdout, half, transport>>

\* dh.initialize: the loop replaces its transport before it writes the answer.
initialize(k) ==
    /\ Reads(k, TRUE)
    /\ Head(stdin[k]).method = "dh.initialize"
    /\ LET message == Head(stdin[k])
           selected == negotiate_transport(message.params)
           next == IF selected = "failed" THEN transport[k] ELSE selected
       IN /\ transport' = [transport EXCEPT ![k] = next]
          /\ stdout' = [stdout EXCEPT ![k] = Append(@,
                IF selected = "failed"
                THEN Response(k, message.id, next, "other", NoOffer)
                ELSE Response(k, message.id, next, "offer", initialize_result(selected)))]
    /\ UNCHANGED <<clientVars, proc, half>>

\* Any other method: the router's answer, in the transport's codec.
route(k) ==
    /\ Reads(k, TRUE)
    /\ Head(stdin[k]).method # "dh.initialize"
    /\ stdout' = [stdout EXCEPT ![k] =
                    Append(@, Response(k, Head(stdin[k]).id, transport[k], "other", NoOffer))]
    /\ UNCHANGED <<clientVars, proc, half, transport>>

\* An answer larger than maxFrameBytes ends the loop without being written.
write_rpc_response_failure(k) ==
    /\ Reads(k, TRUE)
    /\ Head(stdin[k]).method # "dh.initialize"
    /\ proc' = [proc EXCEPT ![k] = "gone"]
    /\ UNCHANGED <<clientVars, stdout, half, transport>>

run_bridge_server(k) ==
    \/ read_rpc_request_failure(k)
    \/ initialize(k)
    \/ route(k)
    \/ write_rpc_response_failure(k)

EngineNext == ClientNext \/ \E k \in Children : run_bridge_server(k) \/ die(k)

EngineSpec == Init /\ [][EngineNext]_vars

-----------------------------------------------------------------------------
(* Properties *)

\* The answer to dh.initialize is a frame the client can decode: it is JSON as
\* long as the client has not switched codec, whatever codec it selects.
BootstrapDecodable ==
    \A k \in Children : \A i \in DOMAIN stdout[k] :
        stdout[k][i].kind = "offer" /\ ~initialized => stdout[k][i].codec = activeCodec

=============================================================================

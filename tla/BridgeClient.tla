---------------------------- MODULE BridgeClient ----------------------------
(***************************************************************************)
(* The TypeScript client of the engine's stdio bridge (class               *)
(* DhJsonRpcStdioClient of                                                 *)
(* packages/opencode-app/src/bridge/dh-jsonrpc-stdio-client.ts).           *)
(*                                                                         *)
(* One client object and the calls made on it.  Callers run on one event   *)
(* loop, so a piece of code between two awaits is one action; calls of     *)
(* different callers overlap at the awaits.  The process at the other end  *)
(* of the pipes is arbitrary here: it answers a request at most once, in   *)
(* any order and codec, with anything, or not at all, and it may die.      *)
(* BridgeServer puts the engine in its place.                              *)
(*                                                                         *)
(* What a call returns, and with which error code it fails, is left out:   *)
(* the properties are about when it goes on and with which answer.         *)
(***************************************************************************)
EXTENDS Integers, Sequences, FiniteSets

CONSTANTS
    Callers,       \* concurrent users of the client object
    MaxChildren,   \* bound on the processes the client spawns
    MaxRequests,   \* bound on the request ids it hands out
    Overrides,     \* values of DH_BRIDGE_CODEC to consider
    Offers         \* initialize results the arbitrary process may send

VARIABLES
    override,       \* DH_BRIDGE_CODEC, normalised
    child,          \* this.child; 0 is undefined
    closed,         \* this.closed
    nextRequestId,  \* this.nextRequestId
    activeCodec,    \* this.activeCodec
    initialized,    \* this.initialized
    readBuffer,     \* what this.readBuffer holds between two data events
    pending,        \* the keys of this.pending
    call,           \* the call each caller has in progress, or its last one
    proc,           \* the processes
    stdin,          \* requests written and not yet read
    stdout,         \* answers written and not yet delivered as data events
    half,           \* processes whose first answer is delivered in part
    transport       \* the codec the process uses: JSON until it selects one

clientVars == <<override, child, closed, nextRequestId, activeCodec,
                initialized, readBuffer, pending, call>>
processVars == <<proc, stdin, stdout, half, transport>>
vars == <<clientVars, processVars>>

JSON_RPC_CODEC == "json-rpc-v1"
MSGPACK_RPC_CODEC == "msgpack-rpc-v1"
Codecs == {JSON_RPC_CODEC, MSGPACK_RPC_CODEC}

V2_METHODS == {"dh.initialize", "query.search", "query.definition",
               "query.relationship", "query.buildEvidence",
               "query.callHierarchy", "query.entryPoints", "runtime.ping"}

Children == 1..MaxChildren
Ids == 1..MaxRequests
OfferType == [protocolVersion : {"1", "2"}, methods : SUBSET (V2_METHODS \cup {"other"}),
              selectedCodec : Codecs, maxFrameBytesValid : BOOLEAN,
              codecVersion : {1, 2}]

ASSUME BridgeAssumption ==
    /\ MaxChildren \in Nat /\ MaxRequests \in Nat
    /\ Overrides \subseteq {"auto", "json", "msgpack"}
    /\ Offers \subseteq OfferType

-----------------------------------------------------------------------------
(* Messages *)

TransportParams ==
    [supportedCodecs : SUBSET Codecs, preferredCodec : Codecs,
     binaryEnabled : BOOLEAN, codecOverride : {"auto", "json", "msgpack"}]

initializeTransportParams ==
    [supportedCodecs |-> IF override = "json" THEN {JSON_RPC_CODEC} ELSE Codecs,
     preferredCodec |-> IF override = "json" THEN JSON_RPC_CODEC ELSE MSGPACK_RPC_CODEC,
     binaryEnabled |-> override # "json",
     codecOverride |-> override]

\* Mutant of Request: the ids start again with each process.
RequestRestartingIds(id, method) ==
    [id |-> IF method = "dh.initialize" THEN 1 ELSE id, codec |-> activeCodec,
     method |-> method, params |-> initializeTransportParams]

\* Mutant of Request: the counter is read before it is first incremented.
RequestFromZero(id, method) ==
    [id |-> id - 1, codec |-> activeCodec, method |-> method,
     params |-> initializeTransportParams]

Request(id, method) ==
    [id |-> id, codec |-> activeCodec, method |-> method,
     params |-> initializeTransportParams]

RequestType ==
    [id : Ids, codec : Codecs, method : {"dh.initialize", "other"},
     params : TransportParams]

\* kind "offer" is a result of dh.initialize, "other" any other result or an
\* error, "malformed" a frame whose header is invalid or announces too many
\* bytes.
NoOffer == [protocolVersion |-> "2", methods |-> {}, selectedCodec |-> JSON_RPC_CODEC,
            maxFrameBytesValid |-> TRUE, codecVersion |-> 1]

Kinds == {"offer", "other", "malformed"}

Response(k, id, codec, kind, offer) ==
    [from |-> k, id |-> id, codec |-> codec, kind |-> kind, offer |-> offer]

ResponseType ==
    [from : Children, id : Ids, codec : Codecs, kind : Kinds, offer : OfferType]

NoAnswer == [from |-> 0, id |-> 0, codec |-> JSON_RPC_CODEC, kind |-> "other",
             offer |-> NoOffer]

-----------------------------------------------------------------------------
(* Calls *)

Empty == 0      \* readBuffer: nothing
Garbled == -1   \* readBuffer: bytes that do not begin with a frame

Phases == {"startup", "request"}

CallType ==
    [pc : {"idle", "ready"} \cup Phases, id : Ids \cup {0}, to : Children \cup {0},
     answer : ResponseType \cup {NoAnswer}]

CallAt(pc, id, k) == [pc |-> pc, id |-> id, to |-> k, answer |-> NoAnswer]
NoCall == CallAt("idle", 0, 0)
ReadyCall == CallAt("ready", 0, 0)

\* The caller is suspended at the await of a request.
Waiting(c) == call[c].pc \in Phases /\ call[c].answer = NoAnswer

Answered(c, phase) == call[c].pc = phase /\ call[c].answer # NoAnswer

\* The call returns or throws.
Return(c) == call' = [call EXCEPT ![c] = NoCall]

\* Mutant of failAllPending: the map is cleared, the promises are forgotten.
failAllPendingSilently ==
    /\ pending' = {}
    /\ UNCHANGED call

\* Reject the promises of all pending requests.
failAllPending ==
    /\ call' = [c \in Callers |->
                  IF Waiting(c) /\ call[c].id \in pending
                  THEN NoCall ELSE call[c]]
    /\ pending' = {}

-----------------------------------------------------------------------------
(* Operations of the client *)

\* request(): nothing is sent once the client is closed; a frame larger than
\* maxFrameBytes is taken back from pending before it is sent.  The id is used
\* up in any case.
request(c, phase, k, message, tooLarge) ==
    /\ nextRequestId' = nextRequestId + 1
    /\ IF closed \/ tooLarge
       THEN /\ Return(c)
            /\ UNCHANGED <<pending, stdin>>
       ELSE /\ call' = [call EXCEPT ![c] = CallAt(phase, message.id, k)]
            /\ pending' = pending \cup {message.id}
            /\ stdin' = [stdin EXCEPT ![k] = Append(@, message)]

\* A call on an initialized client: ensureInitialized returns at once.
callInitialized(c) ==
    /\ call[c].pc = "idle"
    /\ initialized
    /\ call' = [call EXCEPT ![c] = ReadyCall]
    /\ UNCHANGED <<override, child, closed, nextRequestId, activeCodec,
                   initialized, readBuffer, pending, processVars>>

Spawned == {k \in Children : proc[k] # "none"}

\* A call on any other client: ensureInitialized spawns a process, makes it
\* the client's child and sends dh.initialize.  Spawning may fail, which the
\* client learns from a later event.
ensureInitialized(c) ==
    /\ call[c].pc = "idle"
    /\ ~initialized
    /\ Spawned # Children
    /\ nextRequestId \in Ids
    /\ LET k == Cardinality(Spawned) + 1
       IN /\ \E p \in {"running", "failed"} : proc' = [proc EXCEPT ![k] = p]
          /\ child' = k
          /\ request(c, "startup", k,
                     Request(nextRequestId, "dh.initialize"), FALSE)
    /\ UNCHANGED <<override, closed, activeCodec, initialized, readBuffer,
                   stdout, half, transport>>

\* The capabilities name exactly the methods the client relies on.
parseV2Capabilities(offer) ==
    /\ offer.protocolVersion = "1"
    /\ offer.methods = V2_METHODS

\* The conditions under which applyNegotiatedTransport throws nothing.
TransportAccepted(offer) ==
    /\ offer.maxFrameBytesValid
    /\ override = "msgpack" => offer.selectedCodec = MSGPACK_RPC_CODEC
    /\ offer.selectedCodec = MSGPACK_RPC_CODEC => offer.codecVersion = 1

Acceptable(offer) == parseV2Capabilities(offer) /\ TransportAccepted(offer)

\* ensureInitialized goes on with the answer to dh.initialize.
applyNegotiatedTransport(c) ==
    /\ Answered(c, "startup")
    /\ IF call[c].answer.kind = "offer" /\ Acceptable(call[c].answer.offer)
       THEN /\ activeCodec' = call[c].answer.offer.selectedCodec
            /\ initialized' = TRUE
            /\ call' = [call EXCEPT ![c] = ReadyCall]
       ELSE /\ Return(c)
            /\ UNCHANGED <<activeCodec, initialized>>
    /\ UNCHANGED <<override, child, closed, nextRequestId, readBuffer, pending,
                   processVars>>

\* The operation itself, after ensureInitialized: getInitializeSnapshot returns
\* and a query class outside the contract is refused; runAskQuery,
\* runSessionCommand and getRuntimePing send one request.
runOperation(c) ==
    /\ call[c].pc = "ready"
    /\ \/ /\ Return(c)
          /\ UNCHANGED <<nextRequestId, pending, stdin>>
       \/ /\ nextRequestId \in Ids
          /\ \E tooLarge \in BOOLEAN :
                request(c, "request", child, Request(nextRequestId, "other"), tooLarge)
    /\ UNCHANGED <<override, child, closed, activeCodec, initialized,
                   readBuffer, proc, stdout, half, transport>>

\* The operation goes on with its answer (parseBridgeAskResult, mapRpcError).
finishOperation(c) ==
    /\ Answered(c, "request")
    /\ Return(c)
    /\ UNCHANGED <<override, child, closed, nextRequestId, activeCodec,
                   initialized, readBuffer, pending, processVars>>

\* Mutant of close: only the process is stopped.
closeKeepingPending ==
    /\ ~closed
    /\ closed' = TRUE
    /\ child' = 0
    /\ proc' = [k \in Children |-> IF k = child /\ proc[k] = "running"
                                   THEN "killed" ELSE proc[k]]
    /\ UNCHANGED <<override, nextRequestId, activeCodec, initialized,
                   readBuffer, pending, call, stdin, stdout, half, transport>>

\* Mutant of close: a child whose initialization is not complete is not stopped.
closeInitializedOnly ==
    /\ ~closed
    /\ closed' = TRUE
    /\ child' = 0
    /\ failAllPending
    /\ proc' = [k \in Children |-> IF initialized /\ k = child /\ proc[k] = "running"
                                   THEN "killed" ELSE proc[k]]
    /\ UNCHANGED <<override, nextRequestId, activeCodec, initialized,
                   readBuffer, stdin, stdout, half, transport>>

\* close(): pending requests are rejected, the current child gets SIGTERM.
close ==
    /\ ~closed
    /\ closed' = TRUE
    /\ child' = 0
    /\ failAllPending
    /\ proc' = [k \in Children |-> IF k = child /\ proc[k] = "running"
                                   THEN "killed" ELSE proc[k]]
    /\ UNCHANGED <<override, nextRequestId, activeCodec, initialized,
                   readBuffer, stdin, stdout, half, transport>>

-----------------------------------------------------------------------------
(* Events of the client's event loop *)

\* Mutant of timeout: the entry is deleted, its promise is not rejected.
timeoutSilently(c) ==
    /\ Waiting(c) /\ call[c].id \in pending
    /\ pending' = pending \ {call[c].id}
    /\ UNCHANGED <<override, child, closed, nextRequestId, activeCodec,
                   initialized, readBuffer, call, processVars>>

\* The timer of a request.
timeout(c) ==
    /\ Waiting(c) /\ call[c].id \in pending
    /\ pending' = pending \ {call[c].id}
    /\ Return(c)
    /\ UNCHANGED <<override, child, closed, nextRequestId, activeCodec,
                   initialized, readBuffer, processVars>>

\* The callback of stdin.write, with an error: the process is gone.
writeFailed(c) ==
    /\ Waiting(c) /\ call[c].id \in pending
    /\ proc[call[c].to] \in {"gone", "failed", "reaped"}
    /\ pending' = pending \ {call[c].id}
    /\ Return(c)
    /\ UNCHANGED <<override, child, closed, nextRequestId, activeCodec,
                   initialized, readBuffer, processVars>>

\* child.on("error"): the process could not be spawned.
onError(k) ==
    /\ proc[k] = "failed"
    /\ proc' = [proc EXCEPT ![k] = "reaped"]
    /\ failAllPending
    /\ UNCHANGED <<override, child, closed, nextRequestId, activeCodec,
                   initialized, readBuffer, stdin, stdout, half, transport>>

\* child.on("exit").
onExit(k) ==
    /\ proc[k] = "gone"
    /\ proc' = [proc EXCEPT ![k] = "reaped"]
    /\ IF closed THEN UNCHANGED <<call, pending>> ELSE failAllPending
    /\ UNCHANGED <<override, child, closed, nextRequestId, activeCodec,
                   initialized, readBuffer, stdin, stdout, half, transport>>

\* A data event that ends inside a frame: drainFrames waits for the rest.
dataHalf(k) ==
    /\ stdout[k] # <<>> /\ k \notin half
    /\ readBuffer = Empty
    /\ readBuffer' = k
    /\ half' = half \cup {k}
    /\ UNCHANGED <<override, child, closed, nextRequestId, activeCodec,
                   initialized, pending, call, proc, stdin, stdout, transport>>

\* drainFrames on a complete frame: a body it cannot decode rejects everything
\* pending, an answer nobody waits for is dropped, any other is handed to its
\* caller.
drainFrames(frame) ==
    IF frame.codec # activeCodec
    THEN failAllPending
    ELSE /\ pending' = pending \ {frame.id}
         /\ call' = [c \in Callers |->
                       IF Waiting(c) /\ call[c].id = frame.id /\ frame.id \in pending
                       THEN [call[c] EXCEPT !.answer = frame] ELSE call[c]]

\* The next bytes of process k belong to a frame the buffer holds the start of.
InStep(k) == readBuffer = (IF k \in half THEN k ELSE Empty)

\* A data event that completes a frame.
dataFrame(k) ==
    /\ stdout[k] # <<>> /\ Head(stdout[k]).kind # "malformed"
    /\ InStep(k)
    /\ drainFrames(Head(stdout[k]))
    /\ readBuffer' = Empty
    /\ half' = half \ {k}
    /\ stdout' = [stdout EXCEPT ![k] = Tail(@)]
    /\ UNCHANGED <<override, child, closed, nextRequestId, activeCodec,
                   initialized, proc, stdin, transport>>

\* A data event that completes a header drainFrames refuses: everything pending
\* is rejected and the buffer is emptied, whatever else the event has brought.
\* The n frames it held to their end are lost; what is left of the frame it
\* ended in comes later, without its beginning.
dataMalformed(k) ==
    /\ stdout[k] # <<>> /\ Head(stdout[k]).kind = "malformed"
    /\ InStep(k)
    /\ failAllPending
    /\ readBuffer' = Empty
    /\ \E n \in 0 .. Len(stdout[k]) :
          /\ stdout' = [stdout EXCEPT ![k] = SubSeq(@, n + 1, Len(@))]
          /\ \/ n > 0 /\ half' = half \ {k}
             \/ n < Len(stdout[k]) /\ half' = half \cup {k}
    /\ UNCHANGED <<override, child, closed, nextRequestId, activeCodec,
                   initialized, proc, stdin, transport>>

\* The body of frame, begun by its process and filled up with other bytes, still
\* decodes: its id comes first, what follows may be anything.
drainCorrupted(frame) ==
    /\ frame.kind # "malformed"
    /\ \E kind \in {frame.kind, "other"} : drainFrames([frame EXCEPT !.kind = kind])

\* A data event whose bytes follow bytes of another process, or of a frame
\* whose beginning was thrown away: the buffer is one for all processes.  Its
\* bytes may lack a header (nothing happens), read as an invalid header or an
\* undecodable body, or fill up the frame the buffer holds the start of.
dataMixed(k) ==
    /\ stdout[k] # <<>>
    /\ ~ InStep(k)
    /\ \/ /\ readBuffer' = Garbled
          /\ UNCHANGED <<call, pending>>
       \/ /\ readBuffer' \in {Empty, Garbled}
          /\ failAllPending
       \/ /\ readBuffer' \in {Empty, Garbled}
          /\ readBuffer \in Children /\ stdout[readBuffer] # <<>>
          /\ drainCorrupted(Head(stdout[readBuffer]))
    /\ \/ /\ k \notin half
          /\ half' = half \cup {k}
          /\ UNCHANGED stdout
       \/ /\ half' = half \ {k}
          /\ stdout' = [stdout EXCEPT ![k] = Tail(@)]
    /\ UNCHANGED <<override, child, closed, nextRequestId, activeCodec,
                   initialized, proc, stdin, transport>>

-----------------------------------------------------------------------------
(* The process at the other end *)

Live(k) == proc[k] \in {"running", "killed"}

Answers(method) ==
    (IF method = "dh.initialize" THEN {"offer"} \X Offers ELSE {})
        \cup ((Kinds \ {"offer"}) \X {NoOffer})

\* It takes some request and answers it in some way.
answerAny(k) ==
    /\ Live(k)
    /\ \E i \in DOMAIN stdin[k], codec \in Codecs :
          \E a \in Answers(stdin[k][i].method) :
             /\ a[1] = "malformed" => codec = JSON_RPC_CODEC    \* its body is not read
             /\ stdout' = [stdout EXCEPT ![k] =
                             Append(@, Response(k, stdin[k][i].id, codec, a[1], a[2]))]
             /\ stdin' = [stdin EXCEPT ![k] =
                             SubSeq(@, 1, i - 1) \o SubSeq(@, i + 1, Len(@))]
             /\ transport' = [transport EXCEPT ![k] =
                                IF a[1] = "offer" THEN a[2].selectedCodec ELSE @]
    /\ UNCHANGED <<clientVars, proc, half>>

\* It ends, for whatever reason.
die(k) ==
    /\ Live(k)
    /\ proc' = [proc EXCEPT ![k] = "gone"]
    /\ UNCHANGED <<clientVars, stdin, stdout, half, transport>>

-----------------------------------------------------------------------------
Init ==
    /\ override \in Overrides
    /\ child = 0
    /\ closed = FALSE
    /\ nextRequestId = 1
    /\ activeCodec = JSON_RPC_CODEC
    /\ initialized = FALSE
    /\ readBuffer = Empty
    /\ pending = {}
    /\ call = [c \in Callers |-> NoCall]
    /\ proc = [k \in Children |-> "none"]
    /\ stdin = [k \in Children |-> <<>>]
    /\ stdout = [k \in Children |-> <<>>]
    /\ half = {}
    /\ transport = [k \in Children |-> JSON_RPC_CODEC]

\* The steps the client's own code takes when nothing else happens.
Resume(c) ==
    \/ applyNegotiatedTransport(c)
    \/ runOperation(c)
    \/ finishOperation(c)

ClientNext ==
    \/ \E c \in Callers : \/ callInitialized(c) \/ ensureInitialized(c)
                          \/ Resume(c) \/ timeout(c) \/ writeFailed(c)
    \/ close
    \/ \E k \in Children : \/ onError(k) \/ onExit(k)
                           \/ dataHalf(k) \/ dataFrame(k) \/ dataMalformed(k)
                           \/ dataMixed(k)

Next == ClientNext \/ \E k \in Children : answerAny(k) \/ die(k)

Spec == Init /\ [][Next]_vars

\* Timers fire and the event loop goes on; nothing is assumed of the process.
Fairness == \A c \in Callers : WF_vars(Resume(c)) /\ WF_vars(timeout(c))

FairSpec == Spec /\ Fairness

-----------------------------------------------------------------------------
(* Properties *)

\* Every variable has the type its declaration in the class gives it.
TypeOK ==
    /\ override \in {"auto", "json", "msgpack"}
    /\ child \in Children \cup {0}
    /\ closed \in BOOLEAN
    /\ nextRequestId \in 1..(MaxRequests + 1)
    /\ activeCodec \in Codecs
    /\ initialized \in BOOLEAN
    /\ readBuffer \in Children \cup {Empty, Garbled}
    /\ pending \subseteq Ids
    /\ call \in [Callers -> CallType]
    /\ proc \in [Children -> {"none", "running", "failed", "killed", "gone", "reaped"}]
    /\ stdin \in [Children -> Seq(RequestType)]
    /\ stdout \in [Children -> Seq(ResponseType)]
    /\ half \subseteq Children
    /\ transport \in [Children -> Codecs]

\* A caller suspended at a request is in the pending map, under an id of its
\* own, and the map holds nothing else: every way of removing an entry
\* (answer, timer, write error, exit, undecodable frame, close) settles it.
WaitersArePending ==
    /\ pending = {call[c].id : c \in {d \in Callers : Waiting(d)}}
    /\ \A c, d \in Callers : Waiting(c) /\ Waiting(d) /\ call[c].id = call[d].id => c = d

\* A call goes on only with the answer to its own request from the process it
\* sent it to: late answers of requests that timed out, or of a process that
\* was replaced, settle nobody else's request.
AnswerIsOwn ==
    \A c \in Callers :
        call[c].pc \in Phases /\ call[c].answer # NoAnswer =>
            call[c].answer.id = call[c].id /\ call[c].answer.from = call[c].to

\* A closed client has nothing pending and is never waited for, even when it
\* was closed while calls were in progress or is called again.
NothingPendingOnceClosed == closed => pending = {}

\* close() stops the process the client speaks to, however many it has spawned
\* and whatever calls are in progress: left running are only processes that the
\* initialization of a later call had replaced as this.child by then, and one
\* that a call after close() has spawned (which is this.child again).
CloseStopsLast ==
    closed /\ child = 0 =>
        \A k \in Children : proc[k] = "running" => k # Cardinality(Spawned)

\* Every call ends, whatever the process does.
CallsEnd == \A c \in Callers : call[c].pc # "idle" ~> call[c].pc = "idle"

=============================================================================

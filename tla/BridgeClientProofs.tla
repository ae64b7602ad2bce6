------------------------- MODULE BridgeClientProofs -------------------------
(***************************************************************************)
(* The pending map of the bridge client, for any number of callers,        *)
(* processes and requests: its keys are exactly the requests somebody      *)
(* waits for, an answer reaches only the caller of its request, and a      *)
(* closed client waits for nothing.                                        *)
(***************************************************************************)
EXTENDS BridgeClient, FiniteSetTheorems, TLAPS

\* Ids of the messages between the client and process k.
InFlight(k) == {stdin[k][i].id : i \in DOMAIN stdin[k]}
                 \cup {stdout[k][i].id : i \in DOMAIN stdout[k]}

\* Ids are handed out once: those in use are below the counter.
IdsUsed ==
    /\ \A c \in Callers : call[c].pc \in Phases => call[c].id < nextRequestId
    /\ \A k \in Children : \A n \in InFlight(k) : n < nextRequestId

\* A message in flight belongs to the request of its id, if that request is
\* still of interest.
OwnProcess ==
    \A k \in Children : \A n \in InFlight(k) : \A c \in Callers :
        call[c].pc \in Phases /\ call[c].id = n => call[c].to = k

\* No two calls have the same request.
DistinctIds ==
    \A c, d \in Callers :
        /\ call[c].pc \in Phases
        /\ call[d].pc \in Phases
        /\ call[c].id = call[d].id
        => c = d

\* The first conjunct of WaitersArePending, as two implications.
PendingExact ==
    /\ \A c \in Callers : Waiting(c) => call[c].id \in pending
    /\ \A n \in pending : \E c \in Callers : Waiting(c) /\ call[c].id = n

\* What process k wrote is marked with k.
Senders == \A k \in Children : \A i \in DOMAIN stdout[k] : stdout[k][i].from = k

IInv ==
    /\ TypeOK
    /\ Senders
    /\ IdsUsed
    /\ OwnProcess
    /\ DistinctIds
    /\ PendingExact
    /\ AnswerIsOwn
    /\ NothingPendingOnceClosed

-----------------------------------------------------------------------------
(* Types *)

\* The records the client builds have their types.
LEMMA RecordTypes ==
    /\ NoOffer \in OfferType
    /\ NoCall \in CallType /\ NoCall.pc = "idle"
    /\ ReadyCall \in CallType /\ ReadyCall.pc = "ready"
    /\ \A phase \in Phases, n \in Ids, k \in Children \cup {0} :
          /\ CallAt(phase, n, k) \in CallType
          /\ CallAt(phase, n, k).pc = phase /\ CallAt(phase, n, k).id = n
          /\ CallAt(phase, n, k).to = k /\ CallAt(phase, n, k).answer = NoAnswer
<1>1. NoOffer \in OfferType
  BY DEF NoOffer, OfferType, Codecs
<1>2. QED
  BY <1>1 DEF NoCall, ReadyCall, CallAt, CallType, Phases

\* An answer is never mistaken for its absence.
LEMMA AnswerNotNone == \A r \in ResponseType : r # NoAnswer
BY BridgeAssumption DEF ResponseType, NoAnswer, Children

\* A request built from the counter has its type.
LEMMA RequestTyped ==
    ASSUME TypeOK, NEW n \in Ids, NEW method \in {"dh.initialize", "other"}
    PROVE  Request(n, method) \in RequestType /\ Request(n, method).id = n
<1>1. initializeTransportParams \in TransportParams
  BY DEF TypeOK, initializeTransportParams, TransportParams, Codecs
<1>2. QED
  BY <1>1 DEF TypeOK, Request, RequestType

\* The process spawned next is one of the bounded number of processes.
LEMMA NextChild ==
    ASSUME TypeOK, Spawned # Children
    PROVE  Cardinality(Spawned) + 1 \in Children
<1>1. IsFiniteSet(Children) /\ Cardinality(Children) = MaxChildren
  BY BridgeAssumption, FS_Interval DEF Children
<1>2. Spawned \in SUBSET Children
  BY DEF Spawned
<1>3. /\ Cardinality(Spawned) \in Nat
      /\ Cardinality(Spawned) <= MaxChildren
      /\ Cardinality(Spawned) # MaxChildren
  BY <1>1, <1>2, FS_Subset, FS_CardinalityType
<1>4. QED
  BY <1>3, BridgeAssumption DEF Children

\* Messages carry ids that are numbers.
LEMMA InFlightIds ==
    ASSUME TypeOK, NEW k \in Children
    PROVE  \A n \in InFlight(k) : n \in Ids
<1>1. stdin[k] \in Seq(RequestType) /\ stdout[k] \in Seq(ResponseType)
  BY DEF TypeOK
<1>2. /\ \A i \in DOMAIN stdin[k] : stdin[k][i] \in RequestType
      /\ \A i \in DOMAIN stdout[k] : stdout[k][i] \in ResponseType
  BY <1>1
<1>3. (\A r \in RequestType : r.id \in Ids) /\ (\A r \in ResponseType : r.id \in Ids)
  BY DEF RequestType, ResponseType
<1>4. QED
  BY <1>2, <1>3 DEF InFlight

-----------------------------------------------------------------------------
(* Steps *)

\* The parts of IInv about ids survive a step that sends nothing new and in
\* which calls go on or end.
LEMMA IdsSurvive ==
    ASSUME IInv, nextRequestId' >= nextRequestId, nextRequestId' \in Int,
           \A k \in Children : InFlight(k)' \subseteq InFlight(k),
           \A c \in Callers : call'[c] \in {call[c], NoCall, ReadyCall}
    PROVE  IdsUsed' /\ OwnProcess' /\ DistinctIds' /\ AnswerIsOwn'
<1> DEFINE Kept(c) == call'[c].pc \in Phases
<1>1. \A c \in Callers : Kept(c) => call'[c] = call[c]
  BY RecordTypes DEF Phases
<1>2. \A c \in Callers : call[c].pc \in Phases => call[c].id \in Int
  BY DEF IInv, TypeOK, CallType, Ids
<1>3. \A k \in Children : \A n \in InFlight(k) : n \in Int
  BY InFlightIds DEF IInv, Ids
<1>4. nextRequestId \in Int
  BY BridgeAssumption DEF IInv, TypeOK
<1>5. IdsUsed'
  BY <1>1, <1>2, <1>3, <1>4 DEF IInv, IdsUsed
<1>6. OwnProcess' /\ DistinctIds' /\ AnswerIsOwn'
  BY <1>1 DEF IInv, OwnProcess, DistinctIds, AnswerIsOwn
<1>7. QED
  BY <1>5, <1>6

\* failAllPending ends every call that waits, because every such call is
\* pending, and leaves the others alone.
LEMMA FailAll ==
    ASSUME IInv, failAllPending
    PROVE  /\ call' \in [Callers -> CallType]
           /\ pending' = {}
           /\ \A c \in Callers : call'[c] \in {call[c], NoCall, ReadyCall}
           /\ PendingExact'
<1>1. \A c \in Callers : call'[c] = IF Waiting(c) THEN NoCall ELSE call[c]
  BY DEF failAllPending, IInv, PendingExact
<1>2. call' \in [Callers -> CallType]
  BY RecordTypes DEF failAllPending, IInv, TypeOK
<1>3. \A c \in Callers : ~Waiting(c)'
  BY <1>1, RecordTypes DEF Waiting, Phases
<1>4. QED
  BY <1>1, <1>2, <1>3 DEF failAllPending, PendingExact

\* Sending a request: its id is new, so it is nobody else's.
LEMMA RequestStep ==
    ASSUME IInv, nextRequestId \in Ids,
           NEW c \in Callers, NEW phase \in Phases, NEW k \in Children \cup {0},
           NEW method \in {"dh.initialize", "other"}, NEW tooLarge \in BOOLEAN,
           call[c].pc \notin Phases,
           request(c, phase, k, Request(nextRequestId, method), tooLarge),
           closed' = closed, stdout' = stdout
    PROVE  /\ nextRequestId' \in 1..(MaxRequests + 1)
           /\ call' \in [Callers -> CallType]
           /\ pending' \subseteq Ids
           /\ stdin' \in [Children -> Seq(RequestType)]
           /\ IdsUsed' /\ OwnProcess' /\ DistinctIds' /\ PendingExact'
           /\ AnswerIsOwn' /\ NothingPendingOnceClosed'
<1> DEFINE id == nextRequestId
           message == Request(id, method)
<1>1. message \in RequestType /\ message.id = id
  BY RequestTyped DEF IInv
<1> HIDE DEF message
<1>2. nextRequestId' = id + 1 /\ nextRequestId' \in 1..(MaxRequests + 1) /\ id \in Nat
  BY BridgeAssumption DEF request, Ids
<1>3. CASE closed \/ tooLarge
  <2>1. call' = [call EXCEPT ![c] = NoCall] /\ pending' = pending /\ stdin' = stdin
    BY <1>3 DEF request, Return
  <2>2. call' \in [Callers -> CallType]
    BY <2>1, RecordTypes DEF IInv, TypeOK
  <2>3. \A d \in Callers : call'[d] \in {call[d], NoCall, ReadyCall}
    BY <2>1 DEF IInv, TypeOK
  <2>4. \A j \in Children : InFlight(j)' = InFlight(j)
    BY <2>1 DEF InFlight
  <2>5. IdsUsed' /\ OwnProcess' /\ DistinctIds' /\ AnswerIsOwn'
    BY <2>3, <2>4, <1>2, IdsSurvive
  <2>6. \A d \in Callers : Waiting(d)' <=> Waiting(d)
    BY <2>1, RecordTypes DEF IInv, TypeOK, Waiting, Phases
  <2>7. \A d \in Callers : Waiting(d) => call'[d] = call[d]
    BY <2>1 DEF IInv, TypeOK, Waiting
  <2>8. PendingExact'
    BY <2>1, <2>6, <2>7 DEF IInv, PendingExact
  <2>9. QED
    BY <1>2, <2>1, <2>2, <2>5, <2>8 DEF IInv, TypeOK, NothingPendingOnceClosed
<1>4. CASE ~closed /\ ~tooLarge
  <2>1. /\ call' = [call EXCEPT ![c] = CallAt(phase, id, k)]
        /\ pending' = pending \cup {id}
        /\ stdin' = [stdin EXCEPT ![k] = Append(@, message)]
    BY <1>1, <1>4 DEF request, message
  <2> DEFINE new == CallAt(phase, id, k)
  <2>2. /\ new \in CallType /\ new.pc = phase /\ new.id = id /\ new.to = k
        /\ new.answer = NoAnswer
    BY RecordTypes
  <2> HIDE DEF new
  <2>3. call' \in [Callers -> CallType] /\ call'[c] = new
        /\ \A d \in Callers \ {c} : call'[d] = call[d]
    BY <2>1, <2>2 DEF IInv, TypeOK, new
  <2>4. stdin' \in [Children -> Seq(RequestType)]
    <3>1. stdin' = [j \in Children |-> IF j = k THEN Append(stdin[j], message) ELSE stdin[j]]
      BY <2>1, ZenonT(30) DEF IInv, TypeOK
    <3>2. \A j \in Children : stdin[j] \in Seq(RequestType)
      BY DEF IInv, TypeOK
    <3>3. \A j \in Children : Append(stdin[j], message) \in Seq(RequestType)
      BY <3>2, <1>1
    <3>4. QED
      BY <3>1, <3>2, <3>3
  <2>5. \A j \in Children : InFlight(j)' \subseteq InFlight(j) \cup (IF j = k THEN {id} ELSE {})
    <3>1. TAKE j \in Children
    <3>2. CASE j # k
      BY <2>1, <3>2 DEF IInv, TypeOK, InFlight
    <3>3. CASE j = k
      <4>1. stdin'[j] = Append(stdin[j], message) /\ stdin[j] \in Seq(RequestType)
        BY <2>1, <3>3 DEF IInv, TypeOK
      <4>2. \A i \in DOMAIN stdin'[j] : \/ i \in DOMAIN stdin[j] /\ stdin'[j][i] = stdin[j][i]
                                        \/ stdin'[j][i] = message
        BY <4>1, <1>1
      <4>3. QED
        BY <4>2, <3>3, <1>1 DEF InFlight
    <3>4. QED
      BY <3>2, <3>3
  <2>6. \A d \in Callers : call[d].pc \in Phases => call[d].id \in Int /\ call[d].id < id
    BY DEF IInv, TypeOK, CallType, Ids, IdsUsed
  <2>7. \A j \in Children : \A n \in InFlight(j) : n \in Int /\ n < id
    BY InFlightIds DEF IInv, Ids, IdsUsed
  <2>8. IdsUsed'
    <3>1. \A d \in Callers : call'[d].pc \in Phases => call'[d].id < id + 1
      BY <2>2, <2>3, <2>6, <1>2
    <3>2. \A j \in Children : \A n \in InFlight(j)' : n < id + 1
      BY <2>5, <2>7, <1>2
    <3>3. QED
      BY <3>1, <3>2, <1>2 DEF IdsUsed
  <2>9. DistinctIds'
    BY <2>2, <2>3, <2>6, <1>2 DEF IInv, DistinctIds
  <2>10. OwnProcess'
    <3>1. SUFFICES ASSUME NEW j \in Children, NEW n \in InFlight(j)', NEW d \in Callers,
                          call'[d].pc \in Phases, call'[d].id = n
                   PROVE  call'[d].to = j
      BY DEF OwnProcess
    <3>2. CASE n \in InFlight(j)
      <4>1. d # c
        BY <3>1, <3>2, <2>2, <2>3, <2>7, <1>2
      <4>2. QED
        BY <3>1, <3>2, <4>1, <2>3 DEF IInv, OwnProcess
    <3>3. CASE n = id /\ j = k
      BY <3>1, <3>3, <2>2, <2>3, <2>6, <1>2
    <3>4. QED
      BY <3>2, <3>3, <2>5
  <2>11. PendingExact'
    <3>1. \A d \in Callers \ {c} : Waiting(d)' <=> Waiting(d)
      BY <2>3 DEF Waiting
    <3>2. Waiting(c)' /\ ~Waiting(c)
      BY <2>2, <2>3 DEF Waiting
    <3>3. QED
      BY <3>1, <3>2, <2>1, <2>2, <2>3 DEF IInv, PendingExact
  <2>12. AnswerIsOwn'
    BY <2>2, <2>3 DEF IInv, AnswerIsOwn
  <2>13. QED
    BY <1>2, <1>4, <2>1, <2>3, <2>4, <2>8, <2>9, <2>10, <2>11, <2>12
       DEF IInv, TypeOK, NothingPendingOnceClosed
<1>5. QED
  BY <1>3, <1>4

\* A call that does not wait goes on to its operation or ends.
LEMMA CallMoves ==
    ASSUME IInv, NEW c \in Callers, ~Waiting(c), NEW new \in {NoCall, ReadyCall},
           call' = [call EXCEPT ![c] = new],
           UNCHANGED <<closed, nextRequestId, pending, stdin, stdout>>
    PROVE  /\ call' \in [Callers -> CallType]
           /\ IdsUsed' /\ OwnProcess' /\ DistinctIds' /\ PendingExact'
           /\ AnswerIsOwn' /\ NothingPendingOnceClosed'
<1>1. call' \in [Callers -> CallType] /\ call'[c] = new
      /\ \A d \in Callers \ {c} : call'[d] = call[d]
  BY RecordTypes DEF IInv, TypeOK
<1>2. \A d \in Callers : call'[d] \in {call[d], NoCall, ReadyCall}
  BY <1>1
<1>3. \A k \in Children : InFlight(k)' \subseteq InFlight(k)
  BY DEF InFlight
<1>4. nextRequestId' >= nextRequestId /\ nextRequestId' \in Int
  BY BridgeAssumption DEF IInv, TypeOK
<1>5. IdsUsed' /\ OwnProcess' /\ DistinctIds' /\ AnswerIsOwn'
  BY <1>2, <1>3, <1>4, IdsSurvive
<1>6. ~Waiting(c)' /\ \A d \in Callers \ {c} : Waiting(d)' <=> Waiting(d)
  BY <1>1, RecordTypes DEF Waiting, Phases
<1>7. PendingExact'
  BY <1>1, <1>6 DEF IInv, PendingExact
<1>8. QED
  BY <1>1, <1>5, <1>7 DEF IInv, NothingPendingOnceClosed

\* A pending request is given up: its caller, and only its caller, goes on.
LEMMA GiveUp ==
    ASSUME IInv, NEW c \in Callers, Waiting(c),
           pending' = pending \ {call[c].id},
           call' = [call EXCEPT ![c] = NoCall],
           UNCHANGED <<closed, nextRequestId, stdin, stdout>>
    PROVE  /\ call' \in [Callers -> CallType] /\ pending' \subseteq Ids
           /\ IdsUsed' /\ OwnProcess' /\ DistinctIds' /\ PendingExact'
           /\ AnswerIsOwn' /\ NothingPendingOnceClosed'
<1>1. call' \in [Callers -> CallType] /\ call'[c] = NoCall
      /\ \A d \in Callers \ {c} : call'[d] = call[d]
  BY RecordTypes DEF IInv, TypeOK
<1>2. \A d \in Callers : call'[d] \in {call[d], NoCall, ReadyCall}
  BY <1>1
<1>3. \A k \in Children : InFlight(k)' \subseteq InFlight(k)
  BY DEF InFlight
<1>4. nextRequestId' >= nextRequestId /\ nextRequestId' \in Int
  BY BridgeAssumption DEF IInv, TypeOK
<1>5. IdsUsed' /\ OwnProcess' /\ DistinctIds' /\ AnswerIsOwn'
  BY <1>2, <1>3, <1>4, IdsSurvive
<1>6. ~Waiting(c)' /\ \A d \in Callers \ {c} : Waiting(d)' <=> Waiting(d)
  BY <1>1, RecordTypes DEF Waiting, Phases
<1>7. \A d \in Callers \ {c} : Waiting(d) => call[d].id # call[c].id
  BY DEF IInv, DistinctIds, Waiting
<1>8. PendingExact'
  BY <1>1, <1>6, <1>7 DEF IInv, PendingExact
<1>9. QED
  BY <1>1, <1>5, <1>8 DEF IInv, TypeOK, NothingPendingOnceClosed

\* An answer is handed to the caller that waits for it, if there is one.
LEMMA Delivered ==
    ASSUME IInv, NEW k \in Children, NEW frame \in ResponseType, frame.from = k,
           frame.id \in InFlight(k), drainFrames(frame),
           \A j \in Children : InFlight(j)' \subseteq InFlight(j),
           UNCHANGED <<closed, nextRequestId>>
    PROVE  /\ call' \in [Callers -> CallType] /\ pending' \subseteq Ids
           /\ IdsUsed' /\ OwnProcess' /\ DistinctIds' /\ PendingExact'
           /\ AnswerIsOwn' /\ NothingPendingOnceClosed'
<1>1. nextRequestId' >= nextRequestId /\ nextRequestId' \in Int
  BY BridgeAssumption DEF IInv, TypeOK
<1>2. CASE frame.codec # activeCodec
  <2>1. failAllPending
    BY <1>2 DEF drainFrames
  <2>2. /\ call' \in [Callers -> CallType] /\ pending' = {} /\ PendingExact'
        /\ \A c \in Callers : call'[c] \in {call[c], NoCall, ReadyCall}
    BY <2>1, FailAll
  <2>3. IdsUsed' /\ OwnProcess' /\ DistinctIds' /\ AnswerIsOwn'
    BY <2>2, <1>1, IdsSurvive
  <2>4. QED
    BY <2>2, <2>3 DEF NothingPendingOnceClosed
<1>3. CASE frame.codec = activeCodec
  <2> DEFINE Gets(c) == Waiting(c) /\ call[c].id = frame.id
  <2>1. /\ pending' = pending \ {frame.id}
        /\ call' = [c \in Callers |-> IF Gets(c) THEN [call[c] EXCEPT !.answer = frame]
                                                ELSE call[c]]
    BY <1>3 DEF drainFrames, IInv, PendingExact
  <2>2. \A c \in Callers :
          /\ call[c] \in CallType
          /\ [call[c] EXCEPT !.answer = frame] \in CallType
          /\ [call[c] EXCEPT !.answer = frame].pc = call[c].pc
          /\ [call[c] EXCEPT !.answer = frame].id = call[c].id
          /\ [call[c] EXCEPT !.answer = frame].to = call[c].to
          /\ [call[c] EXCEPT !.answer = frame].answer = frame
    BY ZenonT(30) DEF IInv, TypeOK, CallType
  <2>3. call' \in [Callers -> CallType]
    BY <2>1, <2>2
  <2>4. \A c \in Callers : /\ call'[c].pc = call[c].pc /\ call'[c].id = call[c].id
                           /\ call'[c].to = call[c].to
                           /\ call'[c].answer = IF Gets(c) THEN frame ELSE call[c].answer
    BY <2>1, <2>2
  <2>5. frame # NoAnswer
    BY AnswerNotNone
  <2> HIDE DEF Gets
  <2>6. \A c \in Callers : Waiting(c)' <=> Waiting(c) /\ ~Gets(c)
    BY <2>4, <2>5 DEF Waiting, Gets
  <2>7. IdsUsed'
    BY <2>4 DEF IInv, IdsUsed
  <2>8. OwnProcess' /\ DistinctIds'
    BY <2>4 DEF IInv, OwnProcess, DistinctIds
  <2>9. PendingExact'
    <3>1. \A c \in Callers : Waiting(c)' => call'[c].id \in pending'
      BY <2>1, <2>4, <2>6 DEF IInv, PendingExact, Gets
    <3>2. \A n \in pending' : \E c \in Callers : Waiting(c)' /\ call'[c].id = n
      BY <2>1, <2>4, <2>6 DEF IInv, PendingExact, Gets
    <3>3. QED
      BY <3>1, <3>2 DEF PendingExact
  <2>10. AnswerIsOwn'
    <3>1. \A c \in Callers : Gets(c) => call[c].to = k
      BY DEF Gets, Waiting, IInv, OwnProcess
    <3>2. QED
      BY <2>4, <3>1 DEF IInv, AnswerIsOwn, Gets
  <2>11. QED
    BY <2>1, <2>3, <2>7, <2>8, <2>9, <2>10 DEF IInv, TypeOK, NothingPendingOnceClosed
<1>4. QED
  BY <1>2, <1>3

\* Rejecting everything leaves a client that waits for nothing.
LEMMA AllFailed ==
    ASSUME IInv, failAllPending, nextRequestId' = nextRequestId,
           \A j \in Children : InFlight(j)' \subseteq InFlight(j)
    PROVE  /\ call' \in [Callers -> CallType] /\ pending' \subseteq Ids
           /\ IdsUsed' /\ OwnProcess' /\ DistinctIds' /\ PendingExact'
           /\ AnswerIsOwn' /\ NothingPendingOnceClosed'
<1>1. nextRequestId' >= nextRequestId /\ nextRequestId' \in Int
  BY BridgeAssumption DEF IInv, TypeOK
<1>2. /\ call' \in [Callers -> CallType] /\ pending' = {} /\ PendingExact'
      /\ \A c \in Callers : call'[c] \in {call[c], NoCall, ReadyCall}
  BY FailAll
<1>3. IdsUsed' /\ OwnProcess' /\ DistinctIds' /\ AnswerIsOwn'
  BY <1>1, <1>2, IdsSurvive
<1>4. QED
  BY <1>2, <1>3 DEF NothingPendingOnceClosed

\* A step that settles no request keeps what the client knows of its calls.
LEMMA NothingSettled ==
    ASSUME IInv, UNCHANGED <<call, pending, closed, nextRequestId>>,
           \A j \in Children : InFlight(j)' \subseteq InFlight(j)
    PROVE  /\ call' \in [Callers -> CallType] /\ pending' \subseteq Ids
           /\ IdsUsed' /\ OwnProcess' /\ DistinctIds' /\ PendingExact'
           /\ AnswerIsOwn' /\ NothingPendingOnceClosed'
<1>1. nextRequestId' >= nextRequestId /\ nextRequestId' \in Int
  BY BridgeAssumption DEF IInv, TypeOK
<1>2. IdsUsed' /\ OwnProcess' /\ DistinctIds' /\ AnswerIsOwn'
  BY <1>1, IdsSurvive, SMTT(30)
<1>3. QED
  BY <1>2 DEF IInv, TypeOK, PendingExact, Waiting, NothingPendingOnceClosed

\* Taking the first answer off a pipe leaves part of what was in flight.
LEMMA Taken ==
    ASSUME IInv, NEW k \in Children, stdout[k] # <<>>, stdin' = stdin,
           stdout' = [stdout EXCEPT ![k] = Tail(@)]
    PROVE  /\ stdout' \in [Children -> Seq(ResponseType)]
           /\ Senders'
           /\ \A j \in Children : InFlight(j)' \subseteq InFlight(j)
           /\ Head(stdout[k]) \in ResponseType
           /\ Head(stdout[k]).from = k
           /\ Head(stdout[k]).id \in InFlight(k)
<1>1. stdout[k] \in Seq(ResponseType)
  BY DEF IInv, TypeOK
<1>2. /\ Tail(stdout[k]) \in Seq(ResponseType)
      /\ \A i \in DOMAIN Tail(stdout[k]) :
            i + 1 \in DOMAIN stdout[k] /\ Tail(stdout[k])[i] = stdout[k][i + 1]
      /\ 1 \in DOMAIN stdout[k] /\ Head(stdout[k]) = stdout[k][1]
  BY <1>1
<1>3. /\ stdout'[k] = Tail(stdout[k])
      /\ \A j \in Children \ {k} : stdout'[j] = stdout[j]
      /\ stdout' \in [Children -> Seq(ResponseType)]
  BY <1>2 DEF IInv, TypeOK
<1>4. Senders'
  <2>1. \A i \in DOMAIN stdout'[k] : stdout'[k][i].from = k
    BY <1>2, <1>3 DEF IInv, Senders
  <2>2. \A j \in Children \ {k} : \A i \in DOMAIN stdout'[j] : stdout'[j][i].from = j
    BY <1>3 DEF IInv, Senders
  <2>3. QED
    BY <2>1, <2>2 DEF Senders
<1>5. \A j \in Children : InFlight(j)' \subseteq InFlight(j)
  <2>1. InFlight(k)' \subseteq InFlight(k)
    BY <1>2, <1>3 DEF InFlight
  <2>2. \A j \in Children \ {k} : InFlight(j)' \subseteq InFlight(j)
    BY <1>3 DEF InFlight
  <2>3. QED
    BY <2>1, <2>2
<1>6. QED
  BY <1>1, <1>2, <1>3, <1>4, <1>5 DEF IInv, Senders, InFlight

\* Losing the first n answers of a pipe leaves part of what was in flight.
LEMMA Lost ==
    ASSUME IInv, NEW k \in Children, NEW n \in 0 .. Len(stdout[k]), stdin' = stdin,
           stdout' = [stdout EXCEPT ![k] = SubSeq(@, n + 1, Len(@))]
    PROVE  /\ stdout' \in [Children -> Seq(ResponseType)]
           /\ Senders'
           /\ \A j \in Children : InFlight(j)' \subseteq InFlight(j)
<1> DEFINE q == stdout[k]
           rest == SubSeq(q, n + 1, Len(q))
<1>1. q \in Seq(ResponseType) /\ Len(q) \in Nat /\ DOMAIN q = 1..Len(q)
  BY DEF IInv, TypeOK
<1>2. /\ rest \in Seq(ResponseType)
      /\ \A i \in DOMAIN rest : i + n \in DOMAIN q /\ rest[i] = q[i + n]
  BY <1>1
<1> HIDE DEF rest
<1>3. /\ stdout'[k] = rest
      /\ \A j \in Children \ {k} : stdout'[j] = stdout[j]
      /\ stdout' \in [Children -> Seq(ResponseType)]
  BY <1>2 DEF IInv, TypeOK, rest
<1>4. Senders'
  <2>1. \A i \in DOMAIN stdout'[k] : stdout'[k][i].from = k
    BY <1>2, <1>3 DEF IInv, Senders
  <2>2. \A j \in Children \ {k} : \A i \in DOMAIN stdout'[j] : stdout'[j][i].from = j
    BY <1>3 DEF IInv, Senders
  <2>3. QED
    BY <2>1, <2>2 DEF Senders
<1>5. \A j \in Children : InFlight(j)' \subseteq InFlight(j)
  <2>1. InFlight(k)' \subseteq InFlight(k)
    BY <1>2, <1>3 DEF InFlight
  <2>2. \A j \in Children \ {k} : InFlight(j)' \subseteq InFlight(j)
    BY <1>3 DEF InFlight
  <2>3. QED
    BY <2>1, <2>2
<1>6. QED
  BY <1>3, <1>4, <1>5

\* The first answer on a pipe is one its process gave, also when part of it was
\* overwritten.
LEMMA FirstAnswer ==
    ASSUME IInv, NEW k \in Children, stdout[k] # <<>>, NEW kind \in Kinds
    PROVE  LET frame == [Head(stdout[k]) EXCEPT !.kind = kind]
           IN  /\ frame \in ResponseType /\ frame.from = k /\ frame.id \in InFlight(k)
               /\ Head(stdout[k]).kind \in Kinds
<1>1. stdout[k] \in Seq(ResponseType)
  BY DEF IInv, TypeOK
<1>2. 1 \in DOMAIN stdout[k] /\ Head(stdout[k]) = stdout[k][1]
  BY <1>1
<1>3. Head(stdout[k]) \in ResponseType /\ Head(stdout[k]).from = k
  BY <1>1, <1>2 DEF IInv, Senders
<1>4. Head(stdout[k]).id \in InFlight(k)
  BY <1>2 DEF InFlight
<1>5. QED
  BY <1>3, <1>4 DEF ResponseType

\* A sequence without its i-th element has only elements of the sequence.
LEMMA RestOfSequence ==
    ASSUME NEW S, NEW q \in Seq(S), NEW i \in 1..Len(q)
    PROVE  LET rest == SubSeq(q, 1, i - 1) \o SubSeq(q, i + 1, Len(q))
           IN  /\ rest \in Seq(S)
               /\ \A m \in DOMAIN rest : \E n \in DOMAIN q : rest[m] = q[n]
<1> DEFINE front == SubSeq(q, 1, i - 1)
           back == SubSeq(q, i + 1, Len(q))
           rest == front \o back
<1>1. /\ front \in Seq(S) /\ Len(front) = i - 1
      /\ \A m \in 1..(i - 1) : front[m] = q[m]
  OBVIOUS
<1>2. /\ back \in Seq(S) /\ Len(back) = Len(q) - i
      /\ \A m \in 1..(Len(q) - i) : back[m] = q[i + m]
  OBVIOUS
<1> HIDE DEF front, back
<1>3. /\ rest \in Seq(S) /\ Len(rest) = Len(q) - 1
      /\ DOMAIN rest = 1..(Len(q) - 1) /\ DOMAIN q = 1..Len(q)
  BY <1>1, <1>2
<1>4. /\ \A m \in 1..(i - 1) : rest[m] = front[m]
      /\ \A m \in i..(Len(q) - 1) : rest[m] = back[m - (i - 1)]
  BY <1>1, <1>2
<1> HIDE DEF rest
<1>5. ASSUME NEW m \in DOMAIN rest PROVE \E n \in DOMAIN q : rest[m] = q[n]
  <2>1. m \in 1..(i - 1) \/ m \in i..(Len(q) - 1)
    BY <1>3
  <2>2. CASE m \in 1..(i - 1)
    BY <2>2, <1>1, <1>3, <1>4
  <2>3. CASE m \in i..(Len(q) - 1)
    <3>1. m - (i - 1) \in 1..(Len(q) - i) /\ i + (m - (i - 1)) = m + 1 /\ m + 1 \in DOMAIN q
      BY <2>3, <1>3
    <3>2. QED
      BY <2>3, <3>1, <1>2, <1>4, SMTT(30)
  <2>4. QED
    BY <2>1, <2>2, <2>3
<1>6. QED
  BY <1>3, <1>5, ZenonT(30) DEF rest, front, back

\* An answer carries the id of the request it takes from the pipe.
LEMMA AnswerStep ==
    ASSUME IInv, NEW k \in Children, answerAny(k)
    PROVE  /\ stdin' \in [Children -> Seq(RequestType)]
           /\ stdout' \in [Children -> Seq(ResponseType)]
           /\ transport' \in [Children -> Codecs]
           /\ Senders'
           /\ \A j \in Children : InFlight(j)' \subseteq InFlight(j)
<1>1. PICK i \in DOMAIN stdin[k], codec \in Codecs :
        \E a \in Answers(stdin[k][i].method) :
             /\ a[1] = "malformed" => codec = JSON_RPC_CODEC
             /\ stdout' = [stdout EXCEPT ![k] =
                             Append(@, Response(k, stdin[k][i].id, codec, a[1], a[2]))]
             /\ stdin' = [stdin EXCEPT ![k] =
                             SubSeq(@, 1, i - 1) \o SubSeq(@, i + 1, Len(@))]
             /\ transport' = [transport EXCEPT ![k] =
                                IF a[1] = "offer" THEN a[2].selectedCodec ELSE @]
  BY ZenonT(30) DEF answerAny
<1>2. PICK a \in Answers(stdin[k][i].method) :
             /\ stdout' = [stdout EXCEPT ![k] =
                             Append(@, Response(k, stdin[k][i].id, codec, a[1], a[2]))]
             /\ stdin' = [stdin EXCEPT ![k] =
                             SubSeq(@, 1, i - 1) \o SubSeq(@, i + 1, Len(@))]
             /\ transport' = [transport EXCEPT ![k] =
                                IF a[1] = "offer" THEN a[2].selectedCodec ELSE @]
  BY <1>1, ZenonT(30)
<1> DEFINE q == stdin[k]
           rest == SubSeq(q, 1, i - 1) \o SubSeq(q, i + 1, Len(q))
           answer == Response(k, q[i].id, codec, a[1], a[2])
<1>3. q \in Seq(RequestType) /\ stdout[k] \in Seq(ResponseType) /\ i \in 1..Len(q)
  BY DEF IInv, TypeOK
<1>4. q[i] \in RequestType
  BY <1>3
<1>5. a[1] \in Kinds /\ a[2] \in OfferType
  BY RecordTypes, BridgeAssumption, SMTT(30) DEF Answers, Kinds
<1>6. answer \in ResponseType /\ answer.from = k /\ answer.id = q[i].id
  BY <1>4, <1>5, SMTT(30) DEF Response, ResponseType, RequestType
<1>7. /\ rest \in Seq(RequestType)
      /\ \A m \in DOMAIN rest : \E n \in DOMAIN q : rest[m] = q[n]
  BY <1>3, RestOfSequence, ZenonT(30)
<1> HIDE DEF rest, answer
<1>8. /\ stdin'[k] = rest /\ stdout'[k] = Append(stdout[k], answer)
      /\ \A j \in Children \ {k} : stdin'[j] = stdin[j] /\ stdout'[j] = stdout[j]
  BY <1>2, ZenonT(30) DEF IInv, TypeOK, rest, answer
<1>9. stdin' \in [Children -> Seq(RequestType)] /\ stdout' \in [Children -> Seq(ResponseType)]
  <2>1. stdin' = [stdin EXCEPT ![k] = rest]
        /\ stdout' = [stdout EXCEPT ![k] = Append(stdout[k], answer)]
    BY <1>2 DEF rest, answer
  <2>2. Append(stdout[k], answer) \in Seq(ResponseType)
    BY <1>3, <1>6, SMTT(30)
  <2>3. QED
    BY <2>1, <2>2, <1>7 DEF IInv, TypeOK
<1>10. transport' \in [Children -> Codecs]
  BY <1>2, <1>5 DEF IInv, TypeOK, OfferType
<1>11. /\ DOMAIN Append(stdout[k], answer) = DOMAIN stdout[k] \cup {Len(stdout[k]) + 1}
       /\ \A m \in DOMAIN stdout[k] : Append(stdout[k], answer)[m] = stdout[k][m]
       /\ Append(stdout[k], answer)[Len(stdout[k]) + 1] = answer
  BY <1>3, <1>6
<1>12. Senders'
  <2>1. \A m \in DOMAIN stdout'[k] : stdout'[k][m].from = k
    BY <1>6, <1>8, <1>11, SMTT(30) DEF IInv, Senders
  <2>2. \A j \in Children \ {k} : \A m \in DOMAIN stdout'[j] : stdout'[j][m].from = j
    BY <1>8 DEF IInv, Senders
  <2>3. QED
    BY <2>1, <2>2 DEF Senders
<1>13. \A j \in Children : InFlight(j)' \subseteq InFlight(j)
  <2>1. InFlight(k)' \subseteq InFlight(k)
    BY <1>6, <1>7, <1>8, <1>11 DEF InFlight
  <2>2. \A j \in Children \ {k} : InFlight(j)' \subseteq InFlight(j)
    BY <1>8 DEF InFlight
  <2>3. QED
    BY <2>1, <2>2
<1>14. QED
  BY <1>9, <1>10, <1>12, <1>13, SMTT(30)

-----------------------------------------------------------------------------
(* The invariant *)

\* A new client satisfies the invariant.
LEMMA InitInv == Init => IInv
<1> SUFFICES ASSUME Init PROVE IInv
  OBVIOUS
<1>1. TypeOK
  <2>1. /\ stdin \in [Children -> Seq(RequestType)]
        /\ stdout \in [Children -> Seq(ResponseType)]
    BY DEF Init
  <2>2. nextRequestId \in 1..(MaxRequests + 1)
    BY BridgeAssumption DEF Init
  <2>3. override \in {"auto", "json", "msgpack"}
    BY BridgeAssumption DEF Init
  <2>4. call \in [Callers -> CallType]
    BY RecordTypes DEF Init
  <2>5. QED
    BY <2>1, <2>2, <2>3, <2>4, ZenonT(30) DEF Init, TypeOK, Codecs, Empty
<1>2. \A c \in Callers : call[c].pc \notin Phases
  BY RecordTypes DEF Init, Phases
<1>3. \A k \in Children : DOMAIN stdin[k] = {} /\ DOMAIN stdout[k] = {}
  BY DEF Init
<1>4. QED
  BY <1>1, <1>2, <1>3 DEF Init, IInv, Senders, InFlight, IdsUsed, OwnProcess, DistinctIds,
     PendingExact, AnswerIsOwn, NothingPendingOnceClosed, Waiting

\* Every step of a caller keeps the invariant.
LEMMA CallerStep ==
    ASSUME IInv, NEW c \in Callers,
           \/ callInitialized(c) \/ ensureInitialized(c) \/ Resume(c)
           \/ timeout(c) \/ writeFailed(c)
    PROVE  IInv'
<1>1. CASE callInitialized(c)
  <2>1. ~Waiting(c)
    BY <1>1 DEF callInitialized, Waiting, Phases
  <2>2. QED
    BY <1>1, <2>1, CallMoves, ZenonT(30) DEF callInitialized, processVars, IInv, TypeOK, Senders
<1>2. CASE ensureInitialized(c)
  <2> DEFINE k == Cardinality(Spawned) + 1
  <2>1. k \in Children
    BY <1>2, NextChild, ZenonT(30) DEF ensureInitialized, IInv
  <2> HIDE DEF k
  <2>2. /\ nextRequestId \in Ids /\ call[c].pc \notin Phases
        /\ request(c, "startup", k, Request(nextRequestId, "dh.initialize"), FALSE)
        /\ closed' = closed /\ stdout' = stdout
    BY <1>2, ZenonT(30) DEF ensureInitialized, Phases, k
  <2>3. /\ nextRequestId' \in 1..(MaxRequests + 1)
        /\ call' \in [Callers -> CallType] /\ pending' \subseteq Ids
        /\ stdin' \in [Children -> Seq(RequestType)]
        /\ IdsUsed' /\ OwnProcess' /\ DistinctIds' /\ PendingExact'
        /\ AnswerIsOwn' /\ NothingPendingOnceClosed'
    BY <2>1, <2>2, RequestStep, ZenonT(30) DEF Phases
  <2>4. /\ child' = k
        /\ \E p \in {"running", "failed"} : proc' = [proc EXCEPT ![k] = p]
        /\ UNCHANGED <<override, closed, activeCodec, initialized, readBuffer,
                       stdout, half, transport>>
    BY <1>2, ZenonT(30) DEF ensureInitialized, k
  <2>5. QED
    BY <2>1, <2>3, <2>4, ZenonT(30) DEF IInv, TypeOK, Senders
<1>3. CASE applyNegotiatedTransport(c)
  <2>1. ~Waiting(c)
    BY <1>3 DEF applyNegotiatedTransport, Answered, Waiting
  <2>2. \E new \in {NoCall, ReadyCall} : call' = [call EXCEPT ![c] = new]
    BY <1>3 DEF applyNegotiatedTransport, Return
  <2>3. UNCHANGED <<closed, nextRequestId, pending, stdin, stdout>>
    BY <1>3 DEF applyNegotiatedTransport, processVars
  <2>4. /\ call' \in [Callers -> CallType]
        /\ IdsUsed' /\ OwnProcess' /\ DistinctIds' /\ PendingExact'
        /\ AnswerIsOwn' /\ NothingPendingOnceClosed'
    BY <2>1, <2>2, <2>3, CallMoves, ZenonT(30)
  <2>5. call[c].answer \in ResponseType
    BY <1>3 DEF applyNegotiatedTransport, Answered, IInv, TypeOK, CallType
  <2>6. call[c].answer.offer.selectedCodec \in Codecs
    BY <2>5 DEF ResponseType, OfferType
  <2>7. activeCodec' \in Codecs /\ initialized' \in BOOLEAN
    BY <1>3, <2>6, ZenonT(30) DEF applyNegotiatedTransport, IInv, TypeOK
  <2>8. UNCHANGED <<override, child, readBuffer>> /\ UNCHANGED <<proc, half, transport>>
    BY <1>3, ZenonT(30) DEF applyNegotiatedTransport, processVars
  <2>9. QED
    BY <2>3, <2>4, <2>7, <2>8, ZenonT(30) DEF IInv, TypeOK, Senders
<1>4. CASE runOperation(c)
  <2>1. call[c].pc = "ready"
        /\ UNCHANGED <<override, child, closed, activeCodec, initialized,
                       readBuffer, proc, stdout, half, transport>>
    BY <1>4, ZenonT(30) DEF runOperation
  <2>2. CASE Return(c) /\ UNCHANGED <<nextRequestId, pending, stdin>>
    <3>1. ~Waiting(c)
      BY <2>1 DEF Waiting, Phases
    <3>2. QED
      BY <2>1, <2>2, <3>1, CallMoves, ZenonT(30) DEF Return, IInv, TypeOK, Senders
  <2>3. CASE /\ nextRequestId \in Ids
             /\ \E tooLarge \in BOOLEAN :
                   request(c, "request", child, Request(nextRequestId, "other"), tooLarge)
    <3>1. child \in Children \cup {0} /\ call[c].pc \notin Phases
      BY <2>1, SMTT(30) DEF IInv, TypeOK, Phases
    <3>2. /\ nextRequestId' \in 1..(MaxRequests + 1)
          /\ call' \in [Callers -> CallType] /\ pending' \subseteq Ids
          /\ stdin' \in [Children -> Seq(RequestType)]
          /\ IdsUsed' /\ OwnProcess' /\ DistinctIds' /\ PendingExact'
          /\ AnswerIsOwn' /\ NothingPendingOnceClosed'
      BY <2>1, <2>3, <3>1, RequestStep, ZenonT(30) DEF Phases
    <3>3. QED
      BY <2>1, <3>2, ZenonT(30) DEF IInv, TypeOK, Senders
  <2>4. QED
    BY <1>4, <2>2, <2>3, ZenonT(30) DEF runOperation
<1>5. CASE finishOperation(c)
  <2>1. ~Waiting(c)
    BY <1>5, ZenonT(30) DEF finishOperation, Answered, Waiting
  <2>2. QED
    BY <1>5, <2>1, CallMoves, ZenonT(30) DEF finishOperation, Return, processVars, IInv, TypeOK, Senders
<1>6. CASE timeout(c)
  BY <1>6, GiveUp, ZenonT(30) DEF timeout, Return, processVars, IInv, TypeOK, Senders
<1>7. CASE writeFailed(c)
  BY <1>7, GiveUp, ZenonT(30) DEF writeFailed, Return, processVars, IInv, TypeOK, Senders
<1>8. QED
  BY <1>1, <1>2, <1>3, <1>4, <1>5, <1>6, <1>7, SMTT(30) DEF Resume

\* close() keeps the invariant.
LEMMA CloseStep ==
    ASSUME IInv, close
    PROVE  IInv'
<1>1. \A j \in Children : InFlight(j)' \subseteq InFlight(j)
  BY DEF close, InFlight
<1>2. /\ call' \in [Callers -> CallType] /\ pending' \subseteq Ids
      /\ IdsUsed' /\ OwnProcess' /\ DistinctIds' /\ PendingExact'
      /\ AnswerIsOwn' /\ NothingPendingOnceClosed'
  BY <1>1, AllFailed DEF close
<1>3. proc' \in [Children -> {"none", "running", "failed", "killed", "gone", "reaped"}]
  BY DEF close, IInv, TypeOK
<1>4. QED
  BY <1>2, <1>3, SMTT(30) DEF close, IInv, TypeOK, Senders

\* Every event of a process's pipes and every step of a process keeps the
\* invariant.
LEMMA ProcessStep ==
    ASSUME IInv, NEW k \in Children,
           \/ onError(k) \/ onExit(k) \/ dataHalf(k) \/ dataFrame(k)
           \/ dataMalformed(k) \/ dataMixed(k) \/ answerAny(k) \/ die(k)
    PROVE  IInv'
<1> DEFINE Calls == /\ call' \in [Callers -> CallType] /\ pending' \subseteq Ids
                    /\ IdsUsed' /\ OwnProcess' /\ DistinctIds' /\ PendingExact'
                    /\ AnswerIsOwn' /\ NothingPendingOnceClosed'
           Less == \A j \in Children : InFlight(j)' \subseteq InFlight(j)
<1>1. CASE onError(k)
  <2>1. Less
    BY <1>1, ZenonT(30) DEF onError, InFlight
  <2>2. Calls
    BY <1>1, <2>1, AllFailed DEF onError
  <2>3. proc' \in [Children -> {"none", "running", "failed", "killed", "gone", "reaped"}]
    BY <1>1 DEF onError, IInv, TypeOK
  <2>4. QED
    BY <1>1, <2>2, <2>3, ZenonT(30) DEF onError, IInv, TypeOK, Senders
<1>2. CASE onExit(k)
  <2>1. Less
    BY <1>2, ZenonT(30) DEF onExit, InFlight
  <2>2. CASE closed
    BY <1>2, <2>1, <2>2, NothingSettled, ZenonT(30) DEF onExit, IInv, TypeOK, Senders
  <2>3. CASE ~closed
    <3>1. Calls
      BY <1>2, <2>1, <2>3, AllFailed, SMTT(30) DEF onExit
    <3>2. QED
      BY <1>2, <3>1 DEF onExit, IInv, TypeOK, Senders
  <2>4. QED
    BY <2>2, <2>3, SMTT(30)
<1>3. CASE dataHalf(k)
  <2>1. Less
    BY <1>3, ZenonT(30) DEF dataHalf, InFlight
  <2>2. Calls
    BY <1>3, <2>1, NothingSettled, ZenonT(30) DEF dataHalf
  <2>3. QED
    <3>1. /\ readBuffer' = k /\ half' = half \cup {k}
          /\ UNCHANGED <<override, child, closed, nextRequestId, activeCodec,
                         initialized, proc, stdin, stdout, transport>>
      BY <1>3, ZenonT(30) DEF dataHalf
    <3>2. readBuffer' \in Children \cup {Empty, Garbled} /\ half' \subseteq Children
      BY <3>1, SMTT(30) DEF IInv, TypeOK
    <3>3. QED
      BY <2>2, <3>1, <3>2, ZenonT(30) DEF IInv, TypeOK, Senders
<1>4. CASE dataFrame(k)
  <2>1. /\ stdout' \in [Children -> Seq(ResponseType)] /\ Senders' /\ Less
        /\ Head(stdout[k]) \in ResponseType /\ Head(stdout[k]).from = k
        /\ Head(stdout[k]).id \in InFlight(k)
    BY <1>4, Taken, ZenonT(30) DEF dataFrame
  <2>2. Calls
    <3>1. drainFrames(Head(stdout[k])) /\ UNCHANGED <<closed, nextRequestId>>
      BY <1>4, Zenon DEF dataFrame
    <3>2. QED
      BY <2>1, <3>1, Delivered, ZenonT(30)
  <2>3. QED
    <3>1. /\ readBuffer' = Empty /\ half' = half \ {k}
          /\ UNCHANGED <<override, child, closed, nextRequestId, activeCodec,
                         initialized, proc, stdin, transport>>
      BY <1>4, ZenonT(30) DEF dataFrame
    <3>2. readBuffer' \in Children \cup {Empty, Garbled} /\ half' \subseteq Children
      BY <3>1, SMTT(30) DEF IInv, TypeOK
    <3>3. QED
      BY <2>1, <2>2, <3>1, <3>2, ZenonT(30) DEF IInv, TypeOK
<1>5. CASE dataMixed(k)
  <2>1. /\ stdout' \in [Children -> Seq(ResponseType)] /\ Senders' /\ Less
        /\ half' \subseteq Children
    <3>1. CASE half' = half \cup {k} /\ UNCHANGED stdout
      BY <1>5, <3>1, ZenonT(30) DEF dataMixed, InFlight, IInv, TypeOK, Senders
    <3>2. CASE half' = half \ {k} /\ stdout' = [stdout EXCEPT ![k] = Tail(@)]
      BY <1>5, <3>2, Taken, ZenonT(30) DEF dataMixed, IInv, TypeOK
    <3>3. QED
      BY <1>5, <3>1, <3>2, SMTT(30) DEF dataMixed
  <2>2. Calls
    <3>1. CASE UNCHANGED <<call, pending>>
      BY <1>5, <2>1, <3>1, NothingSettled DEF dataMixed
    <3>2. CASE failAllPending
      BY <1>5, <2>1, <3>2, AllFailed DEF dataMixed
    <3>3. CASE /\ readBuffer \in Children /\ stdout[readBuffer] # <<>>
               /\ drainCorrupted(Head(stdout[readBuffer]))
      <4> DEFINE first == Head(stdout[readBuffer])
      <4>1. PICK kind \in {first.kind, "other"} :
              drainFrames([first EXCEPT !.kind = kind])
        BY <3>3, ZenonT(30) DEF drainCorrupted
      <4>2. kind \in Kinds
        <5>1. "other" \in Kinds
          BY DEF Kinds
        <5>2. first.kind \in Kinds
          BY <3>3, <5>1, FirstAnswer, ZenonT(30)
        <5>3. QED
          BY <5>1, <5>2, ZenonT(30)
      <4>3. UNCHANGED <<closed, nextRequestId>>
        BY <1>5, ZenonT(30) DEF dataMixed
      <4> DEFINE frame == [first EXCEPT !.kind = kind]
      <4>4. frame \in ResponseType /\ frame.from = readBuffer
            /\ frame.id \in InFlight(readBuffer)
        BY <3>3, <4>2, FirstAnswer, ZenonT(30)
      <4>5. drainFrames(frame)
        BY <4>1
      <4> HIDE DEF frame, first
      <4>6. QED
        BY <2>1, <3>3, <4>3, <4>4, <4>5, Delivered, ZenonT(30)
    <3>4. QED
      BY <1>5, <3>1, <3>2, <3>3, ZenonT(30) DEF dataMixed
  <2>3. readBuffer' \in Children \cup {Empty, Garbled}
    BY <1>5, SMTT(30) DEF dataMixed
  <2>4. UNCHANGED <<override, child, closed, nextRequestId, activeCodec, initialized,
                    proc, stdin, transport>>
    BY <1>5, ZenonT(30) DEF dataMixed
  <2>5. QED
    BY <2>1, <2>2, <2>3, <2>4, ZenonT(30) DEF IInv, TypeOK
<1>6. CASE answerAny(k)
  <2>1. /\ stdin' \in [Children -> Seq(RequestType)]
        /\ stdout' \in [Children -> Seq(ResponseType)]
        /\ transport' \in [Children -> Codecs] /\ Senders' /\ Less
    BY <1>6, AnswerStep
  <2>2. UNCHANGED <<clientVars, proc, half>>
    BY <1>6 DEF answerAny
  <2>3. Calls
    BY <2>1, <2>2, NothingSettled, SMTT(30) DEF clientVars
  <2>4. QED
    BY <2>1, <2>2, <2>3, ZenonT(30) DEF clientVars, IInv, TypeOK
<1>7. CASE die(k)
  <2>1. Less
    BY <1>7, ZenonT(30) DEF die, InFlight
  <2>2. Calls
    BY <1>7, <2>1, NothingSettled DEF die, clientVars
  <2>3. QED
    BY <1>7, <2>2, SMTT(30) DEF die, clientVars, IInv, TypeOK, Senders
<1>8. CASE dataMalformed(k)
  <2>1. PICK n \in 0 .. Len(stdout[k]) :
          /\ stdout' = [stdout EXCEPT ![k] = SubSeq(@, n + 1, Len(@))]
          /\ half' \in {half \ {k}, half \cup {k}}
    BY <1>8, ZenonT(30) DEF dataMalformed
  <2>2. stdout' \in [Children -> Seq(ResponseType)] /\ Senders' /\ Less
    BY <1>8, <2>1, Lost, ZenonT(30) DEF dataMalformed
  <2>3. Calls
    BY <1>8, <2>2, AllFailed, ZenonT(30) DEF dataMalformed
  <2>4. half' \subseteq Children
    BY <2>1 DEF IInv, TypeOK
  <2>5. QED
    <3>1. /\ readBuffer' = Empty
          /\ UNCHANGED <<override, child, closed, nextRequestId, activeCodec,
                         initialized, proc, stdin, transport>>
      BY <1>8, ZenonT(30) DEF dataMalformed
    <3>2. readBuffer' \in Children \cup {Empty, Garbled}
      BY <3>1, SMTT(30)
    <3>3. QED
      BY <2>2, <2>3, <2>4, <3>1, <3>2, ZenonT(30) DEF IInv, TypeOK
<1>9. QED
  BY <1>1, <1>2, <1>3, <1>4, <1>5, <1>6, <1>7, <1>8, SMTT(30)

\* Every step keeps the invariant.
LEMMA NextInv == IInv /\ [Next]_vars => IInv'
<1> SUFFICES ASSUME IInv, [Next]_vars PROVE IInv'
  OBVIOUS
<1>1. CASE Next
  BY <1>1, CallerStep, CloseStep, ProcessStep DEF Next, ClientNext
<1>2. CASE UNCHANGED vars
  <2>1. /\ UNCHANGED <<override, child, closed, nextRequestId, activeCodec, initialized,
                       readBuffer, pending, call>>
        /\ UNCHANGED <<proc, stdin, stdout, half, transport>>
    BY <1>2 DEF vars, clientVars, processVars
  <2>2. \A k \in Children : InFlight(k)' \subseteq InFlight(k)
    BY <2>1 DEF InFlight
  <2>3. IdsUsed' /\ OwnProcess' /\ DistinctIds' /\ PendingExact'
        /\ AnswerIsOwn' /\ NothingPendingOnceClosed'
    BY <2>1, <2>2, NothingSettled, SMTT(30)
  <2>4. TypeOK' /\ Senders'
    BY <2>1 DEF IInv, TypeOK, Senders
  <2>5. QED
    BY <2>3, <2>4 DEF IInv
<1>3. QED
  BY <1>1, <1>2

\* The invariant holds in every state of every client.
LEMMA Invariant == Spec => []IInv
BY InitInv, NextInv, PTL DEF Spec

\* The variables of the client keep their types, for any number of callers,
\* processes and requests and any answers.
THEOREM BridgeTypeCorrect == Spec => []TypeOK
<1>1. IInv => TypeOK
  BY DEF IInv
<1>2. QED
  BY <1>1, Invariant, PTL

\* The keys of the pending map are the requests somebody waits for, each of one
\* caller, whatever order answers, timers, exits and close() come in.
THEOREM PendingIsWaiters == Spec => []WaitersArePending
<1>1. IInv => WaitersArePending
  <2> SUFFICES ASSUME IInv PROVE WaitersArePending
    OBVIOUS
  <2>1. pending = {call[c].id : c \in {d \in Callers : Waiting(d)}}
    BY DEF IInv, PendingExact
  <2>2. QED
    BY <2>1 DEF IInv, DistinctIds, WaitersArePending, Waiting
<1>2. QED
  BY <1>1, Invariant, PTL

\* A call goes on only with the answer to its own request, from the process it
\* was sent to, however many processes the client went through.
THEOREM AnswersReachTheirCaller == Spec => []AnswerIsOwn
<1>1. IInv => AnswerIsOwn
  BY DEF IInv
<1>2. QED
  BY <1>1, Invariant, PTL

\* A closed client waits for nothing, and is never made to wait again.
THEOREM ClosedWaitsForNothing == Spec => []NothingPendingOnceClosed
<1>1. IInv => NothingPendingOnceClosed
  BY DEF IInv
<1>2. QED
  BY <1>1, Invariant, PTL

=============================================================================

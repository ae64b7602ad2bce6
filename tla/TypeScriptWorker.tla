-------------------------- MODULE TypeScriptWorker --------------------------
(***************************************************************************)
(* The TypeScript worker the Rust host spawns: worker-main.ts, its         *)
(* JSON-RPC peer and its command router.  It reads the host's messages     *)
(* from stdin in order; its request handlers are asynchronous, so a run    *)
(* may still be going on when a later message is handled.                  *)
(***************************************************************************)
EXTENDS Integers, Sequences, FiniteSets, HostLifecycle

CONSTANTS
  ProtocolVersions,   \* versions a worker bundle may have been built with
  ExpectedVersion,    \* WORKER_PROTOCOL_VERSION of the host
  MaxQueries          \* bound: queries a worker sends to the host

ASSUME VersionAssumption == ExpectedVersion \in ProtocolVersions
ASSUME QueriesAssumption == MaxQueries \in Nat

VARIABLES
  worker,    \* the worker process
  stdin,     \* host to worker, in flight
  stdout     \* worker to host, not yet read by the host's reader thread

workerVars == <<worker, stdin, stdout>>

RunMethods == {"session.runCommand", "session.runLane", "session.runDirect"}
Methods == RunMethods \cup {"dh.initialize", "runtime.ping", "dh.shutdown"}

NoId == 0
NoResult == [none |-> TRUE]
Accepted == [accepted |-> TRUE]

Request(i, m) == [type |-> "request", id |-> i, method |-> m, result |-> NoResult]
Notification(m) == [type |-> "notification", id |-> NoId, method |-> m, result |-> NoResult]
Result(i, r) == [type |-> "result", id |-> i, method |-> "", result |-> r]
Failure(i) == [type |-> "error", id |-> i, method |-> "", result |-> NoResult]

\* The exit code and finalStatus a finished run may report: knowledge reports
\* have no finalStatus, and runDirectCommand throws instead of exiting with 1.
RunReports(m) ==
  CASE m = "session.runCommand" -> [exitCode : {0, 1}, finalStatus : {"absent"}]
    [] m = "session.runLane" -> [exitCode : {0, 1}, finalStatus : {"typescript_compatibility"}]
    [] m = "session.runDirect" -> [exitCode : {0}, finalStatus : {"clean_success", "degraded_success"}]

\* cancelledReport of runCommand, and the cancelled results of runLane and runDirect.
cancelledReport(m) ==
  [exitCode |-> 130,
   finalStatus |-> IF m = "session.runCommand" THEN "absent" ELSE "cancelled"]

createWorkerRuntime(version) ==
  [alive |-> TRUE, version |-> version, initialized |-> FALSE, readySent |-> FALSE,
   cancelled |-> FALSE, shutdownRequested |-> FALSE, running |-> {}, pending |-> {},
   nextRequestId |-> 1]

NoWorker == [createWorkerRuntime(ExpectedVersion) EXCEPT !.alive = FALSE]

-----------------------------------------------------------------------------
\* handleIncoming: the next message of the host, of this type and method.
Incoming(type, method) ==
  /\ worker.alive
  /\ stdin # <<>>
  /\ Head(stdin).type = type
  /\ Head(stdin).method = method
  /\ stdin' = Tail(stdin)

Writes(m) == stdout' = Append(stdout, m)

\* dh.initialize.  A bundle built with another version refuses the host's.
handle_initialize ==
  /\ Incoming("request", "dh.initialize")
  /\ IF worker.version = ExpectedVersion
       THEN /\ worker' = [worker EXCEPT !.initialized = TRUE]
            /\ Writes(Result(Head(stdin).id, [protocolVersion |-> worker.version]))
       ELSE /\ UNCHANGED worker
            /\ Writes(Failure(Head(stdin).id))

\* A bundle of another make, which does not check the host's version and
\* answers with its own.
foreign_initialize ==
  /\ Incoming("request", "dh.initialize")
  /\ worker.version # ExpectedVersion
  /\ Writes(Result(Head(stdin).id, [protocolVersion |-> worker.version]))
  /\ UNCHANGED worker

\* dh.initialized: markReady.
handle_initialized ==
  /\ Incoming("notification", "dh.initialized")
  /\ worker' = [worker EXCEPT !.readySent = worker.initialized]
  /\ IF worker.initialized /\ ~worker.readySent
       THEN Writes(Notification("dh.ready"))
       ELSE UNCHANGED stdout

\* runtime.ping is registered with onRequest only.
handle_ping ==
  /\ Incoming("request", "runtime.ping")
  /\ LET up == worker.initialized /\ ~worker.shutdownRequested
     IN Writes(Result(Head(stdin).id,
          [workerState |-> IF worker.shutdownRequested THEN "ShuttingDown"
                           ELSE IF worker.readySent THEN "Ready" ELSE "SpawnedNotReady",
           healthState |-> IF up THEN "Healthy" ELSE "Unknown"]))
  /\ UNCHANGED worker

\* handleNotification drops a notification no handler is registered for; the
\* host's heartbeat, a runtime.ping notification, is one.
drop_ping ==
  /\ Incoming("notification", "runtime.ping")
  /\ UNCHANGED <<worker, stdout>>

\* session.cancel: the flag is read when a run starts, and never cleared.
handle_cancel ==
  /\ Incoming("notification", "session.cancel")
  /\ worker' = [worker EXCEPT !.cancelled = worker.initialized]
  /\ UNCHANGED stdout

\* session.runCommand, runLane and runDirect, up to their first await.
handle_run ==
  \E m \in RunMethods :
    /\ Incoming("request", m)
    /\ LET started == worker.initialized /\ ~worker.cancelled
       IN /\ worker' = [worker EXCEPT !.running = IF started THEN @ \cup {Head(stdin)} ELSE @]
          /\ CASE started -> UNCHANGED stdout
               [] worker.cancelled -> Writes(Result(Head(stdin).id, [report |-> cancelledReport(m)]))
               [] OTHER -> Writes(Failure(Head(stdin).id))

\* The handler of a run resolves with its report ...
run_finishes ==
  \E q \in worker.running : \E r \in RunReports(q.method) :
    /\ worker.alive
    /\ worker' = [worker EXCEPT !.running = @ \ {q}]
    /\ Writes(Result(q.id, [report |-> r]))
    /\ UNCHANGED stdin

\* ... or throws, which the peer answers with an error response.
run_throws ==
  \E q \in worker.running :
    /\ worker.alive
    /\ worker' = [worker EXCEPT !.running = @ \ {q}]
    /\ Writes(Failure(q.id))
    /\ UNCHANGED stdin

\* A run asks the host a query: the peer counts its own request ids.
request_host ==
  /\ worker.alive
  /\ worker.running # {}
  /\ worker.pending = {}
  /\ worker.nextRequestId <= MaxQueries
  /\ worker' = [worker EXCEPT !.pending = {worker.nextRequestId}, !.nextRequestId = @ + 1]
  /\ Writes(Request(worker.nextRequestId, "query"))
  /\ UNCHANGED stdin

\* handleResponse: the answer of a query that timed out finds nothing pending.
handle_response ==
  /\ Incoming("result", "")
  /\ worker' = [worker EXCEPT !.pending = @ \ {Head(stdin).id}]
  /\ UNCHANGED stdout

\* The 10 s timer of a query fires before the host's answer.
query_times_out ==
  /\ worker.alive
  /\ \E i \in worker.pending : worker' = [worker EXCEPT !.pending = @ \ {i}]
  /\ UNCHANGED <<stdin, stdout>>

\* dh.shutdown answers first; the process exits once the answer is written.
handle_shutdown ==
  /\ Incoming("request", "dh.shutdown")
  /\ worker' = [worker EXCEPT !.shutdownRequested = TRUE]
  /\ Writes(Result(Head(stdin).id, Accepted))

on_shutdown ==
  /\ worker.alive
  /\ worker.shutdownRequested
  /\ worker' = [worker EXCEPT !.alive = FALSE]
  /\ UNCHANGED <<stdin, stdout>>

\* The worker process dies: a crash, or a signal.
crash ==
  /\ worker.alive
  /\ worker' = [worker EXCEPT !.alive = FALSE]
  /\ UNCHANGED <<stdin, stdout>>

WorkerNext ==
  \/ handle_initialize
  \/ foreign_initialize
  \/ handle_initialized
  \/ handle_ping
  \/ drop_ping
  \/ handle_cancel
  \/ handle_run
  \/ run_finishes
  \/ run_throws
  \/ request_host
  \/ handle_response
  \/ query_times_out
  \/ handle_shutdown
  \/ on_shutdown
  \/ crash
=============================================================================

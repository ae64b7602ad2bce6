-------------------------- MODULE WorkerSupervisor --------------------------
(***************************************************************************)
(* The Rust host's supervisor of one TypeScript worker                     *)
(* (worker_supervisor.rs): launch and handshake, requests with deadlines   *)
(* and heartbeats, recovery, shutdown and forced cleanup.                  *)
(*                                                                         *)
(* An operation of the supervisor is a call of the host's thread: it       *)
(* starts when pc is "idle" and has returned, with its result in ret, when *)
(* pc is "idle" again.  Every blocking point of the code is a value of pc, *)
(* and the worker, its reader thread and the clock move between them.      *)
(*                                                                         *)
(* One tick of the clock stands for the unit the timeouts are given in;    *)
(* the 500 ms grace window and the 100 ms drain are shorter than a tick    *)
(* and may end at any time.  Ticks fall where the thread waits, or is in   *)
(* the host's handler of a query (pc "loop").                              *)
(***************************************************************************)
EXTENDS TypeScriptWorker

CONSTANTS
  ReadyTimeout, RequestTimeout, HealthTimeout, ShutdownTimeout,   \* ticks
  MaxReplaySafeRestarts,   \* max_replay_safe_restarts
  Issues                   \* launchability issues the check may report

ASSUME TimeoutAssumption ==
  /\ ReadyTimeout \in Nat /\ RequestTimeout \in Nat
  /\ HealthTimeout \in Nat /\ ShutdownTimeout \in Nat
ASSUME RestartsAssumption == MaxReplaySafeRestarts \in Nat
ASSUME IssuesAssumption == Issues \subseteq LaunchabilityIssue

VARIABLES
  process,                 \* the supervisor holds a worker process
  messages,                \* the reader thread's channel to the host
  report,                  \* self.report
  next_request_id,
  recovery_attempts,
  request_phase_started,
  ready_seen,
  clock,                   \* ages of the last message, ping and wait; missed heartbeats
  pc, call, recovering,    \* where the host's thread is
  ret,                     \* what the last call returned
  hist                     \* what has happened, for the properties

hostVars == <<process, messages, report, next_request_id, recovery_attempts,
              request_phase_started, ready_seen, clock, pc, call, recovering, ret, hist>>
supervisorVars == <<workerVars, hostVars>>

\* HeartbeatFailed is a Timeout of the code, told apart by its message.
ErrorKinds == {"LaunchabilityBlocked", "SpawnFailed", "ProtocolMismatch", "WorkerExited",
               "WorkerProtocolError", "RequestFailed", "Timeout", "HeartbeatFailed", "Io"}
ReplaySafety == {"ReplaySafeReadOnly", "ReplayUnsafe", "Uncertain"}

ReadFailed == Notification("read failed")
NoPing == -1
Fresh == [silence |-> 0, ping |-> NoPing, missed |-> 0, waited |-> 0]

\* Mutant: a run is sent with the phase of the handshake.
failure_phase_StartupForRuns(m) ==
  CASE m = "runtime.ping" -> "Health"
    [] m = "dh.shutdown" -> "Shutdown"
    [] OTHER -> "Startup"

\* The three arguments send_request_wait is called with for a method.
failure_phase(m) ==
  CASE m = "dh.initialize" -> "Startup"
    [] m = "runtime.ping" -> "Health"
    [] m = "dh.shutdown" -> "Shutdown"
    [] OTHER -> "Request"

timeout_class(m) ==
  CASE m = "dh.initialize" -> "ReadyTimeout"
    [] m = "runtime.ping" -> "HealthTimeout"
    [] m = "dh.shutdown" -> "ShutdownTimeout"
    [] OTHER -> "RequestTimeout"

timeout(m) ==
  CASE m = "dh.initialize" -> ReadyTimeout
    [] m = "runtime.ping" -> HealthTimeout
    [] m = "dh.shutdown" -> ShutdownTimeout
    [] OTHER -> RequestTimeout

\* Nothing has been returned since the last call began.
Nothing == [kind |-> "Nothing"]
Ok(rep, res) == [kind |-> "Ok", report |-> rep, result |-> res]
Err(kind, rep) == [kind |-> kind, report |-> rep, result |-> NoResult]

\* WorkerSupervisor::new.
SupervisorInit ==
  /\ worker = NoWorker
  /\ stdin = <<>> /\ stdout = <<>> /\ messages = <<>>
  /\ process = FALSE
  /\ report = report_for("NotRunning", "Unknown", "None", "None", "NotAttempted",
                         "NotStarted", "None", "CleanSuccess", NoCode)
  /\ next_request_id = 1
  /\ recovery_attempts = 0
  /\ request_phase_started = FALSE
  /\ ready_seen = FALSE
  /\ clock = Fresh
  /\ pc = "idle" /\ call = "dh.initialize" /\ recovering = FALSE
  /\ ret = Nothing
  /\ hist = [runs |-> 0, ready |-> FALSE, killed |-> FALSE, leaked |-> FALSE,
             answered |-> FALSE, code |-> NoCode]

-----------------------------------------------------------------------------
\* A write succeeds while the supervisor holds a process that is alive.
CanWrite == process /\ worker.alive

\* A write whose error the code ignores.
TryWrite(m) == stdin' = IF CanWrite THEN Append(stdin, m) ELSE stdin

id == next_request_id - 1

actual_failure_phase(rep, phase) ==
  IF request_phase_started /\ (ready_seen \/ rep.worker_state = "Busy")
    THEN "Request" ELSE phase

\* classify_receive_failure of a call, from the report rep.
classify_receive_failure(rep, m, class) ==
  LET phase == actual_failure_phase(rep, failure_phase(m))
  IN Restate(rep, rep.worker_state, "Unhealthy", phase, class,
             rep.launchability_issue, terminal_status_for_phase(phase))

\* io_error builds a report and does not store it.
io_error(phase, class) ==
  Restate(report, report.worker_state, "Unhealthy", phase, class,
          report.launchability_issue, terminal_status_for_phase(phase))

\* The report of force_cleanup; dead: the kill succeeded.
force_cleanup_report(class, dead) ==
  report_for("Stopped", "Unhealthy", "Shutdown", class, report.recovery_outcome,
             IF process /\ dead THEN "Forced" ELSE "Incomplete",
             report.launchability_issue, "CleanupIncomplete", NoCode)

\* The worker process and its pipes are gone.
Discard ==
  /\ worker' = NoWorker
  /\ stdin' = <<>> /\ stdout' = <<>> /\ messages' = <<>>
  /\ process' = FALSE

\* force_cleanup: a process that could not be killed is left behind.
force_cleanup(dead) ==
  /\ Discard
  /\ hist' = [hist EXCEPT !.killed = @ \/ (process /\ dead),
                          !.leaked = @ \/ (process /\ ~dead)]

\* The call in progress returns to its caller with r.
Return(r) == pc' = "returned" /\ ret' = r
Fail(kind, rep) == Return(Err(kind, rep)) /\ report' = rep

-----------------------------------------------------------------------------
\* Time passes; ages beyond the last one the code tells apart are not counted.
Older(age, limit) == IF age = NoPing \/ age > limit THEN age ELSE age + 1

tick ==
  /\ process
  /\ pc \in {"loop", "recv", "ready", "exiting"}
  /\ clock' = [clock EXCEPT !.silence = Older(@, HealthTimeout),
                            !.ping = Older(@, HealthTimeout),
                            !.waited = Older(@, timeout(call) - 1)]
  /\ clock' # clock
  /\ UNCHANGED <<workerVars, process, messages, report, next_request_id, recovery_attempts,
                 request_phase_started, ready_seen, pc, call, recovering, ret, hist>>

\* The reader thread forwards one message, or the end of the worker's stdout.
spawn_stdout_reader ==
  /\ process
  /\ \/ /\ stdout # <<>>
        /\ messages' = Append(messages, Head(stdout))
        /\ stdout' = Tail(stdout)
     \/ /\ stdout = <<>>
        /\ ~worker.alive
        /\ ReadFailed \notin {messages[k] : k \in DOMAIN messages}
        /\ messages' = Append(messages, ReadFailed)
        /\ UNCHANGED stdout
  /\ UNCHANGED <<worker, stdin, process, report, next_request_id, recovery_attempts,
                 request_phase_started, ready_seen, clock, pc, call, recovering, ret, hist>>

-----------------------------------------------------------------------------
(* send_request_wait *)

send_request ==
  /\ pc = "send"
  /\ next_request_id' = next_request_id + 1
  /\ clock' = [clock EXCEPT !.waited = 0]
  /\ TryWrite(Request(next_request_id, call))
  /\ IF CanWrite
       THEN /\ pc' = "loop"
            /\ hist' = [hist EXCEPT !.runs = IF call \in RunMethods THEN @ + 1 ELSE @]
            /\ UNCHANGED ret
       ELSE /\ Return(Err("Io", io_error(failure_phase(call), timeout_class(call))))
            /\ UNCHANGED hist
  /\ UNCHANGED <<worker, stdout, process, messages, report, recovery_attempts,
                 request_phase_started, ready_seen, call, recovering>>

\* The heartbeat check at the head of the loop.
check_heartbeat ==
  /\ pc = "loop"
  /\ LET should_ping == /\ clock.silence > HealthTimeout
                        /\ clock.ping = NoPing \/ clock.ping > HealthTimeout
     IN \/ /\ ~should_ping
           /\ pc' = "recv"
           /\ UNCHANGED <<clock, stdin, report, ret>>
        \/ /\ should_ping
           /\ clock.missed = 0
           /\ clock' = [clock EXCEPT !.missed = 1, !.ping = 0]
           /\ TryWrite(Notification("runtime.ping"))
           /\ pc' = "recv"
           /\ UNCHANGED <<report, ret>>
        \/ /\ should_ping
           /\ clock.missed >= 1
           /\ clock' = [clock EXCEPT !.missed = 2]
           /\ Fail("HeartbeatFailed", classify_receive_failure(report, call, timeout_class(call)))
           /\ UNCHANGED stdin
  /\ UNCHANGED <<worker, stdout, process, messages, next_request_id, recovery_attempts,
                 request_phase_started, ready_seen, call, recovering, hist>>

\* For the properties: the worker's answer to a run has been received.
Answered(code) ==
  hist' = IF call \in RunMethods THEN [hist EXCEPT !.answered = TRUE, !.code = code] ELSE hist

\* Mutant: the handler's answer is not written.
DispatchQuery_Unanswered(m) ==
  pc' = "loop" /\ UNCHANGED <<stdin, ready_seen, report, ret, hist>>

\* A query of the worker is answered if the caller passed a host handler.
DispatchQuery(m) ==
  /\ IF call \in RunMethods /\ ~CanWrite
       THEN /\ Return(Err("Io", io_error(failure_phase(call), timeout_class(call))))
            /\ UNCHANGED stdin
       ELSE /\ stdin' = IF call \in RunMethods THEN Append(stdin, Result(m.id, Accepted)) ELSE stdin
            /\ pc' = "loop"
            /\ UNCHANGED ret
  /\ UNCHANGED <<ready_seen, report, hist>>

\* Mutant: the id is compared before it is known that the message is a response.
Dispatch_IdFirst(m) ==
  \/ /\ m.type = "notification"
     /\ ready_seen' = (ready_seen \/ m.method = "dh.ready")
     /\ pc' = "loop"
     /\ UNCHANGED <<stdin, report, ret, hist>>
  \/ m.type = "request" /\ m.id # id /\ DispatchQuery(m)
  \/ /\ m.type \in {"result", "error"} /\ m.id # id
     /\ pc' = "loop"
     /\ UNCHANGED <<stdin, ready_seen, report, ret, hist>>
  \/ /\ m.type \in {"error", "request"} /\ m.id = id
     /\ Fail(IF m.type = "error" THEN "RequestFailed" ELSE "WorkerProtocolError",
             Restate(report, report.worker_state, "Unhealthy", failure_phase(call), "None",
                     "None", terminal_status_for_phase(failure_phase(call))))
     /\ UNCHANGED <<stdin, ready_seen, hist>>
  \/ /\ m.type = "result" /\ m.id = id
     /\ Return(Ok(report, m.result))
     /\ Answered(IF call \in RunMethods THEN m.result.report.exitCode ELSE NoCode)
     /\ UNCHANGED <<stdin, ready_seen, report>>

\* What the loop does with a message m: a ready notification is noted, a query
\* answered, a response to another request dropped; its own ends the call.
Dispatch(m) ==
  \/ /\ m.type = "notification"
     /\ ready_seen' = (ready_seen \/ m.method = "dh.ready")
     /\ pc' = "loop"
     /\ UNCHANGED <<stdin, report, ret, hist>>
  \/ m.type = "request" /\ DispatchQuery(m)
  \/ /\ m.type \in {"result", "error"} /\ m.id # id
     /\ pc' = "loop"
     /\ UNCHANGED <<stdin, ready_seen, report, ret, hist>>
  \/ /\ m.type = "error" /\ m.id = id
     /\ Fail("RequestFailed",
             Restate(report, report.worker_state, "Unhealthy", failure_phase(call), "None",
                     "None", terminal_status_for_phase(failure_phase(call))))
     /\ Answered(NoCode)
     /\ UNCHANGED <<stdin, ready_seen>>
  \/ /\ m.type = "result" /\ m.id = id
     /\ Return(Ok(report, m.result))
     /\ Answered(IF call \in RunMethods THEN m.result.report.exitCode ELSE NoCode)
     /\ UNCHANGED <<stdin, ready_seen, report>>

\* recv_message_before returns a message.
receive_message ==
  /\ pc = "recv"
  /\ messages # <<>> /\ Head(messages) # ReadFailed
  /\ messages' = Tail(messages)
  /\ clock' = [clock EXCEPT !.silence = 0, !.ping = NoPing, !.missed = 0]
  /\ Dispatch(Head(messages))
  /\ UNCHANGED <<worker, stdout, process, next_request_id, recovery_attempts,
                 request_phase_started, call, recovering>>

\* The reader's channel ends with a read failure, or try_wait sees the exit
\* while no message has been forwarded.
Broken(kind) ==
  \/ /\ kind = "WorkerProtocolError"
     /\ messages # <<>> /\ Head(messages) = ReadFailed
  \/ /\ kind = "WorkerExited"
     /\ ~worker.alive
     /\ messages = <<>>

receive_broken ==
  /\ pc = "recv"
  /\ \E kind \in {"WorkerProtocolError", "WorkerExited"} :
       /\ Broken(kind)
       /\ Fail(kind, classify_receive_failure(report, call, "None"))
  /\ UNCHANGED <<workerVars, process, messages, next_request_id, recovery_attempts,
                 request_phase_started, ready_seen, clock, call, recovering, hist>>

\* Nothing has arrived by next_ping_time: back to the head of the loop.
receive_until_ping ==
  /\ pc = "recv"
  /\ messages = <<>> /\ worker.alive
  /\ clock.waited < timeout(call)
  /\ (IF clock.ping = NoPing THEN clock.silence ELSE clock.ping) >= HealthTimeout
  /\ pc' = "loop"
  /\ UNCHANGED <<workerVars, process, messages, report, next_request_id, recovery_attempts,
                 request_phase_started, ready_seen, clock, call, recovering, ret, hist>>

\* Nothing has arrived by the deadline: cancel, and open the grace window.
receive_timeout ==
  /\ pc = "recv"
  /\ messages = <<>> /\ worker.alive
  /\ clock.waited >= timeout(call)
  /\ TryWrite(Notification("session.cancel"))
  /\ pc' = "grace"
  /\ UNCHANGED <<worker, stdout, process, messages, report, next_request_id, recovery_attempts,
                 request_phase_started, ready_seen, clock, call, recovering, ret, hist>>

\* Inside the window only a message that carries the id of the call counts.
grace_receive ==
  /\ pc = "grace"
  /\ messages # <<>> /\ Head(messages) # ReadFailed
  /\ messages' = Tail(messages)
  /\ IF Head(messages).id = id
       THEN Dispatch(Head(messages))
       ELSE UNCHANGED <<stdin, report, ready_seen, pc, ret, hist>>
  /\ UNCHANGED <<worker, stdout, process, next_request_id, recovery_attempts,
                 request_phase_started, clock, call, recovering>>

\* The window closes, or the worker breaks off: kill it and report the timeout.
grace_expires ==
  /\ pc = "grace"
  /\ \E dead \in BOOLEAN :
       /\ force_cleanup(dead)
       /\ LET class == timeout_class(call)
          IN Fail("Timeout",
                  classify_receive_failure(force_cleanup_report(class, dead), call, class))
  /\ UNCHANGED <<next_request_id, recovery_attempts, request_phase_started, ready_seen,
                 clock, call, recovering>>

-----------------------------------------------------------------------------
(* launch *)

\* Mutant: what was seen of the last worker is kept.
StartLaunch_KeepsReadySeen(rec) ==
  /\ recovering' = rec
  /\ request_phase_started' = FALSE
  /\ clock' = Fresh
  /\ call' = "dh.initialize"
  /\ \E v \in ProtocolVersions : worker' = createWorkerRuntime(v)
  /\ stdin' = <<>> /\ stdout' = <<>> /\ messages' = <<>>
  /\ process' = TRUE
  /\ report' = report_for("SpawnedNotReady", "Unknown", "None", "None", "NotAttempted",
                          "NotStarted", "None", "CleanSuccess", NoCode)
  /\ pc' = "send"
  /\ ret' = Nothing
  /\ UNCHANGED ready_seen

\* The part of launch before the handshake, called from launch and from
\* maybe_recover_after_worker_failure.
StartLaunch(rec) ==
  /\ recovering' = rec
  /\ request_phase_started' = FALSE
  /\ ready_seen' = FALSE
  /\ clock' = Fresh
  /\ call' = "dh.initialize"
  /\ \/ \E issue \in Issues :
          /\ Discard
          /\ Fail("LaunchabilityBlocked", startup_failure_report(issue))
     \/ /\ Discard
        /\ Fail("SpawnFailed", startup_failure_report("None"))
     \/ /\ \E v \in ProtocolVersions : worker' = createWorkerRuntime(v)
        /\ stdin' = <<>> /\ stdout' = <<>> /\ messages' = <<>>
        /\ process' = TRUE
        /\ report' = report_for("SpawnedNotReady", "Unknown", "None", "None", "NotAttempted",
                                "NotStarted", "None", "CleanSuccess", NoCode)
        /\ pc' = "send"
        /\ ret' = Nothing

mark_ready_seen(rep) ==
  Restate(rep, "Ready", "Unknown", "None", "None", "None", "CleanSuccess")

\* dh.initialize has been answered: check the protocol and send dh.initialized.
\* accept_queued_ready looks for a dh.ready when that write fails.
initialize_answered ==
  /\ pc = "returned" /\ call = "dh.initialize" /\ ret.kind = "Ok"
  /\ "protocolVersion" \in DOMAIN ret.result
  /\ \/ /\ ret.result.protocolVersion # ExpectedVersion
        /\ Discard
        /\ Fail("ProtocolMismatch", startup_failure_report("ProtocolMismatch"))
        /\ UNCHANGED <<clock, ready_seen, hist>>
     \/ /\ ret.result.protocolVersion = ExpectedVersion
        /\ CanWrite
        /\ TryWrite(Notification("dh.initialized"))
        /\ pc' = "ready"
        /\ clock' = [clock EXCEPT !.waited = 0]
        /\ UNCHANGED <<worker, stdout, messages, process, report, ret, ready_seen, hist>>
     \/ /\ ret.result.protocolVersion = ExpectedVersion
        /\ ~CanWrite
        /\ LET queued == Notification("dh.ready") \in {messages[k] : k \in DOMAIN messages}
           IN /\ ready_seen' = queued
              /\ hist' = [hist EXCEPT !.ready = @ \/ queued]
              /\ IF queued
                   THEN /\ report' = mark_ready_seen(report)
                        /\ Return(Ok(report', NoResult))
                   ELSE /\ Return(Err("Io", io_error("Startup", "None")))
                        /\ UNCHANGED report
        /\ UNCHANGED <<workerVars, messages, process, clock>>
  /\ UNCHANGED <<next_request_id, recovery_attempts, request_phase_started, call,
                 recovering>>

\* wait_for_ready: everything but dh.ready is dropped, and the age of the last
\* message is not reset.
wait_for_ready ==
  /\ pc = "ready"
  /\ messages # <<>> /\ Head(messages) # ReadFailed
  /\ messages' = Tail(messages)
  /\ IF Head(messages) = Notification("dh.ready")
       THEN /\ ready_seen' = TRUE
            /\ report' = mark_ready_seen(report)
            /\ Return(Ok(report', NoResult))
            /\ hist' = [hist EXCEPT !.ready = TRUE]
       ELSE UNCHANGED <<ready_seen, report, pc, ret, hist>>
  /\ UNCHANGED <<workerVars, process, next_request_id, recovery_attempts,
                 request_phase_started, clock, call, recovering>>

\* Mutant: the wait has no deadline.
wait_for_ready_fails_NoDeadline ==
  /\ pc = "ready"
  /\ \E kind \in {"WorkerProtocolError", "WorkerExited"} :
       /\ Broken(kind)
       /\ Fail(kind, classify_receive_failure(report, call, "None"))
  /\ UNCHANGED <<workerVars, process, messages, next_request_id, recovery_attempts,
                 request_phase_started, ready_seen, clock, call, recovering, hist>>

wait_for_ready_fails ==
  /\ pc = "ready"
  /\ \/ \E kind \in {"WorkerProtocolError", "WorkerExited"} :
          /\ Broken(kind)
          /\ Fail(kind, classify_receive_failure(report, call, "None"))
     \/ /\ messages = <<>> /\ worker.alive
        /\ clock.waited >= ReadyTimeout
        /\ Fail("Timeout", classify_receive_failure(report, call, "ReadyTimeout"))
  /\ UNCHANGED <<workerVars, process, messages, next_request_id, recovery_attempts,
                 request_phase_started, ready_seen, clock, call, recovering, hist>>

\* launch has returned; maybe_recover_after_worker_failure restates its result.
LaunchEnded == ret.kind # "Ok" \/ ret.result = NoResult

launch_returns ==
  /\ pc = "returned" /\ call = "dh.initialize"
  /\ LaunchEnded
  /\ pc' = "idle"
  /\ recovering' = FALSE
  /\ report' = IF ~recovering THEN report
               ELSE IF ret.kind = "Ok"
               THEN report_for("Ready", "Degraded", "None", "None", "AttemptedSucceededDegraded",
                               report.cleanup_outcome, "None", "RecoveredDegradedSuccess", NoCode)
               ELSE report_for("Stopped", "Unhealthy", "Request", "None", "AttemptedFailed",
                               report.cleanup_outcome, report.launchability_issue,
                               "RequestFailed", NoCode)
  /\ clock' = [clock EXCEPT !.waited = 0]
  /\ UNCHANGED <<workerVars, process, messages, next_request_id, recovery_attempts,
                 request_phase_started, ready_seen, call, ret, hist>>

-----------------------------------------------------------------------------
(* The operations of the supervisor. *)

launch ==
  /\ pc = "idle"
  /\ StartLaunch(FALSE)
  /\ UNCHANGED <<next_request_id, recovery_attempts, hist>>

\* The start of a call that goes through send_request_wait.
StartCall(m) ==
  /\ pc = "idle"
  /\ pc' = "send"
  /\ call' = m
  /\ ret' = Nothing
  /\ UNCHANGED <<workerVars, process, messages, next_request_id, recovery_attempts,
                 ready_seen, clock, recovering, hist>>

ping ==
  /\ StartCall("runtime.ping")
  /\ UNCHANGED <<report, request_phase_started>>

send_worker_request(m) ==
  /\ StartCall(m)
  /\ request_phase_started' = TRUE
  /\ report' = [report EXCEPT !.worker_state = "Busy"]

\* The end of ping and of send_worker_request_with_host_handler.
request_returns ==
  /\ pc = "returned" /\ call \in RunMethods \cup {"runtime.ping"}
  /\ pc' = "idle"
  /\ \/ /\ ret.kind # "Ok"
        /\ UNCHANGED <<report, ret>>
     \/ /\ ret.kind = "Ok" /\ call = "runtime.ping"
        /\ report' = Restate(report, ret.result.workerState, ret.result.healthState,
                             "None", "None", "None", "CleanSuccess")
        /\ ret' = Ok(report', NoResult)
     \/ /\ ret.kind = "Ok" /\ call \in RunMethods
        /\ report' = Restate(report, "Busy", report.health_state,
                             "None", "None", "None", "CleanSuccess")
        /\ ret' = Ok(report', ret.result)
  /\ clock' = [clock EXCEPT !.waited = 0]
  /\ UNCHANGED <<workerVars, process, messages, next_request_id, recovery_attempts,
                 request_phase_started, ready_seen, call, recovering, hist>>

request_cancel ==
  /\ pc = "idle"
  /\ TryWrite(Notification("session.cancel"))
  /\ report' = Restate(report, "ShuttingDown", report.health_state, "Request",
                       "None", "None", "Cancelled")
  /\ ret' = Ok(report', NoResult)
  /\ UNCHANGED <<worker, stdout, process, messages, next_request_id, recovery_attempts,
                 request_phase_started, ready_seen, clock, pc, call, recovering, hist>>

\* shutdown: there may be no process left to shut down.
shutdown ==
  \/ /\ process
     /\ StartCall("dh.shutdown")
     /\ report' = Restate(report, "ShuttingDown", report.health_state, "Shutdown",
                          "None", "None", "CleanSuccess")
     /\ UNCHANGED request_phase_started
  \/ /\ pc = "idle"
     /\ ~process
     /\ report' = report_for("Stopped", "Unknown", "None", "None", report.recovery_outcome,
                             "NotStarted", "None", "CleanSuccess", NoCode)
     /\ ret' = Ok(report', NoResult)
     /\ UNCHANGED <<workerVars, process, messages, next_request_id, recovery_attempts,
                    request_phase_started, ready_seen, clock, pc, call, recovering, hist>>

\* Mutant: an error of the request is ignored.
shutdown_answered_IgnoresError ==
  /\ pc = "returned" /\ call = "dh.shutdown"
  /\ pc' = "exiting"
  /\ clock' = [clock EXCEPT !.waited = 0]
  /\ UNCHANGED <<workerVars, process, messages, report, ret, hist, next_request_id,
                 recovery_attempts, request_phase_started, ready_seen, call, recovering>>

\* dh.shutdown has been answered (wait for the exit) or has failed (clean up).
shutdown_answered ==
  /\ pc = "returned" /\ call = "dh.shutdown"
  /\ \/ /\ ret.kind = "Ok"
        /\ pc' = "exiting"
        /\ clock' = [clock EXCEPT !.waited = 0]
        /\ UNCHANGED <<workerVars, process, messages, report, ret, hist>>
     \/ /\ ret.kind # "Ok"
        /\ \E dead \in BOOLEAN :
             /\ force_cleanup(dead)
             /\ report' = force_cleanup_report("ShutdownTimeout", dead)
        /\ ret' = Ok(report', NoResult)
        /\ pc' = "idle"
        /\ UNCHANGED clock
  /\ UNCHANGED <<next_request_id, recovery_attempts, request_phase_started, ready_seen,
                 call, recovering>>

\* wait_for_child_exit.
wait_for_child_exit ==
  /\ pc = "exiting"
  /\ \/ /\ ~worker.alive
        /\ Discard
        /\ report' = report_for("Stopped", "Unknown", "None", "None", report.recovery_outcome,
                                "Graceful", "None", "CleanSuccess", NoCode)
        /\ UNCHANGED hist
     \/ /\ worker.alive
        /\ clock.waited >= ShutdownTimeout
        /\ \E dead \in BOOLEAN :
             /\ force_cleanup(dead)
             /\ report' = force_cleanup_report("ShutdownTimeout", dead)
  /\ ret' = Ok(report', NoResult)
  /\ pc' = "idle"
  /\ UNCHANGED <<next_request_id, recovery_attempts, request_phase_started, ready_seen,
                 clock, call, recovering>>

\* maybe_recover_after_worker_failure: a relaunch, or the report that says why not.
maybe_recover_after_worker_failure(replay_safety, final_response_seen) ==
  /\ pc = "idle"
  /\ UNCHANGED <<next_request_id, hist>>
  /\ LET forbidden == replay_safety # "ReplaySafeReadOnly" \/ final_response_seen
         spent == recovery_attempts >= MaxReplaySafeRestarts
     IN \/ /\ forbidden \/ spent
           /\ report' = report_for("Stopped", "Unhealthy", "Request", "None",
                                   IF forbidden THEN "ForbiddenReplayUnsafe" ELSE "AttemptedFailed",
                                   report.cleanup_outcome, "None", "RequestFailed", NoCode)
           /\ ret' = Ok(report', NoResult)
           /\ UNCHANGED <<workerVars, process, messages, recovery_attempts, pc, call,
                          request_phase_started, ready_seen, clock, recovering>>
        \/ /\ ~forbidden /\ ~spent
           /\ recovery_attempts' = recovery_attempts + 1
           /\ StartLaunch(TRUE)

\* The steps of the thread inside a call, of the reader and of the clock.
SupervisorStep ==
  \/ send_request
  \/ check_heartbeat
  \/ receive_message
  \/ receive_broken
  \/ receive_until_ping
  \/ receive_timeout
  \/ grace_receive
  \/ grace_expires
  \/ initialize_answered
  \/ wait_for_ready
  \/ wait_for_ready_fails
  \/ launch_returns
  \/ request_returns
  \/ shutdown_answered
  \/ wait_for_child_exit

\* The worker, the reader thread and the clock.
EnvironmentStep ==
  \/ WorkerNext /\ UNCHANGED hostVars
  \/ spawn_stdout_reader
  \/ tick
=============================================================================

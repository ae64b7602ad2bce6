--------------------------- MODULE HostedCommand ---------------------------
(***************************************************************************)
(* One command the Rust host runs in a worker (host_commands.rs):          *)
(* knowledge commands, workflow lanes and the direct run.  Each launches a *)
(* worker, sends one request, recovers once if that is allowed, shuts the  *)
(* worker down and merges everything into the report the user sees.  A     *)
(* fourth kind of caller, "client", calls the supervisor in any order.     *)
(***************************************************************************)
EXTENDS SupervisorClient

CONSTANT Commands     \* the kinds of caller considered

ASSUME CommandsAssumption == Commands \subseteq {"knowledge", "lane", "run", "client"}

VARIABLES
  command, replay_safety,   \* the request
  step,                     \* how far the command has come
  outcome,                  \* what the request returned, kept over the shutdown
  final                     \* the report: final_status and rust_lifecycle

commandVars == <<command, replay_safety, step, outcome, final>>
vars == <<supervisorVars, commandVars>>

method ==
  CASE command = "knowledge" -> "session.runCommand"
    [] command = "lane" -> "session.runLane"
    [] command = "run" -> "session.runDirect"

-----------------------------------------------------------------------------
(* The pure functions that build the report. *)

\* Mutant: the outcome of the command hides a failed cleanup.
merge_shutdown_IgnoresCleanup(lifecycle, stopped) ==
  report_for(stopped.worker_state, lifecycle.health_state, lifecycle.failure_phase,
             lifecycle.timeout_class, lifecycle.recovery_outcome, stopped.cleanup_outcome,
             lifecycle.launchability_issue, lifecycle.final_status, lifecycle.final_exit_code)

\* Mutant: a failed cleanup hides that the request failed.
merge_shutdown_CleanupWins(lifecycle, stopped) ==
  report_for(stopped.worker_state, stopped.health_state, stopped.failure_phase,
             stopped.timeout_class, lifecycle.recovery_outcome, stopped.cleanup_outcome,
             lifecycle.launchability_issue,
             IF stopped.final_status = "CleanupIncomplete"
               THEN "CleanupIncomplete" ELSE lifecycle.final_status,
             lifecycle.final_exit_code)

merge_shutdown(lifecycle, stopped) ==
  IF stopped.final_status = "CleanupIncomplete"
    THEN report_for(stopped.worker_state, stopped.health_state,
                    IF lifecycle.failure_phase = "Request" THEN "Request" ELSE stopped.failure_phase,
                    stopped.timeout_class, lifecycle.recovery_outcome, stopped.cleanup_outcome,
                    IF lifecycle.launchability_issue # "None"
                      THEN lifecycle.launchability_issue ELSE stopped.launchability_issue,
                    IF lifecycle.final_status = "RequestFailed"
                      THEN "RequestFailed" ELSE "CleanupIncomplete",
                    lifecycle.final_exit_code)
    ELSE report_for(stopped.worker_state, lifecycle.health_state, lifecycle.failure_phase,
                    lifecycle.timeout_class, lifecycle.recovery_outcome, stopped.cleanup_outcome,
                    lifecycle.launchability_issue, lifecycle.final_status,
                    lifecycle.final_exit_code)

\* The exit code each report_from_*_worker_success reads from the result.
command_exit_code(result) ==
  IF command = "lane"
    THEN IF "exitCode" \in DOMAIN result THEN result.exitCode ELSE NoCode
    ELSE result.report.exitCode

final_status_from_run_worker_report(worker_report, code, recovery) ==
  CASE code = 130 \/ worker_report.finalStatus = "cancelled" -> "Cancelled"
    [] code \notin {NoCode, 0} -> "RequestFailed"
    [] recovery = "AttemptedSucceededDegraded" -> "RecoveredDegradedSuccess"
    [] worker_report.finalStatus = "degraded_success" -> "DegradedSuccess"
    [] worker_report.finalStatus = "recovered_degraded_success" -> "RecoveredDegradedSuccess"
    [] worker_report.finalStatus = "request_failed" -> "RequestFailed"
    [] worker_report.finalStatus = "cleanup_incomplete" -> "CleanupIncomplete"
    [] OTHER -> "CleanSuccess"

\* The final status of a run that returned a result.
StatusOfResult(result, code, recovery) ==
  IF command = "run"
    THEN final_status_from_run_worker_report(result.report, code, recovery)
    ELSE CASE code \notin {NoCode, 0} -> "RequestFailed"
           [] recovery = "AttemptedSucceededDegraded" -> "RecoveredDegradedSuccess"
           [] OTHER -> "CleanSuccess"

\* report_from_worker_success and its lane and run variants, before the merge.
lifecycle_of_success(result, rep) ==
  LET code == command_exit_code(result)
      status == StatusOfResult(result, code, rep.recovery_outcome)
  IN report_for("Ready", health_state_for_final_status(status),
                IF status = "RequestFailed" THEN "Request" ELSE "None", "None",
                rep.recovery_outcome, rep.cleanup_outcome, rep.launchability_issue,
                status, code)

failed_recovery_lifecycle(rep) ==
  report_for(rep.worker_state, "Unhealthy", "Request", rep.timeout_class, "AttemptedFailed",
             rep.cleanup_outcome, rep.launchability_issue, "RequestFailed", NoCode)

lifecycle_for_unreplayed_worker_failure(rep, phase) ==
  IF phase = "Startup" THEN rep
  ELSE report_for(rep.worker_state, rep.health_state, "Request", rep.timeout_class,
                  rep.recovery_outcome, rep.cleanup_outcome, rep.launchability_issue,
                  "RequestFailed", NoCode)

\* Mutant: an error response does not count as a final response.
final_response_seen_for_supervisor_error_Never(error) == FALSE

final_response_seen_for_supervisor_error(error) == error.kind = "RequestFailed"

-----------------------------------------------------------------------------
Init ==
  /\ SupervisorInit
  /\ command \in Commands
  /\ replay_safety \in (IF command = "knowledge" THEN ReplaySafety ELSE {"Uncertain"})
  /\ step = IF command = "client" THEN "any" ELSE "launching"
  /\ outcome = Nothing
  /\ final = Nothing

\* The command sends its request, or sends it again after a recovery.
Requests(next) ==
  /\ send_worker_request(method)
  /\ step' = next
  /\ UNCHANGED <<command, replay_safety, outcome, final>>

\* The command shuts the worker down and keeps what it knows so far.
Stops(known) ==
  /\ shutdown
  /\ step' = "stopping"
  /\ outcome' = known
  /\ UNCHANGED <<command, replay_safety, final>>

\* The command returns its report; dropping the supervisor kills the worker.
Finishes(status, lifecycle) ==
  /\ Discard
  /\ final' = [final_status |-> status, rust_lifecycle |-> lifecycle]
  /\ step' = "done"
  /\ UNCHANGED <<report, next_request_id, recovery_attempts, request_phase_started, ready_seen,
                 clock, pc, call, recovering, ret, hist, command, replay_safety, outcome>>

starts ==
  /\ step = "launching" /\ ret = Nothing
  /\ launch
  /\ UNCHANGED commandVars

launched ==
  /\ step = "launching" /\ pc = "idle" /\ ret # Nothing
  /\ \/ ret.kind = "Ok" /\ Requests("running")
     \/ ret.kind # "Ok" /\ Finishes(ret.report.final_status, ret.report)

\* The first request has returned.  Only a knowledge command may recover.
answered ==
  /\ step = "running" /\ pc = "idle"
  /\ \/ /\ ret.kind = "Ok"
        /\ Stops([kind |-> "Ok", lifecycle |-> lifecycle_of_success(ret.result, ret.report)])
     \/ /\ ret.kind # "Ok"
        /\ command # "knowledge" \/ final_response_seen_for_supervisor_error(ret)
        /\ Stops([kind |-> "Err", lifecycle |-> ret.report])
     \/ /\ ret.kind # "Ok"
        /\ command = "knowledge" /\ ~final_response_seen_for_supervisor_error(ret)
        /\ maybe_recover_after_worker_failure(replay_safety, FALSE)
        /\ step' = "recovering"
        /\ outcome' = [kind |-> "Err", lifecycle |-> ret.report]
        /\ UNCHANGED <<command, replay_safety, final>>

recovered ==
  /\ step = "recovering" /\ pc = "idle"
  /\ IF report.recovery_outcome = "AttemptedSucceededDegraded"
       THEN Requests("replaying")
       ELSE Stops([kind |-> "Err",
                   lifecycle |-> lifecycle_for_unreplayed_worker_failure(
                                   report, outcome.lifecycle.failure_phase)])

replayed ==
  /\ step = "replaying" /\ pc = "idle"
  /\ IF ret.kind = "Ok"
       THEN Stops([kind |-> "Ok", lifecycle |-> lifecycle_of_success(ret.result, ret.report)])
       ELSE Stops([kind |-> "Err", lifecycle |-> failed_recovery_lifecycle(ret.report)])

\* The shutdown has returned.  The error report of a knowledge command keeps
\* the final status it was built with.
stopped ==
  /\ step = "stopping" /\ pc = "idle"
  /\ LET lifecycle == merge_shutdown(outcome.lifecycle, ret.report)
     IN Finishes(IF command = "knowledge" /\ outcome.kind = "Err"
                   THEN outcome.lifecycle.final_status ELSE lifecycle.final_status,
                 lifecycle)

\* run_hosted_knowledge_command_with_config, run_hosted_lane_command and
\* run_hosted_direct_command, between the calls of the supervisor.
CommandStep == starts \/ launched \/ answered \/ recovered \/ replayed \/ stopped

HostStep == CommandStep \/ (SupervisorStep /\ UNCHANGED commandVars)

client_calls == step = "any" /\ ClientCall /\ UNCHANGED commandVars

\* Bounds: the workers of the client send no queries, and the worker of a replay
\* sends one (the ids of the host have gone beyond the worker's own by then).
environment ==
  /\ EnvironmentStep
  /\ step = "any" => worker'.pending = {}
  /\ step = "replaying" => worker'.nextRequestId <= 2
  /\ UNCHANGED commandVars

Next == HostStep \/ client_calls \/ environment

Spec == Init /\ [][Next]_vars

\* The host's thread is scheduled, and time passes.  The worker is free to
\* stop, and its reader thread to lag.
FairSpec ==
  /\ Spec
  /\ WF_vars(HostStep)
  /\ WF_vars(tick /\ UNCHANGED commandVars)

-----------------------------------------------------------------------------
(* Properties *)

Done == step = "done"
Code == final.rust_lifecycle.final_exit_code
Cleanup == final.rust_lifecycle.cleanup_outcome

\* Every report the supervisor holds or returns is well formed, with an exit
\* code a process can have, and relaunches stay within their budget.
TypeOK ==
  /\ worker \in [alive : BOOLEAN, version : ProtocolVersions, initialized : BOOLEAN,
                 readySent : BOOLEAN, cancelled : BOOLEAN, shutdownRequested : BOOLEAN,
                 running : SUBSET [type : {"request"}, id : Nat, method : RunMethods,
                                   result : {NoResult}],
                 pending : SUBSET (1..MaxQueries), nextRequestId : 1..(MaxQueries + 1)]
  /\ process \in BOOLEAN
  /\ report \in HostLifecycleReport
  /\ next_request_id \in Nat \ {0}
  /\ recovery_attempts \in 0..MaxReplaySafeRestarts
  /\ request_phase_started \in BOOLEAN /\ ready_seen \in BOOLEAN /\ recovering \in BOOLEAN
  /\ clock \in [silence : 0..(HealthTimeout + 1), ping : -1..(HealthTimeout + 1),
                missed : 0..2, waited : Nat]
  /\ pc \in {"idle", "send", "loop", "recv", "grace", "ready", "exiting", "returned"}
  /\ call \in Methods
  /\ ret = Nothing \/ (ret.kind \in ErrorKinds \cup {"Ok"} /\ ret.report \in HostLifecycleReport)
  /\ step \in {"launching", "running", "recovering", "replaying", "stopping", "done",
             "any"}
  /\ outcome = Nothing \/ outcome.lifecycle \in HostLifecycleReport
  /\ Done => /\ final.final_status \in FinalStatus
             /\ final.rust_lifecycle \in HostLifecycleReport

\* A run request goes out a second time only for a command that is replay-safe,
\* and only if the worker's answer to the first has not been received: what
\* maybe_recover_after_worker_failure and its caller decide between them.
ReplayOnlyWhenSafe ==
  [][(step # "any" /\ hist'.runs > hist.runs /\ hist.runs > 0)
       => /\ hist.runs = 1
          /\ replay_safety = "ReplaySafeReadOnly"
          /\ ~hist.answered]_vars

\* A command whose request was sent twice never reports a clean success, and
\* names the recovery: the outcome of maybe_recover_after_worker_failure is
\* carried through the replay, the shutdown and merge_shutdown.
RecoveredNeverClean ==
  Done /\ hist.runs = 2 =>
    /\ final.final_status # "CleanSuccess"
    /\ final.rust_lifecycle.recovery_outcome \in {"AttemptedSucceededDegraded", "AttemptedFailed"}

\* The exit code is 0 exactly if the worker's answer was received, says 0, and
\* the worker then went away gracefully; whatever the shutdown runs into,
\* merge_shutdown does not let a failed cleanup pass for success.
ExitCodeHonest ==
  Done /\ command # "lane" =>
    (Code = 0 <=> hist.answered /\ hist.code = 0 /\ Cleanup = "Graceful")

\* Startup failure and request failure stay apart: a command that reports
\* StartupFailed has sent no run, and one that reports RequestFailed has seen
\* its worker ready, whatever failed afterwards.
PhasesDistinct ==
  Done => /\ final.final_status = "StartupFailed" => hist.runs = 0
          /\ final.final_status = "RequestFailed" => hist.ready

\* The status of the report and the status of the lifecycle inside it agree,
\* though a knowledge command merges the shutdown after it has built the report.
FinalStatusesAgree == Done => final.final_status = final.rust_lifecycle.final_status

\* Graceful is reported only of a worker that took the dh.shutdown request
\* itself, not of one that died before it did.
GracefulMeansAcknowledged ==
  [][report'.cleanup_outcome = "Graceful" /\ report.cleanup_outcome # "Graceful"
       => worker.shutdownRequested]_vars

\* While the loop of send_request_wait goes on for a run, a query the worker waits
\* on is on its way to the host, or its answer on the way back.  This is so again
\* after a grace window that a query with the id of the run has ended.  Inside the
\* window it is not: the run has been cancelled, and its queries are dropped.
NoQueryLost ==
  (worker.alive /\ call \in RunMethods /\ pc \in {"loop", "recv"}) =>
    \A i \in worker.pending :
      \/ Request(i, "query") \in {stdout[k] : k \in DOMAIN stdout}
                                   \cup {messages[k] : k \in DOMAIN messages}
      \/ Result(i, Accepted) \in {stdin[k] : k \in DOMAIN stdin}

\* The host takes nothing but the worker's answer for the end of a run, although
\* the ids of the worker's queries and of the host's requests overlap: when
\* send_request_wait returns a result, an error response or a protocol error
\* while the worker is alive, the worker is no longer working on that run.
QueryIsNoAnswer ==
  (/\ pc = "returned" /\ call \in RunMethods /\ worker.alive
   /\ ret.kind \in {"Ok", "RequestFailed", "WorkerProtocolError"}) =>
    \A q \in worker.running : q.id # id

\* Every command ends with a report, and every call of the supervisor returns,
\* whatever the worker does or fails to do: each wait has a deadline.
AlwaysAnswers ==
  (pc # "idle" \/ step \notin {"any", "done"}) ~> (pc = "idle" /\ step \in {"any", "done"})

-----------------------------------------------------------------------------
(* What the documents and tests say of the host and the code does not do.   *)

\* A worker the host had to kill shows in the report of the command, also when
\* it was killed by the timeout of the request and not by the shutdown.
ForcedCleanupVisible ==
  Done /\ hist.killed => Cleanup \in {"Forced", "Incomplete"}

\* A worker that has taken the host's heartbeat is not failed for a missing
\* heartbeat: the worker answers runtime.ping.
HeartbeatFailureMeansUnresponsive ==
  ret # Nothing /\ ret.kind = "HeartbeatFailed" =>
    \/ ~worker.alive
    \/ Notification("runtime.ping") \in {stdin[k] : k \in DOMAIN stdin}

\* The exit code of a lane command is 0 only if the worker's answer says so.
LaneExitCodeHonest == Done /\ command = "lane" /\ Code = 0 => hist.code = 0
=============================================================================

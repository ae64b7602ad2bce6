--------------------------- MODULE HostLifecycle ---------------------------
(***************************************************************************)
(* The vocabulary of the Rust host's lifecycle report (host_lifecycle.rs)  *)
(* and the functions that build a report.  The platform, topology and      *)
(* support boundary of a report never change and are left out.             *)
(***************************************************************************)
EXTENDS Integers

WorkerState == {"NotRunning", "SpawnedNotReady", "Ready", "Busy", "Degraded",
                "ShuttingDown", "Stopped"}
HealthState == {"Unknown", "Healthy", "Degraded", "Blocked", "Unhealthy"}
FailurePhase == {"None", "Startup", "Request", "Health", "Shutdown"}
TimeoutClass == {"None", "StartupTimeout", "ReadyTimeout", "RequestTimeout",
                 "HealthTimeout", "ShutdownTimeout"}
RecoveryOutcome == {"NotAttempted", "AttemptedSucceededDegraded",
                    "AttemptedFailed", "ForbiddenReplayUnsafe"}
CleanupOutcome == {"Graceful", "Forced", "Incomplete", "NotStarted"}
FinalStatus == {"CleanSuccess", "RecoveredDegradedSuccess", "DegradedSuccess",
                "StartupFailed", "RequestFailed", "Cancelled",
                "CleanupIncomplete"}
LaunchabilityIssue == {"UnsupportedPlatform", "RuntimeMissing",
                       "RuntimeNotExecutable", "RuntimePrerequisiteMismatch",
                       "BundleMissing", "BundleManifestMismatch",
                       "BundleCorrupt", "ProtocolMismatch"}

Successes == {"CleanSuccess", "RecoveredDegradedSuccess", "DegradedSuccess"}

\* An Option<i32> that is None.
NoCode == -1

HostLifecycleReport ==
  [worker_state : WorkerState, health_state : HealthState,
   failure_phase : FailurePhase, timeout_class : TimeoutClass,
   recovery_outcome : RecoveryOutcome, cleanup_outcome : CleanupOutcome,
   launchability_issue : LaunchabilityIssue \cup {"None"},
   final_status : FinalStatus, final_exit_code : Nat]

\* Mutant: a clean success without a code has no exit code.
derive_final_exit_code_NoDefault(status, code) ==
  CASE status = "CleanSuccess" -> code
    [] status \in {"RecoveredDegradedSuccess", "DegradedSuccess"} -> 0
    [] status = "Cancelled" -> 130
    [] OTHER -> IF code \in {NoCode, 0} THEN 1 ELSE code

derive_final_exit_code(status, code) ==
  CASE status = "CleanSuccess" -> IF code = NoCode THEN 0 ELSE code
    [] status \in {"RecoveredDegradedSuccess", "DegradedSuccess"} -> 0
    [] status = "Cancelled" -> 130
    [] OTHER -> IF code \in {NoCode, 0} THEN 1 ELSE code

\* report_for_final_status, and report_for of worker_supervisor.rs.
report_for(worker, health, phase, timeout, recovery, cleanup, issue, status, code) ==
  [worker_state |-> worker, health_state |-> health,
   failure_phase |-> phase, timeout_class |-> timeout,
   recovery_outcome |-> recovery, cleanup_outcome |-> cleanup,
   launchability_issue |-> issue, final_status |-> status,
   final_exit_code |-> derive_final_exit_code(status, code)]

\* The report of a worker that never started: classify_launchability_failure,
\* and startup_failure_report of worker_supervisor.rs.
startup_failure_report(issue) ==
  report_for("NotRunning", "Blocked", "Startup", "None", "NotAttempted",
             "NotStarted", issue, "StartupFailed", NoCode)

\* Mutant: only startup, request and shutdown failures count.
terminal_status_for_phase_NoHealth(phase) ==
  CASE phase = "Startup" -> "StartupFailed"
    [] phase = "Request" -> "RequestFailed"
    [] phase = "Shutdown" -> "CleanupIncomplete"
    [] OTHER -> "CleanSuccess"

terminal_status_for_phase(phase) ==
  CASE phase = "Startup" -> "StartupFailed"
    [] phase \in {"Request", "Health"} -> "RequestFailed"
    [] phase = "Shutdown" -> "CleanupIncomplete"
    [] OTHER -> "CleanSuccess"

health_state_for_final_status(status) ==
  CASE status = "CleanSuccess" -> "Healthy"
    [] status \in {"RecoveredDegradedSuccess", "DegradedSuccess"} -> "Degraded"
    [] OTHER -> "Unhealthy"

\* Mutant: the recovery outcome is reset.
Restate_ForgetsRecovery(r, worker, health, phase, timeout, issue, status) ==
  report_for(worker, health, phase, timeout, "NotAttempted",
             r.cleanup_outcome, issue, status, NoCode)

\* A report rebuilt with the recovery and the cleanup outcome of report r.
Restate(r, worker, health, phase, timeout, issue, status) ==
  report_for(worker, health, phase, timeout, r.recovery_outcome,
             r.cleanup_outcome, issue, status, NoCode)
=============================================================================

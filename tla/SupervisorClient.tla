-------------------------- MODULE SupervisorClient --------------------------
(***************************************************************************)
(* A client that calls the supervisor's operations in any order, up to     *)
(* MaxRequests requests: it launches and recovers at any time, and talks   *)
(* to the worker while there is one.  The three run methods are alike to   *)
(* the supervisor; one of them stands for all.                             *)
(***************************************************************************)
EXTENDS WorkerSupervisor

CONSTANTS
  MaxRequests,    \* bound: requests sent, over all workers
  MaxUnread       \* bound: messages in the worker's stdin when a cancel is sent

ASSUME MaxRequestsAssumption == MaxRequests \in Nat /\ MaxUnread \in Nat

ClientCall ==
  /\ next_request_id <= MaxRequests
  /\ \/ launch
     \/ maybe_recover_after_worker_failure("ReplaySafeReadOnly", FALSE)
     \/ /\ process
        /\ \/ ping
           \/ send_worker_request("session.runCommand")
           \/ Len(stdin) < MaxUnread /\ request_cancel
           \/ shutdown

-----------------------------------------------------------------------------
(* Properties *)

\* A call that fails carries a report that says so, in any order of calls and
\* with whatever report the calls before it left: its final status is no
\* success and its exit code is not 0.
ErrorNeverSuccess ==
  ret # Nothing /\ ret.kind # "Ok" =>
    /\ ret.report.final_status \notin Successes
    /\ ret.report.final_exit_code # 0

\* ready_seen speaks of the worker the supervisor holds, not of one that a
\* relaunch has replaced: on it depends whether a failure counts as a request
\* failure (actual_failure_phase).
ReadyIsOfThisWorker == process /\ ready_seen => worker.readySent
=============================================================================

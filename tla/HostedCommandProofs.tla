------------------------ MODULE HostedCommandProofs ------------------------
(***************************************************************************)
(* Replay safety of the hosted commands, for every set of callers, every   *)
(* set of timeouts and any number of queries and protocol versions: a run  *)
(* request is sent again only when that is allowed.                        *)
(***************************************************************************)
EXTENDS HostedCommand, TLAPS

HistType ==
  /\ hist = [f \in {"runs", "ready", "killed", "leaked", "answered", "code"} |-> hist[f]]
  /\ hist.runs \in Nat /\ hist.answered \in BOOLEAN

\* Before its run has been sent a command has sent nothing.
Launching == step = "launching" => call = "dh.initialize" /\ hist.runs = 0 /\ ~hist.answered

\* The first run has been sent at most once, and an answer to it shows in ret.
Running == step = "running" =>
  /\ call \in RunMethods
  /\ hist.runs <= 1
  /\ pc = "send" => hist.runs = 0
  /\ hist.answered => pc \in {"returned", "idle"} /\ ret.kind \in {"Ok", "RequestFailed"}

\* A relaunch is under way only for a replay-safe command without an answer.
Recovering == step = "recovering" =>
  /\ hist.runs <= 1 /\ ~hist.answered
  /\ \/ replay_safety = "ReplaySafeReadOnly"
     \/ pc = "idle" /\ report.recovery_outcome # "AttemptedSucceededDegraded"
  /\ pc # "idle" => call = "dh.initialize"

\* So is a replay that has not been sent.
Replaying == step = "replaying" =>
  /\ call \in RunMethods
  /\ pc = "send" => /\ hist.runs <= 1 /\ ~hist.answered
                    /\ replay_safety = "ReplaySafeReadOnly"

\* Afterwards nothing but the shutdown is sent.
Ending ==
  /\ step = "stopping" => pc = "idle" \/ call = "dh.shutdown"
  /\ step = "done" => pc = "idle"

ReplayInv ==
  /\ HistType
  /\ step \in {"launching", "running", "recovering", "replaying", "stopping", "done", "any"}
  /\ step # "any" => command \in {"knowledge", "lane", "run"}
  /\ Launching /\ Running /\ Recovering /\ Replaying /\ Ending

\* The run methods are neither the handshake nor ping nor shutdown.
LEMMA RunMethodsDistinct ==
  /\ "dh.initialize" \notin RunMethods
  /\ "dh.shutdown" \notin RunMethods
  /\ "runtime.ping" \notin RunMethods
BY DEF RunMethods

\* The invariant holds initially.
LEMMA ReplayInvInit == Init => ReplayInv
BY CommandsAssumption DEF Init, SupervisorInit, ReplayInv, HistType, Launching, Running, Recovering, Replaying,
       Ending, NoCode

\* The steps of the worker, of the reader thread and of the clock change none of
\* the variables the invariant speaks of.
LEMMA ReplayInvEnvironment == ReplayInv /\ environment => ReplayInv'
<1> SUFFICES ASSUME ReplayInv, environment PROVE ReplayInv'
    OBVIOUS
<1>1. UNCHANGED <<hist, step, call, pc, ret, report, command, replay_safety>>
  BY DEF environment, EnvironmentStep, hostVars, spawn_stdout_reader, tick, commandVars
<1> QED BY <1>1 DEF ReplayInv, HistType, Launching, Running, Recovering, Replaying, Ending

\* The client is no command: the invariant asks nothing of it but its history.
LEMMA ReplayInvClient == ReplayInv /\ client_calls => ReplayInv'
<1> SUFFICES ASSUME ReplayInv, client_calls PROVE ReplayInv'
    OBVIOUS
<1>1. UNCHANGED hist
  BY DEF client_calls, ClientCall, launch, maybe_recover_after_worker_failure, ping,
         send_worker_request, StartCall, request_cancel, shutdown
<1>2. step = "any" /\ step' = "any"
  BY DEF client_calls, commandVars
<1> QED BY <1>1, <1>2 DEF ReplayInv, HistType, Launching, Running, Recovering, Replaying, Ending

\* A step of the supervisor inside a call keeps the invariant: only send_request
\* counts a run, and only Dispatch takes an answer.
LEMMA ReplayInvSupervisor == ReplayInv /\ SupervisorStep /\ UNCHANGED commandVars => ReplayInv'
<1> SUFFICES ASSUME ReplayInv, SupervisorStep, UNCHANGED commandVars PROVE ReplayInv'
    OBVIOUS
<1> USE DEF ReplayInv, commandVars
<1>0. UNCHANGED <<command, replay_safety, step>>
  OBVIOUS
<1>s. CASE send_request
  <2>1. UNCHANGED <<call, report>> /\ pc = "send"
    BY <1>s DEF send_request
  <2>2. pc' \in {"loop", "returned"}
    BY <1>s DEF send_request, Return
  <2>3. HistType' /\ hist'.answered = hist.answered
    BY <1>s DEF send_request, HistType
  <2>4. hist'.runs = IF call \in RunMethods /\ pc' = "loop" THEN hist.runs + 1 ELSE hist.runs
    BY <1>s DEF send_request, HistType, Return
  <2> QED BY <1>0, <2>1, <2>2, <2>3, <2>4, RunMethodsDistinct
          DEF HistType, Launching, Running, Recovering, Replaying, Ending
<1>d. ASSUME NEW m, Dispatch(m), UNCHANGED <<call, recovering>>, pc \in {"recv", "grace"}
      PROVE  ReplayInv'
  <2>1. pc' \in {"loop", "returned"}
    BY <1>d DEF Dispatch, DispatchQuery, Return, Fail
  <2>2. HistType' /\ hist'.runs = hist.runs
    BY <1>d DEF Dispatch, DispatchQuery, Answered, HistType
  <2>3. call \notin RunMethods => hist' = hist
    BY <1>d DEF Dispatch, DispatchQuery, Answered
  <2>4. hist'.answered # hist.answered => pc' = "returned" /\ ret'.kind \in {"Ok", "RequestFailed"}
    BY <1>d DEF Dispatch, DispatchQuery, Answered, Return, Fail, Ok, Err
  <2> QED BY <1>0, <1>d, <2>1, <2>2, <2>3, <2>4, RunMethodsDistinct
          DEF HistType, Launching, Running, Recovering, Replaying, Ending
<1>h. CASE check_heartbeat
  <2>1. UNCHANGED <<hist, call>> /\ pc = "loop" /\ pc' \in {"recv", "returned"}
    BY <1>h DEF check_heartbeat, Fail, Return
  <2> QED BY <1>0, <2>1, RunMethodsDistinct
          DEF HistType, Launching, Running, Recovering, Replaying, Ending
<1>m. CASE receive_message
  BY <1>d, <1>m DEF receive_message
<1>b. CASE receive_broken \/ receive_until_ping \/ receive_timeout
  <2>1. UNCHANGED <<hist, call>> /\ pc = "recv" /\ pc' \in {"loop", "grace", "returned"}
    BY <1>b DEF receive_broken, receive_until_ping, receive_timeout, Fail, Return
  <2> QED BY <1>0, <2>1, RunMethodsDistinct
          DEF HistType, Launching, Running, Recovering, Replaying, Ending
<1>g. CASE grace_receive
  <2>1. CASE Head(messages).id = id
    BY <1>d, <1>g, <2>1 DEF grace_receive
  <2>2. CASE Head(messages).id # id
    <3>1. UNCHANGED <<hist, call, pc, ret, report>>
      BY <1>g, <2>2 DEF grace_receive
    <3> QED BY <1>0, <3>1 DEF HistType, Launching, Running, Recovering, Replaying, Ending
  <2> QED BY <2>1, <2>2
<1>e. CASE grace_expires
  <2>1. /\ UNCHANGED call /\ pc = "grace" /\ pc' = "returned"
        /\ HistType' /\ hist'.runs = hist.runs /\ hist'.answered = hist.answered
    BY <1>e DEF grace_expires, Fail, Return, force_cleanup, HistType
  <2> QED BY <1>0, <2>1, RunMethodsDistinct
          DEF HistType, Launching, Running, Recovering, Replaying, Ending
<1>i. CASE initialize_answered \/ wait_for_ready \/ wait_for_ready_fails
  <2>1. /\ UNCHANGED call /\ pc \in {"returned", "ready"} /\ pc' \in {"returned", "ready"}
        /\ pc = "returned" => call = "dh.initialize"
    BY <1>i DEF initialize_answered, wait_for_ready, wait_for_ready_fails, Fail, Return
  <2>2. HistType' /\ hist'.runs = hist.runs /\ hist'.answered = hist.answered
    BY <1>i DEF initialize_answered, wait_for_ready, wait_for_ready_fails, HistType
  <2> QED BY <1>0, <2>1, <2>2, RunMethodsDistinct
          DEF HistType, Launching, Running, Recovering, Replaying, Ending
<1>l. CASE launch_returns
  <2>1. /\ UNCHANGED <<call, hist, ret>> /\ pc = "returned" /\ pc' = "idle"
        /\ call = "dh.initialize"
    BY <1>l DEF launch_returns
  <2> QED BY <1>0, <2>1, RunMethodsDistinct
          DEF HistType, Launching, Running, Recovering, Replaying, Ending
<1>r. CASE request_returns
  <2>1. /\ UNCHANGED <<call, hist>> /\ pc = "returned" /\ pc' = "idle"
        /\ call \in RunMethods \cup {"runtime.ping"}
    BY <1>r DEF request_returns
  <2>2. ret'.kind = ret.kind
    BY <1>r DEF request_returns, Ok
  <2> QED BY <1>0, <2>1, <2>2, RunMethodsDistinct
          DEF HistType, Launching, Running, Recovering, Replaying, Ending
<1>x. CASE shutdown_answered \/ wait_for_child_exit
  <2>1. /\ UNCHANGED call /\ pc \in {"returned", "exiting"} /\ pc' \in {"idle", "exiting"}
        /\ pc = "returned" => call = "dh.shutdown"
    BY <1>x DEF shutdown_answered, wait_for_child_exit
  <2>2. HistType' /\ hist'.runs = hist.runs /\ hist'.answered = hist.answered
    BY <1>x DEF shutdown_answered, wait_for_child_exit, HistType, force_cleanup
  <2> QED BY <1>0, <2>1, <2>2, RunMethodsDistinct
          DEF HistType, Launching, Running, Recovering, Replaying, Ending
<1> QED
  BY <1>s, <1>h, <1>m, <1>b, <1>g, <1>e, <1>i, <1>l, <1>r, <1>x DEF SupervisorStep

\* Shutting down keeps the invariant: no run is sent.
LEMMA ReplayInvStops ==
  ASSUME ReplayInv, step # "any", NEW known, Stops(known)
  PROVE  ReplayInv'
<1>1. UNCHANGED <<hist, command, replay_safety>> /\ step' = "stopping"
  BY DEF Stops, shutdown, StartCall
<1>2. pc' = "idle" \/ call' = "dh.shutdown"
  BY DEF Stops, shutdown, StartCall
<1>3. command \in {"knowledge", "lane", "run"}
  BY DEF ReplayInv
<1> QED BY <1>1, <1>2, <1>3 DEF ReplayInv, HistType, Launching, Running, Recovering, Replaying, Ending

\* The steps of a command between its calls keep the invariant.  The relaunch
\* and the replay are where replay_safety and the answer are looked at.
LEMMA ReplayInvCommand == ReplayInv /\ CommandStep => ReplayInv'
<1> SUFFICES ASSUME ReplayInv, CommandStep PROVE ReplayInv'
    OBVIOUS
<1> USE DEF ReplayInv
<1>0. step # "any" /\ command \in {"knowledge", "lane", "run"}
  BY DEF CommandStep, starts, launched, answered, recovered, replayed, stopped
<1>f. ASSUME NEW status, NEW lifecycle, Finishes(status, lifecycle), pc = "idle"
      PROVE  ReplayInv'
  <2>1. UNCHANGED <<hist, command, pc>> /\ step' = "done"
    BY <1>f DEF Finishes
  <2> QED BY <1>0, <1>f, <2>1
          DEF HistType, Launching, Running, Recovering, Replaying, Ending
<1>q. ASSUME NEW next, Requests(next)
      PROVE  /\ UNCHANGED <<hist, command, replay_safety>> /\ step' = next
             /\ pc' = "send" /\ call' \in RunMethods
  BY <1>0, <1>q DEF Requests, send_worker_request, StartCall, method, RunMethods
<1>1. CASE starts
  <2>1. /\ UNCHANGED <<hist, command, replay_safety, step>> /\ step = "launching"
        /\ call' = "dh.initialize"
    BY <1>1 DEF starts, launch, StartLaunch, commandVars
  <2> QED BY <1>0, <2>1 DEF HistType, Launching, Running, Recovering, Replaying, Ending
<1>2. CASE launched
  <2>1. CASE Requests("running")
    <3>1. step = "launching"
      BY <1>2 DEF launched
    <3> QED BY <1>0, <1>q, <2>1, <3>1
            DEF HistType, Launching, Running, Recovering, Replaying, Ending
  <2>2. CASE Finishes(ret.report.final_status, ret.report)
    BY <1>2, <1>f, <2>2 DEF launched
  <2> QED BY <1>2, <2>1, <2>2 DEF launched
<1>3. CASE answered
  <2>1. ASSUME NEW known, Stops(known) PROVE ReplayInv'
    BY <1>0, <2>1, ReplayInvStops
  <2>2. CASE /\ ret.kind # "Ok" /\ ret.kind # "RequestFailed"
             /\ maybe_recover_after_worker_failure(replay_safety, FALSE)
             /\ step' = "recovering"
             /\ UNCHANGED <<command, replay_safety>>
    <3>1. step = "running" /\ ~hist.answered /\ hist.runs <= 1
      BY <1>3, <2>2 DEF answered, Running, HistType
    <3>2. UNCHANGED hist
      BY <2>2 DEF maybe_recover_after_worker_failure
    <3>3. \/ replay_safety = "ReplaySafeReadOnly" /\ call' = "dh.initialize"
          \/ pc' = "idle" /\ report'.recovery_outcome # "AttemptedSucceededDegraded"
      BY <2>2 DEF maybe_recover_after_worker_failure, StartLaunch, report_for
    <3> QED BY <1>0, <2>2, <3>1, <3>2, <3>3
            DEF HistType, Launching, Running, Recovering, Replaying, Ending
  <2> QED BY <1>3, <2>1, <2>2 DEF answered, final_response_seen_for_supervisor_error
<1>4. CASE recovered
  <2>1. CASE report.recovery_outcome = "AttemptedSucceededDegraded"
    <3>1. step = "recovering" /\ pc = "idle" /\ Requests("replaying")
      BY <1>4, <2>1 DEF recovered
    <3> QED BY <1>0, <1>q, <2>1, <3>1
            DEF HistType, Launching, Running, Recovering, Replaying, Ending
  <2>2. CASE report.recovery_outcome # "AttemptedSucceededDegraded"
    BY <1>0, <1>4, <2>2, ReplayInvStops DEF recovered
  <2> QED BY <2>1, <2>2
<1>5. CASE replayed
  <2>1. ASSUME NEW known, Stops(known) PROVE ReplayInv'
    BY <1>0, <2>1, ReplayInvStops
  <2> QED BY <1>5, <2>1 DEF replayed
<1>6. CASE stopped
  BY <1>6, <1>f DEF stopped
<1> QED BY <1>1, <1>2, <1>3, <1>4, <1>5, <1>6 DEF CommandStep

\* The invariant is inductive.
LEMMA ReplayInvNext == ReplayInv /\ [Next]_vars => ReplayInv'
<1> SUFFICES ASSUME ReplayInv, [Next]_vars PROVE ReplayInv'
    OBVIOUS
<1>1. CASE UNCHANGED vars
  BY <1>1 DEF vars, supervisorVars, hostVars, commandVars, ReplayInv, HistType, Launching,
              Running, Recovering, Replaying, Ending
<1> QED BY <1>1, ReplayInvEnvironment, ReplayInvClient, ReplayInvSupervisor, ReplayInvCommand
        DEF Next, HostStep

\* A run request goes out a second time only for a replay-safe command whose
\* first request was not answered (ReplayOnlyWhenSafe).
THEOREM ReplaySafe == Spec => ReplayOnlyWhenSafe
<1> DEFINE Allowed == (step # "any" /\ hist'.runs > hist.runs /\ hist.runs > 0)
                        => /\ hist.runs = 1
                           /\ replay_safety = "ReplaySafeReadOnly"
                           /\ ~hist.answered
<1>1. ReplayInv /\ [Next]_vars => [Allowed]_vars
  <2> SUFFICES ASSUME ReplayInv, Next, step # "any", hist.runs > 0, hist'.runs > hist.runs
               PROVE  hist.runs = 1 /\ replay_safety = "ReplaySafeReadOnly" /\ ~hist.answered
      OBVIOUS
  <2>0. hist.runs \in Nat
    BY DEF ReplayInv, HistType
  <2>1. send_request
    <3>0. hist'.runs # hist.runs
      BY <2>0
    <3>1. environment => UNCHANGED hist
      BY DEF environment, EnvironmentStep, hostVars, spawn_stdout_reader, tick
    <3>2. CommandStep => UNCHANGED hist
      BY DEF CommandStep, starts, launched, answered, recovered, replayed, stopped, Stops,
             Requests, Finishes, launch, send_worker_request, StartCall, shutdown,
             maybe_recover_after_worker_failure
    <3>3. ~ client_calls
      BY DEF client_calls
    <3>4. SupervisorStep
      BY <3>0, <3>1, <3>2, <3>3 DEF Next, HostStep
    <3>5. ASSUME NEW m, Dispatch(m) PROVE hist'.runs = hist.runs
      BY <3>5 DEF Dispatch, DispatchQuery, Answered, ReplayInv, HistType
    <3>6. receive_message \/ grace_receive => hist'.runs = hist.runs
      BY <3>5 DEF receive_message, grace_receive
    <3>7. check_heartbeat \/ receive_broken \/ receive_until_ping \/ receive_timeout
            \/ launch_returns \/ request_returns => UNCHANGED hist
      BY DEF check_heartbeat, receive_broken, receive_until_ping, receive_timeout,
             launch_returns, request_returns
    <3>8. ASSUME NEW dead, force_cleanup(dead) PROVE hist'.runs = hist.runs
      BY <3>8 DEF force_cleanup, ReplayInv, HistType
    <3>9. grace_expires \/ initialize_answered \/ wait_for_ready \/ wait_for_ready_fails
            => hist'.runs = hist.runs
      BY <3>8 DEF grace_expires, initialize_answered, wait_for_ready, wait_for_ready_fails,
                  ReplayInv, HistType
    <3>10. shutdown_answered \/ wait_for_child_exit => hist'.runs = hist.runs
      BY <3>8 DEF shutdown_answered, wait_for_child_exit
    <3> QED BY <3>0, <3>4, <3>6, <3>7, <3>9, <3>10 DEF SupervisorStep
  <2>2. pc = "send" /\ call \in RunMethods
    BY <2>0, <2>1 DEF send_request, ReplayInv, HistType
  <2>3. step = "replaying"
    BY <2>0, <2>2, RunMethodsDistinct
       DEF ReplayInv, Launching, Running, Recovering, Ending
  <2> QED BY <2>0, <2>2, <2>3 DEF ReplayInv, Replaying
<1> QED BY <1>1, ReplayInvInit, ReplayInvNext, PTL DEF Spec, ReplayOnlyWhenSafe
=============================================================================

--------------------------- MODULE SessionManager ---------------------------
(***************************************************************************)
(* The Rust-owned session and its workflow stages                          *)
(* (dh-engine/src/session_manager.rs over the SQLite repositories of       *)
(* dh-storage/src/lib.rs), for one session id.                             *)
(*                                                                         *)
(* Every repository call is one autocommitted SQL statement, so an         *)
(* operation of the manager is a sequence of steps: it reads the session   *)
(* row once, decides on that copy (of which only current_stage is used     *)
(* later: `view'), and then issues its writes one by one.  Several         *)
(* processes may open the same database file, and a process may die        *)
(* between two statements.  A stage is its position in the lane's stage    *)
(* chain.                                                                  *)
(***************************************************************************)
EXTENDS Integers, Sequences, FiniteSets

CONSTANTS
  Procs,        \* processes that have the database open
  Lanes,        \* workflow lanes
  ChainLength,  \* number of stages of each lane's chain
  Agents,       \* agents an execution envelope can be made for
  Millis,       \* values of the millisecond clock in an envelope's id
  MaxRows       \* bound on the stage rows of the session

ASSUME ChainAssumption == ChainLength \in [Lanes -> Nat \ {0, 1}]
ASSUME MaxRowsAssumption == MaxRows \in Nat

VARIABLES
  session,    \* the row of table sessions (status "absent": no such row)
  stages,     \* the rows of table workflow_stages, in id order
  envelopes,  \* the rows of table execution_envelopes
  pc,         \* per process: the statement it is about to execute
  view,       \* per process: the current_stage its operation has read
  gateRead    \* per process: the gate transition_stage has read

vars == <<session, stages, envelopes, pc, view, gateRead>>

SessionStatus == {"pending", "active", "completed", "failed"}
StageStatus == {"pending", "in_progress", "passed", "failed"}
GateStatus == {"pending", "passed", "failed", "waived"}

ChainLengths == {ChainLength[l] : l \in Lanes}
Stage == UNION {1 .. n : n \in ChainLengths}

final_stage(s) == ChainLength[s.lane]

SessionRow == [lane : Lanes, stage : Stage, status : SessionStatus \cup {"absent"}]
StageRow == [stage : Stage, status : StageStatus, gate : GateStatus]
EnvelopeRow == [agent : Agents, at : Millis, stage : Stage]

Label == {"idle", "create_stage", "activate", "activate_status", "activate_stage",
          "transition_gate", "transition_pass", "transition_insert", "transition_point",
          "gate_passed", "gate_waived", "complete_stage", "complete_status",
          "fail_stage", "fail_status", "envelope", "bailed", "activate_refused"}

TypeOK ==
  /\ session \in SessionRow
  /\ stages \in Seq(StageRow)
  /\ envelopes \subseteq EnvelopeRow
  /\ pc \in [Procs -> Label]
  /\ view \in [Procs -> Stage]
  /\ gateRead \in [Procs -> GateStatus]

Init ==
  /\ \E l \in Lanes : session = [lane |-> l, stage |-> 1, status |-> "absent"]
  /\ stages = <<>>
  /\ envelopes = {}
  /\ pc = [p \in Procs |-> "idle"]
  /\ view = [p \in Procs |-> 1]
  /\ gateRead = [p \in Procs |-> "pending"]

----------------------------------------------------------------------------
(* The SQL statements *)

\* WorkflowStageRepository::update_stage_status: every row of that stage.
update_stage_status(stage, status, gate) ==
  stages' = [i \in DOMAIN stages |->
               IF stages[i].stage = stage
               THEN [stages[i] EXCEPT !.status = status, !.gate = gate]
               ELSE stages[i]]

\* WorkflowStageRepository::insert_stage
insert_stage(stage, status) ==
  /\ Len(stages) < MaxRows
  /\ stages' = Append(stages, [stage |-> stage, status |-> status, gate |-> "pending"])

\* SessionRepository::get_session, kept as the operation's copy of the row
get_session(p) ==
  /\ session.status # "absent"
  /\ view' = [view EXCEPT ![p] = session.stage]

Goto(p, label) == pc' = [pc EXCEPT ![p] = label]
At(p, label) == pc[p] = label

\* The operation returns and its locals are gone.
Return(p) ==
  /\ Goto(p, "idle")
  /\ view' = [view EXCEPT ![p] = 1]
  /\ gateRead' = [gateRead EXCEPT ![p] = "pending"]

----------------------------------------------------------------------------
(* create_session, and the CLI's `session create', which goes on to activate *)

create_session(p) ==
  /\ At(p, "idle")
  /\ session.status = "absent"          \* the PRIMARY KEY refuses a second row
  /\ session' = [session EXCEPT !.status = "pending"]
  /\ Goto(p, "create_stage")
  /\ UNCHANGED <<stages, envelopes, view, gateRead>>

create_session_stage(p) ==
  /\ At(p, "create_stage")
  /\ insert_stage(1, "pending")
  /\ \/ Return(p)
     \/ Goto(p, "activate") /\ UNCHANGED <<view, gateRead>>
  /\ UNCHANGED <<session, envelopes>>

----------------------------------------------------------------------------
(* resume_session as the CLI calls it: find the row, then activate *)

resume_session(p) ==
  /\ At(p, "idle")
  /\ session.status # "absent"
  /\ Goto(p, "activate")
  /\ UNCHANGED <<session, stages, envelopes, view, gateRead>>

activate_session(p) ==
  /\ At(p, "activate")
  /\ get_session(p)
  /\ Goto(p, IF session.status = "pending" THEN "activate_status" ELSE "activate_refused")
  /\ UNCHANGED <<session, stages, envelopes, gateRead>>

activate_session_status(p) ==
  /\ At(p, "activate_status")
  /\ session' = [session EXCEPT !.status = "active"]
  /\ Goto(p, "activate_stage")
  /\ UNCHANGED <<stages, envelopes, view, gateRead>>

activate_session_stage(p) ==
  /\ At(p, "activate_stage")
  /\ update_stage_status(1, "in_progress", "pending")
  /\ Return(p)
  /\ UNCHANGED <<session, envelopes>>

----------------------------------------------------------------------------
(* transition_stage to the successor of the current stage; any other target
   is refused by is_valid_transition before anything is written *)

\* Mutant: is_valid_transition is not consulted.
transition_stage_NoSuccessorCheck(p) ==
  /\ At(p, "idle")
  /\ get_session(p)
  /\ session.status = "active"
  /\ Goto(p, "transition_gate")
  /\ UNCHANGED <<session, stages, envelopes, gateRead>>

transition_stage(p) ==
  /\ At(p, "idle")
  /\ get_session(p)
  /\ session.status = "active"
  /\ session.stage < final_stage(session)
  /\ Goto(p, "transition_gate")
  /\ UNCHANGED <<session, stages, envelopes, gateRead>>

\* Mutant: the gate is read and not checked.
transition_stage_gate_Unchecked(p) ==
  /\ At(p, "transition_gate")
  /\ gateRead' = [gateRead EXCEPT ![p] =
                     IF stages = <<>> THEN "passed" ELSE stages[Len(stages)].gate]
  /\ Goto(p, "transition_pass")
  /\ UNCHANGED <<session, stages, envelopes, view>>

\* get_current_stage: the row with the highest id; no row, no gate to check
transition_stage_gate(p) ==
  /\ At(p, "transition_gate")
  /\ LET gate == IF stages = <<>> THEN "passed" ELSE stages[Len(stages)].gate
     IN  /\ gateRead' = [gateRead EXCEPT ![p] = gate]
         /\ Goto(p, IF gate \in {"passed", "waived"} THEN "transition_pass" ELSE "bailed")
  /\ UNCHANGED <<session, stages, envelopes, view>>

transition_stage_pass(p) ==
  /\ At(p, "transition_pass")
  /\ update_stage_status(view[p], "passed", gateRead[p])
  /\ Goto(p, "transition_insert")
  /\ UNCHANGED <<session, envelopes, view, gateRead>>

\* Mutant: the successor is taken two stages on where there is one.
transition_stage_insert_Skips(p) ==
  /\ At(p, "transition_insert")
  /\ insert_stage(IF view[p] + 2 <= final_stage(session) THEN view[p] + 2 ELSE view[p] + 1,
                  "in_progress")
  /\ Goto(p, "transition_point")
  /\ UNCHANGED <<session, envelopes, view, gateRead>>

transition_stage_insert(p) ==
  /\ At(p, "transition_insert")
  /\ insert_stage(view[p] + 1, "in_progress")
  /\ Goto(p, "transition_point")
  /\ UNCHANGED <<session, envelopes, view, gateRead>>

transition_stage_point(p) ==
  /\ At(p, "transition_point")
  /\ session' = [session EXCEPT !.stage = view[p] + 1]
  /\ Return(p)
  /\ UNCHANGED <<stages, envelopes>>

----------------------------------------------------------------------------
(* pass_gate and waive_gate: no condition on the session's status *)

pass_gate(p) ==
  /\ At(p, "idle")
  /\ get_session(p)
  /\ Goto(p, "gate_passed")
  /\ UNCHANGED <<session, stages, envelopes, gateRead>>

waive_gate(p) ==
  /\ At(p, "idle")
  /\ get_session(p)
  /\ Goto(p, "gate_waived")
  /\ UNCHANGED <<session, stages, envelopes, gateRead>>

open_gate(p) ==
  /\ pc[p] \in {"gate_passed", "gate_waived"}
  /\ update_stage_status(view[p], "in_progress",
                         IF At(p, "gate_passed") THEN "passed" ELSE "waived")
  /\ Return(p)
  /\ UNCHANGED <<session, envelopes>>

----------------------------------------------------------------------------
(* complete_session looks at the stage only, fail_session at nothing *)

\* Mutant: the check of the final stage is off by one.
complete_session_OneEarly(p) ==
  /\ At(p, "idle")
  /\ get_session(p)
  /\ session.stage >= final_stage(session) - 1
  /\ Goto(p, "complete_stage")
  /\ UNCHANGED <<session, stages, envelopes, gateRead>>

complete_session(p) ==
  /\ At(p, "idle")
  /\ get_session(p)
  /\ session.stage = final_stage(session)
  /\ Goto(p, "complete_stage")
  /\ UNCHANGED <<session, stages, envelopes, gateRead>>

complete_session_stage(p) ==
  /\ At(p, "complete_stage")
  /\ update_stage_status(final_stage(session), "passed", "passed")
  /\ Goto(p, "complete_status")
  /\ UNCHANGED <<session, envelopes, view, gateRead>>

complete_session_status(p) ==
  /\ At(p, "complete_status")
  /\ session' = [session EXCEPT !.status = "completed"]
  /\ Return(p)
  /\ UNCHANGED <<stages, envelopes>>

fail_session(p) ==
  /\ At(p, "idle")
  /\ get_session(p)
  /\ Goto(p, "fail_stage")
  /\ UNCHANGED <<session, stages, envelopes, gateRead>>

fail_session_stage(p) ==
  /\ At(p, "fail_stage")
  /\ update_stage_status(view[p], "failed", "failed")
  /\ Goto(p, "fail_status")
  /\ UNCHANGED <<session, envelopes, view, gateRead>>

fail_session_status(p) ==
  /\ At(p, "fail_status")
  /\ session' = [session EXCEPT !.status = "failed"]
  /\ Return(p)
  /\ UNCHANGED <<stages, envelopes>>

----------------------------------------------------------------------------
(* create_envelope: the id is made of the agent and the millisecond, and the
   PRIMARY KEY refuses a second envelope with the same id *)

create_envelope(p) ==
  /\ At(p, "idle")
  /\ get_session(p)
  /\ Goto(p, "envelope")
  /\ UNCHANGED <<session, stages, envelopes, gateRead>>

\* Mutant: the envelope records the stage the session is heading for.
create_envelope_insert_NextStage(p) ==
  /\ At(p, "envelope")
  /\ \E a \in Agents, ms \in Millis :
       /\ ~ \E e \in envelopes : e.agent = a /\ e.at = ms
       /\ envelopes' = envelopes \cup
            {[agent |-> a, at |-> ms, stage |-> IF view[p] < final_stage(session)
                                                THEN view[p] + 1 ELSE view[p]]}
  /\ Return(p)
  /\ UNCHANGED <<session, stages>>

create_envelope_insert(p) ==
  /\ At(p, "envelope")
  /\ \E a \in Agents, ms \in Millis :
       IF \E e \in envelopes : e.agent = a /\ e.at = ms
       THEN Goto(p, "bailed") /\ UNCHANGED <<envelopes, view, gateRead>>
       ELSE /\ Return(p)
            /\ envelopes' = envelopes \cup {[agent |-> a, at |-> ms, stage |-> view[p]]}
  /\ UNCHANGED <<session, stages>>

\* The caller has seen the error.
return_error(p) ==
  /\ pc[p] \in {"bailed", "activate_refused"}
  /\ Return(p)
  /\ UNCHANGED <<session, stages, envelopes>>

\* The process dies between two statements; another one starts later.
crash(p) ==
  /\ ~ At(p, "idle")
  /\ Return(p)
  /\ UNCHANGED <<session, stages, envelopes>>

Next == \E p \in Procs :
  \/ create_session(p) \/ create_session_stage(p)
  \/ resume_session(p)
  \/ activate_session(p) \/ activate_session_status(p) \/ activate_session_stage(p)
  \/ transition_stage(p) \/ transition_stage_gate(p) \/ transition_stage_pass(p)
  \/ transition_stage_insert(p) \/ transition_stage_point(p)
  \/ pass_gate(p) \/ waive_gate(p) \/ open_gate(p)
  \/ complete_session(p) \/ complete_session_stage(p) \/ complete_session_status(p)
  \/ fail_session(p) \/ fail_session_stage(p) \/ fail_session_status(p)
  \/ create_envelope(p) \/ create_envelope_insert(p)
  \/ return_error(p) \/ crash(p)

Spec == Init /\ [][Next]_vars

----------------------------------------------------------------------------
(* What holds whatever the processes' interleaving and crashes *)

EnteredStages == {stages[i].stage : i \in DOMAIN stages}
HasRow(s) == s \in EnteredStages

\* No stage of the chain is skipped: a row for the third or a later stage was
\* inserted after a row for the stage before it, although transition_stage
\* decides on a copy of the session row that may be stale by then.  (The second
\* stage may lack its predecessor: create_session can die between its inserts.)
NoStageSkipped ==
  \A i \in DOMAIN stages : stages[i].stage > 2 =>
    \E j \in 1 .. i - 1 : stages[j].stage = stages[i].stage - 1

\* A session is completed only when its final stage has been entered, although
\* complete_session writes the status long after it has looked at the stage.
CompletedAfterFinalStage == session.status = "completed" => HasRow(final_stage(session))

\* The stage an execution envelope records is a stage the session has entered.
EnvelopesOfEnteredStages == \A e \in envelopes : e.stage > 1 => HasRow(e.stage)

----------------------------------------------------------------------------
(* What holds when one process at a time uses the database, crashes included *)

\* The history names every stage at most once, in chain order, and the stage
\* pointer is its last row or, after a crash between the insert and the pointer
\* update, the one before.
HistoryInChainOrder ==
  /\ \A i, j \in DOMAIN stages : i < j => stages[i].stage < stages[j].stage
  /\ \A i \in DOMAIN stages : stages[i].stage <= session.stage + 1

\* Every stage behind the pointer has a row, and was left through its gate.  The
\* first stage is the exception: when create_session died before its second
\* insert there is no row, and transition_stage finds no gate to look at.
LeftThroughGate ==
  \A s \in 1 .. session.stage - 1 :
    /\ s > 1 => HasRow(s)
    /\ \A i \in DOMAIN stages : stages[i].stage = s =>
         stages[i].status = "passed" /\ stages[i].gate \in {"passed", "waived"}

----------------------------------------------------------------------------
(* What comments of the code say and the code does not do *)

\* session_manager.rs:262, waive_gate is there to "bypass gate check": an active
\* session whose current stage has a waived gate can transition.
WaivedGateLetsThrough ==
  (/\ \A p \in Procs : At(p, "idle")
   /\ session.status = "active"
   /\ session.stage < final_stage(session)
   /\ \E i \in DOMAIN stages : stages[i].stage = session.stage /\ stages[i].gate = "waived")
  => stages[Len(stages)].gate \in {"passed", "waived"}

\* session_manager.rs:171, transition_stage validates "4. Current stage's gate has
\* passed": a stage the session has left has a row whose gate was passed or waived.
LeftStagesWereGated ==
  \A s \in 1 .. session.stage - 1 :
    \E i \in DOMAIN stages :
      stages[i].stage = s /\ stages[i].gate \in {"passed", "waived"}
=============================================================================

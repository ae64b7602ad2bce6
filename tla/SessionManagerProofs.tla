------------------------ MODULE SessionManagerProofs ------------------------
(***************************************************************************)
(* For every number of processes, every set of lanes and every length of   *)
(* the stage chains: the stage history skips no stage, and a session is    *)
(* completed only after its final stage was entered.                       *)
(***************************************************************************)
EXTENDS SessionManager, TLAPS

Entered(s) == s > 1 => HasRow(s)

\* A process in the middle of an operation has read a stage that was entered,
\* and the stage it is about to make current has its row.
ViewsEntered == \A p \in Procs :
  /\ Entered(view[p])
  /\ pc[p] \in {"transition_gate", "transition_pass", "transition_insert", "transition_point"}
       => view[p] < final_stage(session)
  /\ pc[p] = "transition_point" => HasRow(view[p] + 1)
  /\ pc[p] \in {"complete_stage", "complete_status"} => view[p] = final_stage(session)

PointerEntered == Entered(session.stage) /\ session.stage <= final_stage(session)

IInv ==
  /\ TypeOK
  /\ PointerEntered
  /\ ViewsEntered
  /\ NoStageSkipped
  /\ CompletedAfterFinalStage
  /\ EnvelopesOfEnteredStages

\* Rows are only appended, and no row changes its stage.
Grows == \A i \in DOMAIN stages : i \in DOMAIN stages' /\ stages'[i].stage = stages[i].stage

\* The rows before a step are the rows after it, up to their statuses.
SameRows == stages' \in Seq(StageRow) /\ DOMAIN stages' = DOMAIN stages /\ Grows

----------------------------------------------------------------------------
(* Facts about the constants and the statements *)

\* The stage numbers: the first stage is one, and so is every successor in the
\* chain of the session's lane.
LEMMA StageFacts ==
  ASSUME TypeOK
  PROVE  /\ Stage \subseteq Nat \ {0}
         /\ 1 \in Stage
         /\ final_stage(session) \in Nat \ {0, 1}
         /\ \A n \in 1 .. final_stage(session) : n \in Stage
  <1>1. session.lane \in Lanes
    BY DEF TypeOK, SessionRow
  <1>2. ChainLength[session.lane] \in Nat \ {0, 1}
    BY <1>1, ChainAssumption
  <1>3. \A n \in 1 .. ChainLength[session.lane] : n \in Stage
    BY <1>1 DEF Stage, ChainLengths
  <1>4. Stage \subseteq Nat \ {0}
    BY ChainAssumption DEF Stage, ChainLengths
  <1> QED
    BY <1>2, <1>3, <1>4 DEF final_stage

\* update_stage_status touches statuses and gates only.
LEMMA UpdateKeepsRows ==
  ASSUME TypeOK, NEW s, NEW st \in StageStatus, NEW g \in GateStatus,
         update_stage_status(s, st, g)
  PROVE  SameRows
  <1>1. stages \in Seq(StageRow) /\ DOMAIN stages = 1 .. Len(stages) /\ Len(stages) \in Nat
    BY DEF TypeOK
  <1>2. \A i \in DOMAIN stages : stages[i] \in StageRow
    BY <1>1
  <1>3. \A i \in DOMAIN stages : stages'[i] \in StageRow /\ stages'[i].stage = stages[i].stage
    BY <1>2 DEF update_stage_status, StageRow
  <1>4. DOMAIN stages' = DOMAIN stages
    BY DEF update_stage_status
  <1>5. stages' \in [1 .. Len(stages) -> StageRow]
    BY <1>1, <1>3 DEF update_stage_status
  <1>6. stages' \in Seq(StageRow)
    BY <1>1, <1>5
  <1> QED
    BY <1>3, <1>4, <1>6 DEF SameRows, Grows

\* insert_stage adds one row at the end.
LEMMA InsertAppends ==
  ASSUME TypeOK, NEW s \in Stage, NEW st \in StageStatus, insert_stage(s, st)
  PROVE  /\ stages' \in Seq(StageRow)
         /\ Grows
         /\ DOMAIN stages' = DOMAIN stages \cup {Len(stages) + 1}
         /\ stages'[Len(stages) + 1].stage = s
         /\ DOMAIN stages = 1 .. Len(stages) /\ Len(stages) \in Nat
  <1> DEFINE row == [stage |-> s, status |-> st, gate |-> "pending"]
  <1>1. row \in StageRow
    BY DEF StageRow, GateStatus
  <1>2. stages \in Seq(StageRow) /\ stages' = Append(stages, row)
    BY DEF TypeOK, insert_stage
  <1> HIDE DEF row
  <1>3. /\ stages' \in Seq(StageRow)
        /\ Len(stages) \in Nat
        /\ Len(stages') = Len(stages) + 1
        /\ DOMAIN stages = 1 .. Len(stages)
        /\ DOMAIN stages' = 1 .. Len(stages) + 1
        /\ \A i \in 1 .. Len(stages) : stages'[i] = stages[i]
        /\ stages'[Len(stages) + 1] = row
    BY <1>1, <1>2
  <1> QED
    BY <1>3 DEF Grows, row

----------------------------------------------------------------------------
(* The parts of the invariant that depend on the rows *)

\* What every step leaves true of the rows.
RowsStep ==
  /\ stages' \in Seq(StageRow)
  /\ EnteredStages \subseteq EnteredStages'
  /\ NoStageSkipped'

\* A step that leaves the rows alone, or only their statuses.
LEMMA RowsStepSame ==
  ASSUME IInv, SameRows \/ UNCHANGED stages
  PROVE  RowsStep
  <1>1. CASE UNCHANGED stages
    BY <1>1 DEF RowsStep, IInv, TypeOK, EnteredStages, NoStageSkipped
  <1>2. CASE SameRows
    <2>1. NoStageSkipped'
      <3> SUFFICES ASSUME NEW i \in DOMAIN stages', stages'[i].stage > 2
                   PROVE  \E j \in 1 .. i - 1 : stages'[j].stage = stages'[i].stage - 1
        BY DEF NoStageSkipped
      <3>1. i \in DOMAIN stages /\ stages'[i].stage = stages[i].stage
        BY <1>2 DEF SameRows, Grows
      <3>2. PICK j \in 1 .. i - 1 : stages[j].stage = stages[i].stage - 1
        BY <3>1 DEF IInv, NoStageSkipped
      <3>3. j \in DOMAIN stages
        BY <3>1, <3>2 DEF IInv, TypeOK
      <3> QED
        BY <1>2, <3>1, <3>2, <3>3 DEF SameRows, Grows
    <2>2. EnteredStages \subseteq EnteredStages'
      BY <1>2 DEF SameRows, Grows, EnteredStages
    <2> QED
      BY <1>2, <2>1, <2>2 DEF RowsStep, SameRows
  <1> QED
    BY <1>1, <1>2

\* A step that appends the row of a stage whose predecessor was entered.
LEMMA RowsStepInsert ==
  ASSUME IInv, NEW s \in Stage, NEW st \in StageStatus, insert_stage(s, st),
         s > 2 => HasRow(s - 1)
  PROVE  RowsStep /\ s \in EnteredStages'
  <1>1. TypeOK
    BY DEF IInv
  <1>2. /\ stages' \in Seq(StageRow)
        /\ Grows
        /\ DOMAIN stages' = DOMAIN stages \cup {Len(stages) + 1}
        /\ stages'[Len(stages) + 1].stage = s
        /\ DOMAIN stages = 1 .. Len(stages) /\ Len(stages) \in Nat
    BY <1>1, InsertAppends
  <1>3. s \in EnteredStages' /\ EnteredStages \subseteq EnteredStages'
    BY <1>2 DEF EnteredStages, Grows
  <1>4. NoStageSkipped'
    <2> SUFFICES ASSUME NEW i \in DOMAIN stages', stages'[i].stage > 2
                 PROVE  \E j \in 1 .. i - 1 : stages'[j].stage = stages'[i].stage - 1
      BY DEF NoStageSkipped
    <2>1. CASE i = Len(stages) + 1
      <3>1. PICK j \in DOMAIN stages : stages[j].stage = s - 1
        BY <1>2, <2>1 DEF HasRow, EnteredStages
      <3>2. j \in 1 .. i - 1 /\ stages'[j].stage = s - 1
        BY <1>2, <2>1, <3>1 DEF Grows
      <3> QED
        BY <1>2, <2>1, <3>2
    <2>2. CASE i \in DOMAIN stages
      <3>1. stages'[i].stage = stages[i].stage
        BY <1>2, <2>2 DEF Grows
      <3>2. PICK j \in 1 .. i - 1 : stages[j].stage = stages[i].stage - 1
        BY <2>2, <3>1 DEF IInv, NoStageSkipped
      <3>3. j \in DOMAIN stages
        BY <1>2, <2>2, <3>2
      <3> QED
        BY <1>2, <3>1, <3>2, <3>3 DEF Grows
    <2> QED
      BY <1>2, <2>1, <2>2
  <1> QED
    BY <1>2, <1>3, <1>4 DEF RowsStep

----------------------------------------------------------------------------
(* The inductive invariant *)

\* Everything but the rows.
Rest ==
  /\ session \in SessionRow
  /\ envelopes \subseteq EnvelopeRow
  /\ pc \in [Procs -> Label]
  /\ view \in [Procs -> Stage]
  /\ gateRead \in [Procs -> GateStatus]
  /\ PointerEntered
  /\ ViewsEntered
  /\ CompletedAfterFinalStage
  /\ EnvelopesOfEnteredStages

\* A database without the session satisfies the invariant.
LEMMA InitInvariant == Init => IInv
  <1> SUFFICES ASSUME Init PROVE IInv
    OBVIOUS
  <1>1. PICK l \in Lanes : session = [lane |-> l, stage |-> 1, status |-> "absent"]
    BY DEF Init
  <1>2. ChainLength[l] \in Nat \ {0, 1} /\ 1 \in 1 .. ChainLength[l]
    BY ChainAssumption
  <1>3. 1 \in Stage
    BY <1>2 DEF Stage, ChainLengths
  <1>4. TypeOK
    BY <1>1, <1>3 DEF Init, TypeOK, SessionRow, StageRow, Label, GateStatus
  <1>5. PointerEntered /\ ViewsEntered /\ CompletedAfterFinalStage
    BY <1>1, <1>2 DEF Init, PointerEntered, ViewsEntered, Entered, CompletedAfterFinalStage, final_stage
  <1> QED
    BY <1>4, <1>5 DEF Init, IInv, NoStageSkipped, EnvelopesOfEnteredStages

\* Every statement of every operation preserves it.
LEMMA StepInvariant == IInv /\ [Next]_vars => IInv'
  <1> SUFFICES ASSUME IInv, [Next]_vars PROVE IInv'
    OBVIOUS
  <1> USE DEF At
  <1>t. TypeOK
    BY DEF IInv
  <1>s. /\ Stage \subseteq Nat \ {0}
        /\ 1 \in Stage
        /\ final_stage(session) \in Nat \ {0, 1}
        /\ \A n \in 1 .. final_stage(session) : n \in Stage
    BY <1>t, StageFacts
  <1>v. session.stage \in Nat \ {0} /\ \A p \in Procs : view[p] \in Nat \ {0}
    BY <1>s DEF IInv, TypeOK, SessionRow
  <1>i. RowsStep /\ Rest' => IInv'
    BY DEF RowsStep, Rest, IInv, TypeOK
  <1>u. CASE UNCHANGED vars
    BY <1>u DEF vars, IInv, TypeOK, PointerEntered, ViewsEntered, Entered, HasRow, EnteredStages, final_stage,
       NoStageSkipped, CompletedAfterFinalStage, EnvelopesOfEnteredStages
  <1> USE DEF IInv, TypeOK, Rest, PointerEntered, ViewsEntered, Entered, HasRow, final_stage,
          CompletedAfterFinalStage, EnvelopesOfEnteredStages, SessionRow, SessionStatus,
          Label, GateStatus, RowsStep, Goto, Return, get_session
  <1>1. ASSUME NEW p \in Procs, create_session(p) PROVE IInv'
    <2>1. RowsStep
      BY <1>1, RowsStepSame DEF create_session
    <2>2. Rest'
      BY <1>1, <1>s, <1>v, <2>1 DEF create_session
    <2> QED
      BY <1>i, <2>1, <2>2
  <1>2. ASSUME NEW p \in Procs, resume_session(p) PROVE IInv'
    <2>1. RowsStep
      BY <1>2, RowsStepSame DEF resume_session
    <2>2. Rest'
      BY <1>2, <1>s, <1>v, <2>1 DEF resume_session
    <2> QED
      BY <1>i, <2>1, <2>2
  <1>3. ASSUME NEW p \in Procs, activate_session(p) PROVE IInv'
    <2>1. RowsStep
      BY <1>3, RowsStepSame DEF activate_session
    <2>2. Rest'
      BY <1>3, <1>s, <1>v, <2>1 DEF activate_session
    <2> QED
      BY <1>i, <2>1, <2>2
  <1>4. ASSUME NEW p \in Procs, activate_session_status(p) PROVE IInv'
    <2>1. RowsStep
      BY <1>4, RowsStepSame DEF activate_session_status
    <2>2. Rest'
      BY <1>4, <1>s, <1>v, <2>1 DEF activate_session_status
    <2> QED
      BY <1>i, <2>1, <2>2
  <1>5. ASSUME NEW p \in Procs, transition_stage(p) PROVE IInv'
    <2>1. RowsStep
      BY <1>5, RowsStepSame DEF transition_stage
    <2>2. Rest'
      BY <1>5, <1>s, <1>v, <2>1 DEF transition_stage
    <2> QED
      BY <1>i, <2>1, <2>2
  <1>6. ASSUME NEW p \in Procs, transition_stage_gate(p) PROVE IInv'
    <2>1. RowsStep
      BY <1>6, RowsStepSame DEF transition_stage_gate
    <2>3. (session \in SessionRow /\ envelopes \subseteq EnvelopeRow)'
      BY <1>6, <1>s, <1>v DEF transition_stage_gate
    <2>4. (pc \in [Procs -> Label] /\ view \in [Procs -> Stage] /\ gateRead \in [Procs -> GateStatus])'
      <3>1. (IF stages = <<>> THEN "passed" ELSE stages[Len(stages)].gate) \in GateStatus
        <4>1. CASE stages = <<>>
          BY <4>1
        <4>2. CASE stages # <<>>
          <5>1. stages \in Seq(StageRow)
            OBVIOUS
          <5>2. Len(stages) \in DOMAIN stages
            BY <4>2, <5>1
          <5>3. stages[Len(stages)] \in StageRow
            BY <5>1, <5>2
          <5> QED
            BY <4>2, <5>3 DEF StageRow
        <4> QED
          BY <4>1, <4>2
      <3> QED
        BY <1>6, <1>s, <1>v, <3>1 DEF transition_stage_gate
    <2>5. (PointerEntered /\ CompletedAfterFinalStage)'
      BY <1>6, <1>s, <1>v, <2>1 DEF transition_stage_gate
    <2>6. ViewsEntered'
      BY <1>6, <1>s, <1>v, <2>1 DEF transition_stage_gate
    <2>7. EnvelopesOfEnteredStages'
      BY <1>6, <1>s, <1>v, <2>1 DEF transition_stage_gate
    <2> QED
      BY <1>i, <2>1, <2>3, <2>4, <2>5, <2>6, <2>7
  <1>7. ASSUME NEW p \in Procs, transition_stage_point(p) PROVE IInv'
    <2>1. RowsStep
      BY <1>7, RowsStepSame DEF transition_stage_point
    <2>2. view[p] + 1 \in Stage /\ view[p] + 1 <= final_stage(session) /\ view[p] + 1 \in EnteredStages
      <3>1. view[p] < final_stage(session) /\ view[p] + 1 \in EnteredStages
        BY <1>7 DEF transition_stage_point
      <3>2. view[p] + 1 \in 1 .. final_stage(session)
        BY <1>s, <1>v, <3>1
      <3> QED
        BY <1>s, <1>v, <3>1, <3>2
    <2>3. (session \in SessionRow /\ envelopes \subseteq EnvelopeRow)'
      BY <1>7, <1>s, <1>v, <2>2 DEF transition_stage_point
    <2>4. (pc \in [Procs -> Label] /\ view \in [Procs -> Stage] /\ gateRead \in [Procs -> GateStatus])'
      BY <1>7, <1>s, <1>v, <2>2 DEF transition_stage_point
    <2>5. (PointerEntered /\ CompletedAfterFinalStage)'
      BY <1>7, <1>s, <1>v, <2>1, <2>2 DEF transition_stage_point
    <2>6. ViewsEntered'
      BY <1>7, <1>s, <1>v, <2>1, <2>2 DEF transition_stage_point
    <2>7. EnvelopesOfEnteredStages'
      BY <1>7, <1>s, <1>v, <2>1, <2>2 DEF transition_stage_point
    <2> QED
      BY <1>i, <2>1, <2>3, <2>4, <2>5, <2>6, <2>7
  <1>8. ASSUME NEW p \in Procs, pass_gate(p) PROVE IInv'
    <2>1. RowsStep
      BY <1>8, RowsStepSame DEF pass_gate
    <2>2. Rest'
      BY <1>8, <1>s, <1>v, <2>1 DEF pass_gate
    <2> QED
      BY <1>i, <2>1, <2>2
  <1>9. ASSUME NEW p \in Procs, waive_gate(p) PROVE IInv'
    <2>1. RowsStep
      BY <1>9, RowsStepSame DEF waive_gate
    <2>2. Rest'
      BY <1>9, <1>s, <1>v, <2>1 DEF waive_gate
    <2> QED
      BY <1>i, <2>1, <2>2
  <1>10. ASSUME NEW p \in Procs, complete_session(p) PROVE IInv'
    <2>1. RowsStep
      BY <1>10, RowsStepSame DEF complete_session
    <2>2. Rest'
      BY <1>10, <1>s, <1>v, <2>1 DEF complete_session
    <2> QED
      BY <1>i, <2>1, <2>2
  <1>11. ASSUME NEW p \in Procs, complete_session_status(p) PROVE IInv'
    <2>1. RowsStep
      BY <1>11, RowsStepSame DEF complete_session_status
    <2>3. (session \in SessionRow /\ envelopes \subseteq EnvelopeRow)'
      BY <1>11, <1>s, <1>v DEF complete_session_status
    <2>4. (pc \in [Procs -> Label] /\ view \in [Procs -> Stage] /\ gateRead \in [Procs -> GateStatus])'
      BY <1>11, <1>s, <1>v DEF complete_session_status
    <2>5. (PointerEntered /\ CompletedAfterFinalStage)'
      BY <1>11, <1>s, <1>v, <2>1 DEF complete_session_status
    <2>6. ViewsEntered'
      BY <1>11, <1>s, <1>v, <2>1 DEF complete_session_status
    <2>7. EnvelopesOfEnteredStages'
      BY <1>11, <1>s, <1>v, <2>1 DEF complete_session_status
    <2> QED
      BY <1>i, <2>1, <2>3, <2>4, <2>5, <2>6, <2>7
  <1>12. ASSUME NEW p \in Procs, fail_session(p) PROVE IInv'
    <2>1. RowsStep
      BY <1>12, RowsStepSame DEF fail_session
    <2>2. Rest'
      BY <1>12, <1>s, <1>v, <2>1 DEF fail_session
    <2> QED
      BY <1>i, <2>1, <2>2
  <1>13. ASSUME NEW p \in Procs, fail_session_status(p) PROVE IInv'
    <2>1. RowsStep
      BY <1>13, RowsStepSame DEF fail_session_status
    <2>3. (session \in SessionRow /\ envelopes \subseteq EnvelopeRow)'
      BY <1>13, <1>s, <1>v DEF fail_session_status
    <2>4. (pc \in [Procs -> Label] /\ view \in [Procs -> Stage] /\ gateRead \in [Procs -> GateStatus])'
      BY <1>13, <1>s, <1>v DEF fail_session_status
    <2>5. (PointerEntered /\ CompletedAfterFinalStage)'
      BY <1>13, <1>s, <1>v, <2>1 DEF fail_session_status
    <2>6. ViewsEntered'
      BY <1>13, <1>s, <1>v, <2>1 DEF fail_session_status
    <2>7. EnvelopesOfEnteredStages'
      BY <1>13, <1>s, <1>v, <2>1 DEF fail_session_status
    <2> QED
      BY <1>i, <2>1, <2>3, <2>4, <2>5, <2>6, <2>7
  <1>14. ASSUME NEW p \in Procs, create_envelope(p) PROVE IInv'
    <2>1. RowsStep
      BY <1>14, RowsStepSame DEF create_envelope
    <2>2. Rest'
      BY <1>14, <1>s, <1>v, <2>1 DEF create_envelope
    <2> QED
      BY <1>i, <2>1, <2>2
  <1>15. ASSUME NEW p \in Procs, create_envelope_insert(p) PROVE IInv'
    <2>1. RowsStep
      BY <1>15, RowsStepSame DEF create_envelope_insert
    <2>3. (session \in SessionRow /\ envelopes \subseteq EnvelopeRow)'
      BY <1>15, <1>s, <1>v DEF create_envelope_insert, EnvelopeRow
    <2>4. (pc \in [Procs -> Label] /\ view \in [Procs -> Stage] /\ gateRead \in [Procs -> GateStatus])'
      BY <1>15, <1>s, <1>v DEF create_envelope_insert
    <2>5. (PointerEntered /\ CompletedAfterFinalStage)'
      BY <1>15, <1>s, <1>v, <2>1 DEF create_envelope_insert
    <2>6. ViewsEntered'
      BY <1>15, <1>s, <1>v, <2>1 DEF create_envelope_insert
    <2>7. EnvelopesOfEnteredStages'
      BY <1>15, <1>s, <1>v, <2>1 DEF create_envelope_insert
    <2> QED
      BY <1>i, <2>1, <2>3, <2>4, <2>5, <2>6, <2>7
  <1>16. ASSUME NEW p \in Procs, return_error(p) PROVE IInv'
    <2>1. RowsStep
      BY <1>16, RowsStepSame DEF return_error
    <2>2. Rest'
      BY <1>16, <1>s, <1>v, <2>1 DEF return_error
    <2> QED
      BY <1>i, <2>1, <2>2
  <1>17. ASSUME NEW p \in Procs, crash(p) PROVE IInv'
    <2>1. RowsStep
      BY <1>17, RowsStepSame DEF crash
    <2>2. Rest'
      BY <1>17, <1>s, <1>v, <2>1 DEF crash
    <2> QED
      BY <1>i, <2>1, <2>2
  <1>18. ASSUME NEW p \in Procs, activate_session_stage(p) PROVE IInv'
    <2>1. RowsStep
      BY <1>18, <1>t, UpdateKeepsRows, RowsStepSame DEF activate_session_stage, StageStatus, GateStatus, TypeOK
    <2>2. Rest'
      BY <1>18, <1>s, <1>v, <2>1 DEF activate_session_stage
    <2> QED
      BY <1>i, <2>1, <2>2
  <1>19. ASSUME NEW p \in Procs, transition_stage_pass(p) PROVE IInv'
    <2>1. RowsStep
      BY <1>19, <1>t, UpdateKeepsRows, RowsStepSame DEF transition_stage_pass, StageStatus, GateStatus, TypeOK
    <2>2. Rest'
      BY <1>19, <1>s, <1>v, <2>1 DEF transition_stage_pass
    <2> QED
      BY <1>i, <2>1, <2>2
  <1>20. ASSUME NEW p \in Procs, open_gate(p) PROVE IInv'
    <2>1. RowsStep
      BY <1>20, <1>t, UpdateKeepsRows, RowsStepSame DEF open_gate, StageStatus, GateStatus, TypeOK
    <2>2. Rest'
      BY <1>20, <1>s, <1>v, <2>1 DEF open_gate
    <2> QED
      BY <1>i, <2>1, <2>2
  <1>21. ASSUME NEW p \in Procs, complete_session_stage(p) PROVE IInv'
    <2>1. RowsStep
      BY <1>21, <1>t, UpdateKeepsRows, RowsStepSame DEF complete_session_stage, StageStatus, GateStatus, TypeOK
    <2>2. Rest'
      BY <1>21, <1>s, <1>v, <2>1 DEF complete_session_stage
    <2> QED
      BY <1>i, <2>1, <2>2
  <1>22. ASSUME NEW p \in Procs, fail_session_stage(p) PROVE IInv'
    <2>1. RowsStep
      BY <1>22, <1>t, UpdateKeepsRows, RowsStepSame DEF fail_session_stage, StageStatus, GateStatus, TypeOK
    <2>2. Rest'
      BY <1>22, <1>s, <1>v, <2>1 DEF fail_session_stage
    <2> QED
      BY <1>i, <2>1, <2>2
  <1>23. ASSUME NEW p \in Procs, create_session_stage(p) PROVE IInv'
    <2>1. insert_stage(1, "pending")
      BY <1>23 DEF create_session_stage
    <2>2. RowsStep
      BY <1>s, <1>v, <2>1, RowsStepInsert DEF StageStatus
    <2>3. (session \in SessionRow /\ envelopes \subseteq EnvelopeRow)'
      BY <1>23, <1>s, <1>v DEF create_session_stage
    <2>4. (pc \in [Procs -> Label] /\ view \in [Procs -> Stage] /\ gateRead \in [Procs -> GateStatus])'
      BY <1>23, <1>s, <1>v DEF create_session_stage
    <2>5. (PointerEntered /\ CompletedAfterFinalStage)'
      BY <1>23, <1>s, <1>v, <2>2 DEF create_session_stage
    <2>6. ViewsEntered'
      BY <1>23, <1>s, <1>v, <2>2 DEF create_session_stage
    <2>7. EnvelopesOfEnteredStages'
      BY <1>23, <1>s, <1>v, <2>2 DEF create_session_stage
    <2> QED
      BY <1>i, <2>2, <2>3, <2>4, <2>5, <2>6, <2>7
  <1>24. ASSUME NEW p \in Procs, transition_stage_insert(p) PROVE IInv'
    <2>1. insert_stage(view[p] + 1, "in_progress")
      BY <1>24 DEF transition_stage_insert
    <2>2. view[p] \in Stage /\ view[p] < final_stage(session) /\ (view[p] > 1 => HasRow(view[p]))
      BY <1>24 DEF transition_stage_insert, IInv, TypeOK, ViewsEntered, Entered
    <2>3. view[p] + 1 \in Stage
      BY <1>s, <1>v, <2>2
    <2>4. view[p] + 1 > 2 => HasRow((view[p] + 1) - 1)
      <3>1. (view[p] + 1) - 1 = view[p]
        BY <1>s, <1>v, <2>2
      <3> QED
        BY <1>s, <1>v, <2>2, <3>1
    <2>5. RowsStep /\ view[p] + 1 \in EnteredStages'
      <3> DEFINE s == view[p] + 1
      <3> HIDE DEF s
      <3>1. s \in Stage /\ insert_stage(s, "in_progress") /\ (s > 2 => HasRow(s - 1))
        BY <2>1, <2>3, <2>4 DEF s
      <3>2. RowsStep /\ s \in EnteredStages'
        BY <3>1, RowsStepInsert DEF StageStatus
      <3> QED
        BY <3>2 DEF s
    <2>6. Rest'
      BY <1>24, <1>s, <1>v, <2>5 DEF transition_stage_insert
    <2> QED
      BY <1>i, <2>5, <2>6
  <1> QED
    BY <1>u, <1>1, <1>2, <1>3, <1>4, <1>5, <1>6, <1>7, <1>8, <1>9, <1>10, <1>11, <1>12, <1>13, <1>14, <1>15, <1>16, <1>17, <1>18, <1>19, <1>20, <1>21, <1>22, <1>23, <1>24 DEF Next

\* Type correctness: every variable of the session database and of the
\* processes' locals stays in its type.
THEOREM TypeCorrect == Spec => []TypeOK
  <1>1. IInv => TypeOK
    BY DEF IInv
  <1> QED
    BY <1>1, InitInvariant, StepInvariant, PTL DEF Spec

\* However many processes work on the session and wherever they die,
\* transition_stage never skips a stage of the chain.
THEOREM StagesNotSkipped == Spec => []NoStageSkipped
  <1>1. IInv => NoStageSkipped
    BY DEF IInv
  <1> QED
    BY <1>1, InitInvariant, StepInvariant, PTL DEF Spec

\* A session complete_session has completed has entered its final stage.
THEOREM CompletionNeedsFinalStage == Spec => []CompletedAfterFinalStage
  <1>1. IInv => CompletedAfterFinalStage
    BY DEF IInv
  <1> QED
    BY <1>1, InitInvariant, StepInvariant, PTL DEF Spec
=============================================================================

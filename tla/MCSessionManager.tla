-------------------------- MODULE MCSessionManager --------------------------
(* SessionManager on small instances: chains of two and three stages stand for
   the five and eight of the code (QUICK_STAGES, DELIVERY_STAGES,
   MIGRATION_STAGES); nothing in the code depends on a chain's length beyond
   its first, next and last stage. *)
EXTENDS SessionManager, TLC

MCLanes == {"quick", "delivery"}
MCChainLength == ("quick" :> 2) @@ ("delivery" :> 3)
MCOneLane == {"delivery"}
MCThreeStages == ("delivery" :> 3)
MCProcSymmetry == Permutations(Procs)

----------------------------------------------------------------------------
(* The same behaviours with a history variable: two processes have been in the
   middle of an operation at the same time *)

VARIABLE overlapped

Busy == {p \in Procs : ~ At(p, "idle")}

MCInit == Init /\ overlapped = FALSE

MCNext == Next /\ overlapped' = (overlapped \/ Cardinality(Busy') > 1)

MCSpec == MCInit /\ [][MCNext]_<<vars, overlapped>>

\* As long as the processes take turns, deaths included, the stage history is in
\* chain order and the stage pointer is its last row or the one before
\* (transition_stage inserts the row first and moves the pointer last).
TurnsKeepChainOrder == ~ overlapped => HistoryInChainOrder

\* As long as the processes take turns, deaths included, every stage behind the
\* pointer was left through its gate, the first one excepted that create_session
\* never wrote (transition_stage, pass_gate, waive_gate, fail_session).
TurnsRespectGates == ~ overlapped => LeftThroughGate
=============================================================================

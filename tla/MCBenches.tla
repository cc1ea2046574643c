----------------------------- MODULE MCBenches ------------------------------
(***************************************************************************)
(* Work on the benches, its artifacts and the people who reach them,       *)
(* side by side: a behaviour is one component's, chosen at the start,      *)
(* while the other components keep their initial state.                    *)
(***************************************************************************)
EXTENDS BenchScheduler, WorkflowRuns, Artifacts, BenchOperations, Access,
        SideBySide, TLC

CONSTANTS c1, c2, d1, u1, o, s1, b1, a1, t   \* model values

\* One command is a workflow with a firmware; the other is a workflow with the
\* same firmware or a direct operation with another.
FirstIsWorkflow ==
    /\ wanted[c1].kind = "workflow" /\ wanted[c1].digest = d1
    /\ (wanted[c2].kind = "workflow") <=> (wanted[c2].digest = d1)

MCHostOf == [b \in Board |-> a1]

MCNarrowed == [p \in Principal |->
                 IF p = s1 THEN Permission \ {"benches:manage", "benches:serial"} ELSE Permission]

Policy(v, r, op, ts) == [visibility |-> v, reserve |-> r, operate |-> op, teams |-> ts]

MCPolicies == {Policy("ORGANISATION", "OPERATOR", "any", {}),
               Policy("RESTRICTED", "any", "OPERATOR", {}), Policy("PRIVATE", "any", "any", {t})}

allVars == <<focus, schedulerVars, workVars, transferVars, retentionVars,
             operationsVars, accessVars>>

Init ==
    /\ focus \in {"scheduler", "work", "transfers", "retention", "operations",
                   "access"}
    /\ focus # "scheduler" => online = TRUE
    /\ focus # "retention" => site = "agent"
    /\ focus # "access" =>
        /\ members = {}
        /\ grants = {}
        /\ orgRole = [u \in User |-> IF u = Owner THEN "OWNER" ELSE "MEMBER"]
    /\ SchedulerInit
    /\ WorkInit
    /\ TransferInit
    /\ RetentionInit
    /\ OperationsInit
    /\ AccessInit
    /\ focus # "work" => wanted[c2].kind = "workflow"
    /\ FirstIsWorkflow

Next ==
    \/ /\ focus = "scheduler" /\ SchedulerNext
       /\ UNCHANGED <<focus, workVars, transferVars, retentionVars, operationsVars,
                      accessVars>>
    \/ /\ focus = "work" /\ WorkNext
       /\ UNCHANGED <<focus, schedulerVars, transferVars, retentionVars,
                      operationsVars, accessVars>>
    \/ /\ focus = "transfers" /\ TransferNext
       /\ UNCHANGED <<focus, schedulerVars, workVars, retentionVars, operationsVars,
                      accessVars>>
    \/ /\ focus = "retention" /\ RetentionNext
       /\ UNCHANGED <<focus, schedulerVars, workVars, transferVars, operationsVars,
                      accessVars>>
    \/ /\ focus = "operations" /\ OperationsNext
       /\ UNCHANGED <<focus, schedulerVars, workVars, transferVars, retentionVars,
                      accessVars>>
    \/ /\ focus = "access" /\ AccessNext
       /\ UNCHANGED <<focus, schedulerVars, workVars, transferVars, retentionVars,
                      operationsVars>>

\* Each component is scheduled as in its own module, while it has the focus.
Fairness ==
    /\ SchedulerFairness
    /\ WorkFairness
    /\ TransferFairness
    /\ RetentionFairness
    /\ OperationsFairness
    /\ AccessFairness

Spec == Init /\ [][Next]_allVars /\ Fairness

-----------------------------------------------------------------------------
BenchesTypeOK ==
    CASE focus = "scheduler"  -> SchedulerTypeOK
      [] focus = "work"       -> WorkTypeOK
      [] focus = "transfers"  -> TransferTypeOK
      [] focus = "retention"  -> RetentionTypeOK
      [] focus = "operations" -> OperationsTypeOK
      [] focus = "access"     -> AccessTypeOK

\* What the Agent and the services come back to under each component's fairness:
\* no operation overruns its reservation, benches are free, registered artifacts
\* are uploaded and expired ones gone, streams have the login they were opened
\* with.  And alerts agree with their conditions for good once these stand still.
BenchesLive ==
    /\ []<>CASE focus = "scheduler" -> NoOverrun
             [] focus = "work"      -> BenchesFree
             [] focus = "transfers" -> RegisteredAreUploaded
             [] focus = "retention" -> ExpiredAreGone
             [] focus = "access"    -> StreamsHaveLogins
             [] OTHER               -> TRUE
    /\ <>[]AlertsAgree
=============================================================================

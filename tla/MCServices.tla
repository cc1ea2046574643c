----------------------------- MODULE MCServices -----------------------------
(***************************************************************************)
(* Identity, admission, the stores and the Agent's plugins and locks,      *)
(* side by side: a behaviour is one component's, chosen at the start,      *)
(* while the other components keep their initial state.                    *)
(***************************************************************************)
EXTENDS Services, Analytics, SideBySide, TLC

On(permissions, resources) == permissions \X resources

\* Nobody, an administrator, a reader of bench and workflow, a bench user, and
\* an artifact administrator without access to sessions.
MCProfiles ==
    {{}, On(Permissions, {"organisation"}),
     On({"artifacts:read"}, {"bench", "workflow"}) \cup On({"ci:sessions:read"}, {"bench"}),
     On({"artifacts:read", "artifacts:write", "ci:sessions:create"}, {"bench"}),
     On(Permissions \ {"ci:sessions:read", "ci:sessions:create"}, {"organisation"})}

allVars == <<focus, identityVars, admissionVars, guardVars, storeVars, protocolVars,
             backupVars, analyticsVars, lifecycleVars, ciVars, schedulerVars>>

Init ==
    /\ focus \in {"identity", "admission", "guard", "store", "protocol", "backup",
                   "analytics", "lifecycle", "sessions", "scheduler"}
    /\ focus # "guard" => profileOf = [v \in Viewer |-> {}]
    /\ focus # "backup" =>
        /\ store = "local"
        /\ engine = "sqlite"
    /\ referred = {}    \* uploads lead to every other database
    /\ focus # "analytics" => subject = "queue"
    /\ focus # "lifecycle" =>
        /\ wantedState = [e \in PluginNo |-> [outcome |-> "well", name |-> e, stops |-> TRUE]]
    /\ focus # "scheduler" => online = TRUE
    /\ IdentityInit
    /\ AdmissionInit
    /\ GuardInit
    /\ StoreInit
    /\ ProtocolInit
    /\ BackupInit
    /\ AnalyticsInit
    /\ LifecycleInit
    /\ CiInit
    /\ SchedulerInit

Next ==
    \/ /\ focus = "identity" /\ IdentityNext
       /\ UNCHANGED <<focus, admissionVars, guardVars, storeVars, protocolVars,
                      backupVars, analyticsVars, lifecycleVars, ciVars,
                      schedulerVars>>
    \/ /\ focus = "admission" /\ AdmissionNext
       /\ UNCHANGED <<focus, identityVars, guardVars, storeVars, protocolVars,
                      backupVars, analyticsVars, lifecycleVars, ciVars,
                      schedulerVars>>
    \/ /\ focus = "guard" /\ GuardNext
       /\ UNCHANGED <<focus, identityVars, admissionVars, storeVars, protocolVars,
                      backupVars, analyticsVars, lifecycleVars, ciVars,
                      schedulerVars>>
    \/ /\ focus = "store" /\ StoreNext
       /\ UNCHANGED <<focus, identityVars, admissionVars, guardVars, protocolVars,
                      backupVars, analyticsVars, lifecycleVars, ciVars,
                      schedulerVars>>
    \/ /\ focus = "protocol" /\ ProtocolNext
       /\ UNCHANGED <<focus, identityVars, admissionVars, guardVars, storeVars,
                      backupVars, analyticsVars, lifecycleVars, ciVars,
                      schedulerVars>>
    \/ /\ focus = "backup" /\ BackupNext
       /\ UNCHANGED <<focus, identityVars, admissionVars, guardVars, storeVars,
                      protocolVars, analyticsVars, lifecycleVars, ciVars,
                      schedulerVars>>
    \/ /\ focus = "analytics" /\ AnalyticsNext
       /\ UNCHANGED <<focus, identityVars, admissionVars, guardVars, storeVars,
                      protocolVars, backupVars, lifecycleVars, ciVars, schedulerVars>>
    \/ /\ focus = "lifecycle" /\ LifecycleNext
       /\ UNCHANGED <<focus, identityVars, admissionVars, guardVars, storeVars,
                      protocolVars, backupVars, analyticsVars, ciVars, schedulerVars>>
    \/ /\ focus = "sessions" /\ CiNext
       /\ UNCHANGED <<focus, identityVars, admissionVars, guardVars, storeVars,
                      protocolVars, backupVars, analyticsVars, lifecycleVars,
                      schedulerVars>>
    \/ /\ focus = "scheduler" /\ SchedulerNext
       /\ UNCHANGED <<focus, identityVars, admissionVars, guardVars, storeVars,
                      protocolVars, backupVars, analyticsVars, lifecycleVars, ciVars>>

Spec == Init /\ [][Next]_allVars
=============================================================================

------------------------------ MODULE Services ------------------------------
(***************************************************************************)
(* The server's authority, its command and protocol stores, backups, the   *)
(* Agent's plugins, CI sessions and bookings, side by side: what several   *)
(* of the components promise together.                                     *)
(***************************************************************************)
EXTENDS Identity, CommandAdmission, ArtifactGuard, CommandStore, ProtocolStore,
        BackupRestore, AgentLifecycle, CISessions, BenchScheduler

ServicesTypeOK ==
    /\ IdentityTypeOK /\ AdmissionTypeOK /\ GuardTypeOK
    /\ StoreTypeOK /\ ProtocolTypeOK /\ BackupTypeOK
    /\ LifecycleTypeOK /\ CiTypeOK

\* Nothing is begun or shown without the permission for it, by commands, by
\* replays or through an artifact's parents; and no login outlives what it was
\* made from (identity.py, distributed_commands.py, artifacts/access.py).
AuthoritySound ==
    /\ OutdatedSessionsEnd /\ OneLoginPerState
    /\ AdmissionSound
    /\ GuardSound

\* What is stored is what happened: one row per command, operation and key,
\* reports applied by the handler that claimed them, whole archives, safe
\* restores.
StoresSound == StoreConsistent /\ ReportsFenced /\ ArchiveIsWhole /\ RestoreIsSafe

\* Plugins and backends are started, exposed and stopped together (manager.py).
\* A CI session that is COMPLETED has given back what it held, and one that
\* reports success ran its workflow to success (distributed_ci.finalize).
WorkSound == LifecycleSound /\ CompletedIsClean /\ SuccessIsReal

\* What the rows, archives and registries say is what is there, for everything
\* that writes them in several steps.
RecordsSound == StoresSound /\ WorkSound

\* What ended stays ended: retired logins, accounts, settled command rows and
\* reported outcomes; work is admitted on present authority only; a route does
\* not move while its backend still has the target; and a quarantine is not
\* lifted by a report.
StepsHold ==
    /\ AdmittedNow /\ RetiredStaysRetired /\ RevokedAccountsEnd /\ SettledRowsStay
    /\ OutcomesAreFinal /\ RoutesHold /\ QuarantineHolds
=============================================================================

------------------------------ MODULE SchemaMigration ------------------------------
(***************************************************************************)
(* Installing and upgrading the control plane's database                   *)
(* (persistence/migrations.py, database.py, postgresql.py,                 *)
(* database_management.py, the start-up of runtime.py).                    *)
(*                                                                         *)
(* A migration is a program of SQL statements, and what a crash leaves     *)
(* depends on how Python runs each one.  With sqlite3, executescript first *)
(* commits what is pending and then runs every statement on its own; a     *)
(* single INSERT or UPDATE opens a transaction; a single DDL statement     *)
(* joins the open transaction or, without one, commits at once.  The       *)
(* PostgreSQL adapter runs the same program in one transaction under the   *)
(* writer lock.                                                            *)
(*                                                                         *)
(* The many tables of a phase are one object here.  Three are kept apart,  *)
(* because they are rebuilt or replaced: the workflow tables ("steps", one *)
(* name for the closed set that phase 10 rebuilds), the authorisation      *)
(* snapshots, and the idempotency indexes.                                 *)
(***************************************************************************)
EXTENDS SideBySide, Integers, Sequences

CONSTANTS
    MaxAborts,   \* bound: crashes and failing statements
    MaxServes    \* bound: starts of the server

ASSUME MigrationAssumption == MaxAborts \in Nat /\ MaxServes \in Nat \ {0}

VARIABLES
    backend,   \* "sqlite" or "postgresql"
    profile,   \* "development" or "production"
    holds,     \* tables that held the user's rows before the upgrade
    disk,      \* the committed database
    view,      \* the database as the migrating connection sees it
    open,      \* a transaction is open on that connection
    applied,   \* versions that apply_migrations read when it began
    part,      \* the next part of apply_migrations
    todo,      \* statements of the current part still to run
    runner,    \* "none", "migrate" (the CLI) or "serve" (the server)
    serving,   \* the server has started
    aborts, serves

migrationVars == <<backend, profile, holds, disk, view, open, applied, part, todo, runner,
                   serving, aborts, serves>>

SCHEMA_VERSION == 12
MINIMUM_SUPPORTED_SCHEMA_VERSION == 11
Versions == 2 .. SCHEMA_VERSION

Table == {"steps", "steps_phase4", "steps_phase10", "snapshots", "snapshots_ci_cancel",
          "idempotency"}
Shape == {"none", "phase3", "phase4", "tenant", "plain", "ci", "global"}

----------------------------------------------------------------------------
(* Statements and their effects. *)

Nothing == [op |-> "nothing"]
Make(o) == [op |-> "make", what |-> o]                  \* IF NOT EXISTS
Create(t, s) == [op |-> "create", what |-> t, shape |-> s]  \* IF NOT EXISTS
Reshape(t, s) == [op |-> "reshape", what |-> t, shape |-> s]
Drop(t) == [op |-> "drop", what |-> t]                  \* IF EXISTS
Copy(t, u) == [op |-> "copy", what |-> t, to |-> u]
Rename(t, u) == [op |-> "rename", what |-> t, to |-> u]
Record(v) == [op |-> "record", what |-> v]              \* a row of schema_migrations

Ddl(e) == [how |-> "ddl", effect |-> e]
Dml(e) == [how |-> "dml", effect |-> e]
Begin == [how |-> "begin", effect |-> Nothing]
Commit == [how |-> "commit", effect |-> Nothing]

\* executescript: sqlite3 commits first; the PostgreSQL adapter does not.
Script(es) == <<Commit>> \o [i \in DOMAIN es |-> Ddl(es[i])]

Rows(d, t, u) == IF t \in d.rows THEN d.rows \cup {u} ELSE d.rows

Apply(d, e) ==
    CASE e.op = "nothing" -> d
      [] e.op = "make" -> [d EXCEPT !.made = @ \cup {e.what}]
      [] e.op = "create" ->
            IF d.shape[e.what] # "none" THEN d ELSE [d EXCEPT !.shape[e.what] = e.shape]
      [] e.op = "reshape" -> [d EXCEPT !.shape[e.what] = e.shape]
      [] e.op = "drop" -> [d EXCEPT !.shape[e.what] = "none", !.rows = @ \ {e.what}]
      [] e.op = "copy" -> [d EXCEPT !.rows = Rows(d, e.what, e.to)]
      [] e.op = "rename" ->
            [d EXCEPT !.shape = [@ EXCEPT ![e.to] = d.shape[e.what], ![e.what] = "none"],
                      !.rows = Rows(d, e.what, e.to) \ {e.what}]
      [] e.op = "record" -> [d EXCEPT !.versions = @ \cup {e.what}]

\* Statements that raise: a version recorded twice, a table that must not exist.
StatementRaises(d, e) ==
    \/ e.op = "record" /\ e.what \in d.versions
    \/ e.op = "rename" /\ d.shape[e.to] # "none"

----------------------------------------------------------------------------
(* The migration functions, as the statements they run. *)

RecordVersion(v, a) == IF v \in a THEN <<>> ELSE <<Dml(Record(v))>>

AddReservationColumns == <<Ddl(Make("reservation_columns")), Dml(Make("reservation_times"))>>
AddEventColumns == <<Ddl(Make("event_columns"))>>
CreatePhase3Tables == Script(<<Make("queue_tables")>>)
CreatePhase3IndexesAndTriggers ==
    Script(<<Create("idempotency", "global"), Make("reservation_triggers")>>)
CreateCatalogTables == Script(<<Make("catalog_tables")>>)
CreateCatalogIndexes == Script(<<Make("catalog_indexes")>>)

\* Mutant: the step results are rebuilt with executescript.
RebuildStepResultsScripted ==
    Script(<<Drop("steps_phase4"), Create("steps_phase4", "phase4"),
             Copy("steps", "steps_phase4"), Drop("steps"), Rename("steps_phase4", "steps")>>)

\* _rebuild_workflow_step_results: the copy opens the transaction in which the
\* old table goes and the new one takes its name.
RebuildStepResults ==
    <<Ddl(Drop("steps_phase4")), Ddl(Create("steps_phase4", "phase4")),
      Dml(Copy("steps", "steps_phase4")), Ddl(Drop("steps")),
      Ddl(Rename("steps_phase4", "steps"))>>

StepResultsNeedRebuild(d) == d.shape["steps"] = "phase3"

EnsureWorkflowSchema(d) ==
    Script(<<Create("steps", "tenant")>>)
        \o IF StepResultsNeedRebuild(d) THEN RebuildStepResults ELSE <<>>

CreatePhase4Tables == Script(<<Make("phase4_tables")>>)
CreatePhase4Indexes == Script(<<Create("idempotency", "global"), Make("phase4_indexes")>>)
CreatePhase5AgentTables == Script(<<Make("agent_tables")>>)
CreatePhase5AgentIndexes == Script(<<Make("agent_indexes")>>)
CreatePhase5DistributedTables == Script(<<Make("distributed_tables")>>)
CreatePhase5DistributedIndexes == Script(<<Make("distributed_indexes")>>)
AddDistributedOperationResultColumn == <<Ddl(Make("result_column"))>>
CreatePhase6IdentityTables ==
    Script(<<Make("identity_tables"), Create("snapshots", "ci")>>)
SeedDefaultOrganisation == <<Dml(Make("default_organisation"))>>
AddPhase6CentralColumns == <<Ddl(Make("organisation_columns"))>>

\* The check on resource_type admits CI sessions; SQLite must rebuild the table
\* for that, inside the transaction the default organisation opened.
EnsureCiCancellationEvidenceSchema(d) ==
    <<Ddl(Make("cancel_columns"))>> \o
    IF backend = "postgresql" THEN <<Ddl(Reshape("snapshots", "ci"))>>
    ELSE IF d.shape["snapshots"] # "plain" THEN <<>>
    ELSE <<Ddl(Drop("snapshots_ci_cancel")), Ddl(Create("snapshots_ci_cancel", "ci")),
           Dml(Copy("snapshots", "snapshots_ci_cancel")), Ddl(Drop("snapshots")),
           Ddl(Rename("snapshots_ci_cancel", "snapshots"))>>

CreatePhase6Indexes == Script(<<Make("phase6_indexes")>>)

\* _rebuild_phase10_sqlite_tenant_tables: one explicit transaction.
RebuildPhase10Tables ==
    <<Commit, Begin, Ddl(Drop("steps_phase10")), Ddl(Create("steps_phase10", "tenant")),
      Dml(Copy("steps", "steps_phase10")), Ddl(Drop("steps")),
      Ddl(Rename("steps_phase10", "steps")), Commit>>

UpgradePhase10Constraints == <<Ddl(Reshape("steps", "tenant"))>>

CreatePhase10ScopedIndexes == Script(<<Drop("idempotency"), Create("idempotency", "tenant")>>)

\* Mutant: version 10 is recorded before its work.
Phase10VersionFirst ==
    <<Dml(Record(10))>>
        \o (IF backend = "sqlite" THEN RebuildPhase10Tables ELSE UpgradePhase10Constraints)
        \o CreatePhase10ScopedIndexes

UpgradePhase10TenantStorage ==
    (IF backend = "sqlite" THEN RebuildPhase10Tables ELSE UpgradePhase10Constraints)
        \o CreatePhase10ScopedIndexes \o <<Dml(Record(10))>>

UpgradePhase11ReservationQueue == <<Ddl(Make("queue_columns")), Dml(Make("queue_order"))>>
CreateQueueTransitionTrigger == Script(<<Make("queue_trigger")>>)
UpgradePhase12ArtifactRetention == <<Ddl(Make("retention_columns"))>>
CreateDecisionTables == Script(<<Make("decision_tables")>>)

\* apply_migrations: its parts in order, for the versions a it read at the start
\* and the database d as it is when the part begins.
ApplyMigrations(a, d) ==
    << <<Dml(IF 2 \in a THEN Nothing ELSE Record(2))>>,
       IF 3 \in a THEN <<>>
       ELSE AddReservationColumns \o AddEventColumns \o CreatePhase3Tables
                \o CreatePhase3IndexesAndTriggers \o RecordVersion(3, a),
       IF 4 \in a THEN <<>>
       ELSE CreateCatalogTables \o CreateCatalogIndexes \o RecordVersion(4, a),
       EnsureWorkflowSchema(d),
       CreatePhase4Tables \o CreatePhase4Indexes \o RecordVersion(5, a),
       CreatePhase5AgentTables \o CreatePhase5AgentIndexes \o RecordVersion(6, a),
       CreatePhase5DistributedTables \o CreatePhase5DistributedIndexes \o RecordVersion(7, a),
       AddDistributedOperationResultColumn \o RecordVersion(8, a),
       CreatePhase6IdentityTables \o SeedDefaultOrganisation \o AddPhase6CentralColumns,
       EnsureCiCancellationEvidenceSchema(d) \o CreatePhase6Indexes \o RecordVersion(9, a),
       IF 10 \in a THEN <<>> ELSE UpgradePhase10TenantStorage,
       UpgradePhase11ReservationQueue \o RecordVersion(11, a) \o CreateQueueTransitionTrigger,
       UpgradePhase12ArtifactRetention \o RecordVersion(12, a) \o CreateDecisionTables >>

Parts == Len(ApplyMigrations({}, disk))

Object == {"reservation_columns", "reservation_times", "event_columns", "queue_tables",
           "reservation_triggers", "catalog_tables", "catalog_indexes", "phase4_tables",
           "phase4_indexes", "agent_tables", "agent_indexes", "distributed_tables",
           "distributed_indexes", "result_column", "identity_tables", "default_organisation",
           "organisation_columns", "cancel_columns", "phase6_indexes", "queue_columns",
           "queue_order", "queue_trigger", "retention_columns", "decision_tables"}

----------------------------------------------------------------------------
(* Opening a database: db migrate and the server's start. *)

\* _status_from_versions.  History with a gap is inconsistent.
SchemaState(vs) ==
    IF vs = {} THEN "empty"
    ELSE LET current == CHOOSE v \in vs : \A w \in vs : w <= v
         IN  IF vs # 2 .. current THEN "inconsistent"
             ELSE IF current = SCHEMA_VERSION THEN "current"
             ELSE IF current < MINIMUM_SUPPORTED_SCHEMA_VERSION THEN "too_old"
             ELSE "upgrade_required"

\* Mutant: an empty database is not one that db migrate may begin with.
MigrationAllowedLater(vs) == SchemaState(vs) \in {"current", "upgrade_required"}

MigrationAllowed(vs) == SchemaState(vs) \in {"empty", "current", "upgrade_required"}

\* initialize: the base tables are created, then apply_migrations reads the versions.
Initialize(who) ==
    /\ runner = "none" /\ ~serving
    /\ runner' = who
    /\ applied' = disk.versions
    /\ view' = disk /\ open' = (backend = "postgresql")
    /\ part' = 1 /\ todo' = <<>>
    /\ UNCHANGED <<backend, profile, holds, disk, serving, aborts>>

\* migrate_database, after its preflight on the versions.
Migrate ==
    /\ MigrationAllowed(disk.versions)
    /\ SchemaState(disk.versions) # "current"
    /\ Initialize("migrate")
    /\ UNCHANGED serves

\* The checks of the database before a production server starts.
ProfileChecks == profile = "production" => backend = "postgresql"
DatabaseChecks == SchemaState(disk.versions) = "current"

\* ControlPlaneRuntime.start: in production the schema must be current already.
StartServer ==
    /\ profile = "production" => ProfileChecks /\ DatabaseChecks
    /\ serves < MaxServes /\ serves' = serves + 1
    /\ Initialize("serve")

\* The connection is lost with its open transaction.
Abort ==
    /\ runner' = "none" /\ view' = disk /\ open' = FALSE
    /\ todo' = <<>> /\ part' = 0 /\ applied' = {}

LoadPart ==
    /\ runner # "none" /\ todo = <<>> /\ part \in 1 .. Parts
    /\ todo' = ApplyMigrations(applied, view)[part]
    /\ part' = part + 1
    /\ UNCHANGED <<backend, profile, holds, disk, view, open, applied, runner, serving, aborts,
                   serves>>

\* What the connection and the disk hold after a statement.
Executed(s) ==
    LET next == Apply(view, s.effect)
        inTransaction == open \/ s.how \in {"dml", "begin"}
    IN  IF s.how = "commit" /\ backend = "sqlite"
        THEN [view |-> view, open |-> FALSE, disk |-> view]
        ELSE [view |-> next, open |-> inTransaction,
              disk |-> IF inTransaction THEN disk ELSE next]

\* A statement that raises ends the run.
ExecuteStatement ==
    /\ todo # <<>>
    /\ IF StatementRaises(view, Head(todo).effect)
       THEN Abort /\ UNCHANGED disk
       ELSE /\ LET after == Executed(Head(todo))
               IN  view' = after.view /\ open' = after.open /\ disk' = after.disk
            /\ todo' = Tail(todo)
            /\ UNCHANGED <<applied, part, runner>>
    /\ UNCHANGED <<backend, profile, holds, serving, aborts, serves>>

\* The process dies, or a statement fails: disk full, a locked file.
AbortMigration ==
    /\ runner # "none" /\ aborts < MaxAborts /\ aborts' = aborts + 1
    /\ Abort
    /\ UNCHANGED <<backend, profile, holds, disk, serving, serves>>

\* The final commit.  PostgreSQL checks the newest version before it.
FinishMigration ==
    /\ runner # "none" /\ todo = <<>> /\ part = Parts + 1
    /\ disk' = view /\ view' = view /\ open' = FALSE
    /\ serving' = (runner = "serve")
    /\ runner' = "none" /\ part' = 0 /\ applied' = {}
    /\ UNCHANGED <<backend, profile, holds, todo, aborts, serves>>

StopServer ==
    /\ serving /\ serving' = FALSE
    /\ UNCHANGED <<backend, profile, holds, disk, view, open, applied, part, todo, runner,
                   aborts, serves>>

----------------------------------------------------------------------------
(* Databases an operator may start from. *)

Empty == [shape |-> [t \in Table |-> "none"], rows |-> {}, made |-> {}, versions |-> {}]

Database(last, steps, snapshots, index, made) ==
    [Empty EXCEPT !.versions = 2 .. last, !.rows = {"steps", "snapshots"}, !.made = made,
                  !.shape = [@ EXCEPT !["steps"] = steps, !["snapshots"] = snapshots,
                                      !["idempotency"] = index]]

\* An early installation, one from before phase 10, the previous release.
Phase3 == [Database(3, "phase3", "none", "global", {"queue_tables", "reservation_columns",
               "reservation_times", "event_columns", "reservation_triggers"})
           EXCEPT !.rows = {"steps"}]
Phase9 == Database(9, "phase4", "plain", "global",
              Object \ {"cancel_columns", "queue_columns", "queue_order", "queue_trigger",
                        "retention_columns", "decision_tables"})
Phase11 == Database(11, "tenant", "ci", "tenant",
               Object \ {"retention_columns", "decision_tables"})

MigrationInit ==
    /\ backend \in {"sqlite", "postgresql"}
    /\ profile \in {"development", "production"}
    /\ disk \in IF backend = "sqlite" THEN {Empty, Phase3, Phase9, Phase11}
                                      ELSE {Empty, Phase11}
    /\ holds = disk.rows
    /\ view = disk /\ open = FALSE /\ applied = {} /\ part = 0 /\ todo = <<>>
    /\ runner = "none" /\ serving = FALSE /\ aborts = 0 /\ serves = 0

MigrationNext ==
    \/ Migrate
    \/ StartServer
    \/ LoadPart
    \/ ExecuteStatement
    \/ AbortMigration
    \/ FinishMigration
    \/ StopServer

MigrationTurn == focus = "migration"

\* A migration that has begun runs on, and an operator tries again: with db
\* migrate in production, by starting the server elsewhere.
MigrationFairness ==
    /\ WF_migrationVars(MigrationTurn /\ (LoadPart \/ ExecuteStatement \/ FinishMigration))
    /\ WF_migrationVars(MigrationTurn /\ (IF profile = "production" THEN Migrate ELSE StartServer))

MigrationSpec == MigrationInit /\ [][MigrationNext]_migrationVars

----------------------------------------------------------------------------
(* Properties. *)

DatabaseType == [shape : [Table -> Shape], rows : SUBSET Table, made : SUBSET Object,
                 versions : SUBSET Versions]

\* The databases, the transaction and the place in the program are well formed;
\* without a transaction the connection sees what is committed.
MigrationTypeOK ==
    /\ disk \in DatabaseType /\ view \in DatabaseType
    /\ open \in BOOLEAN /\ (~open => view = disk)
    /\ applied \subseteq Versions /\ part \in 0 .. Parts + 1
    /\ runner \in {"none", "migrate", "serve"} /\ serving \in BOOLEAN
    /\ aborts \in 0 .. MaxAborts /\ serves \in 0 .. MaxServes

Complete(d) ==
    /\ d.versions = Versions
    /\ d.made = Object
    /\ d.shape["steps"] = "tenant" /\ d.shape["snapshots"] = "ci"
    /\ d.shape["idempotency"] = "tenant"

\* The user's rows are in their tables after every committed statement, and a
\* server that has started serves the complete schema, whatever was interrupted
\* before: a version is never recorded ahead of the work it stands for.
UpgradesAreSafe ==
    /\ holds \subseteq disk.rows
    /\ serving => Complete(disk)

\* An installation or upgrade that is interrupted is brought to its end by trying
\* again: no state an interruption leaves behind makes the next attempt fail.  (A
\* production profile on SQLite is excluded, as the start-up checks exclude it: db
\* migrate refuses a half-installed SQLite file as too old.)
MigrationCompletes == ProfileChecks => <>[]Complete(disk)

============================================================================

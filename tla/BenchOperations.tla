-------------------------- MODULE BenchOperations --------------------------
(***************************************************************************)
(* Bench maintenance and operational alerts on the control plane.          *)
(*                                                                         *)
(* A bench is a row of the global inventory (persistence/distributed.py)   *)
(* that three parties write: the Agent's inventory snapshots, the presence *)
(* monitor when the Agent is gone, and the operator who starts and ends    *)
(* maintenance (operational_api.py).  Maintenance lives in two stores, a   *)
(* label of the bench row and an event of the journal                      *)
(* (operational_state.py), which no transaction covers, so the process may *)
(* die between the two writes.                                             *)
(*                                                                         *)
(* The monitor's alert pass reads the benches, then the analytics, then    *)
(* the journal, each after an asyncio.gather that lets requests in, and    *)
(* finally opens and resolves alerts under the state's lock.  Alerts that  *)
(* are resolved never matter again and are left out of the state.          *)
(***************************************************************************)
EXTENDS SideBySide, Naturals, Sequences, FiniteSets, SequencesExt

CONSTANTS
    MaxReports,   \* inventory snapshots the Agent sends
    MaxOpRequests,  \* operator requests, changes of the fleet and reservations
    MaxOpCrashes  \* crashes of the control plane inside a handler

ASSUME OperationsAssumption ==
    /\ MaxReports \in Nat /\ MaxOpRequests \in Nat /\ MaxOpCrashes \in Nat

VARIABLES
    board,       \* the global bench row: status, maintenance label, status before
    journal,     \* the newest maintenance state of the journal, NoState if none
    worked,      \* ghost: an operator took the bench out of service
    reports,     \* the snapshots the Agent sent, oldest first
    newest,      \* the newest snapshot applied
    fleet,       \* the Agent's status and whether the bench is flaky
    planned,     \* a scheduled reservation of the analytics window
    alarms,      \* the alerts not resolved yet, oldest first
    pass,        \* the alert pass under way
    opRequests,  \* requests made so far
    opCrashes    \* crashes so far

operationsVars == <<board, journal, worked, reports, newest, fleet, planned,
                    alarms, pass, opRequests, opCrashes>>

GlobalBenchStatus == {"ONLINE", "DEGRADED", "OFFLINE"}
BenchMaintenanceStatus == {"HEALTHY", "DEGRADED", "MAINTENANCE", "OFFLINE"}
NoState == "NONE"
NoStatus == "NONE"
AlertType == {"AGENT_OFFLINE", "INCOMPATIBLE_VERSION", "BENCH_DEGRADED", "REPEATED_FAILURES"}

\* The rows of global_benches; "false" is the label of an explicit clearing.
BenchRow == [status: GlobalBenchStatus, label: {"absent", "true", "false"},
             previous: GlobalBenchStatus \cup {NoStatus}]

NoPass == [stage |-> "idle"]

----------------------------------------------------------------------------
(* The inventory. *)

\* Mutant: the snapshot's labels replace the row's.
UpsertBenchForgets(existing, bench) ==
    IF bench.label = "false"
    THEN [bench EXCEPT !.label = "absent", !.previous = NoStatus]
    ELSE bench

\* _upsert_bench: an explicit clearing removes both labels; otherwise a row in
\* maintenance keeps them whatever the write says, and is never ONLINE.
UpsertBench(existing, bench) ==
    IF bench.label = "false"
    THEN [bench EXCEPT !.label = "absent", !.previous = NoStatus]
    ELSE IF existing.label = "true"
    THEN [status |-> IF bench.status = "OFFLINE" THEN "OFFLINE" ELSE "DEGRADED",
          label |-> "true",
          previous |-> IF existing.previous = NoStatus THEN existing.status
                                                       ELSE existing.previous]
    ELSE bench

\* _global_bench: the row an Agent's report stands for.
GlobalBench(status) == [status |-> status, label |-> "absent", previous |-> NoStatus]

\* The Agent takes an inventory snapshot; "MISSING" when the bench is gone.
AgentReports(status) ==
    /\ Len(reports) < MaxReports
    /\ reports' = Append(reports, status)
    /\ UNCHANGED <<board, journal, worked, newest, fleet, planned, alarms, pass,
                   opRequests, opCrashes>>

\* The row after a snapshot: benches it does not name go OFFLINE.
AfterSnapshot(report) ==
    IF report = "MISSING" THEN [board EXCEPT !.status = "OFFLINE"]
    ELSE UpsertBench(board, GlobalBench(report))

\* reconcile_snapshot: a snapshot generated before the newest is refused, the
\* same one may be applied again.
ReconcileSnapshot(n) ==
    /\ n >= newest
    /\ newest' = n
    /\ fleet' = [fleet EXCEPT !.agent = "ONLINE"]
    /\ board' = AfterSnapshot(reports[n])
    /\ UNCHANGED <<journal, worked, reports, planned, alarms, pass, opRequests, opCrashes>>

\* mark_agent_offline, after the presence monitor gave the Agent up.
MarkAgentOffline ==
    /\ fleet.agent = "ONLINE"
    /\ opRequests < MaxOpRequests
    /\ fleet' = [fleet EXCEPT !.agent = "OFFLINE"]
    /\ board' = [board EXCEPT !.status = "OFFLINE"]
    /\ opRequests' = opRequests + 1
    /\ UNCHANGED <<journal, worked, reports, newest, planned, alarms, pass, opCrashes>>

\* The fleet changes under the monitor: an Agent of an unsupported version
\* connects, or the bench's operations begin or cease to fail.
FleetChanges ==
    /\ opRequests < MaxOpRequests
    /\ opRequests' = opRequests + 1
    /\ \/ fleet' = [fleet EXCEPT !.agent = "INCOMPATIBLE"]
       \/ fleet' = [fleet EXCEPT !.flaky = ~@]
    /\ UNCHANGED <<board, journal, worked, reports, newest, planned, alarms, pass, opCrashes>>

----------------------------------------------------------------------------
(* Maintenance. *)

\* _default_maintenance_status: what the row's status says.
DefaultStatus(status) ==
    CASE status = "OFFLINE" -> "OFFLINE"
      [] status = "DEGRADED" -> "DEGRADED"
      [] OTHER -> "HEALTHY"

\* maintenance_state: the newest event of the journal, or the row's own status.
JournalState(row, state) == IF state = NoState THEN DefaultStatus(row.status) ELSE state

\* _maintenance_state: the label of the row overrides an event that is not
\* MAINTENANCE.
MaintenanceState(row, state) ==
    IF row.label = "true" THEN "MAINTENANCE" ELSE JournalState(row, state)

\* The row start_maintenance writes.
Labelled(row) ==
    [status |-> IF row.status = "OFFLINE" THEN "OFFLINE" ELSE "DEGRADED",
     label |-> "true",
     previous |-> IF row.previous = NoStatus THEN row.status ELSE row.previous]

\* Mutant: the journal is written first, so a crash leaves the bench in service.
MaintenanceWritesSwapped(crashes) ==
    /\ journal' = "MAINTENANCE"
    /\ board' = IF crashes THEN board ELSE UpsertBench(board, Labelled(board))

\* start_maintenance: the row first, then the journal.
MaintenanceWrites(crashes) ==
    /\ board' = UpsertBench(board, Labelled(board))
    /\ journal' = IF crashes THEN journal ELSE "MAINTENANCE"

\* Whether the handler is cut by a crash of the process after its first write;
\* a crash also loses the alert pass, which lives in memory.
PassInterrupted(crashes) ==
    /\ opRequests < MaxOpRequests
    /\ opRequests' = opRequests + 1
    /\ IF crashes
       THEN /\ opCrashes < MaxOpCrashes
            /\ opCrashes' = opCrashes + 1
            /\ pass' = NoPass
       ELSE UNCHANGED <<opCrashes, pass>>

StartMaintenance(crashes) ==
    /\ MaintenanceWrites(crashes)
    /\ worked' = TRUE
    /\ PassInterrupted(crashes)
    /\ UNCHANGED <<reports, newest, fleet, planned, alarms>>

\* The status end_maintenance gives back; _safe_bench_status.
Restored(row) ==
    CASE row.status = "OFFLINE" -> "OFFLINE"
      [] row.previous = NoStatus -> "ONLINE"
      [] OTHER -> row.previous

\* end_maintenance: refused (409) outside maintenance; the journal first, then
\* the row with its explicit clearing, so a crash leaves the label behind.
EndMaintenance(crashes) ==
    LET restored == Restored(board) IN
    /\ MaintenanceState(board, journal) = "MAINTENANCE"
    /\ journal' = DefaultStatus(restored)
    /\ IF crashes THEN UNCHANGED <<board, worked>>
       ELSE /\ board' = UpsertBench(board, [status |-> restored, label |-> "false",
                                            previous |-> NoStatus])
            /\ worked' = FALSE
    /\ PassInterrupted(crashes)
    /\ UNCHANGED <<reports, newest, fleet, planned, alarms>>

----------------------------------------------------------------------------
(* Scheduled reservations, as far as the analytics read them. *)

\* A reservation is scheduled ahead, and cancelled before it starts.
PlanChanges ==
    /\ opRequests < MaxOpRequests
    /\ \/ planned = "none" /\ planned' = "scheduled"
       \/ planned = "scheduled" /\ planned' = "cancelled"
    /\ opRequests' = opRequests + 1
    /\ UNCHANGED <<board, journal, worked, reports, newest, fleet, alarms, pass, opCrashes>>

\* Time passes: the start of the reservation enters the analytics window, and
\* at last the reservation leaves it.
WindowMoves ==
    /\ \/ planned = "scheduled" /\ planned' = "used"
       \/ planned = "cancelled" /\ planned' = "inverted"
       \/ planned \in {"used", "inverted"} /\ planned' = "none"
    /\ UNCHANGED <<board, journal, worked, reports, newest, fleet, alarms, pass,
                   opRequests, opCrashes>>

\* _reservation_interval: a reservation cancelled before its start, whose start
\* has passed, ends (released_at) before it begins (starts_at), which
\* OperationalInterval refuses; the whole analytics snapshot fails.
IntervalInvalid == planned = "inverted"

----------------------------------------------------------------------------
(* Alerts. *)

\* Mutant: an acknowledged alert no longer counts as active.
FindActiveOpen(type) ==
    {i \in DOMAIN alarms : alarms[i].type = type /\ alarms[i].status = "OPEN"}

\* find_active_alert: an alert of the identity that is not resolved.
FindActive(type) == {i \in DOMAIN alarms : alarms[i].type = type}

\* _alert_candidates: the conditions the pass saw.
AlertCandidates(row, agent, flaky, state) ==
    {type \in AlertType :
        \/ type = "AGENT_OFFLINE" /\ agent = "OFFLINE"
        \/ type = "INCOMPATIBLE_VERSION" /\ agent = "INCOMPATIBLE"
        \/ type = "BENCH_DEGRADED" /\ row.status = "DEGRADED" /\ state # "MAINTENANCE"
        \/ type = "REPEATED_FAILURES" /\ flaky}

\* reconcile_operational_alerts reads the benches and the Agents.  From here on
\* an acknowledgement is later than the pass's observed_at.
PassBegins ==
    /\ pass = NoPass
    /\ pass' = [stage |-> "listed", row |-> board, agent |-> fleet.agent]
    /\ alarms' = [i \in DOMAIN alarms |-> [alarms[i] EXCEPT !.late = FALSE]]
    /\ UNCHANGED <<board, journal, worked, reports, newest, fleet, planned,
                   opRequests, opCrashes>>

\* load_operational_snapshot reads the benches again, with what the analytics
\* need, and fails on an invalid interval.
PassLoads ==
    /\ pass.stage = "listed"
    /\ pass' = IF IntervalInvalid THEN NoPass
               ELSE [stage |-> "loaded", row |-> pass.row, agent |-> pass.agent,
                     again |-> board, flaky |-> fleet.flaky]
    /\ UNCHANGED <<board, journal, worked, reports, newest, fleet, planned, alarms,
                   opRequests, opCrashes>>

\* The maintenance states, with the rows read before.
PassReadsStates ==
    /\ pass.stage = "loaded"
    /\ pass' = [stage |-> "ready",
                seen |-> AlertCandidates(pass.row, pass.agent, pass.flaky,
                                         MaintenanceState(pass.again, journal))]
    /\ UNCHANGED <<board, journal, worked, reports, newest, fleet, planned, alarms,
                   opRequests, opCrashes>>

\* Mutant: only alerts nobody acknowledged are resolved.
ClearedOpen == {i \in DOMAIN alarms : alarms[i].type \notin pass.seen /\ alarms[i].status = "OPEN"}

\* The managed alerts whose condition the pass no longer sees.
Cleared == {i \in DOMAIN alarms : alarms[i].type \notin pass.seen}

\* add_or_get_active_alert: the candidates that have no active alert yet.
Created == {type \in pass.seen : FindActive(type) = {}}

\* reconcile_alerts, under the lock: one alert for every candidate that has
\* none; then the cleared ones are resolved, newest first, until one was
\* acknowledged after observed_at, where Alert.resolve fails and the pass ends.
ReconcileAlerts ==
    LET failing == {i \in Cleared : alarms[i].late}
        resolved == {i \in Cleared : \A j \in failing : j < i}
        kept == {i \in DOMAIN alarms : i \notin resolved}
    IN
    /\ pass.stage = "ready"
    /\ alarms' = [n \in 1..Cardinality(kept) |->
                     alarms[CHOOSE i \in kept : Cardinality({j \in kept : j < i}) = n - 1]]
                 \o SetToSeq({[type |-> type, status |-> "OPEN", late |-> FALSE] : type \in Created})
    /\ pass' = NoPass
    /\ UNCHANGED <<board, journal, worked, reports, newest, fleet, planned,
                   opRequests, opCrashes>>

\* acknowledge_alert: once; an alert that is resolved cannot be acknowledged.
AcknowledgeAlert(i) ==
    /\ opRequests < MaxOpRequests
    /\ alarms[i].status = "OPEN"
    /\ alarms' = [alarms EXCEPT ![i].status = "ACKNOWLEDGED", ![i].late = pass # NoPass]
    /\ opRequests' = opRequests + 1
    /\ UNCHANGED <<board, journal, worked, reports, newest, fleet, planned, pass, opCrashes>>

\* resolve_alert.
ResolveAlert(i) ==
    /\ opRequests < MaxOpRequests
    /\ alarms' = RemoveAt(alarms, i)
    /\ opRequests' = opRequests + 1
    /\ UNCHANGED <<board, journal, worked, reports, newest, fleet, planned, pass, opCrashes>>

----------------------------------------------------------------------------
OperationsInit ==
    /\ board = GlobalBench("ONLINE")
    /\ journal = NoState
    /\ worked = FALSE
    /\ reports = <<"ONLINE">>
    /\ newest = 1
    /\ fleet = [agent |-> "ONLINE", flaky |-> FALSE]
    /\ planned = "none"
    /\ alarms = <<>>
    /\ pass = NoPass
    /\ opRequests = 0
    /\ opCrashes = 0

PassStep == PassBegins \/ PassLoads \/ PassReadsStates \/ ReconcileAlerts

OperationsNext ==
    \/ \E status \in GlobalBenchStatus \cup {"MISSING"} : AgentReports(status)
    \/ \E n \in DOMAIN reports : ReconcileSnapshot(n)
    \/ MarkAgentOffline
    \/ FleetChanges
    \/ \E crashes \in BOOLEAN : StartMaintenance(crashes)
    \/ \E crashes \in BOOLEAN : EndMaintenance(crashes)
    \/ PlanChanges
    \/ WindowMoves
    \/ PassStep
    \/ \E i \in DOMAIN alarms : AcknowledgeAlert(i)
    \/ \E i \in DOMAIN alarms : ResolveAlert(i)

OperationsSpec == OperationsInit /\ [][OperationsNext]_operationsVars

OperationsTurn == focus = "operations"

\* The monitor starts a pass on a timer and runs it to its end; time passes.
OperationsFairness ==
    WF_operationsVars(OperationsTurn /\ PassStep) /\ WF_operationsVars(OperationsTurn /\ WindowMoves)

----------------------------------------------------------------------------
OperationsTypeOK ==
    /\ board \in BenchRow
    /\ journal \in BenchMaintenanceStatus \cup {NoState}
    /\ worked \in BOOLEAN
    /\ newest \in DOMAIN reports
    /\ fleet \in [agent: {"ONLINE", "OFFLINE", "INCOMPATIBLE"}, flaky: BOOLEAN]
    /\ planned \in {"none", "scheduled", "cancelled", "used", "inverted"}
    /\ \A i \in DOMAIN alarms :
          alarms[i] \in [type: AlertType, status: {"OPEN", "ACKNOWLEDGED"}, late: BOOLEAN]
    /\ pass.stage \in {"idle", "listed", "loaded", "ready"}
    /\ opRequests \in 0..MaxOpRequests
    /\ opCrashes \in 0..MaxOpCrashes

\* A bench an operator took out of service stays out, whatever snapshots,
\* offline marks and crashes follow, until maintenance has been ended in full:
\* its row carries the label and is not ONLINE.  And what the API reports
\* agrees with the row at every moment, also between the two writes: a bench
\* reported in maintenance is exactly one the row keeps out of service.
MaintenanceHolds ==
    /\ worked => board.label = "true"
    /\ board.label = "true" => board.status # "ONLINE" /\ worked
    /\ MaintenanceState(board, journal) = "MAINTENANCE" <=> board.label = "true"

\* However acknowledgements, resolutions and passes interleave, a condition of
\* a resource never has two active alerts.
OneActiveAlert ==
    \A i, j \in DOMAIN alarms : alarms[i].type = alarms[j].type => i = j

\* A bench under maintenance stays so in both stores, and a condition raises one
\* alert however often it is seen (operational_api.py, operational_state.py).
OperationsSound == MaintenanceHolds /\ OneActiveAlert

\* The conditions that hold now.
Conditions == AlertCandidates(board, fleet.agent, fleet.flaky, MaintenanceState(board, journal))

\* The active alerts are those of the conditions that hold.  It comes true for
\* good once the facts stand still, in spite of passes that read stale rows,
\* race acknowledgements or fail on a reservation of the window.
AlertsAgree == \A type \in AlertType : type \in Conditions <=> FindActive(type) # {}
============================================================================

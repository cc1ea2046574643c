# Lab Platform: a TLA+ model of its distributed core

Lab Platform shares hardware benches. One *control plane* keeps the global inventory,
reservations, remote commands, identity and artifacts; each *Agent* owns its benches, keeps its own
durable state and is the last authority on what its hardware does. The two talk over one WebSocket
per Agent that may be lost, superseded or slow, and either process may restart at any moment. An
Agent also works on its own, with its own reservations, queue and CI sessions.

The project has a module per component, 23 of them, and two (Artifacts, Services) that state what
several promise together; the abstract specification FencedLocks; SideBySide; three TLC modules
that put components side by side and two for the larger ones; and eight modules of TLAPS proofs. All paths below are relative to the repository root (`src/` in
`PROJECT.json`), which also has the list of hazards, each at its line with the properties that
watch it, and the source lines of every definition.

## Inventory

| Part | State it keeps | What is hard, and what must hold | Module |
|---|---|---|---|
| Central reservation leases, lease synchronizer, Agent lease store (`control_plane_core/reservations.py`, `control_plane/reservations.py`, `agent_runtime/leases.py`) | reservations, coordination records with a revision, lease history; one future per lease; the Agent's latest lease or tombstone per bench | the Agent is awaited in the middle of a handler; one owner per bench, disjoint calendar, fenced at the Agent, everything eventually released | LeaseCoordination |
| Remote commands, Agent journal, reconciliation (`commands.py`, `command_handler.py`, `command_journal.py`, `reconciliation.py`) | `remote_commands` and `distributed_operations`, written one after the other; `agent_command_journal` | redelivery, replay, restart; at most one execution, honest results | RemoteCommands |
| Event buffer, connection manager, gateway, hub (`sqlite_state.py`, `connection_manager.py`, `gateway.py`) | durable events, batch in flight, sequence counters, protocol journal | eviction in flight, superseded handlers, lost acknowledgements | AgentChannel |
| Presence, enrolment, drain, inventory (`presence.py`, `enrollment.py`, `drain.py`) | tokens, credentials, connection rows, Agent status | a timeout racing a reconnect, revocation during a handshake, work admitted while draining | AgentRegistry |
| Reservation queue, distributed workflows (`reservation_queue.py`, `control_plane_core/workflows.py`) | queue rows, workflow requests | a failed or retried request must not give the caller's lease away | WorkflowDispatch |
| Distributed CI sessions (`distributed_ci.py`) | `ci_sessions` rows | unlocked reads that write; crash between command and binding | CISessions |
| Agent CI sessions (`core/ci.py`) | the Agent's `ci_sessions` | a shared finalization racing launch, cancel and timeout | AgentCI |
| Agent reservations, queue, operations (`core/reservations.py`, `scheduling.py`, `services.py`, `recovery.py`) | reservations, queue, operation lock | overruns, quarantine, recovery | BenchScheduler |
| Agent workflow runs and cache (`core/workflows.py`, `agent_runtime/distributed.py`) | runs, steps, cached files and pins | cancellation at every await, shared cache | WorkflowRuns |
| Resource locks (`core/resources.py`) | catalog, locks, fencing tokens | shared devices, devices reported anew and benches recomposed under held locks, expiry | ResourceLocks, FencedLocks |
| Artifact transfers, retention, access (`control_plane_core/artifacts.py`, `core/artifacts.py`, `retention.py`, `artifact_access.py`) | artifact rows, objects, transfer capabilities, claims | uploads that outlive their connection, lapsed claims, parents that change | ArtifactTransfers, ArtifactRetention, ArtifactGuard |
| Maintenance and alerts (`operational_api.py`, `operational_state.py`) | bench label and journal | two stores, no transaction | BenchOperations |
| Authorisation, identity, command admission (`authorisation.py`, `identity.py`, `identity_admin.py`, `oidc.py`) | roles, policies, users, sessions, credentials, decisions | decisions reused or read before awaits | Access, Identity, CommandAdmission |
| Stores (`distributed_adapters.py`, `persistence/distributed.py`) | command, attempt, report and connection rows | compare-and-set against stale copies, claims | CommandStore, ProtocolStore |
| Migrations, backup (`migrations.py`, `backup.py`) | schema, archives | a crash between any two statements or moved files, content removed before its row | SchemaMigration, BackupRestore |
| Analytics (`operational.py`, `operational_analytics.py`) | none | interval and window boundaries | Analytics |
| Agent start-up, plugins (`plugins/manager.py`, `backend_registry.py`) | plugins, backends, routes | a failure in any call | AgentLifecycle |
| Decision engine, hardware backends, configuration, CLI, web | | not modelled: advisory scoring, device I/O, presentation | |

Interaction: a client calls the control plane; a lease is offered to the Agent and awaited; a
command is written, sent and answered by events, which the Agent buffers durably and sends in
batches, one unacknowledged batch at a time. On every (re)connect the control plane asks for a
report and reconciles interrupted commands first, then leases, then dispatches interrupted and
queued commands again. The monitor (`control_plane/runtime.py`) ends whatever nobody else ends;
each of its passes is an action of the module of what it works on.

## The modules

A repository call, or a handler between two awaits, is one step: both processes are single event
loops over synchronous databases, so nothing interleaves inside. Where a handler awaits, it is cut,
and what it remembers across the await is a variable.

**LeaseCoordination.** `record` is a reservation row with its coordination record (state, bench,
version, interval, grace deadline, revision). `history` is `reservation_leases` of a bench,
append-only, so that index and version coincide. `waits` are handlers suspended in `apply_lease`,
with the revision they read before the await; two waits on one (reservation, version) share the
future. `monitor` is the maintenance task; `presence`, `session` and `link` are three different
opinions of whether the Agent is connected (database row, hub session, transport). `down` and `up`
are the two bounded queues, `store` the Agent's table. `now` is the control plane's clock, the
Agent's is `now + AgentOffset`. Actions: `Grant`, `Retry`, `Schedule`, `CancelScheduled`, `Renew`,
`Release` (release and revoke); `Conclude` and `TimeOut` resume a suspended handler;
`MonitorExpire`, `MonitorActivate`, `MonitorFinish`, `MonitorOffline`; `Connect`, `LinkLoss`,
`SessionEnds`, `ControlPlaneRestart`, `AgentRestart`, `HealthChange`; `AgentApplies`,
`AgentReleases`, `AgentReports`; `Confirm`, `Reconcile`; `Tick`. A loop over records that may raise
half way (`mark_agent_disconnected`, `expire_due`, `Reconcile`) takes effect on a subset when one
of its records is bad and on all of them otherwise.

**RemoteCommands.** `status` and `op` are the two tables; `ttl` and `op.deadline` are the time left
on their timers, lowered by `Tick`. Agent timestamps are only ever compared with each other, per
command, so they are ranked: rejected, received, started, completed (`Stamp`). `journal`, `task`,
`buffer`, `batch`, `outbox` and `boot` are the Agent's; `wire` and `down` carry messages and are
lost with the connection; `replay` is what the reconciliation handler has yet to dispatch again.
`runs` and `routed` are history variables. `Accepted`, `Rejected` and `OperationEvent` give the two
rows a handler leaves and whether it raises: an exception in the gateway's reader closes the
connection. The journal entry and the terminal event are separate steps, because a crash may fall
between them. Progress events count as RUNNING; the reasons for a rejection are one choice. The two
models meet in one place: lease reconciliation may raise after the commands were reconciled (the
second disjunct of `ReceiveReport`), and a command whose lease is not ACTIVE is skipped by the
replay (the last disjunct of `Redispatch`).

**AgentChannel** is the channel RemoteCommands assumes, in detail: `rows` and `meta` are the event
buffer and its control row (a set of rows with sequence numbers, as in the table; `PeekedRows` is the
query that orders and limits them), `flight` the batch in flight, `wire` and `queue` the two directions of
each connection, `hub` the connection that is current, `gate` the gateway's handler of each
connection, `msgJournal` the protocol journal. The handler of one message is three steps
(journaled, routed, acknowledged) and the process may die, or the connection be superseded, between
any two. `AppendEvent` coalesces, evicts, and writes the overflow marker in one transaction.

**AgentRegistry**: one-time tokens, credentials, rotation and revocation; the connection row and
the Agent's status; heartbeats and the monitor's timeouts; drain against work admitted meanwhile.
A handler suspends between authentication, registration and each message (`link`), where anything
else interleaves. `silence` is how long the row has been quiet, in units of the two timeouts.

**WorkflowDispatch**: one bench, queue entries and workflow requests. `heldLease` is whom it was
granted to; `call` is where a request's call is between its awaits; `ReleaseTerminal` is the
lifecycle pass that gives leases back.

**CISessions** and **AgentCI** are the two CI services. In the first a session's lock is held by
`task` while `reader` is the row an unlocked `get` has read; in the second every handler that has
read the row and awaits keeps its copy (`cancelling`, `finalizing`, `seen`, `due`).

**SchemaMigration** runs each migration as a program of SQL statements with the transaction rules
of `sqlite3` and of the PostgreSQL adapter, and may be interrupted between any two.

**ResourceLocks** has the catalog, the lock manager and the reservation coordinator. `UpsertResource`
replaces the whole record of a device (its source, kind of sharing, channels and health) with one of
`Reports`, whatever is locked or bound under the former one, and refuses another Agent or plugin; a
binding is checked only when its bench is registered (`ValidBinding`), and the keys of an acquisition
come from the record of that moment (`KeyOf`). `mixed` are the devices whose last change of record
named a kind of sharing that did not fit a lock or binding of then. `promised` and `tokensIssued` are
history variables.
**FencedLocks** is the abstract specification it implements: a key has at most one holder, passes
from one to another only by being free, and its fence rises by one with every taking. The
refinement maps `holder` to the owner of the lock that has not expired and `fence` to the fencing
token counter.

**BenchScheduler**: the Agent's timed reservations and FIFO queue, the operation lock, operations
and probes cut where they await the backend, the scheduler loop cut where it awaits the network,
and recovery. The policy selects the first of the queue's places that still wait (`Waiting`). **WorkflowRuns**: the
remote executor, the checksum cache with its pins, the runner and its steps; a cancellation is a
mark that the task finds at its next await. The cache is a set of files with the order of their last
use (`cached`, `older`), as the directory with its modification times is.

**ArtifactTransfers**: registration by the durable event, capabilities, uploads that overlap.
**ArtifactRetention**: idempotent uploads, deletion by a user, claims that lapse, tombstones, the
Agent's own sweep. **Artifacts** states what the two promise together. **ArtifactGuard**: access to an artifact through its parents.

**BenchOperations**: maintenance in its two stores, snapshots, alerts. **Access**: roles, teams,
policies, request scopes, lists and streams. **Identity**: logins, sessions, credentials, OIDC and
the bootstrap command, a second process. **CommandAdmission**: decisions, snapshots and
idempotency keys before a command is created, replayed or cancelled. **CommandStore** and
**ProtocolStore**: the compare-and-set rules of the repositories against callers that hold stale
copies. **BackupRestore**: archive and restore with a failure or kill at any step. A deletion removes
the content and, in a later step, the row; `gone` are the artifacts whose content was not there when
the backup listed the store. A restore into a directory stages, displaces, installs, and then removes
what it displaced (`"removing"`): that removal is outside the `try`, takes one file at a time, and
when it raises nothing is undone (`FailRemoval`). **Analytics**: the pure
algorithms against direct definitions. **AgentLifecycle**: start, failure and shutdown by stages; a failed start whose connection does
not stop is `"abandoned"` with all it had running.

**Services** extends the components of the run `services` and states what they promise together:
`AuthoritySound`, `StoresSound` and `WorkSound` (`RecordsSound` is both), `StepsHold`.

**SideBySide** declares `focus`. Components that share no state are checked in one run: a
behaviour is the steps of one component, chosen at the start, while the others keep their initial
state; the choices another component makes at its start are fixed then. The fairness of a
component is that of its steps while it has the focus. Nothing is lost by this: there is no shared
variable through which an interleaving of two such components could matter.

## Runs

| Run | Expectation | Question |
|---|---|---|
| `lease_safety` | holds | two reservations, one bench, both processes restarting, the Agent's clock one unit behind within the skew: exclusive (`SingleOwner`), disjoint (`CalendarDisjoint`), fenced at the Agent (`Fenced`), never regressing there (`AgentNeverRegresses`), final (`NoResurrection`) |
| `lease_liveness` | holds | every ownership ends (`OwnershipEnds`) and every schedule is resolved (`ScheduleResolved`) as long as the monitor is not dead and no record was released behind its back |
| `lease_leak` | violated | reconciliation releases only the history row, after which `expire_due()` raises for ever (docs/PHASE_5.md:141 promises the opposite) |
| `lease_monitor` | violated | a client's timeout cancels the future it shares with the monitor and ends the monitor task |
| `command_safety` | holds | at most one execution (`AtMostOnce`), success only if journaled (`HonestSuccess`), a cancelled command never runs to another outcome (`CancelledIsFinal`), final states final on both sides (`TerminalStable`), no unrouted event leaves the buffer (`NoEventLost`) |
| `command_liveness` | holds | the command or its operation ends (`CommandsResolve`), except behind a blocked event stream |
| `command_replay` | violated | the replay of an event that was already applied closes the connection (docs/PHASE_5.md:145) |
| `command_blocked` | violated | the late acceptance of an expired command is never acknowledged and blocks all later events (docs/PHASE_5.md:143) |
| `command_finalize` | violated | a terminal journal entry does not finalize an operation that never became UNKNOWN (docs/PHASE_5.md:134) |
| `fleet` | holds | AgentChannel (`NoSilentLoss`, `OverflowReported`, `StatusHandledOnce`), AgentRegistry (`PresenceHonest`, `RevokedStaysOut`), WorkflowDispatch (`CallersLeaseKept`), CISessions, AgentCI (`PassedMeansClean`), SchemaMigration (`UpgradesAreSafe`), ResourceLocks (`LocksHold`, the refinement `LocksAreFenced`); and under their fairness (`FleetLive`) events are delivered, dead connections' rows closed, drains completed, leases given back, CI sessions over, upgrades complete |
| `benches` | holds | BenchScheduler, WorkflowRuns (`RunRecordTrue`, `HardwareUse`), ArtifactTransfers and ArtifactRetention (`ArtifactsSound`), BenchOperations (`OperationsSound`), Access (`AccessSound`); and `BenchesLive`: no overrun lasts, benches come free, registered files arrive and expired ones go, streams end with their login, alerts settle |
| `services` | holds | Identity, CommandAdmission, ArtifactGuard (`AuthoritySound`), CommandStore, ProtocolStore, BackupRestore, AgentLifecycle, CISessions with crashes (`RecordsSound`), BenchScheduler with two requests (`BookingsSound`), Analytics (`AnalyticsExact`), and what steps of these may never do (`StepsHold`) |

Several properties are conjunctions with a part per component: `ArtifactsSound` in Artifacts,
`ServicesTypeOK`, `AuthoritySound`, `RecordsSound` and `StepsHold` in Services. They hold of all
components in every state, also of those without the focus, and so have the form in which they are
proved. The others (`FleetTypeOK`, `BenchesTypeOK`, the liveness properties and `AnalyticsExact`)
speak of the component with the focus.

The passing liveness properties of the first two components are stated around the behaviours the
violated runs exhibit; each exception is a named predicate (`Starved`, a dead monitor, `Blocked`)
and has a run that shows it happens. `CommandsResolve` says *the command or its operation*: when
`accepted()` fails between its two writes and the operation is then finished by reconciliation or
by the timeout, the terminal event is stale and the command row stays ACCEPTED. `OverflowReported`
excludes a drop while the marker is in flight (`masked`): the acknowledgement then removes a marker
whose payload was rewritten after it was sent.
`LocksHold` lets a device be held whole beside a channel of it only where it is `mixed`, and
`ArchiveIsWhole` lets an archive lack only what is `gone`; both are listed under Known disagreements. `MigrationCompletes` excludes a production profile on
SQLite, where `db migrate` refuses a half-installed file.

**Bounds.** Leases: `MaxTime` 4 or 5 with `LeaseTTL` 1 and reservations of 2 or 3 units: a lease is
renewed, lapses or enters and leaves its grace period within a reservation. `MaxVersion` 2: a
renewal, or a second owner after the first. `MaxConnections` 2: one loss, crash or restart at any
point and a reconnect. `MaxQueue` 2: the queue can overflow. Releasing and revoking differ only in
the final state recorded, so `lease_safety` has `Endings` release alone; the other lease runs and
the proofs have both. Two reservations are what a conflict needs; the proofs cover any number.
`MaxFaults` 1 in the command runs (2 in `command_replay`): one link loss, crash, restart or failed
lease reconciliation, besides the connections the code closes by itself, which are not bounded, and
any number of reconnects. One command: commands of an Agent share only the connection and the
buffer. `BatchSize` 2 (1 in `command_liveness`): a batch is cut short between two events.

In `fleet`, `benches` and `services` each component has the smallest instance in which its hazards
occur: a buffer of one row with two events that coalesce and one that evicts them, batches of two,
two connections; one Agent with two handlers; a queue entry and a workflow request of two calls;
a device with two channels, which each report may call exclusive or shared by channel, and which
another plugin may have reported first, and two benches that want it whole or by channels of which
they share one (a device that is shared by all needs no lock: the proofs have it, the run does not); two commands with the same or
different firmware on one bench and a cache of one file; two uploads or two workers on one
artifact; a user, an owner, a service and a team. `Max...` constants count faults, crashes,
requests and versions; each occurs in the guard of the action it bounds. `MaxAborts` 2: an upgrade
is interrupted, tried again and interrupted again. A crash of the CI service is explored in
`services` (`MaxCiCrashes` 1), liveness without one in `fleet`; backups start from an empty database
there, from which uploads lead to every other; two timed requests are explored in
`services`, a crash with one of them in `benches`. The runs visit some 375, 230 and 1000 thousand
states; `command_safety`, the largest, 1.4 million. Every action and disjunct fires in the passing
runs. Deadlock is not checked: when all time has passed and all work has ended the systems rightly
stop.

**Fairness.** Leases: the clock, the monitor's steps (its loop catches every `Exception`), the end
of its bounded wait, and delivery on a live link. `MonitorActivate` is strongly fair per
reservation since each iteration visits every due one; `MonitorFinish` switches it off in between.
Nothing is assumed of clients, reconnects or the link. Commands: also `Connect`, because
`AgentConnectionManager.run()` dials again for ever, `SessionEnds`, because the gateway's `finally`
runs, and the return of an executor. The command model assumes a monitor that survives; the run
`lease_monitor` shows the one way it does not. Elsewhere weak fairness is given to loops that run
for ever (the Agent's writer, reader and dialling, the monitor, the scheduler, the retention
workers, the event stream), to handlers that have begun, to time-outs, and, for an upgrade, to an
operator who tries again. Strong fairness is used twice: CI maintenance, which waits for a session's
lock that is granted in order while handlers come and go, and the Agent's reader of upload
requests, which a lost connection disables again and again. Nothing is assumed of clients, CI jobs,
uploads or other users. Faults are bounded, so liveness speaks of what happens once they cease.

## Proofs

Every theorem holds for all values of the constants that satisfy the named assumption of its
module: finite or arbitrary sets, positive sizes and durations, a clock offset within the skew, and
names that differ from the values that stand for "nobody". Bounds such as `MaxFaults` are constants
too, so a theorem covers any number of faults. Each proof has one step per action and, below it,
one per part of the invariant the action can disturb.

| Module | Theorems |
|---|---|
| LeaseCoordinationProofs | `InvariantHolds`; `TypeCorrect`, `SingleOwnerHolds`, `CalendarDisjointHolds`, `FencedHolds`; action properties `AgentNeverRegressesHolds`, `NoResurrectionHolds` |
| RemoteCommandsProofs | `InvariantHolds`; `TypeCorrect`, `AtMostOnceHolds`, `HonestSuccessHolds`, `CancelledIsFinalHolds`; action properties `TerminalStableHolds`, `NoEventLostHolds` |
| FleetProofs | `LocksInvariant`; `LocksHoldAlways`; the refinement `ImplementsFencedLocks`; `DispatchInvariant`; `CallersLeaseKeptHolds`; `MigrationInvariant`, `MigrationTypeCorrect`, `UpgradesAreSafeAlways` |
| AgentCIProofs | `AgentCiInvariant`; `AgentCiTypeCorrect`; `PassedMeansCleanHolds` |
| AgentRegistryProofs | `RegistryTypeCorrect`; `PresenceHonestHolds`; the action property `RevokedStaysOutHolds` |
| AgentChannelProofs | `ChannelInvariant`; `NothingLostSilently`, `OverflowIsReported`, `StatusesHandledOnce`; `AcknowledgementsFit`; `ChannelTypeCorrect` |
| BenchesProofs | `AccessSoundAlways`, `AccessTypeCorrect`; `RunRecordTrueAlways`, `HardwareUseAlways`; `OperationsSoundAlways`, `OperationsTypeCorrect`; `ArtifactsSoundAlways`; `BookingsSoundAlways`, `SchedulerTypeCorrect` |
| ServicesProofs | `AuthoritySoundAlways`, `AuthorityTypeCorrect`, `StoreConsistentAlways`, `ReportsFencedAlways`, `ArchiveIsWholeAlways`, `RestoreIsSafeAlways`; action properties `AdmittedNowAlways`, `RetiredStaysRetiredAlways`, `RevokedAccountsEndAlways`, `SettledRowsStayAlways`, `OutcomesAreFinalAlways`, `RoutesHoldAlways`, `QuarantineHoldsAlways`; together `ServicesTypeCorrect`, `RecordsSoundAlways`, `StepsHoldAlways` |

**Leases.** None of the invariants is inductive alone. `Fenced` relates the control plane's record
to the Agent's store, and between the two lie a suspended handler, two message queues and a
history. The inductive invariant `Inv` says that a lease is the same thing wherever it appears:
`RecordInv`, `WaitInv`, `DownInv`, `UpInv` and `StoreInv` each say that a lease with version *v* of
bench *b*, in a record, a suspended handler, a message in either direction or the Agent's store, is
row *v* of *b*'s append-only history, that a current record names the newest row of its bench, and
what a confirmed wait or a confirmation under way implies of the store. One owner follows because
two current records of a bench would both name the newest row; fencing because a confirmation
implies that the store had reached that version and nothing newer exists. `CalendarDisjoint` is
proved apart, from `Inv`: every step but a new booking leaves each reservation alone or keeps the
bench and interval of one that was booked (`Orderly`), and a new booking is written beside all
others.

**Commands.** `HonestSuccess` compares a table of the control plane with the Agent's journal, but
what is written to the table comes from an event that was buffered, batched and sent, or from a
report, long before. So the invariant follows the command through all of them. `AgentInv`: task,
journal and the count of executions agree, whence at most one. `UnsentInv`: a command that was never
dispatched is unknown to the Agent and the network. `CancelInv`: where a cancellation was recorded.
`EventInv`: an event in the buffer, the batch or on the wire is about a command whose journal is at
least that far, and a terminal one *is* its journal entry; `OutboxInv` and `WireInv` say the same of
reports and of messages. `BatchInv`: the batch on the wire is a suffix of the batch in flight, whose
events before it were routed, and that batch is a prefix of the buffer. `AckInv`: an acknowledgement
under way is for the batch in flight, all of it routed, and excludes the batch being on the wire.
`NoEventLost` is then immediate: an acknowledgement removes the batch in flight.

**Locks.** `PromisesKept` is inductive given the types, since a promise that has not run out is
covered by locks that last as long; `TokensCounted` (each token handed out was counted, and to one
party) gives the uniqueness of fencing tokens. That a device is not held whole beside a channel of it
needs `SharingInv`: unless the device is mixed, every lock and binding of it, and so every promise,
fits its present kind of sharing, when it is known, and none is whole beside a channel. A report keeps this by the definition of `mixed`, and an
acquisition because the keys it computes fit the record it computes them from. In the refinement an acquisition or renewal takes the
keys that are free and keeps those the claimant has, expiry and release drop keys, and discovery
stutters.

**Workflows.** A released lease needs a reason: the entry was cancelled, or a workflow that was to
give it back ended under exactly its version. The proof shows that reasons stay (`ReasonsStay`: a
cancelled entry stays cancelled, a finished command keeps its version, a lease that ended is not
renewed) and that each of the three actions that release has one.

**Agent CI.** Three handlers hold a copy of the row across an await. `RowsTrue` says of each copy
what remains true of it whatever the others write, `ReadsAreBehind` that a copy cannot be of a later
stage than the row, and `CleanMeansReleased` that the finalization that calls itself clean has seen
the bench released; together with the types they are inductive.

**Registry.** The type invariant is inductive by itself. `PresenceHonest` is proved from it and a
description of what a step does to one Agent's row (`RowsMove`), so that the many handlers are
analysed once; `RevokedStaysOut` is a step property of the same kind.

**Channel.** An acknowledgement removes rows by sequence number, and what it was sent for was read from
the buffer one connection, or several, before. So `ChannelInv` follows the batch in flight.
`BufferInv`: rows and control row agree, sequence numbers are unique and below the next one, and the
marker's row counts every drop. `FlightInv`: the batch has a copy of every row its acknowledgement will
remove, the marker's no newer than the row. `Messages`: on every connection, also those that were
superseded, a message about that batch carries exactly it, and an acknowledgement of it means that all
of it was routed. `OnePlace`: on the Agent's connection the batch is in one place, on its way, with the
gateway's handler or in its acknowledgement; whence `AcknowledgementsFit`, that the reader's protocol
error for an acknowledgement of something else (`connection_manager.py:774-796`) never arises.
`NoSilentLoss` is then a statement about cardinalities: each row that leaves without having been routed
raises a counter in the same transaction. `Reports` ties the total last reported to the marker through
the same places, and holds with `masked` as its exception, for the reason given under Runs. `Statuses`:
a status that is being handled is in the journal and has one handler. The types include the capacity
of the buffer, and for that `BoundInv` counts: ordinary rows are at most `Capacity`, an event has one
row, a coalescing key points to a row of its own (`Pointing`), and the watermarks of the two sides are
in order.

**Access.** Lists and gets, and what the dashboard offers and the server accepts, agree in every
state, whatever the policies: these are facts about the operators. The history is in `Authority`:
work on record was allowed when it was begun, and steps that change policies leave it alone.

**Workflow runs.** `RunsInOrder` relates the run's row, its steps and its task: what precedes the
step that is executed has passed, what follows has not begun, and a row is closed exactly when its
task is over; `RunRecordTrue` follows. `HardwareSafe` adds what the hardware needs: `LocksHeld` (who
fetches or drives a bench holds its lock), `FilesKept` (who needs a file finds it in the cache),
`PinsCount` (a digest has at least as many pins as commands that hold it: an inequality, since a
cancelled wait leaks a pin) and `RolesClear` (a task that nobody awaits was told to stop).

**Operations.** `LabelTrue`: the label on the inventory row, the journal and the bench's status agree
as far as two stores without a transaction can, the journal never ahead of the row. `OneActiveAlert`
is inductive with the types.

**Artifacts.** Transfers are a sequence of rows and most steps write one of them, so their effect is
described once (`Aged`: a row keeps what it is about, a closed one is not opened, one is completed only
with its content stored). `TransferInv` adds that capabilities, requests and uploads name issued rows.
In `RetentionInv`, `ClaimsHold` says that whatever a worker has picked was claimed, that a claim is
never taken back, and that nothing is claimed while the owner is active; `OneRowPerKey` and
`AnswersListed` follow a retried upload to its row.

**Scheduler.** `BookSound` (at most one owner; live intervals are proper and disjoint), `QueueSound` (the
queue is in order of arrival, each entry in it once) and `LockMatchesHolder` are inductive together:
while an operation or an owner's probe holds the operation lock, the reservation of that owner still
holds the bench, also past its end, and during maintenance nobody's does. `QuarantineInv`: a bench that awaits a probe is offline, and a restart awaits none.

**Authority.** `GuardInv` and `AdmissionInv` say of each row what its evidence was: `CallsRead` that a
suspended call names a lease version it has read, `RowsHaveEvidence` that a principal's command has the
decision stored with it, `ShownAllowed` what the last step let out. `IdentityInv` follows a request
through its awaits: what it has read of sessions still describes them (`SessionRows`), credentials of
a revoked account are revoked (`CredentialRows`), and a pending OIDC login was not exchanged
(`PendingOnce`). `SessionsAge` and `CredentialsAge` describe the effect of every step.

**Stores.** In `StoreInv` a writer's copy may be stale but not foreign (`CopiesBehind`: what is never
rewritten is as it was read), which is why the compare-and-set suffices; `AttemptsCounted`: the attempts
of a command are exactly 1 to its count, by cardinality. In `ProtocolInv` a handler that applies a
report holds its claim (`ApplyingIsClaimed`), no two apply the same content (`AppliedByOne`), a content
is applied exactly when a claim on it is complete (`AppliedIsComplete`), and an Agent has one open
connection (`LinksInOrder`).

**Backup.** A verified archive is whole because of an order: the database is dumped before the files
are listed, and copied after. `DumpCovered` says where, at each stage, the files the dump refers to
are, or that they are `gone`: removed before the listing. A restore is described by `RestoreAt` and, for a local directory, by where each file is (`Placed`:
installed, set aside, or untouched), so that undoing puts back what was found; `OldKept` says that an
old file is in one of these places until an attempt has installed its last file; after that the store
holds exactly the archive, whether removing the old files ends, raises or is killed.

**Start-up.** `LifecycleInv` has a part per phase: while plugins are loaded those before the next are
decided (`LoadingInOrder`), then exactly the expected ones are up and tracked (`ServingInv`), and while
stopping whatever still runs is tracked (`StoppingInOrder`). An abandoned start claims only what it
had when it was abandoned. `OwnersKnown` suffices for `RoutesHold`.

**CI sessions.** `CiInv`: the row, what an unlocked reader has of it and what the working task took are
each of a kind the code writes (`RowTrue`, `TaskInv`), only what was released or never held counts as
freed, and so a completed row holds no lease that still lives and a successful one has no cleanup
left to do.

**Upgrades.** What a run still has to do is the sequence `todo`, so `MigrationInv` speaks about what
may be in it. A part is loaded from its program in one step, and the lemmas on the thirteen programs
say, for every database and every set of versions read at the start, what each can contain; after
that a statement only takes the head off. `Ordered`: an old table is dropped only directly between the
copy and the renaming, so a rebuild is never begun without its end. `Ready` (with `Carried`): when the
old table is due to be dropped, the new one has its rows, in a transaction that is open, so that an
interruption restores the old. `RowsKept` is the first half of `UpgradesAreSafe`, from these. For the
second, `WorkDone` and `ShapesDone` say that what the parts begun so far are for is there or is
still in `todo`; a run that ends has an empty `todo` and all parts behind it, hence a complete schema.
Parts skip what a recorded version promises, and a statement that commits by itself may leave a
version without its work: `Recorded` says what versions 3, 4 and 10 imply, `RecordsLast` that these
are written after the work of their part, `InPlace` that no statement undoes version 10's tables once
it is recorded.

**What proving changed.** `StatusAfterTimeouts` of AgentRegistry and two definitions of
Access had `CASE` arms that overlap, which TLC resolves by taking the first and the semantics of
TLA+ leaves open; they are now conditionals in the order of the code. Names that stand for nobody had
to be assumed different from names that are somebody's, in ResourceLocks, Identity, CommandAdmission
and ProtocolStore; and no component appends the event type the buffer makes itself. Insertions into
the middle of a sequence and filters on one cannot be reasoned about without induction, so the
rows of AgentChannel and the cached files of WorkflowRuns are sets with an order, as the table and the
directory are, and the scheduler's queue is read through the places that still wait. Properties that
join components were moved from the MC modules to component modules and freed of the focus, which
makes them stronger: they now hold of the components that do not move, too.

**Only model-checked.** Every liveness property (fairness and `ENABLED` are outside the prover's
reach). Parts of `FleetTypeOK` and `BenchesTypeOK`: the types
of runs, retention rows and workflow requests, of which the proofs use what they need
(`WorkRows`, `RetentionTypes`, `DispatchTypes`), and that an outbox of upload requests stays within
its bound, which holds for the few artifacts of the instance. `AnalyticsExact`: recursion over data.

## Known disagreements

Behaviours of the code met while modelling that no run is spent on. Those marked * are behaviours of
the models; the properties are stated so that they are allowed.

- Presence: `check_timeouts` moves a DRAINING or DRAINED Agent to DEGRADED and its next heartbeat to
  ONLINE, which undoes the drain (docs/PHASE_5.md:149-151).* A credential rotation closes only the
  session attached at that moment (`runtime.py:1181`).* The drain flag on the Agent is memory only.
  Presence writes on a revoked but connected Agent break a CHECK constraint, so `check_timeouts`
  raises in every pass. A lost response to an enrolment or a rotation locks the Agent out.*
- Channel: a drop while the overflow marker is in flight is never reported by itself.* A message
  pushed between `attach()` and WELCOME breaks the handshake (`gateway.py:724-728`), and the WELCOME
  of a superseded handler goes to the newer session.* A status journaled but not handled before a
  crash is skipped when it is replayed (`gateway.py:841`).*
- Queue and workflows: when a grant's outcome is UNKNOWN, or the process stops between the grant and
  `mark_promoted`, and the user then cancels, the lease stays without the release docs/QUEUEING.md
  describes.* A retry whose staging fails releases the lease although the first attempt's command is
  live (`workflows.py:780-786`).* A crash after the grant leaves the lease until it expires.* A
  renewed lease is never released automatically.*
- CI: after a crash between `coordinator.run` and `attach`, a timeout or cancellation completes the
  session while its command runs; so it does when `run` raises after it has created the command.* On
  the Agent, a finalization that read a WAITING session may complete it while `try_assign` reserves
  the bench (`ci.py:733-750`, docs/CI_CLEANUP.md).* A failed cleanup is not tried again.*
- Agent scheduler: a failing release of the operation lock is only logged (`services.py:242-252`).*
  Quarantine is memory only (docs/RECOVERY.md:38).* An owner's probe that overruns cannot be
  cancelled.* The reservation behind a workflow stays after an Agent crash until it expires
  (`runtime.py:897`).
- Artifacts: ARTIFACT_CREATED redelivered after the upload finished raises for ever
  (`distributed_adapters.py:1134-1153`, against `gateway.py:838-840`).* An upload request within
  five seconds of the last is dropped, also after a reconnect.* `expire_due` does not ask for active
  owners (`core/artifacts.py:365`).* Cancellation while waiting for a cache file's lock leaks a pin,
  and concurrent downloads may exceed the cache's size.
- Identity: the last active owner can be disabled (`persistence/identity.py:393`,
  docs/LOCAL_AUTH.md:152-153).* A crash between disabling a user and revoking the sessions leaves
  these alive.* Bootstrap recovery overlaps a login, and both write the whole user row.*
- Authorisation: an SSE slot leaks when the response generator never starts. A request scope's cache
  is used across the awaits of an upload.* Promotion from the queue acts with internal authority.*
  Before a CI session is bound to it, an operation's artifacts need no session permission; artifacts
  of a WORKFLOW_RUN never check the session.* A change of display name makes the owner's own retry a
  conflict.*
- Backup and upgrade: a restore whose artifact half fails has already replaced the database
  (`backup.py:845-860`).* `pg_restore` is not run in one transaction.* Content is removed before its
  row (`core/artifacts.py:351-356`, `core/retention.py:239-245`), so a backup begun between the two,
  or while both happen, verifies without content its database names (docs/BACKUP_RESTORE.md:3-4:
  complete only when both "can be recovered together").* When the removal of the old files after a
  restore raises or is killed (`backup.py:448`), a failure is reported although the archive is in
  place, and part of the old files stays in the transaction directory.* An interrupted fresh SQLite
  install is refused by `db migrate` as too old (`database_management.py:115`).*
- Operations and analytics: a reservation cancelled before its start makes `_reservation_interval`
  raise (`operational_analytics.py:338-352`). `Alert.resolve` raises on an older `observed_at`.
- Resource locks: a device reported first as exclusive and later by channel, or the other way round,
  while it is locked or bound can be held whole by one reservation and by channel by another, since
  `upsert_resource` does not look at the locks and `_lock_keys` uses the present record
  (`core/resources.py:48-60`, `:324-335`; docs/HARDWARE_SETUP.md:145, "A second bench cannot acquire
  the same exclusive channel"; docs/PHASE_9.md:34, "atomic channel-aware locking").* A binding is
  not checked again when its device is reported with other channels.*
- Stores and start-up: a start that fails and whose connection does not stop either leaves plugins,
  backends and the database open (`runtime.py:423-432` of the Agent).* A crash while a report is
  PROCESSING leaves its claim for ever.* A second plugin of the same name overwrites the first one's
  information.* `LabAgent.start` catches only `Exception`. A lock acquired again with an earlier
  expiry is shortened.*

## What is left

1. The remaining parts of `FleetTypeOK` and `BenchesTypeOK` (runs, retention rows, workflow requests).
2. `AnalyticsExact` needs induction over data, and the liveness properties need `ENABLED`: both stay
   with TLC.

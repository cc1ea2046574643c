--------------------------- MODULE RemoteCommands ---------------------------
(***************************************************************************)
(* Remote commands: the control plane's RemoteCommandService with its two  *)
(* tables (remote_commands, distributed_operations, written separately),   *)
(* the Agent's durable command journal and process-local execution tasks,  *)
(* its durable event buffer with one batch in flight, and the command half *)
(* of reconciliation after a reconnect.  One Agent executes every command. *)
(*                                                                         *)
(* Database calls are synchronous inside one event loop, so a handler is   *)
(* one step; a batch is routed one event per step, since each event is its *)
(* own pair of transactions and a crash may fall between them.  Time is    *)
(* kept as the time left on each timer: `ttl' of a command and `deadline'  *)
(* of an operation, which Tick lowers.                                     *)
(***************************************************************************)
EXTENDS Integers, Sequences, FiniteSets

CONSTANTS
    Command,          \* command identities (one idempotency key each)
    Lifetime,         \* expires_at - created_at
    Timeout,          \* reconciliation_timeout_seconds
    Skew,             \* maximum_clock_skew_seconds of the Agent
    QueueOffline,     \* queue_commands_while_offline
    BatchSize,        \* event_batch_size
    MaxQueue,         \* outgoing_queue_size, both directions
    MaxFaults,        \* bound: link losses, restarts and failed lease reconciliations
    MayRestart        \* TRUE: the faults include Agent restarts

ASSUME CommandAssumption == IsFiniteSet(Command)
ASSUME TimerAssumption ==
    /\ Lifetime \in Nat \ {0} /\ Timeout \in Nat \ {0} /\ Skew \in Nat
ASSUME BoundAssumption ==
    /\ BatchSize \in Nat \ {0} /\ MaxQueue \in Nat \ {0} /\ MaxFaults \in Nat
    /\ QueueOffline \in BOOLEAN /\ MayRestart \in BOOLEAN

VARIABLES
    status,       \* remote_commands.status
    ttl,          \* remote_commands.expires_at - now
    op,           \* distributed_operations: status, deadline left, last Agent update
    replay,       \* commands the reconciliation handler has yet to dispatch again
    cancels,      \* commands whose cancellation was sent (bounds the model)
    journal,      \* Agent: agent_command_journal.status
    task,         \* Agent: the execution task of a command
    runs,         \* history variable: physical executions begun
    buffer,       \* Agent: durable event buffer
    batch,        \* Agent: size of the batch in flight, a prefix of the buffer
    outbox,       \* Agent: reports queued for the connection
    boot,         \* Agent: current process
    routed,       \* history variable: events the control plane has routed
    wire,         \* Agent -> control plane, on the present connection
    down,         \* control plane -> Agent, on the present session
    link,         \* the transport carries messages
    session,      \* the hub has a session
    presence,     \* an agent_connections row is open (Agent ONLINE)
    connBoot,     \* boot of the newest agent_connections row, 0 if none
    lastBoot,     \* boot of the row before it, 0 if none
    faults        \* faults so far

central == <<status, ttl, op>>
agent   == <<journal, task, runs, buffer, boot>>
network == <<session, presence, connBoot, lastBoot>>
vars    == <<central, replay, cancels, agent, batch, outbox, routed, wire, down, link,
             network, faults>>

-----------------------------------------------------------------------------
(* Data. *)

Outcomes == {"SUCCEEDED", "FAILED", "CANCELLED"}
Terminal == Outcomes \cup {"EXPIRED"}
Active   == {"DISPATCHED", "ACCEPTED", "RUNNING"}

\* RemoteCommandStatus; NONE is "no row yet".
Statuses == {"NONE", "CREATED", "QUEUED", "UNKNOWN"} \cup Active \cup Terminal

\* DistributedOperationStatus
OpStatuses == {"NONE", "CREATED", "UNKNOWN", "RECONCILING"} \cup Active \cup Outcomes

JournalStatuses == {"NONE", "ACCEPTED", "RUNNING"} \cup Outcomes

\* REMOTE_COMMAND_TRANSITIONS
CommandTransitions(s) ==
    CASE s = "CREATED"    -> {"QUEUED", "DISPATCHED", "EXPIRED", "CANCELLED"}
      [] s = "QUEUED"     -> {"DISPATCHED", "EXPIRED", "CANCELLED"}
      [] s = "DISPATCHED" -> {"ACCEPTED", "EXPIRED", "UNKNOWN", "FAILED", "CANCELLED"}
      [] s = "ACCEPTED"   -> {"RUNNING", "UNKNOWN"} \cup Outcomes
      [] s = "RUNNING"    -> {"UNKNOWN"} \cup Outcomes
      [] s = "UNKNOWN"    -> {"ACCEPTED", "RUNNING", "EXPIRED"} \cup Outcomes
      [] OTHER            -> {}

\* DISTRIBUTED_OPERATION_TRANSITIONS
OperationTransitions(s) ==
    CASE s = "CREATED"     -> {"DISPATCHED", "CANCELLED", "FAILED"}
      [] s = "DISPATCHED"  -> {"ACCEPTED", "UNKNOWN", "CANCELLED", "FAILED"}
      [] s = "ACCEPTED"    -> {"RUNNING", "UNKNOWN"} \cup Outcomes
      [] s = "RUNNING"     -> {"UNKNOWN"} \cup Outcomes
      [] s = "UNKNOWN"     -> {"RECONCILING"} \cup Outcomes
      [] s = "RECONCILING" -> {"ACCEPTED", "RUNNING"} \cup Outcomes
      [] OTHER             -> {}

\* Agent timestamps of one command are compared only with each other and are taken
\* in this order: rejected_at, received_at, started_at, completed_at.  0: no update.
Stamp(s) == CASE s = "REJECTED" -> 1 [] s = "ACCEPTED" -> 2 [] s = "RUNNING" -> 3 [] OTHER -> 4

\* deadline -1: no reconciliation_deadline; seen: last_agent_update_at.
Operation == [status: OpStatuses, deadline: -1..Timeout, seen: 0..4]

Event == [cmd: Command, type: {"REJECTED", "ACCEPTED", "RUNNING"} \cup Outcomes]

Report == [type: {"report"}, states: [Command -> JournalStatuses]]
UpMsg  == Report \cup [type: {"batch"}, events: Seq(Event)]

DownMsg == [type: {"command", "cancel"}, cmd: Command] \cup [type: {"reconcile", "ack"}]

Larger(a, b)  == IF a >= b THEN a ELSE b
Smaller(a, b) == IF a <= b THEN a ELSE b

Happens(c, t) == [cmd |-> c, type |-> t]

Expired(c) == ttl[c] <= 0

-----------------------------------------------------------------------------
(* Writes shared by the handlers. *)

\* mark_unknown(): every active command of the Agent, and its operation.
Interrupted(st) == [c \in Command |-> IF st[c] \in Active THEN "UNKNOWN" ELSE st[c]]

InterruptedOps(st, ops) ==
    [c \in Command |-> IF st[c] \in Active /\ ops[c].status \in Active
                         THEN [ops[c] EXCEPT !.status = "UNKNOWN", !.deadline = Timeout]
                         ELSE ops[c]]

\* The connection breaks; what it was carrying is lost.
Drop == link' = FALSE /\ down' = <<>> /\ wire' = <<>>

\* Faulty variant: the queue has no limit.
PostUnbounded(msg, rest) ==
    /\ down' = IF link THEN Append(down, msg) ELSE down
    /\ wire' = rest
    /\ UNCHANGED link

\* AgentConnectionHub.send: a full queue closes the socket; a broken connection loses the
\* message.  `rest' is what remains to be read from the Agent.
Post(msg, rest) ==
    IF link /\ Len(down) >= MaxQueue
      THEN Drop
      ELSE /\ down' = IF link THEN Append(down, msg) ELSE down
           /\ wire' = rest
           /\ UNCHANGED link

\* dispatch() from its first write on: the command row, then the operation row, then
\* the message.  An UNKNOWN command is sent again with neither row touched.  A failed
\* send marks every active command of the Agent UNKNOWN.
Send(c, st, ops) ==
    LET st1  == [st EXCEPT ![c] = IF @ = "UNKNOWN" THEN @ ELSE "DISPATCHED"]
        ops1 == [ops EXCEPT ![c].status = IF st[c] # "UNKNOWN" /\ @ = "CREATED"
                                            THEN "DISPATCHED" ELSE @]
        sent == ~link \/ Len(down) < MaxQueue
    IN /\ Post([type |-> "command", cmd |-> c], wire)
       /\ status' = IF sent THEN st1 ELSE Interrupted(st1)
       /\ op' = IF sent THEN ops1 ELSE InterruptedOps(st1, ops1)

\* _expire(): the command, and its operation unless that is already under way.
ExpireAll(S) ==
    /\ status' = [c \in Command |-> IF c \in S THEN "EXPIRED" ELSE status[c]]
    /\ op' = [c \in Command |->
                IF c \in S /\ op[c].status \in {"CREATED", "DISPATCHED", "UNKNOWN"}
                  THEN [op[c] EXCEPT !.status = "FAILED"] ELSE op[c]]

-----------------------------------------------------------------------------
(* Control-plane API handlers. *)

\* create(): the bundle of command and operation, then dispatch().
Create(c) ==
    LET st  == [status EXCEPT ![c] = "CREATED"]
        ops == [op EXCEPT ![c].status = "CREATED"]
    IN /\ status[c] = "NONE"
       /\ presence \/ QueueOffline
       /\ ttl' = [ttl EXCEPT ![c] = Lifetime]
       /\ IF presence /\ session
            THEN Send(c, st, ops)
            ELSE /\ status' = IF QueueOffline THEN [st EXCEPT ![c] = "QUEUED"] ELSE st
                 /\ op' = ops
                 /\ UNCHANGED <<down, link, wire>>
       /\ UNCHANGED <<replay, cancels, agent, batch, outbox, routed, network, faults>>

\* The process dies inside create() or inside the dispatch() of a queued command:
\* between the two rows, or before either is updated.
DispatchCrash(c) ==
    /\ faults < MaxFaults
    /\ presence /\ session
    /\ \/ status[c] = "NONE"
       \/ status[c] = "QUEUED" /\ c \in replay
    /\ \E s \in {"CREATED", "DISPATCHED"} :
         /\ s = "CREATED" => status[c] = "NONE"
         /\ status' = [status EXCEPT ![c] = s]
    /\ op' = [op EXCEPT ![c].status = "CREATED"]
    /\ ttl' = [ttl EXCEPT ![c] = IF status[c] = "NONE" THEN Lifetime ELSE @]
    /\ session' = FALSE /\ Drop
    /\ replay' = {}
    /\ faults' = faults + 1
    /\ UNCHANGED <<cancels, agent, batch, outbox, routed, presence, connBoot, lastBoot>>

\* Faulty variant: a command whose acceptance has not arrived counts as unsent.
UnsentDispatched == {"CREATED", "QUEUED", "DISPATCHED"}

\* The states in which the Agent cannot have heard of a command.
Unsent == {"CREATED", "QUEUED"}

\* request_cancel(): a command that was never dispatched ends here; for any other one
\* the Agent is asked, and only its answer changes the rows.
Cancel(c) ==
    /\ c \notin cancels
    /\ \/ /\ status[c] \in Unsent
          /\ status' = [status EXCEPT ![c] = "CANCELLED"]
          /\ op' = [op EXCEPT ![c].status = IF @ = "CREATED" THEN "CANCELLED" ELSE @]
          /\ UNCHANGED <<down, link, wire>>
       \/ /\ status[c] \in Active \cup {"UNKNOWN"} /\ session
          /\ Post([type |-> "cancel", cmd |-> c], wire)
          /\ UNCHANGED <<status, op>>
    /\ cancels' = cancels \cup {c}
    /\ UNCHANGED <<ttl, replay, agent, batch, outbox, routed, network, faults>>

-----------------------------------------------------------------------------
(* The monitor. *)

\* Faulty variant: a dispatched command is left to the Agent.
ExpirableUnsent == {"CREATED", "QUEUED", "UNKNOWN"}

Expirable == {"CREATED", "QUEUED", "DISPATCHED", "UNKNOWN"}

\* expire_due(): accepted and running commands are left to finish.
MonitorExpire ==
    LET due == {c \in Command : status[c] \in Expirable /\ Expired(c)}
    IN /\ due # {}
       /\ ExpireAll(due)
       /\ UNCHANGED <<ttl, replay, cancels, agent, batch, outbox, routed, wire, down, link,
                      network, faults>>

\* timeout_unreconciled_operations()
MonitorTimeout ==
    LET due == {c \in Command : op[c].status \in {"UNKNOWN", "RECONCILING"}
                                  /\ op[c].deadline = 0}
    IN /\ due # {}
       /\ op' = [c \in Command |-> IF c \in due
                                     THEN [status |-> "FAILED", deadline |-> -1, seen |-> 4]
                                     ELSE op[c]]
       /\ status' = [c \in Command |-> IF c \in due /\ status[c] = "UNKNOWN"
                                         THEN "FAILED" ELSE status[c]]
       /\ UNCHANGED <<ttl, replay, cancels, agent, batch, outbox, routed, wire, down, link,
                      network, faults>>

\* check_timeouts(): no heartbeat for offline_timeout_seconds.
MonitorOffline ==
    /\ presence /\ ~link
    /\ presence' = FALSE
    /\ status' = Interrupted(status)
    /\ op' = InterruptedOps(status, op)
    /\ UNCHANGED <<ttl, replay, cancels, agent, batch, outbox, routed, wire, down, link,
                   session, connBoot, lastBoot, faults>>

-----------------------------------------------------------------------------
(* Connections. *)

\* The sizes of a batch: as many events as event_batch_size and the message size allow.
BatchSizes == 1..Smaller(BatchSize, Len(buffer))

\* The Agent dials again: its writer sends the batch in flight, or a new one, before
\* anything queued.  A connection that is still open is superseded, which marks
\* nothing UNKNOWN.
Connect ==
    /\ ~link
    /\ link' = TRUE /\ session' = TRUE /\ presence' = TRUE
    /\ connBoot' = boot /\ lastBoot' = connBoot
    /\ replay' = {}
    /\ down' = <<[type |-> "reconcile"]>>
    /\ batch' \in IF batch > 0 THEN {batch} ELSE IF buffer = <<>> THEN {0} ELSE BatchSizes
    /\ wire' = IF batch' = 0 THEN <<>>
               ELSE <<[type |-> "batch", events |-> SubSeq(buffer, 1, batch')]>>
    /\ UNCHANGED <<central, cancels, agent, outbox, routed, faults>>

LinkLoss ==
    /\ link /\ faults < MaxFaults
    /\ Drop
    /\ faults' = faults + 1
    /\ UNCHANGED <<central, replay, cancels, agent, batch, outbox, routed, network>>

\* AgentGateway.serve() ends: detach, disconnect presence, mark_agent_unknown.
SessionEnds ==
    /\ session /\ ~link
    /\ session' = FALSE /\ presence' = FALSE
    /\ replay' = {}
    /\ status' = IF presence THEN Interrupted(status) ELSE status
    /\ op' = IF presence THEN InterruptedOps(status, op) ELSE op
    /\ UNCHANGED <<ttl, cancels, agent, batch, outbox, routed, wire, down, link, connBoot,
                   lastBoot, faults>>

\* The control-plane process restarts: nothing but the database survives.
ControlPlaneRestart ==
    /\ session /\ faults < MaxFaults
    /\ session' = FALSE /\ Drop
    /\ replay' = {}
    /\ faults' = faults + 1
    /\ UNCHANGED <<central, cancels, agent, batch, outbox, routed, presence, connBoot,
                   lastBoot>>

\* Faulty variant: every journaled command is failed, a finished one too.
RecoveredAll(s) == IF s # "NONE" THEN "FAILED" ELSE s

\* recover_interrupted(): the new process fails what its predecessor left active; no
\* event is emitted for it.
Recovered(s) == IF s \in {"ACCEPTED", "RUNNING"} THEN "FAILED" ELSE s

AgentRestart ==
    /\ MayRestart /\ faults < MaxFaults
    /\ faults' = faults + 1
    /\ boot' = boot + 1
    /\ journal' = [c \in Command |-> Recovered(journal[c])]
    /\ task' = [c \in Command |-> "none"]
    /\ batch' = 0 /\ outbox' = <<>>
    /\ Drop
    /\ UNCHANGED <<central, replay, cancels, runs, buffer, routed, network>>

Tick ==
    /\ \E c \in Command : status[c] # "NONE" /\ (ttl[c] >= -Skew \/ op[c].deadline > 0)
    /\ ttl' = [c \in Command |-> IF status[c] = "NONE" THEN ttl[c]
                                 ELSE Larger(ttl[c] - 1, -Skew - 1)]
    /\ op' = [c \in Command |-> [op[c] EXCEPT !.deadline = IF @ > 0 THEN @ - 1 ELSE @]]
    /\ UNCHANGED <<status, replay, cancels, agent, batch, outbox, routed, wire, down, link,
                   network, faults>>

-----------------------------------------------------------------------------
(* The Agent: AgentConnectionManager._dispatch, AgentCommandHandler, the journal. *)

Receives(type) == link /\ down # <<>> /\ Head(down).type = type

Emit(events) == buffer' = buffer \o events

\* Faulty variant: only a live task counts as a replay.
FindReplayLive(c) == task[c] # "none"

\* find_replay()
FindReplay(c) == journal[c] # "NONE"

\* _replay(): the stored state is announced again, nothing is executed.
StoredState(c) ==
    IF journal[c] = "ACCEPTED" THEN <<Happens(c, "ACCEPTED")>>
    ELSE <<Happens(c, "ACCEPTED"), Happens(c, journal[c])>>

\* dispatch(): a replay wins over every other check; a new command is rejected (a stale
\* lease, drain, capability and lock checks may always do that, an expiry must) or
\* journaled, announced and given a task.
AgentCommand ==
    LET c == Head(down).cmd
    IN /\ Receives("command")
       /\ down' = Tail(down)
       /\ \/ /\ FindReplay(c)
             /\ Emit(StoredState(c))
             /\ UNCHANGED <<journal, task>>
          \/ /\ ~FindReplay(c)
             /\ Emit(<<Happens(c, "REJECTED")>>)
             /\ UNCHANGED <<journal, task>>
          \/ /\ ~FindReplay(c) /\ ttl[c] >= -Skew
             /\ journal' = [journal EXCEPT ![c] = "ACCEPTED"]
             /\ task' = [task EXCEPT ![c] = "ready"]
             /\ Emit(<<Happens(c, "ACCEPTED")>>)
       /\ UNCHANGED <<central, replay, cancels, runs, boot, batch, outbox, routed, wire, link,
                      network, faults>>

\* _execute() up to the executor call.
AgentStart(c) ==
    /\ task[c] = "ready"
    /\ task' = [task EXCEPT ![c] = "running"]
    /\ journal' = [journal EXCEPT ![c] = "RUNNING"]
    /\ runs' = [runs EXCEPT ![c] = @ + 1]
    /\ Emit(<<Happens(c, "RUNNING")>>)
    /\ UNCHANGED <<central, replay, cancels, boot, batch, outbox, routed, wire, down, link,
                   network, faults>>

\* The executor returns, fails or is cancelled by the process shutting down; complete().
AgentComplete(c, outcome) ==
    /\ task[c] = "running"
    /\ task' = [task EXCEPT ![c] = "closing"]
    /\ journal' = [journal EXCEPT ![c] = outcome]
    /\ UNCHANGED <<central, replay, cancels, runs, buffer, boot, batch, outbox, routed, wire,
                   down, link, network, faults>>

\* _emit_terminal(), after the journal was committed.
AgentEmit(c) ==
    /\ task[c] = "closing"
    /\ task' = [task EXCEPT ![c] = "none"]
    /\ Emit(<<Happens(c, journal[c])>>)
    /\ UNCHANGED <<central, replay, cancels, journal, runs, boot, batch, outbox, routed, wire,
                   down, link, network, faults>>

\* cancel(): a command the journal does not know raises, which drops the connection; a
\* finished one is left alone; any other is cancelled and journaled, then announced.
AgentCancel ==
    LET c == Head(down).cmd
    IN /\ Receives("cancel")
       /\ IF journal[c] = "NONE" THEN Drop ELSE down' = Tail(down) /\ UNCHANGED <<wire, link>>
       /\ IF journal[c] \in {"ACCEPTED", "RUNNING"}
            THEN /\ journal' = [journal EXCEPT ![c] = "CANCELLED"]
                 /\ task' = [task EXCEPT ![c] = "closing"]
            ELSE UNCHANGED <<journal, task>>
       /\ UNCHANGED <<central, replay, cancels, runs, buffer, boot, batch, outbox, routed,
                      network, faults>>

\* Faulty variant: everything buffered so far is dropped.
AcknowledgedAll == <<>>

\* acknowledge_through(): the acknowledged batch leaves the buffer.
Acknowledged == SubSeq(buffer, batch + 1, Len(buffer))

AgentAck ==
    /\ Receives("ack")
    /\ down' = Tail(down)
    /\ buffer' = Acknowledged
    /\ batch' = 0
    /\ UNCHANGED <<central, replay, cancels, journal, task, runs, boot, outbox, routed, wire,
                   link, network, faults>>

\* AgentReconciliationReportBuilder.build(); a full queue drops the connection.
AgentReport ==
    /\ Receives("reconcile")
    /\ IF Len(outbox) < MaxQueue
         THEN /\ outbox' = Append(outbox, [type |-> "report", states |-> journal])
              /\ down' = Tail(down)
              /\ UNCHANGED <<wire, link>>
         ELSE Drop /\ UNCHANGED outbox
    /\ UNCHANGED <<central, replay, cancels, agent, batch, routed, network, faults>>

\* The writer: a new batch when none is in flight, otherwise the head of the queue.
SendBatch ==
    /\ link /\ batch = 0 /\ buffer # <<>>
    /\ batch' \in BatchSizes
    /\ wire' = Append(wire, [type |-> "batch", events |-> SubSeq(buffer, 1, batch')])
    /\ UNCHANGED <<central, replay, cancels, agent, outbox, routed, down, link, network, faults>>

SendReport ==
    /\ link /\ outbox # <<>>
    /\ wire' = Append(wire, Head(outbox))
    /\ outbox' = Tail(outbox)
    /\ UNCHANGED <<central, replay, cancels, agent, batch, routed, down, link, network, faults>>

-----------------------------------------------------------------------------
(* The control plane receives from the Agent. *)

\* accepted(), rejected() and operation_event() as the rows they leave and whether they
\* raise.
Rows(s, o, raises) == [status |-> s, op |-> o, raises |-> raises]

\* An EXPIRED command is not among the early returns and fails validation; an UNKNOWN
\* operation has no transition to ACCEPTED, which is found after the command is written.
Accepted(c) ==
    LET s == status[c]
        o == op[c]
        fresh == o.seen <= Stamp("ACCEPTED")
    IN IF s = "EXPIRED" THEN Rows(s, o, TRUE)
       ELSE IF s \notin {"DISPATCHED", "UNKNOWN"} THEN Rows(s, o, FALSE)
       ELSE Rows("ACCEPTED",
                 IF o.status \in {"DISPATCHED", "RECONCILING"} /\ fresh
                   THEN [o EXCEPT !.status = "ACCEPTED", !.seen = Stamp("ACCEPTED")] ELSE o,
                 o.status = "UNKNOWN" /\ fresh)

\* A rejection older than the acknowledgement is out of chronological order.
Rejected(c) ==
    LET s == status[c]
        o == op[c]
    IN IF s \notin Active \cup {"UNKNOWN"} THEN Rows(s, o, FALSE)
       ELSE IF o.seen > Stamp("REJECTED") THEN Rows(s, o, TRUE)
       ELSE Rows("FAILED",
                 IF "FAILED" \in OperationTransitions(o.status)
                   THEN [o EXCEPT !.status = "FAILED", !.seen = Stamp("REJECTED")] ELSE o,
                 FALSE)

\* Stale events and events without a transition change nothing.
OperationEvent(c, t) ==
    LET s == status[c]
        o == op[c]
    IN IF Stamp(t) <= o.seen \/ (s # t /\ t \notin CommandTransitions(s))
         THEN Rows(s, o, FALSE)
         ELSE Rows(t,
                   IF (o.status = t /\ t = "RUNNING") \/ t \in OperationTransitions(o.status)
                     THEN [o EXCEPT !.status = t, !.seen = Stamp(t)] ELSE o,
                   FALSE)

Handled(e) ==
    CASE e.type = "ACCEPTED" -> Accepted(e.cmd)
      [] e.type = "REJECTED" -> Rejected(e.cmd)
      [] OTHER               -> OperationEvent(e.cmd, e.type)

Arrives(type) == link /\ session /\ replay = {} /\ wire # <<>> /\ Head(wire).type = type

\* _handle_event_batch(), one event.  After the last one the batch is acknowledged; an
\* exception closes the connection with the batch unacknowledged.
ReceiveEvent ==
    LET events == Head(wire).events
        e      == Head(events)
        result == Handled(e)
        last   == Len(events) = 1
        rest   == IF last THEN Tail(wire) ELSE [wire EXCEPT ![1].events = Tail(@)]
    IN /\ Arrives("batch")
       /\ status' = [status EXCEPT ![e.cmd] = result.status]
       /\ op' = [op EXCEPT ![e.cmd] = result.op]
       /\ IF result.raises
            THEN Drop /\ UNCHANGED routed
            ELSE /\ routed' = routed \cup {e}
                 /\ IF last THEN Post([type |-> "ack"], rest)
                    ELSE wire' = rest /\ UNCHANGED <<down, link>>
       /\ UNCHANGED <<ttl, replay, cancels, agent, batch, outbox, network, faults>>

\* A changed boot ID: work missing from the journal, or still active in it, is failed.
Restarted == lastBoot # 0 /\ lastBoot # connBoot

\* _reconciled_command()
ReconciledCommand(s, j) ==
    IF s # "UNKNOWN" THEN s
    ELSE IF Restarted /\ j \notin Outcomes THEN "FAILED"
    ELSE IF j = "NONE" THEN s ELSE j

\* _enter_reconciling() and _reconciled_operation()
ReconciledOperation(o, j) ==
    IF o.status \notin {"UNKNOWN", "RECONCILING"} THEN o
    ELSE IF Restarted /\ j \notin Outcomes
      THEN [status |-> "FAILED", deadline |-> -1, seen |-> 4]
    ELSE IF j = "NONE" THEN [o EXCEPT !.status = "RECONCILING"]
    ELSE [status |-> j, deadline |-> -1, seen |-> Larger(o.seen, Stamp(j))]

\* CoordinatedReconciliationHandler.reconcile(): commands and operations first, then the
\* leases, which may raise (LeaseCoordination), then _replay_after_reconciliation().
ReceiveReport ==
    LET states == Head(wire).states
    IN /\ Arrives("report")
       /\ IF presence
            THEN /\ status' = [c \in Command |-> ReconciledCommand(status[c], states[c])]
                 /\ op' = [c \in Command |-> ReconciledOperation(op[c], states[c])]
                 /\ \/ /\ replay' = {c \in Command : status'[c] \in {"UNKNOWN", "QUEUED"}}
                       /\ wire' = Tail(wire)
                       /\ UNCHANGED <<down, link, faults>>
                    \/ /\ faults < MaxFaults /\ faults' = faults + 1
                       /\ Drop
                       /\ UNCHANGED replay
            ELSE Drop /\ UNCHANGED <<status, op, replay, faults>>
       /\ UNCHANGED <<ttl, cancels, agent, batch, outbox, routed, network>>

\* Faulty variant: the snapshot taken before the loop is trusted.
DispatchableSnapshot(c) == status[c] \in {"QUEUED", "UNKNOWN", "CANCELLED"}

\* dispatch() reads the command again.
Dispatchable(c) == status[c] \in {"QUEUED", "UNKNOWN"}

\* One command of _replay_after_reconciliation(): skipped if its lease is not ACTIVE.
Redispatch(c) ==
    /\ c \in replay
    /\ replay' = replay \ {c}
    /\ \/ /\ Dispatchable(c) /\ ~Expired(c) /\ presence /\ session
          /\ Send(c, status, op)
       \/ /\ Dispatchable(c) /\ Expired(c)
          /\ ExpireAll({c})
          /\ UNCHANGED <<down, link, wire>>
       \/ UNCHANGED <<status, op, down, link, wire>>
    /\ UNCHANGED <<ttl, cancels, agent, batch, outbox, routed, network, faults>>

-----------------------------------------------------------------------------

\* A freshly enrolled Agent that has not connected yet.
Init ==
    /\ status = [c \in Command |-> "NONE"]
    /\ ttl = [c \in Command |-> Lifetime]
    /\ op = [c \in Command |-> [status |-> "NONE", deadline |-> -1, seen |-> 0]]
    /\ replay = {} /\ cancels = {}
    /\ journal = [c \in Command |-> "NONE"]
    /\ task = [c \in Command |-> "none"]
    /\ runs = [c \in Command |-> 0]
    /\ buffer = <<>> /\ batch = 0 /\ outbox = <<>>
    /\ boot = 1
    /\ routed = {}
    /\ wire = <<>> /\ down = <<>>
    /\ link = FALSE /\ session = FALSE /\ presence = FALSE
    /\ connBoot = 0 /\ lastBoot = 0
    /\ faults = 0

Api == \E c \in Command : Create(c) \/ DispatchCrash(c) \/ Cancel(c)

Monitor == MonitorExpire \/ MonitorTimeout \/ MonitorOffline

Network == Connect \/ LinkLoss \/ SessionEnds \/ ControlPlaneRestart \/ AgentRestart

Execute(c) == AgentStart(c) \/ AgentEmit(c) \/ \E o \in Outcomes : AgentComplete(c, o)

AgentReads == AgentCommand \/ AgentCancel \/ AgentAck \/ AgentReport

Routes == ReceiveEvent \/ ReceiveReport \/ \E c \in Command : Redispatch(c)

Next ==
    \/ Api \/ Monitor \/ Network \/ AgentReads \/ SendBatch \/ SendReport \/ Routes \/ Tick
    \/ \E c \in Command : Execute(c)

Spec == Init /\ [][Next]_vars

\* Time passes, the monitor keeps running, a lost connection is noticed and dialled
\* again (the Agent's run() retries for ever), a live one delivers, and an executor
\* returns.  Nothing is assumed of clients or of the order of these.
Fairness ==
    /\ WF_vars(Tick)
    /\ WF_vars(MonitorExpire) /\ WF_vars(MonitorTimeout) /\ WF_vars(MonitorOffline)
    /\ WF_vars(Connect) /\ WF_vars(SessionEnds)
    /\ WF_vars(AgentReads) /\ WF_vars(SendBatch) /\ WF_vars(SendReport) /\ WF_vars(Routes)
    /\ \A c \in Command : WF_vars(Execute(c))

FairSpec == Spec /\ Fairness

-----------------------------------------------------------------------------
(* Safety. *)

\* Every variable has its type, and no queue exceeds outgoing_queue_size.
TypeOK ==
    /\ status \in [Command -> Statuses]
    /\ ttl \in [Command -> (-Skew - 1)..Lifetime]
    /\ op \in [Command -> Operation]
    /\ replay \subseteq Command /\ cancels \subseteq Command
    /\ journal \in [Command -> JournalStatuses]
    /\ task \in [Command -> {"none", "ready", "running", "closing"}]
    /\ runs \in [Command -> Nat]
    /\ buffer \in Seq(Event) /\ batch \in 0..Len(buffer)
    /\ outbox \in Seq(Report) /\ Len(outbox) <= MaxQueue
    /\ boot \in Nat /\ connBoot \in Nat /\ lastBoot \in Nat /\ faults \in Nat
    /\ routed \subseteq Event
    /\ wire \in Seq(UpMsg)
    /\ down \in Seq(DownMsg) /\ Len(down) <= MaxQueue
    /\ link \in BOOLEAN /\ session \in BOOLEAN /\ presence \in BOOLEAN

\* A command is physically executed at most once, however often it is delivered,
\* whichever side restarts and whatever is lost in between.
AtMostOnce == \A c \in Command : runs[c] <= 1

\* The control plane reports success, of the command or of the operation, only if the
\* Agent's durable journal says so.
HonestSuccess ==
    \A c \in Command :
        status[c] = "SUCCEEDED" \/ op[c].status = "SUCCEEDED" => journal[c] = "SUCCEEDED"

\* A command recorded as cancelled never runs to another outcome on the Agent: it was
\* cancelled there, or was never sent and never will be.
CancelledIsFinal ==
    \A c \in Command : status[c] = "CANCELLED" => journal[c] \in {"NONE", "CANCELLED"}

\* A final state of a command, an operation or a journal entry is never left, by a late,
\* replayed or stale event, report, timeout or dispatch.
TerminalStable ==
    [][\A c \in Command :
         /\ status[c] \in Terminal => status'[c] = status[c]
         /\ op[c].status \in Outcomes => op'[c].status = op[c].status
         /\ journal[c] \in Outcomes => journal'[c] = journal[c]]_vars

\* An event leaves the Agent's durable buffer only after the control plane routed it.
NoEventLost ==
    [][Len(buffer') < Len(buffer) =>
         \A i \in 1..(Len(buffer) - Len(buffer')) : buffer[i] \in routed]_vars

-----------------------------------------------------------------------------
(* Liveness. *)

\* The batch in flight holds an event the control plane will never route: the late
\* acceptance of a command that expired meanwhile.
Blocked == \E i \in 1..batch : buffer[i].type = "ACCEPTED" /\ status[buffer[i].cmd] = "EXPIRED"

\* Every command or its operation ends, through losses, crashes and restarts of the
\* control plane, unless the Agent's event stream is blocked.  Not both: accepted() may
\* fail between its two writes, and once the operation is finished by a timeout or by
\* reconciliation the terminal event is stale and the command stays ACCEPTED.
CommandsResolve ==
    \A c \in Command : status[c] # "NONE" ~> \/ status[c] \in Terminal
                                             \/ op[c].status \in Outcomes
                                             \/ Blocked

-----------------------------------------------------------------------------
(* Claims of the documentation that the code does not keep. *)

\* docs/PHASE_5.md: "A lost acknowledgment therefore causes replay of the same event IDs;
\* control-plane deduplication makes that replay harmless".  Routing an event whose
\* effect was already recorded does not close the connection.
ReplayHarmless ==
    [][ReceiveEvent => LET e == Head(Head(wire).events)
                       IN op[e.cmd].seen >= Stamp(e.type) => link']_vars

\* docs/PHASE_5.md: a batch "remains in the buffer until the control plane has routed it
\* and replies": once the network is quiet every batch is acknowledged.
BatchesAcknowledged == batch > 0 ~> batch = 0

\* docs/PHASE_5.md: "a terminal journal entry finalizes the matching global operation".
TerminalJournalFinalizes ==
    \A c \in Command : journal[c] \in Outcomes ~> op[c].status \in Outcomes
=============================================================================

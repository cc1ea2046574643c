---------------------------- MODULE BenchScheduler ----------------------------
(***************************************************************************)
(* The reservations of a standalone Agent: timed reservations and the FIFO *)
(* queue of one bench, the lock a mutating operation or a health probe     *)
(* holds on it, the scheduler loop that expires, activates and promotes,   *)
(* the overrun rule, and recovery after a crash.                           *)
(*                                                                         *)
(* The Agent is one asyncio process and its SQLite repositories never      *)
(* suspend, so a service call is one step; the steps of the scheduler loop *)
(* are cut where it awaits hardware or the network (the catalog refresh    *)
(* and the inventory publication), and an operation or a probe is cut      *)
(* where it awaits its backend.  Benches share nothing but the loop, so    *)
(* one bench is modelled.  A request is identified by its idempotency key, *)
(* is made by its own owner and either reserves or queues: its one         *)
(* reservation row is the one it inserts or the one its queue entry is     *)
(* promoted to, and a repeated call finds that row or entry.               *)
(***************************************************************************)
EXTENDS SideBySide, Integers, FiniteSets, Sequences

CONSTANTS
    Request,        \* idempotency keys of the reservation requests
    Operation,      \* operation ids
    Duration,       \* durations a client asks for
    MaxDuration,    \* maximum_duration_seconds
    Window,         \* scheduled_protection_window_seconds
    Grace,          \* expiry_grace_seconds
    ProbeHorizon,   \* the lease of a maintenance lock
    MaxStart,       \* requests are made before this time
    MaxProbes,      \* probes per run
    MaxAgentCrashes

ASSUME SchedulerAssumption ==
    /\ MaxDuration \in Nat
    /\ Duration \subseteq 1..MaxDuration
    /\ {Window, Grace, ProbeHorizon, MaxStart, MaxProbes, MaxAgentCrashes} \subseteq Nat

VARIABLES
    now,            \* the clock
    book,           \* the reservations table
    queue,          \* queue rows in queue_order: requests
    entry,          \* the state of each queue row
    lock,           \* the row of operation_locks for the bench
    operations,     \* the operations table, with the runner's task of each
    online,         \* BenchRecord.online of the catalog
    probeRequired,  \* the catalog's _probe_required
    phase,          \* where the process is: down, recovering, or its loop
    probes,         \* probes started so far
    agentCrashes    \* crashes so far

schedulerVars == <<now, book, queue, entry, lock, operations, online,
                   probeRequired, phase, probes, agentCrashes>>

-----------------------------------------------------------------------------
(* Rows, named by their request, which also names their owner              *)

NoRow == [status |-> "none", starts |-> 0, ends |-> 0]

(* A row that is released, cancelled or expired: nothing reads its times,  *)
(* and no caller tells the three apart.                                    *)
Over == [status |-> "over", starts |-> 0, ends |-> 0]

NoLock == [kind |-> "none"]

NoEntry == [status |-> "none", duration |-> 0]

NoOperation == [status |-> "none", task |-> "none"]

(* Succeeded, failed or cancelled *)
Done == [status |-> "done", task |-> "none"]

OwnerStatus == {"active", "expired_pending_operation"}

LiveStatus == {"scheduled"} \cup OwnerStatus

(* get_active *)
Holder == {id \in Request : book[id].status \in OwnerStatus}

Locked == lock.kind # "none"

(* An overlap test that forgets the reservations not started yet *)
OverlappingOwners(starts, ends, without) ==
    {id \in Holder \ without : book[id].starts < ends /\ book[id].ends > starts}

(* The overlap test of the validation triggers and of find_conflict *)
Overlapping(starts, ends, without) ==
    {id \in Request \ without :
        /\ book[id].status \in LiveStatus
        /\ book[id].starts < ends
        /\ book[id].ends > starts}

(* _require_no_maintenance_lock_overlap: only a maintenance lock expires *)
MaintenanceThrough(starts) ==
    /\ lock.kind = "maintenance"
    /\ lock.expires >= starts

Serving == phase \in {"expire", "refresh", "assign"}

SchedulerInit ==
    /\ now = 0
    /\ book = [id \in Request |-> NoRow]
    /\ queue = <<>>
    /\ entry = [q \in Request |-> NoEntry]
    /\ lock = NoLock
    /\ operations = [o \in Operation |-> NoOperation]
    /\ online \in BOOLEAN
    /\ probeRequired = FALSE
    /\ phase = "expire"
    /\ probes = 0
    /\ agentCrashes = 0

-----------------------------------------------------------------------------
(* ReservationService *)

(* get_by_idempotency_key finds nothing *)
Unused(q) == book[q] = NoRow /\ entry[q] = NoEntry

EnqueueRow(q, d) ==
    /\ queue' = Append(queue, q)
    /\ entry' = [entry EXCEPT ![q] = [status |-> "waiting", duration |-> d]]

InsertRow(id, status, starts, ends) ==
    book' = [book EXCEPT ![id] =
        [status |-> status, starts |-> starts, ends |-> ends]]

(* The index reservations_one_active_per_bench: a reservation that has     *)
(* ended but is not yet expired still owns the bench.                      *)
NobodyOwns == Holder = {}

(* Nothing stops an immediate reservation: the bench is online, free for   *)
(* the whole interval, not locked and not owned.                           *)
FreeNow(d) ==
    /\ online
    /\ Overlapping(now, now + d, {}) = {}
    /\ ~Locked
    /\ NobodyOwns

(* create with queue_if_busy for a start in the future is refused when it  *)
(* conflicts; only an immediate request falls back to the queue.           *)
CreateImmediate(q, d) ==
    /\ Serving /\ now < MaxStart
    /\ Unused(q)
    /\ FreeNow(d)
    /\ InsertRow(q, "active", now, now + d)
    /\ UNCHANGED <<now, queue, entry, lock, operations, online, probeRequired,
                   phase, probes, agentCrashes>>

CreateScheduled(q, starts, d) ==
    /\ Serving /\ now < MaxStart
    /\ Unused(q)
    /\ starts > now
    /\ Overlapping(starts, starts + d, {}) = {}
    /\ ~MaintenanceThrough(starts)
    /\ InsertRow(q, "scheduled", starts, starts + d)
    /\ UNCHANGED <<now, queue, entry, lock, operations, online, probeRequired,
                   phase, probes, agentCrashes>>

CreateQueued(q, d) ==
    /\ Serving /\ now < MaxStart
    /\ Unused(q)
    /\ ~FreeNow(d)
    /\ EnqueueRow(q, d)
    /\ UNCHANGED <<now, book, lock, operations, online, probeRequired, phase,
                   probes, agentCrashes>>

(* enqueue itself does not look at the bench *)
Enqueue(q, d) ==
    /\ Serving /\ now < MaxStart
    /\ Unused(q)
    /\ EnqueueRow(q, d)
    /\ UNCHANGED <<now, book, lock, operations, online, probeRequired, phase,
                   probes, agentCrashes>>

(* QueueRepository.cancel: only a waiting entry *)
CancelWaiting(q) ==
    /\ entry[q].status = "waiting"
    /\ entry' = [entry EXCEPT ![q].status = "cancelled"]

CancelQueueEntry(q) ==
    /\ Serving
    /\ CancelWaiting(q)
    /\ UNCHANGED <<now, book, queue, lock, operations, online, probeRequired,
                   phase, probes, agentCrashes>>

(* TimedReservationRepository.update: the row must still have the status   *)
(* the caller read, and the bench no lock when the caller says so          *)
Update(id, expected, unlocked, row) ==
    /\ book[id].status = expected
    /\ unlocked => ~Locked
    /\ book' = [book EXCEPT ![id] = row]

(* A release that checks only the reservation *)
ReleaseUnchecked(id) ==
    /\ Serving
    /\ Update(id, "active", FALSE, Over)
    /\ UNCHANGED <<now, queue, entry, lock, operations, online, probeRequired,
                   phase, probes, agentCrashes>>

Release(id) ==
    /\ Serving
    /\ Update(id, "active", TRUE, Over)
    /\ UNCHANGED <<now, queue, entry, lock, operations, online, probeRequired,
                   phase, probes, agentCrashes>>

(* A scheduled reservation is cancelled whether or not the bench is locked *)
CancelReservation(id) ==
    /\ Serving
    /\ \/ Update(id, "scheduled", FALSE, Over)
       \/ Update(id, "active", TRUE, Over)
    /\ UNCHANGED <<now, queue, entry, lock, operations, online, probeRequired,
                   phase, probes, agentCrashes>>

(* extend: the conflict check covers the added interval, the trigger the   *)
(* whole row                                                               *)
Extend(id, d) ==
    /\ Serving
    /\ book[id].ends > now
    /\ book[id].ends + d - book[id].starts <= MaxDuration
    /\ Overlapping(book[id].starts, book[id].ends + d, {id}) = {}
    /\ Update(id, "active", FALSE, [book[id] EXCEPT !.ends = @ + d])
    /\ UNCHANGED <<now, queue, entry, lock, operations, online, probeRequired,
                   phase, probes, agentCrashes>>

-----------------------------------------------------------------------------
(* The bench lock *)

(* require_active, and acquire_for_active again inside its transaction *)
ActiveOwner(id) ==
    /\ book[id].status = "active"
    /\ book[id].ends > now

AcquireForActive(kind, op, id) ==
    /\ ActiveOwner(id)
    /\ ~Locked
    /\ lock' = [kind |-> kind, operation |-> op, owner |-> id]

AcquireForMaintenance ==
    /\ ~Locked
    /\ \A id \in Request :
        /\ book[id].status \notin OwnerStatus
        /\ book[id].status = "scheduled" => book[id].starts > now + ProbeHorizon
    /\ lock' = [kind |-> "maintenance", expires |-> now + ProbeHorizon]

(* finalize_pending_expiry *)
PendingFinalized ==
    [id \in Request |-> IF book[id].status = "expired_pending_operation"
                   THEN Over
                   ELSE book[id]]

(* A release that forgets the reservation kept for the operation *)
ReleaseLockOnly ==
    /\ lock' = NoLock
    /\ book' = book

(* OperationLockService.release: the lock goes, then the reservation that  *)
(* was kept for it.                                                        *)
ReleaseLock ==
    /\ lock' = NoLock
    /\ book' = PendingFinalized

-----------------------------------------------------------------------------
(* Operations and their runner *)

Submit(o, id) ==
    /\ Serving
    /\ operations[o] = NoOperation
    /\ AcquireForActive("operation", o, id)
    /\ operations' = [operations EXCEPT ![o] =
           [status |-> "pending", task |-> "ready"]]
    /\ UNCHANGED <<now, book, queue, entry, online, probeRequired, phase, probes,
                   agentCrashes>>

(* The operation is created, the lock is refused, and the row is cancelled *)
SubmitLocked(o, id) ==
    /\ Serving
    /\ operations[o] = NoOperation
    /\ ActiveOwner(id)
    /\ Locked
    /\ operations' = [operations EXCEPT ![o] = Done]
    /\ UNCHANGED <<now, book, queue, entry, lock, online, probeRequired, phase,
                   probes, agentCrashes>>

StartTask(o) ==
    /\ operations[o].task = "ready"
    /\ operations' = [operations EXCEPT ![o].task = "running",
                                        ![o].status = "running"]
    /\ UNCHANGED <<now, book, queue, entry, lock, online, probeRequired, phase,
                   probes, agentCrashes>>

(* The backend returns, fails or honours the cancellation; whatever the    *)
(* outcome the finally clause releases the lock.                           *)
FinishTask(o) ==
    /\ operations[o].task \in {"running", "cancelling"}
    /\ operations' = [operations EXCEPT ![o] = Done]
    /\ ReleaseLock
    /\ UNCHANGED <<now, queue, entry, online, probeRequired, phase, probes,
                   agentCrashes>>

(* runner.cancel on a running task only asks for it; a task cancelled      *)
(* before its first step never runs, so cancel_operation itself releases.  *)
Cancelled(o) ==
    CASE operations[o].status = "pending" ->
           [operations EXCEPT ![o] = Done]
      [] operations[o].status = "running" ->
           [operations EXCEPT ![o].status = "cancel_requested",
                              ![o].task = "cancelling"]
      [] OTHER -> operations

CancelOperation(o) ==
    /\ Serving
    /\ operations[o].status \in {"pending", "running"}
    /\ operations' = Cancelled(o)
    /\ IF operations[o].status = "pending" THEN ReleaseLock
       ELSE UNCHANGED <<lock, book>>
    /\ UNCHANGED <<now, queue, entry, online, probeRequired, phase, probes,
                   agentCrashes>>

-----------------------------------------------------------------------------
(* Probes: the owner's, or a maintenance probe of a bench nobody holds *)

ProbeStart(id) ==
    /\ Serving /\ probes < MaxProbes
    /\ AcquireForActive("probe", "none", id)
    /\ probes' = probes + 1
    /\ UNCHANGED <<now, book, queue, entry, operations, online, probeRequired,
                   phase, agentCrashes>>

MaintenanceProbeStart ==
    /\ Serving /\ probes < MaxProbes
    /\ AcquireForMaintenance
    /\ probes' = probes + 1
    /\ UNCHANGED <<now, book, queue, entry, operations, online, probeRequired,
                   phase, agentCrashes>>

RecordProbeResult(healthy) ==
    /\ online' = healthy
    /\ probeRequired' = ~healthy

(* The result, or the failure, is recorded under the lock *)
ProbeEnd(healthy) ==
    /\ lock.kind \in {"probe", "maintenance"} /\ Serving
    /\ RecordProbeResult(healthy)
    /\ ReleaseLock
    /\ UNCHANGED <<now, queue, entry, operations, phase, probes, agentCrashes>>

-----------------------------------------------------------------------------
(* The scheduler loop *)

(* An expiry that ignores the lock *)
ExpireAtOnce(row) == Over

(* expire_if_due *)
ExpireRow(row) ==
    IF row.status \in OwnerStatus /\ Locked
    THEN [row EXCEPT !.status = "expired_pending_operation"]
    ELSE Over

Expired ==
    [id \in Request |-> IF book[id].status \in LiveStatus /\ book[id].ends <= now
                   THEN ExpireRow(book[id])
                   ELSE book[id]]

(* _handle_expiry_overruns, on the reservations that expire_reservations   *)
(* has just left pending                                                   *)
Overrun ==
    /\ Locked
    /\ \E id \in Request : /\ Expired[id].status = "expired_pending_operation"
                      /\ book[id].ends + Grace <= now

(* An overrun pass that only reports *)
OverrunReported == operations

OverrunCancelled ==
    IF Overrun /\ lock.kind = "operation" THEN Cancelled(lock.operation)
    ELSE operations

OverrunReleases ==
    /\ Overrun /\ lock.kind = "operation"
    /\ operations[lock.operation].status = "pending"

SchedulerExpire ==
    /\ phase = "expire"
    /\ operations' = OverrunCancelled
    /\ IF OverrunReleases
       THEN /\ lock' = NoLock
            /\ book' = [id \in Request |->
                  IF Expired[id].status = "expired_pending_operation"
                  THEN Over
                  ELSE Expired[id]]
       ELSE /\ lock' = lock
            /\ book' = Expired
    /\ online' = (online /\ ~Overrun)
    /\ probeRequired' = (probeRequired \/ Overrun)
    /\ phase' = "refresh"
    /\ UNCHANGED <<now, queue, entry, probes, agentCrashes>>

(* A refresh that trusts the backend *)
RefreshedAsReported(reported) == reported

(* BenchCatalog.refresh with what the backends report *)
Refreshed(reported) == reported /\ ~probeRequired

SchedulerRefresh(reported) ==
    /\ phase = "refresh"
    /\ online' = Refreshed(reported)
    /\ phase' = "assign"
    /\ UNCHANGED <<now, book, queue, entry, lock, operations, probeRequired,
                   probes, agentCrashes>>

(* process_due_reservations on a table: candidates in order of their start *)
(* until one is activated, since an active reservation stops the others    *)
Due(rows) ==
    {id \in Request : /\ rows[id].status = "scheduled"
                 /\ rows[id].starts <= now
                 /\ rows[id].ends > now}

Activated(rows, up, locked) ==
    LET first == CHOOSE id \in Due(rows) :
                     \A other \in Due(rows) : rows[id].starts <= rows[other].starts
    IN  IF /\ up /\ ~locked /\ Due(rows) # {}
           /\ \A id \in Request : rows[id].status \notin OwnerStatus
        THEN [rows EXCEPT ![first].status = "active"]
        ELSE rows

(* The places of the entries that wait, in queue_order *)
Waiting == {i \in DOMAIN queue : entry[queue[i]].status = "waiting"}

(* A policy that takes the latest request *)
SelectLast == queue[CHOOSE i \in Waiting : \A j \in Waiting : j <= i]

(* FifoQueuePolicy.select_next *)
SelectNext == queue[CHOOSE i \in Waiting : \A j \in Waiting : i <= j]

(* next_scheduled, and the window it must leave free *)
FitsBeforeNext(rows, ends) ==
    \A id \in Request : (rows[id].status = "scheduled" /\ rows[id].starts >= now)
        => ends + Window <= rows[id].starts

(* The insert trigger's own overlap test *)
NoConflict(rows, starts, ends) ==
    \A id \in Request : rows[id].status \in LiveStatus
        => (rows[id].starts >= ends \/ rows[id].ends <= starts)

Promotable(rows, up, locked) ==
    /\ up /\ ~locked
    /\ Waiting # {}
    /\ \A id \in Request : rows[id].status \notin OwnerStatus
    /\ LET ends == now + entry[SelectNext].duration
       IN  /\ FitsBeforeNext(rows, ends)
           /\ NoConflict(rows, now, ends)

(* QueueRepository.promote *)
Promote(rows) ==
    /\ book' = [rows EXCEPT ![SelectNext] =
           [status |-> "active", starts |-> now,
            ends |-> now + entry[SelectNext].duration]]
    /\ entry' = [entry EXCEPT ![SelectNext].status = "promoted"]

(* process_due_reservations then promote_queues, with nothing in between *)
Assign(rows, up, locked) ==
    LET activated == Activated(rows, up, locked)
    IN  IF Promotable(activated, up, locked) THEN Promote(activated)
        ELSE /\ book' = activated
             /\ entry' = entry

SchedulerAssign ==
    /\ phase = "assign"
    /\ Assign(book, online, Locked)
    /\ phase' = "expire"
    /\ UNCHANGED <<now, queue, lock, operations, online, probeRequired, probes,
                   agentCrashes>>

-----------------------------------------------------------------------------
(* Crash, and LabAgent.start with RecoveryService.recover *)

AgentCrash ==
    /\ phase # "down"
    /\ agentCrashes < MaxAgentCrashes
    /\ agentCrashes' = agentCrashes + 1
    /\ phase' = "down"
    /\ operations' = [o \in Operation |-> [operations[o] EXCEPT !.task = "none"]]
    /\ probeRequired' = FALSE
    /\ UNCHANGED <<now, book, queue, entry, lock, online, probes>>

(* recover_interrupted_operations fails what was running *)
Interrupted ==
    [o \in Operation |->
        IF operations[o].status \in {"pending", "running", "cancel_requested"}
        THEN Done
        ELSE operations[o]]

(* recover_stale with no live operation removes every lock *)
RecoverStale == lock' = NoLock

RecoverLocks(reported) ==
    /\ phase = "down"
    /\ online' = reported
    /\ operations' = Interrupted
    /\ RecoverStale
    /\ phase' = "recovering"
    /\ UNCHANGED <<now, book, queue, entry, probeRequired, probes, agentCrashes>>

RecoverSchedule ==
    /\ phase = "recovering"
    /\ Assign(Expired, online, FALSE)
    /\ phase' = "expire"
    /\ UNCHANGED <<now, queue, lock, operations, online, probeRequired, probes,
                   agentCrashes>>

(* Time passes while it can still matter *)
SchedulerTick ==
    /\ \/ now < MaxStart
       \/ \E id \in Request : /\ book[id].status \in LiveStatus
                         /\ now < book[id].ends + Grace
    /\ now' = now + 1
    /\ UNCHANGED <<book, queue, entry, lock, operations, online, probeRequired,
                   phase, probes, agentCrashes>>

ClientRequest ==
    \E q \in Request, d \in Duration :
        \/ CreateImmediate(q, d)
        \/ \E starts \in 1..MaxStart : CreateScheduled(q, starts, d)
        \/ CreateQueued(q, d)
        \/ Enqueue(q, d)
        \/ CancelQueueEntry(q)

OwnerRequest ==
    \E id \in Request :
        \/ Release(id)
        \/ CancelReservation(id)
        \/ \E d \in Duration : Extend(id, d)
        \/ \E o \in Operation : Submit(o, id) \/ SubmitLocked(o, id)
        \/ ProbeStart(id)

SchedulerNext ==
    \/ ClientRequest
    \/ OwnerRequest
    \/ \E o \in Operation :
        \/ CancelOperation(o)
        \/ StartTask(o)
        \/ FinishTask(o)
    \/ MaintenanceProbeStart
    \/ \E healthy \in BOOLEAN : ProbeEnd(healthy)
    \/ SchedulerExpire
    \/ \E reported \in BOOLEAN : SchedulerRefresh(reported)
    \/ SchedulerAssign
    \/ AgentCrash
    \/ \E reported \in BOOLEAN : RecoverLocks(reported)
    \/ RecoverSchedule
    \/ SchedulerTick

SchedulerSpec == SchedulerInit /\ [][SchedulerNext]_schedulerVars

SchedulerTurn == focus = "scheduler"

(***************************************************************************)
(* Fairness: the loop runs, time passes, a restart completes, a task       *)
(* starts and a cancelled one ends (a running one may hang), a probe ends  *)
(* (backends bound it by a timeout).                                       *)
(***************************************************************************)
SchedulerFairness ==
    /\ WF_schedulerVars(SchedulerTurn /\ SchedulerExpire)
    /\ WF_schedulerVars(SchedulerTurn /\ \E reported \in BOOLEAN : SchedulerRefresh(reported))
    /\ WF_schedulerVars(SchedulerTurn /\ SchedulerAssign)
    /\ WF_schedulerVars(SchedulerTurn /\ \E reported \in BOOLEAN : RecoverLocks(reported))
    /\ WF_schedulerVars(SchedulerTurn /\ RecoverSchedule)
    /\ WF_schedulerVars(SchedulerTurn /\ SchedulerTick)
    /\ WF_schedulerVars(SchedulerTurn /\ \E healthy \in BOOLEAN : ProbeEnd(healthy))
    /\ \A o \in Operation :
        /\ WF_schedulerVars(SchedulerTurn /\ StartTask(o))
        /\ WF_schedulerVars(SchedulerTurn /\ operations[o].task = "cancelling" /\ FinishTask(o))

-----------------------------------------------------------------------------
(* Properties *)

SchedulerTypeOK ==
    /\ now \in Nat
    /\ book \in [Request -> [status : {"none", "over"} \cup LiveStatus,
                        starts : Nat, ends : Nat]]
    /\ \A id \in Request : book[id].status \in LiveStatus
        => book[id].ends > book[id].starts
    /\ queue \in Seq(Request)
    /\ entry \in [Request -> [status : {"none", "waiting", "promoted", "cancelled"},
                              duration : 0..MaxDuration]]
    /\ online \in BOOLEAN /\ probeRequired \in BOOLEAN
    /\ phase \in {"down", "recovering", "expire", "refresh", "assign"}

(* The bench is never promised twice: the intervals of live reservations   *)
(* are disjoint, and at most one of them owns the bench.  Requests,        *)
(* promotions, extensions and the overrun of a locked reservation keep it  *)
(* by different checks (core/reservations.py, persistence/reservations.py  *)
(* and the triggers of migrations.py).                                     *)
NoDoubleBooking ==
    /\ Cardinality(Holder) <= 1
    /\ \A id \in Request : book[id].status \in LiveStatus
        => Overlapping(book[id].starts, book[id].ends, {id}) = {}

(* Hardware is touched only for the bench's owner: while an operation or   *)
(* an owner's probe holds the lock, its owner's reservation still holds    *)
(* the bench, even past its end; during maintenance nobody holds it        *)
(* (core/operation_locks.py, persistence/reservations.py:304).             *)
LockMatchesHolder ==
    /\ lock.kind \in {"operation", "probe"} =>
        \E id \in Holder : id = lock.owner
    /\ lock.kind = "maintenance" => Holder = {}

(* Queue order is kept: no entry still waits behind one queued after it    *)
(* that was promoted (core/queueing.py, docs/QUEUEING.md).                 *)
FirstComeFirstServed ==
    \A i, j \in 1..Len(queue) :
        (i < j /\ entry[queue[j]].status = "promoted")
            => entry[queue[i]].status # "waiting"

(* A bench has one owner at a time, whoever owns it has the lock, and the  *)
(* queue is served in order.                                               *)
BookingsSound == NoDoubleBooking /\ LockMatchesHolder /\ FirstComeFirstServed

(* After an overrun or a failed probe nobody is given the bench until a    *)
(* probe succeeds or the Agent restarts (bench_catalog.py,                 *)
(* runtime.py:_handle_expiry_overruns).                                    *)
QuarantineHolds ==
    [][(probeRequired /\ probeRequired') =>
        \A id \in Request : book'[id].status = "active" => book[id].status = "active"
      ]_schedulerVars

\* No reservation has ended under an operation that still runs.  It comes true
\* again although the operation itself may hang: the overrun cancels it
\* (runtime.py:_handle_expiry_overruns).
NoOverrun == \A id \in Request : book[id].status # "expired_pending_operation"
=============================================================================

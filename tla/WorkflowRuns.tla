----------------------------- MODULE WorkflowRuns -----------------------------
(***************************************************************************)
(* Remote work on an Agent: the executor of the commands the control plane *)
(* sent, the checksum cache their artifacts are downloaded to, the         *)
(* workflow service and the runner that takes a run through its steps.     *)
(*                                                                         *)
(* Everything is one asyncio process over SQLite, which never suspends, so *)
(* an action is what happens between two awaits of hardware, of a thread   *)
(* or of the network.  task.cancel() only marks a task: the mark is what   *)
(* its next action finds, whatever it was waiting for.  A step is          *)
(* abstracted to how it ends; an assertion, which waits for nothing, is a  *)
(* step that ends before anything else happens.                            *)
(***************************************************************************)
EXTENDS SideBySide, Integers, FiniteSets, Sequences

CONSTANTS
    Command,        \* commands delivered to the Agent, each with one artifact
    WorkBench,      \* local benches
    Digest,         \* checksums of the artifacts
    CacheSize,      \* maximum_size_bytes, in artifacts
    NumSteps,       \* steps of a workflow definition
    MaxLease,       \* leases granted on a bench
    MaxBoots        \* starts of the Agent

Nobody == "nobody"

ASSUME WorkAssumption ==
    /\ {CacheSize, NumSteps, MaxLease, MaxBoots} \subseteq Nat
    /\ CacheSize > 0 /\ NumSteps > 0 /\ MaxLease > 0
    /\ IsFiniteSet(Command) /\ Nobody \notin Command

VARIABLES
    wanted,     \* what each command asks for
    exec,       \* where the executor is with each command
    run,        \* the row of workflow_runs of each command
    steps,      \* its rows of workflow_step_results, by step_index
    task,       \* its task in the runner
    cached,     \* digests with a content file
    older,      \* pairs of them, the one used less recently first
    pins,       \* _pin_counts
    benchLock,  \* the row of operation_locks of each bench
    lease,      \* the lease the Agent holds on each bench, 0 for none
    granted,    \* leases granted so far on each bench
    stopping,   \* the Agent is shutting down
    boots       \* restarts so far

workVars == <<wanted, exec, run, steps, task, cached, older, pins, benchLock, lease,
              granted, stopping, boots>>

-----------------------------------------------------------------------------
(* Rows *)

NoRun == [status |-> "none", reservation |-> 0]

NoTask == [pc |-> "none", index |-> 0, marked |-> FALSE, requested |-> FALSE]

ActiveRun == {"pending", "running", "cancel_requested"}

TerminalRun == {"succeeded", "failed", "cancelled"}

BenchOf(c) == wanted[c].bench

DigestOf(c) == wanted[c].digest

WorkInit ==
    /\ wanted \in [Command ->
            [kind : {"workflow", "direct"}, bench : WorkBench, digest : Digest]]
    /\ exec = [c \in Command |-> "none"]
    /\ run = [c \in Command |-> NoRun]
    /\ steps = [c \in Command |-> <<>>]
    /\ task = [c \in Command |-> NoTask]
    /\ cached = {} /\ older = {}
    /\ pins = [d \in Digest |-> 0]
    /\ benchLock = [b \in WorkBench |-> Nobody]
    /\ lease = [b \in WorkBench |-> 1]
    /\ granted = [b \in WorkBench |-> 1]
    /\ stopping = FALSE
    /\ boots = 0

-----------------------------------------------------------------------------
(* Locks and leases *)

(* The primary key of operation_locks *)
Lockable(c) == benchLock[BenchOf(c)] = Nobody

LockBench(c) == benchLock' = [benchLock EXCEPT ![BenchOf(c)] = c]

(* release names the operation, so it never frees another holder's lock *)
FreeBench(c) ==
    benchLock' = [b \in WorkBench |->
        IF benchLock[b] = c THEN Nobody ELSE benchLock[b]]

(* The lease that authorises work on the bench of c, 0 when there is none *)
RequireActive(c) == lease[BenchOf(c)]

(* _ensure_reservation *)
StillReserved(c) ==
    /\ RequireActive(c) # 0
    /\ RequireActive(c) = run[c].reservation

-----------------------------------------------------------------------------
(* AgentArtifactCache *)

Pinned(d) == pins[d] > 0

Unpin(d) == pins' = [pins EXCEPT ![d] = IF @ <= 1 THEN 0 ELSE @ - 1]

(* An eviction that looks only at the file being fetched *)
EvictableAny(d) == {e \in cached : e # d}

(* The files that may go *)
Evictable(d) == {e \in cached : e # d /\ ~Pinned(e)}

(* The least recently used go, each while what the ones before it left is  *)
(* still too much.                                                         *)
Evicted(d, needed) ==
    {e \in Evictable(d) :
        Cardinality(cached) + needed - Cardinality({x \in Evictable(d) : <<x, e>> \in older})
            > CacheSize}

MakeSpace(d, needed) == cached \ Evicted(d, needed)

SpaceFor(d, needed) == Cardinality(MakeSpace(d, needed)) + needed <= CacheSize

KeepFiles(files) ==
    /\ cached' = files
    /\ older' = older \cap (files \X files)

(* d is written or touched: it is the most recently used of the files *)
UseLast(files, d) ==
    /\ cached' = files \cup {d}
    /\ older' = (older \cap ((files \ {d}) \X (files \ {d}))) \cup ((files \ {d}) \X {d})

(* The per-digest lock is held from the first look at the file to the end  *)
(* of the download.                                                        *)
DigestLocked(d) ==
    \E c \in Command : DigestOf(c) = d /\ exec[c] \in {"verify", "download"}

(* What a fetch does once it has the lock: it hashes an existing file, or  *)
(* makes room and downloads.                                               *)
FetchStep(c) ==
    \/ /\ DigestOf(c) \in cached
       /\ exec' = [exec EXCEPT ![c] = "verify"]
       /\ UNCHANGED <<cached, older, pins, benchLock>>
    \/ /\ DigestOf(c) \notin cached
       /\ SpaceFor(DigestOf(c), 1)
       /\ KeepFiles(MakeSpace(DigestOf(c), 1))
       /\ exec' = [exec EXCEPT ![c] = "download"]
       /\ UNCHANGED <<pins, benchLock>>
    \/ /\ DigestOf(c) \notin cached
       /\ ~SpaceFor(DigestOf(c), 1)
       /\ KeepFiles(MakeSpace(DigestOf(c), 1))
       /\ Unpin(DigestOf(c))
       /\ FreeBench(c)
       /\ exec' = [exec EXCEPT ![c] = "over"]

-----------------------------------------------------------------------------
(* LocalAgentCommandExecutor *)

(* A command passed the handler's validation: a valid lease, a free bench. *)
(* A direct command locks the bench before it fetches its artifact, a      *)
(* workflow only when its run starts.                                      *)
Execute(c) ==
    /\ exec[c] = "none" /\ ~stopping
    /\ RequireActive(c) # 0
    /\ Lockable(c)
    /\ pins' = [pins EXCEPT ![DigestOf(c)] = @ + 1]
    /\ exec' = [exec EXCEPT ![c] = "await_lock"]
    /\ IF wanted[c].kind = "direct" THEN LockBench(c) ELSE UNCHANGED benchLock
    /\ UNCHANGED <<wanted, run, steps, task, cached, older, lease, granted, stopping, boots>>

Fetch(c) ==
    /\ exec[c] = "await_lock"
    /\ ~DigestLocked(DigestOf(c))
    /\ FetchStep(c)
    /\ UNCHANGED <<wanted, run, steps, task, lease, granted, stopping, boots>>

(* The file is there: a direct command drives the bench; a workflow reads  *)
(* its lease and then waits for the backend to describe the bench, before  *)
(* it locks it.                                                            *)
FetchedBy(c) ==
    IF wanted[c].kind = "direct"
    THEN /\ exec' = [exec EXCEPT ![c] = "operate"]
         /\ UNCHANGED <<run, pins>>
    ELSE IF RequireActive(c) # 0
    THEN /\ exec' = [exec EXCEPT ![c] = "start"]
         /\ run' = [run EXCEPT ![c].reservation = RequireActive(c)]
         /\ UNCHANGED pins
    ELSE /\ exec' = [exec EXCEPT ![c] = "over"]
         /\ Unpin(DigestOf(c))
         /\ UNCHANGED run

(* The hash of the existing file agrees: it becomes the most recently used *)
Verified(c) ==
    /\ exec[c] = "verify"
    /\ SpaceFor(DigestOf(c), 0)
    /\ UseLast(MakeSpace(DigestOf(c), 0), DigestOf(c))
    /\ FetchedBy(c)
    /\ UNCHANGED <<wanted, steps, task, benchLock, lease, granted, stopping, boots>>

(* The hash disagrees: the file is removed and fetched again.  A file rots *)
(* at rest, when nobody else uses it.                                      *)
Corrupt(c) ==
    /\ exec[c] = "verify"
    /\ pins[DigestOf(c)] = 1
    /\ SpaceFor(DigestOf(c), 0)
    /\ KeepFiles(MakeSpace(DigestOf(c), 0) \ {DigestOf(c)})
    /\ exec' = [exec EXCEPT ![c] = "download"]
    /\ UNCHANGED <<wanted, run, steps, task, pins, benchLock, lease, granted,
                   stopping, boots>>

Downloaded(c) ==
    /\ exec[c] = "download"
    /\ UseLast(cached, DigestOf(c))
    /\ FetchedBy(c)
    /\ UNCHANGED <<wanted, steps, task, benchLock, lease, granted, stopping, boots>>

(* The executor's finally clauses, when the command ends with no run *)
Leave(c) ==
    /\ exec' = [exec EXCEPT ![c] = "over"]
    /\ Unpin(DigestOf(c))
    /\ FreeBench(c)
    /\ UNCHANGED <<wanted, run, steps, task, lease, granted, stopping, boots>>

(* Concurrent downloads overfilled the cache with pinned files *)
VerifyFails(c) ==
    /\ exec[c] = "verify"
    /\ ~SpaceFor(DigestOf(c), 0)
    /\ KeepFiles(MakeSpace(DigestOf(c), 0))
    /\ Leave(c)

(* The download, its check or the direct operation fails, or the latter    *)
(* succeeds.                                                               *)
DownloadFails(c) == exec[c] = "download" /\ Leave(c) /\ UNCHANGED <<cached, older>>

OperationEnds(c) == exec[c] = "operate" /\ Leave(c) /\ UNCHANGED <<cached, older>>

(* WorkflowService.start refuses: the bench went offline or another        *)
(* operation locked it meanwhile.                                          *)
StartFails(c) == exec[c] = "start" /\ Leave(c) /\ UNCHANGED <<cached, older>>

(* WorkflowService.start: lock, row and task, in that order *)
Start(c) ==
    /\ exec[c] = "start"
    /\ Lockable(c)
    /\ LockBench(c)
    /\ run' = [run EXCEPT ![c].status = "pending"]
    /\ task' = [task EXCEPT ![c].pc = "new"]
    /\ exec' = [exec EXCEPT ![c] = "waiting"]
    /\ UNCHANGED <<wanted, steps, cached, older, pins, lease, granted, stopping, boots>>

(* The poll finds the task and its cleanup over: the outcome is reported *)
RunWatched(c) ==
    /\ exec[c] = "waiting"
    /\ task[c].pc = "none"
    /\ exec' = [exec EXCEPT ![c] = "over"]
    /\ Unpin(DigestOf(c))
    /\ UNCHANGED <<wanted, run, steps, task, cached, older, benchLock, lease, granted,
                   stopping, boots>>

-----------------------------------------------------------------------------
(* Cancellation *)

LiveTask(c) == task[c].pc \notin {"none", "finished"}

(* WorkflowService.cancel: the row first, then the mark on the task.  A    *)
(* run in these states always has a live task.                             *)
RequestCancel(c) ==
    /\ run' = [run EXCEPT ![c].status = "cancel_requested"]
    /\ task' = [task EXCEPT ![c].requested = TRUE, ![c].marked = TRUE]

(* The command is cancelled before it has a run.  A fetch that was waiting *)
(* for the digest's lock leaves its pin behind: only the body of the lock  *)
(* releases it.                                                            *)
CancelEarly(c) ==
    /\ exec[c] \in {"await_lock", "verify", "download", "start", "operate"}
    /\ exec' = [exec EXCEPT ![c] = "over"]
    /\ IF exec[c] = "await_lock" /\ DigestLocked(DigestOf(c))
       THEN UNCHANGED pins
       ELSE Unpin(DigestOf(c))
    /\ FreeBench(c)
    /\ UNCHANGED <<wanted, run, steps, task, cached, older, lease, granted, stopping, boots>>

(* The command is cancelled while its run is watched: the run is asked to  *)
(* stop, and the executor lets go of the artifact without waiting for it.  *)
CancelWatched(c) ==
    /\ exec[c] = "waiting"
    /\ IF run[c].status \in {"pending", "running"}
       THEN RequestCancel(c)
       ELSE UNCHANGED <<run, task>>
    /\ exec' = [exec EXCEPT ![c] = "over"]
    /\ Unpin(DigestOf(c))
    /\ UNCHANGED <<wanted, steps, cached, older, benchLock, lease, granted, stopping, boots>>

-----------------------------------------------------------------------------
(* WorkflowRunner *)

SetPc(c, pc) == task' = [task EXCEPT ![c].pc = pc]

SetStep(c, status) == steps' = [steps EXCEPT ![c][task[c].index] = status]

(* The last lines of _run: the row, the flags, the lock *)
EndRun(c, status) ==
    /\ run' = [run EXCEPT ![c].status = status]
    /\ task' = [task EXCEPT ![c] = [NoTask EXCEPT !.pc = "finished"]]
    /\ FreeBench(c)

(* A cancelled run says who stopped it: a user or a shutdown *)
Interruption(c) == IF task[c].requested THEN "cancelled" ELSE "failed"

AtPc(c, pc) == task[c].pc = pc /\ ~task[c].marked

(* The task starts: the bench must still be reserved for the run *)
RunTask(c) ==
    /\ AtPc(c, "new")
    /\ IF StillReserved(c)
       THEN /\ run' = [run EXCEPT ![c].status = "running"]
            /\ SetPc(c, "ready")
            /\ UNCHANGED benchLock
       ELSE EndRun(c, "failed")
    /\ UNCHANGED <<wanted, exec, steps, cached, older, pins, lease, granted, stopping, boots>>

(* The top of the loop over the steps, up to the description of the bench *)
EnterStep(c, index) ==
    IF index > NumSteps
    THEN EndRun(c, "succeeded")
    ELSE IF StillReserved(c)
    THEN /\ task' = [task EXCEPT ![c].pc = "gate", ![c].index = index]
         /\ UNCHANGED <<run, benchLock>>
    ELSE EndRun(c, "failed")

(* _ensure_bench_ready: the first answer of the backend, before the loop *)
BenchReady(c) ==
    /\ AtPc(c, "ready")
    /\ EnterStep(c, 1)
    /\ UNCHANGED <<wanted, exec, steps, cached, older, pins, lease, granted, stopping, boots>>

(* ... and the one at the top of every step *)
BeginStep(c) ==
    /\ AtPc(c, "gate")
    /\ steps' = [steps EXCEPT ![c] = Append(@, "running")]
    /\ SetPc(c, "execute")
    /\ UNCHANGED <<wanted, exec, run, cached, older, pins, benchLock, lease, granted,
                   stopping, boots>>

(* The bench is offline or lacks a capability *)
BenchUnavailable(c) ==
    /\ AtPc(c, "ready") \/ AtPc(c, "gate")
    /\ EndRun(c, "failed")
    /\ UNCHANGED <<wanted, exec, steps, cached, older, pins, lease, granted, stopping, boots>>

(* _execute_step returns: what it captured is stored next *)
StepDone(c) ==
    /\ AtPc(c, "execute")
    /\ SetPc(c, "store")
    /\ UNCHANGED <<wanted, exec, run, steps, cached, older, pins, benchLock, lease,
                   granted, stopping, boots>>

(* The step, its timeout or the store fails: what was captured is stored   *)
(* as far as possible before the failure is recorded.                      *)
StepFails(c) ==
    /\ AtPc(c, "execute") \/ AtPc(c, "store")
    /\ SetPc(c, "salvage")
    /\ UNCHANGED <<wanted, exec, run, steps, cached, older, pins, benchLock, lease,
                   granted, stopping, boots>>

(* _persist_step_serial returns *)
StepStored(c) ==
    /\ AtPc(c, "store")
    /\ SetStep(c, "succeeded")
    /\ EnterStep(c, task[c].index + 1)
    /\ UNCHANGED <<wanted, exec, cached, older, pins, lease, granted, stopping, boots>>

(* _persist_step_serial_best_effort returns after a failure *)
StepSalvaged(c) ==
    /\ AtPc(c, "salvage")
    /\ SetStep(c, "failed")
    /\ EndRun(c, "failed")
    /\ UNCHANGED <<wanted, exec, cached, older, pins, lease, granted, stopping, boots>>

(* The mark on the task is found in the step: its output is salvaged *)
InterruptStep(c) ==
    /\ task[c].marked
    /\ task[c].pc \in {"execute", "store"}
    /\ task' = [task EXCEPT ![c].pc = "interrupted", ![c].marked = FALSE]
    /\ UNCHANGED <<wanted, exec, run, steps, cached, older, pins, benchLock, lease,
                   granted, stopping, boots>>

(* An interruption that leaves the step's row alone *)
StepLeftRunning(c) == UNCHANGED steps

(* _finish_interrupted_step *)
FinishInterruptedStep(c) ==
    IF task[c].pc \in {"interrupted", "salvage"}
    THEN SetStep(c, Interruption(c))
    ELSE UNCHANGED steps

(* The mark is found outside a step, or while its output is being          *)
(* salvaged, or the salvage of an interrupted step is over.                *)
Interrupt(c) ==
    /\ \/ task[c].marked /\ task[c].pc \in {"ready", "gate", "salvage", "interrupted"}
       \/ task[c].pc = "interrupted"
    /\ FinishInterruptedStep(c)
    /\ EndRun(c, Interruption(c))
    /\ UNCHANGED <<wanted, exec, cached, older, pins, lease, granted, stopping, boots>>

(* A cleanup that leaves the lock of a task that never ran *)
CleanupRowOnly(c) ==
    /\ \/ task[c].pc = "finished" /\ UNCHANGED run
       \/ /\ task[c].pc = "new" /\ task[c].marked
          /\ run' = [run EXCEPT ![c].status = Interruption(c)]
    /\ task' = [task EXCEPT ![c] = NoTask]
    /\ UNCHANGED <<wanted, exec, steps, cached, older, pins, benchLock, lease, granted,
                   stopping, boots>>

(* The task is over; a task that was marked before it ever ran leaves its  *)
(* row and its lock to this callback.                                      *)
Cleanup(c) ==
    /\ \/ /\ task[c].pc = "finished"
          /\ UNCHANGED <<run, benchLock>>
       \/ /\ task[c].pc = "new" /\ task[c].marked
          /\ run' = [run EXCEPT ![c].status = Interruption(c)]
          /\ FreeBench(c)
    /\ task' = [task EXCEPT ![c] = NoTask]
    /\ UNCHANGED <<wanted, exec, steps, cached, older, pins, lease, granted, stopping, boots>>

-----------------------------------------------------------------------------
(* Leases, shutdown and restart *)

(* A lease is revoked, released or expires *)
LeaseEnds(b) ==
    /\ lease[b] # 0
    /\ lease' = [lease EXCEPT ![b] = 0]
    /\ UNCHANGED <<wanted, exec, run, steps, task, cached, older, pins, benchLock,
                   granted, stopping, boots>>

(* The bench is granted to a new reservation *)
LeaseArrives(b) ==
    /\ lease[b] = 0 /\ granted[b] < MaxLease
    /\ lease' = [lease EXCEPT ![b] = granted[b] + 1]
    /\ granted' = [granted EXCEPT ![b] = @ + 1]
    /\ UNCHANGED <<wanted, exec, run, steps, task, cached, older, pins, benchLock,
                   stopping, boots>>

(* WorkflowRunner.shutdown marks every task that is not done *)
Shutdown ==
    /\ ~stopping /\ boots < MaxBoots
    /\ stopping' = TRUE
    /\ task' = [c \in Command |->
            IF LiveTask(c) THEN [task[c] EXCEPT !.marked = TRUE] ELSE task[c]]
    /\ UNCHANGED <<wanted, exec, run, steps, cached, older, pins, benchLock, lease,
                   granted, boots>>

(* recover_interrupted *)
RecoveredRun(c) ==
    IF run[c].status \in ActiveRun THEN [run[c] EXCEPT !.status = "failed"] ELSE run[c]

RecoveredSteps(c) ==
    IF run[c].status \in ActiveRun
    THEN [i \in DOMAIN steps[c] |->
            IF steps[c][i] = "running" THEN "failed" ELSE steps[c][i]]
    ELSE steps[c]

(* The process dies, or exits after its shutdown, and starts again.  What  *)
(* was in memory is gone; a command being executed is not resumed; stale   *)
(* locks are dropped once the runs they belong to are closed.              *)
Reboot ==
    /\ boots < MaxBoots
    /\ stopping => \A c \in Command : task[c].pc = "none"
    /\ boots' = boots + 1
    /\ stopping' = FALSE
    /\ run' = [c \in Command |-> RecoveredRun(c)]
    /\ steps' = [c \in Command |-> RecoveredSteps(c)]
    /\ task' = [c \in Command |-> NoTask]
    /\ exec' = [c \in Command |-> IF exec[c] = "none" THEN "none" ELSE "over"]
    /\ pins' = [d \in Digest |-> 0]
    /\ benchLock' = [b \in WorkBench |-> Nobody]
    /\ UNCHANGED <<wanted, cached, older, lease, granted>>

-----------------------------------------------------------------------------
ExecutorStep(c) ==
    \/ Fetch(c) \/ Verified(c) \/ Corrupt(c) \/ Downloaded(c) \/ DownloadFails(c)
    \/ VerifyFails(c) \/ OperationEnds(c) \/ StartFails(c) \/ Start(c) \/ RunWatched(c)

RunnerStep(c) ==
    \/ RunTask(c) \/ BenchReady(c) \/ BeginStep(c) \/ BenchUnavailable(c)
    \/ StepDone(c) \/ StepFails(c) \/ StepStored(c) \/ StepSalvaged(c)
    \/ InterruptStep(c) \/ Interrupt(c) \/ Cleanup(c)

WorkNext ==
    \/ \E c \in Command :
        \/ Execute(c) \/ ExecutorStep(c) \/ RunnerStep(c)
        \/ CancelEarly(c) \/ CancelWatched(c)
    \/ \E b \in WorkBench : LeaseEnds(b) \/ LeaseArrives(b)
    \/ Shutdown
    \/ Reboot

WorkSpec == WorkInit /\ [][WorkNext]_workVars

WorkTurn == focus = "work"

(* Downloads and hardware answer or time out (every step has a timeout),   *)
(* and the event loop runs every task that is ready.                       *)
WorkFairness == \A c \in Command :
    WF_workVars(WorkTurn /\ ExecutorStep(c)) /\ WF_workVars(WorkTurn /\ RunnerStep(c))

-----------------------------------------------------------------------------
WorkTypeOK ==
    /\ wanted \in [Command ->
            [kind : {"workflow", "direct"}, bench : WorkBench, digest : Digest]]
    /\ exec \in [Command -> {"none", "await_lock", "verify", "download", "start",
                             "operate", "waiting", "over"}]
    /\ run \in [Command ->
            [status : {"none"} \cup ActiveRun \cup TerminalRun,
             reservation : 0..MaxLease]]
    /\ \A c \in Command :
        /\ steps[c] \in Seq({"running", "succeeded", "failed", "cancelled"})
        /\ Len(steps[c]) <= NumSteps
    /\ task \in [Command ->
            [pc : {"none", "new", "ready", "gate", "execute", "store", "salvage",
                   "interrupted", "finished"},
             index : 0..NumSteps, marked : BOOLEAN, requested : BOOLEAN]]
    /\ cached \subseteq Digest /\ older \subseteq cached \X cached
    /\ \A d, e \in cached : <<d, e>> \in older <=> d # e /\ <<e, d>> \notin older
    /\ pins \in [Digest -> 0..Cardinality(Command)]
    /\ benchLock \in [WorkBench -> Command \cup {Nobody}]
    /\ lease \in [WorkBench -> 0..MaxLease]
    /\ granted \in [WorkBench -> 0..MaxLease]
    /\ stopping \in BOOLEAN
    /\ boots \in 0..MaxBoots

(* The record of a finished run is closed and true: no step is left        *)
(* running, a successful run has succeeded at every step, and an           *)
(* unsuccessful one did not pass its last step, however cancellation,      *)
(* timeouts, shutdown and crashes met.                                     *)
RunRecordTrue ==
    \A c \in Command : run[c].status \in TerminalRun =>
        /\ \A i \in DOMAIN steps[c] : steps[c][i] # "running"
        /\ \A i, j \in DOMAIN steps[c] : i < j => steps[c][i] = "succeeded"
        /\ run[c].status = "succeeded" <=>
            steps[c] = [i \in 1..NumSteps |-> "succeeded"]

(* Whoever drives a bench holds its lock, and the artifact it was told to  *)
(* use is still in the cache, although other commands fetch, evict and     *)
(* release files meanwhile.  (A task that is marked is on its way out.)    *)
Driving(c) ==
    \/ exec[c] = "operate"
    \/ LiveTask(c) /\ task[c].pc # "new"

HardwareUse ==
    \A c \in Command : Driving(c) =>
        /\ benchLock[BenchOf(c)] = c
        /\ task[c].requested \/ DigestOf(c) \in cached

\* Every bench is free: every run, operation and cancellation has ended.
BenchesFree == \A b \in WorkBench : benchLock[b] = Nobody

=============================================================================

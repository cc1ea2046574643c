------------------------------ MODULE CISessions ------------------------------
(***************************************************************************)
(* The life of one distributed CI session on the control plane            *)
(* (control_plane_core/distributed_ci.py over persistence/ci.py).         *)
(*                                                                         *)
(* The session row is written whole by compare_and_set, guarded only by    *)
(* its status.  start, heartbeat, cancel, cleanup and the maintenance pass *)
(* hold the session's asyncio lock from their first read to their last     *)
(* write (`task`); get synchronises without it (`reader`).  A process      *)
(* crash loses both.  Sessions share nothing but the striped locks, so one *)
(* session is modelled.  The workflow coordinator, the lease service and   *)
(* the Agent have modules of their own; here each is reduced to what the   *)
(* CI service reads of it.                                                 *)
(***************************************************************************)
EXTENDS SideBySide, Naturals

CONSTANT MaxCiCrashes  \* control-plane restarts

ASSUME CiAssumption == MaxCiCrashes \in Nat

VARIABLES
  ciRow,     \* the ci_sessions row; `held` is its binding and reservation_id
  remote,    \* the remote operation as get_operation_for_command shows it
  cancelAsked,     \* a cancellation of the remote command was delivered
  ciLease,   \* the reservation's lease
  pending,   \* some artifact of the operation has not been uploaded
  late,      \* the artifact finalization deadline has passed
  beat,      \* "fresh" or "stale" heartbeat_at; "expired" once timeout_at has passed
  sweep,     \* the maintenance pass waiting for the lock: what it listed before
  task,      \* the handler holding the session lock
  reader,    \* the row an unlocked get has read
  ciCrashes

ciVars == <<ciRow, remote, cancelAsked, ciLease, pending, late, beat, sweep,
            task, reader, ciCrashes>>
remoteVars == <<remote, cancelAsked, pending>>
clockVars  == <<late, beat>>

-----------------------------------------------------------------------------
(* Statuses and the session's record *)

Settled  == {"succeeded", "failed", "cancelled"}
Finished == {"succeeded", "failed", "cancelled", "timed_out"}
Watched  == {"running", "cancel_requested"}
SessionStatus   == {"none", "waiting_for_bench", "cleanup_pending", "completed"}
              \cup Watched \cup Finished
Outcome  == {"pending", "succeeded", "failed", "cancelled", "timed_out",
             "infrastructure_error"}
Session  == [status: SessionStatus, outcome: Outcome, held: BOOLEAN]

NoCiSession == [status |-> "none", outcome |-> "pending", held |-> FALSE]
NoTask    == [op |-> "idle"]
NoSweep   == "idle"

At(op, pc) == task.op = op /\ task.at = pc
Here(pc)   == task.op # "idle" /\ task.at = pc
Goto(pc, s) ==
  task' = [task EXCEPT !.at = pc, !.snap = s,
                       !.sweep = IF pc = "act" THEN task.sweep ELSE NoSweep]
Leave      == task' = NoTask

\* compare_and_set: the whole row, provided its status is an expected one;
\* _compare_or_reload goes on with whatever the row then is.
CompareAndSet(new, expected) ==
  IF ciRow.status \in expected THEN new ELSE ciRow

-----------------------------------------------------------------------------
(* Projection of the remote operation on the session *)

OperationSessionResult(s) ==
  IF s.outcome = "timed_out"
  THEN [s EXCEPT !.status = "timed_out"]
  ELSE [s EXCEPT !.status = remote, !.outcome = remote]

\* _synchronize: what it would write for the session it was given.  A remote
\* operation of unknown state counts only once its reconciliation deadline is
\* over ("lost").
Projection(s) ==
  IF s.status \notin Watched \/ ~s.held \/ remote \in {"none", "running"}
  THEN s
  ELSE IF remote = "lost"
  THEN [s EXCEPT !.status = "failed", !.outcome = "infrastructure_error"]
  ELSE OperationSessionResult(s)

Synchronize(s) == IF Projection(s) = s THEN ciRow
                  ELSE CompareAndSet(Projection(s), Watched)
Synchronized(s) == IF Projection(s) = s THEN s ELSE Synchronize(s)

OwnershipIgnored(s) == s

\* _fail_if_ownership_ended
OwnershipEnded(s) ==
  IF ~s.held
  THEN [s EXCEPT !.status = IF s.outcome = "timed_out" THEN "timed_out" ELSE "cancelled"]
  ELSE IF ciLease = "over"
  THEN [s EXCEPT !.status = "failed", !.outcome = "infrastructure_error"]
  ELSE s

StillOwned(s) == s.status # "cancel_requested" \/ OwnershipEnded(s) = s
CheckOwner(s) == IF StillOwned(s) THEN ciRow
                 ELSE CompareAndSet(OwnershipEnded(s), {"cancel_requested"})
OwnerChecked(s) == IF StillOwned(s) THEN s ELSE CheckOwner(s)

-----------------------------------------------------------------------------
(* Initial state and creation *)

CiInit ==
  /\ ciRow = NoCiSession /\ remote = "none" /\ cancelAsked = FALSE
  /\ ciLease = "none" /\ pending = FALSE
  /\ late = FALSE /\ beat = "fresh"
  /\ sweep = NoSweep /\ task = NoTask /\ reader = NoCiSession
  /\ ciCrashes = 0

\* create: repeated calls with the same idempotency key return the row.
CreateSession ==
  /\ ciRow.status = "none"
  /\ ciRow' = [NoCiSession EXCEPT !.status = "waiting_for_bench"]
  /\ UNCHANGED <<remoteVars, ciLease, clockVars, sweep, task, reader, ciCrashes>>

-----------------------------------------------------------------------------
(* Taking the lock *)

\* Every handler starts by reading the row under the lock and synchronising it
\* (one step: only an unlocked get could come between, and it writes the same
\* projection).  A completed session is returned as it is.
BeginSession(op, sw) ==
  /\ ciRow.status \notin {"none", "completed"} /\ task = NoTask
  /\ ciRow' = Synchronize(ciRow)
  /\ task' = [op |-> op, at |-> "act", snap |-> Synchronized(ciRow), sweep |-> sw,
              freed |-> FALSE]

\* A request of the CI job or of a user.
CiRequest ==
  /\ \E op \in {"start", "heartbeat", "cancel", "cleanup"} : BeginSession(op, NoSweep)
  /\ UNCHANGED <<remoteVars, ciLease, clockVars, sweep, reader, ciCrashes>>

\* process_maintenance lists the sessions that are not completed, and the
\* stale ones, before it waits for each session's lock.
ProcessMaintenance ==
  /\ ciRow.status \notin {"none", "completed"} /\ sweep = NoSweep
  /\ sweep' = beat
  /\ UNCHANGED <<ciRow, remoteVars, ciLease, clockVars, task, reader, ciCrashes>>

Maintain ==
  /\ sweep # NoSweep /\ BeginSession("maintain", sweep)
  /\ sweep' = NoSweep
  /\ UNCHANGED <<remoteVars, ciLease, clockVars, reader, ciCrashes>>

\* _session_is_due: judged with the listing's clock on the row read under the
\* lock.  Passing maximum_wait_seconds is folded into `expired`.
SessionIsDue == task.sweep = "expired" \/ (task.sweep = "stale" /\ beat # "fresh")

-----------------------------------------------------------------------------
(* start *)

\* The session is bound already, or no longer waits: nothing is launched.
StartRefused ==
  /\ At("start", "act")
  /\ task.snap.held \/ task.snap.status # "waiting_for_bench"
  /\ Leave
  /\ UNCHANGED <<ciRow, remoteVars, ciLease, clockVars, sweep, reader, ciCrashes>>

\* coordinator.run under the session's launch key: a repetition replays the
\* command of an earlier start that was never attached.  It may raise, before
\* the command is created or, in its dispatch, after.
Launch ==
  /\ At("start", "act") /\ ~task.snap.held /\ task.snap.status = "waiting_for_bench"
  /\ \/ remote = "none" /\ remote' = "running" /\ ciLease' = "active"
     \/ UNCHANGED <<remote, ciLease>>
  /\ \/ remote' # "none" /\ Goto("attach", task.snap)
     \/ Leave
  /\ UNCHANGED <<ciRow, cancelAsked, pending, clockVars, sweep, reader, ciCrashes>>

AttachDistributedWorkflow ==
  /\ At("start", "attach")
  /\ ciRow' = IF ciRow.status = "waiting_for_bench" /\ ~ciRow.held
              THEN [ciRow EXCEPT !.status = "running", !.held = TRUE] ELSE ciRow
  /\ Leave
  /\ UNCHANGED <<remoteVars, ciLease, clockVars, sweep, reader, ciCrashes>>

-----------------------------------------------------------------------------
(* heartbeat and cancel *)

\* The row is rewritten with a new heartbeat_at unless a reader moved it on;
\* the lease renewal that follows leaves an active lease active.
HeartbeatSession ==
  /\ At("heartbeat", "act")
  /\ IF task.snap.status # "completed" /\ ciRow.status = task.snap.status
     THEN /\ ciRow' = task.snap
          /\ beat' = IF beat = "stale" THEN "fresh" ELSE beat
     ELSE UNCHANGED <<ciRow, beat>>
  /\ Leave
  /\ UNCHANGED <<remoteVars, ciLease, late, sweep, reader, ciCrashes>>

\* The status and outcome a cancellation gives: an unbound session is over at
\* once, a bound one waits for its operation.
CancelledSession(s) ==
  IF ~s.held THEN [s EXCEPT !.status = "cancelled", !.outcome = "cancelled"]
  ELSE IF s.status = "cancel_requested" THEN s
  ELSE [s EXCEPT !.status = "cancel_requested", !.outcome = "cancelled"]

CancelSession ==
  /\ At("cancel", "act")
  /\ LET s == task.snap
         row == CompareAndSet(CancelledSession(s), {s.status})
     IN IF s.status = "completed" THEN Leave /\ UNCHANGED ciRow
        ELSE IF s.status \in Finished \cup {"cleanup_pending"}
        THEN Goto("cleanup", s) /\ UNCHANGED ciRow
        ELSE /\ ciRow' = row
             /\ Goto(IF s.held THEN "send" ELSE "cleanup", row)
  /\ UNCHANGED <<remoteVars, ciLease, clockVars, sweep, reader, ciCrashes>>

\* _try_send_cancel: the request is delivered, or its failure is recorded and
\* a later pass retries it.
TrySendCancel ==
  /\ Here("send")
  /\ \/ cancelAsked' = (cancelAsked \/ remote \notin Settled)
     \/ UNCHANGED cancelAsked
  /\ Goto(IF task.op = "cancel" THEN "leave" ELSE "owner", task.snap)
  /\ UNCHANGED <<ciRow, remote, pending, ciLease, clockVars, sweep, reader, ciCrashes>>

\* The cancel handler ends with one more _synchronize.
CancelReturns ==
  /\ At("cancel", "leave")
  /\ ciRow' = Synchronize(task.snap)
  /\ Leave
  /\ UNCHANGED <<remoteVars, ciLease, clockVars, sweep, reader, ciCrashes>>

-----------------------------------------------------------------------------
(* The maintenance pass *)

\* _timeout_locked
TimedOut(s) ==
  [s EXCEPT !.outcome = "timed_out",
            !.status = IF s.held THEN "cancel_requested" ELSE "timed_out"]

CleanOrLeave(s) ==
  IF s.status \in Finished \cup {"cleanup_pending"} THEN Goto("cleanup", s) ELSE Leave

AfterTimeout(s) ==
  IF s.status = "cancel_requested" THEN Goto("watch", s) ELSE CleanOrLeave(s)

MaintainLocked ==
  /\ At("maintain", "act")
  /\ LET s == task.snap
         row == CompareAndSet(TimedOut(s), {s.status})
     IN IF s.status \in {"waiting_for_bench", "running"} /\ SessionIsDue
        THEN /\ ciRow' = row /\ AfterTimeout(row)
             /\ \/ cancelAsked' = (cancelAsked \/ (row.status = "cancel_requested"
                                        /\ remote \notin Settled))
                \/ UNCHANGED cancelAsked
        ELSE AfterTimeout(s) /\ UNCHANGED <<ciRow, cancelAsked>>
  /\ UNCHANGED <<remote, pending, ciLease, clockVars, sweep, reader, ciCrashes>>

\* A session being cancelled is synchronised again before its cancellation is
\* resent.
WatchCancellation ==
  /\ At("maintain", "watch")
  /\ ciRow' = Synchronize(task.snap)
  /\ LET s == Synchronized(task.snap)
     IN IF s.status = "cancel_requested" THEN Goto("send", s) ELSE AfterTimeout(s)
  /\ UNCHANGED <<remoteVars, ciLease, clockVars, sweep, reader, ciCrashes>>

FailIfOwnershipEnded ==
  /\ At("maintain", "owner")
  /\ ciRow' = CheckOwner(task.snap)
  /\ CleanOrLeave(OwnerChecked(task.snap))
  /\ UNCHANGED <<remoteVars, ciLease, clockVars, sweep, reader, ciCrashes>>

-----------------------------------------------------------------------------
(* _cleanup_locked *)

CleanupRequested ==
  /\ At("cleanup", "act")
  /\ ciRow' = CheckOwner(task.snap)
  /\ CleanOrLeave(OwnerChecked(task.snap))
  /\ UNCHANGED <<remoteVars, ciLease, clockVars, sweep, reader, ciCrashes>>

CleanupBegins ==
  /\ Here("cleanup")
  /\ LET s == task.snap
         row == CompareAndSet([s EXCEPT !.status = "cleanup_pending"], {s.status})
     IN ciRow' = row /\ Goto("release", row)
  /\ UNCHANGED <<remoteVars, ciLease, clockVars, sweep, reader, ciCrashes>>

\* Releasing ends the lease, leaves it releasing until the Agent confirms, or
\* fails; cleanup is retried in the last two cases.
ReleaseReservation ==
  /\ Here("release")
  /\ LET leased == task.snap.held /\ ciLease # "over"
     IN \E after \in (IF leased THEN {"active", "releasing", "over"} ELSE {ciLease}) :
          /\ ciLease = "releasing" => after # "active"
          /\ ciLease' = after
          /\ task' = [task EXCEPT !.at = "finish",
                                  !.freed = ~task.snap.held \/ after = "over"]
  /\ UNCHANGED <<ciRow, remoteVars, clockVars, sweep, reader, ciCrashes>>

\* _finalize_artifacts: pending uploads are requested again until the deadline;
\* a failing metadata lookup (`found` false) counts as pending.
ArtifactsFinalized(found) == ~task.snap.held \/ (found /\ ~pending)

CleanupCompleteUnreleased(found) == ArtifactsFinalized(found) \/ late

\* Whether this attempt of cleanup may end the session.
CleanupComplete(found) == task.freed /\ (ArtifactsFinalized(found) \/ late)

FinalOutcomeKept(found) ==
  IF task.snap.outcome = "pending" THEN "infrastructure_error" ELSE task.snap.outcome

FinalOutcome(found) ==
  IF task.snap.outcome = "pending" \/ ~ArtifactsFinalized(found)
  THEN "infrastructure_error" ELSE task.snap.outcome

\* mark_finalized writes the row once, whatever its status; an attempt that has
\* to be repeated leaves it CLEANUP_PENDING.
FinishCleanup ==
  /\ Here("finish")
  /\ \E found \in BOOLEAN :
       ciRow' = IF CleanupComplete(found) /\ ciRow.status # "completed"
                THEN [task.snap EXCEPT !.status = "completed",
                                       !.outcome = FinalOutcome(found)]
                ELSE ciRow
  /\ Leave
  /\ UNCHANGED <<remoteVars, ciLease, clockVars, sweep, reader, ciCrashes>>

-----------------------------------------------------------------------------
(* get, which synchronises without the lock *)

GetReads ==
  /\ reader = NoCiSession /\ ciRow.status \in Watched
  /\ reader' = ciRow
  /\ UNCHANGED <<ciRow, remoteVars, ciLease, clockVars, sweep, task, ciCrashes>>

GetSynchronizes ==
  /\ reader # NoCiSession
  /\ ciRow' = Synchronize(reader) /\ reader' = NoCiSession
  /\ UNCHANGED <<remoteVars, ciLease, clockVars, sweep, task, ciCrashes>>

-----------------------------------------------------------------------------
(* The Agent, the lease service, time, and the process *)

\* The operation ends, or is lost from sight until its reconciliation deadline
\* is over (it may still be settled by a later reconciliation).  It ends cancelled
\* only when it was asked to or its lease is over.
RemoteProgress ==
  /\ remote \notin Settled \cup {"none"}
  /\ \/ /\ remote' \in {"succeeded", "failed"}
           \cup (IF cancelAsked \/ ciLease = "over" THEN {"cancelled"} ELSE {})
        /\ cancelAsked' = FALSE /\ pending' \in BOOLEAN
     \/ /\ remote = "running" /\ remote' = "lost" /\ UNCHANGED <<cancelAsked, pending>>
  /\ UNCHANGED <<ciRow, ciLease, clockVars, sweep, task, reader, ciCrashes>>

UploadArrives ==
  /\ pending /\ pending' = FALSE
  /\ UNCHANGED <<ciRow, remote, cancelAsked, ciLease, clockVars, sweep, task, reader, ciCrashes>>

\* The Agent confirms a release, or the lease expires.
LeaseEnds ==
  /\ ciLease \in {"active", "releasing"} /\ ciLease' = "over"
  /\ UNCHANGED <<ciRow, remoteVars, clockVars, sweep, task, reader, ciCrashes>>

Ages(from, to) ==
  /\ ciRow.status \notin {"none", "completed"} /\ beat \in from /\ beat' = to
  /\ UNCHANGED <<ciRow, remoteVars, ciLease, late, sweep, task, reader, ciCrashes>>

HeartbeatAges  == Ages({"fresh"}, "stale")
SessionExpires == Ages({"fresh", "stale"}, "expired")

\* The deadline runs from the operation's end, else from timeout_at.
ArtifactDeadlinePasses ==
  /\ ciRow.status = "cleanup_pending"
  /\ ~late /\ (remote \in Settled \/ beat = "expired") /\ late' = TRUE
  /\ UNCHANGED <<ciRow, remoteVars, ciLease, beat, sweep, task, reader, ciCrashes>>

CiCrash ==
  /\ ciCrashes < MaxCiCrashes
  /\ task # NoTask \/ reader # NoCiSession \/ sweep # NoSweep
  /\ task' = NoTask /\ reader' = NoCiSession /\ sweep' = NoSweep
  /\ ciCrashes' = ciCrashes + 1
  /\ UNCHANGED <<ciRow, remoteVars, ciLease, clockVars>>

-----------------------------------------------------------------------------
HandlerStep ==
  \/ StartRefused \/ Launch \/ AttachDistributedWorkflow
  \/ HeartbeatSession \/ CancelSession \/ TrySendCancel \/ CancelReturns
  \/ MaintainLocked \/ WatchCancellation \/ FailIfOwnershipEnded
  \/ CleanupRequested \/ CleanupBegins \/ ReleaseReservation
  \/ FinishCleanup

CiNext ==
  \/ CreateSession \/ CiRequest \/ ProcessMaintenance \/ Maintain
  \/ HandlerStep
  \/ GetReads \/ GetSynchronizes
  \/ RemoteProgress \/ UploadArrives \/ LeaseEnds
  \/ HeartbeatAges \/ SessionExpires \/ ArtifactDeadlinePasses \/ CiCrash

CiSpec == CiInit /\ [][CiNext]_ciVars

CiTurn == focus = "sessions"

\* The monitor loop runs process_maintenance for ever and asyncio locks are
\* granted in order (hence strong fairness of Maintain); handlers run on; leases
\* expire and deadlines pass.  Nothing is assumed of the Agent, of uploads or of
\* the CI job.
CiFairness ==
  /\ WF_ciVars(CiTurn /\ ProcessMaintenance) /\ SF_ciVars(CiTurn /\ Maintain)
  /\ WF_ciVars(CiTurn /\ HandlerStep)
  /\ WF_ciVars(CiTurn /\ LeaseEnds) /\ WF_ciVars(CiTurn /\ SessionExpires)
  /\ WF_ciVars(CiTurn /\ ArtifactDeadlinePasses)

-----------------------------------------------------------------------------
(* Properties *)

CiTypeOK ==
  /\ ciRow \in Session
  /\ remote \in {"none", "running", "lost"} \cup Settled
  /\ ciLease \in {"none", "active", "releasing", "over"}
  /\ pending \in BOOLEAN /\ cancelAsked \in BOOLEAN /\ late \in BOOLEAN
  /\ beat \in {"fresh", "stale", "expired"}
  /\ task # NoTask => task.snap \in Session
  /\ ciRow.held => ciLease # "none" /\ remote # "none"

\* A session reported COMPLETED has given its bench back: whichever handlers,
\* readers, crashes and lease events interleaved, the lease of a bound session
\* is over before mark_finalized writes the row.
CompletedIsClean ==
  ciRow.status = "completed" /\ ciRow.held => ciLease = "over"

\* A session that completed as SUCCEEDED ran to success on the Agent with every
\* artifact uploaded, although the row may have been cancelled, timed out,
\* cleaned up and rewritten from stale reads on the way.
SuccessIsReal ==
  ciRow.status = "completed" /\ ciRow.outcome = "succeeded" =>
    remote = "succeeded" /\ ~pending

\* The session is over.  It comes true even when the CI job vanishes and the
\* Agent never answers: the missed heartbeat or timeout cancels it, the end of
\* its lease fails it, and the retried cleanup finishes it.
SessionOver == ciRow.status \in {"none", "completed"}
=============================================================================

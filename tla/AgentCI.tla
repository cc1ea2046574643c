------------------------------- MODULE AgentCI -------------------------------
(***************************************************************************)
(* The life of one CI session on a standalone Agent (core/ci.py over       *)
(* persistence/ci.py): bench assignment, workflow launch, heartbeat,       *)
(* cancellation, timeouts, and the finalization that runs as one shared    *)
(* task.                                                                   *)
(*                                                                         *)
(* Every write of the row is a compare-and-set of the whole row on its     *)
(* status.  start_workflow starts the run before it attaches it; cancel    *)
(* and finalize read, await and write without a lock; only heartbeat and   *)
(* _timeout exclude each other.  `launch`, `cancelling`, `due` and         *)
(* `finalizing` are those handlers between their awaits.  The bench's      *)
(* reservation and the workflow run are reduced to what is read of them.   *)
(***************************************************************************)
EXTENDS SideBySide, Naturals

CONSTANT MaxAgentRestarts

ASSUME AgentCiAssumption == MaxAgentRestarts \in Nat

VARIABLES
  session,     \* the ci_sessions row
  job,         \* the workflow run: none, active or how it ended
  stopped,     \* its cancellation was requested
  bench,       \* the CI reservation: none, active, over
  busy,        \* another owner has the bench
  age,         \* heartbeat: "fresh" or "stale"; "expired" after any other timeout
  launch,      \* start_workflow: idle, started (run not attached), refused
  cancelling,  \* the row a cancel has read
  seen,        \* get has read a RUNNING row and not yet synchronised it
  due,         \* the timeout _maintain_session found, before it takes the guard
  finalizing,  \* the finalization task
  restarts

agentCiVars == <<session, job, stopped, bench, busy, age, launch, cancelling, seen, due,
                 finalizing, restarts>>
agentWorkVars    == <<job, stopped, bench, busy>>
handlerVars == <<launch, cancelling, seen, due>>

JobEnd    == {"succeeded", "failed", "cancelled"}
Ended     == JobEnd \cup {"timed_out"}
Early     == {"created", "waiting_for_bench", "reserved"}
CiStage     == Early \cup Ended
               \cup {"none", "running", "cancel_requested", "cleanup_pending", "completed"}
Verdict   == Ended \cup {"pending", "infrastructure_error"}
Row       == [status: CiStage, outcome: Verdict, held: BOOLEAN, run: BOOLEAN]

NoCiRow     == [status |-> "none", outcome |-> "pending", held |-> FALSE, run |-> FALSE]
NoFinal   == [at |-> "idle"]

AgentCiInit ==
  /\ session = NoCiRow /\ job = "none" /\ stopped = FALSE /\ bench = "none"
  /\ busy \in BOOLEAN /\ age = "fresh"
  /\ launch = "idle" /\ cancelling = NoCiRow /\ seen = FALSE /\ due = "none"
  /\ finalizing = NoFinal /\ restarts = 0

-----------------------------------------------------------------------------
(* Helpers *)

\* _synchronize_workflow: the run's end becomes the session's.
Synced(s) == IF s.status = "running" /\ s.run /\ job \in JobEnd
              THEN [s EXCEPT !.status = job, !.outcome = job] ELSE s

\* finalize: the task is shared by everyone who asks for it while it runs, and
\* a completed session is returned by its finalization key.
SharedFinalization(row) == IF finalizing = NoFinal /\ row.status # "completed"
                 THEN [at |-> "read", snap |-> NoCiRow, clean |-> TRUE]
                 ELSE finalizing

\* _cancel_run_if_active
CancelRun == stopped' = (stopped \/ job = "active")

-----------------------------------------------------------------------------
(* Creation and assignment *)

CreateCi ==
  /\ session.status = "none"
  /\ session' = [NoCiRow EXCEPT !.status = "created"]
  /\ UNCHANGED <<agentWorkVars, age, handlerVars, finalizing, restarts>>

\* _initialize_created_session, by create or by the first maintenance pass.
InitializeCi ==
  /\ session.status = "created"
  /\ session' = [session EXCEPT !.status = "waiting_for_bench"]
  /\ UNCHANGED <<agentWorkVars, age, handlerVars, finalizing, restarts>>

\* _compatible_candidates and _bench_is_available, for the one bench that fits:
\* online, no operation lock, no conflicting reservation.
Available == ~busy /\ job # "active"

\* try_assign: assign_compatible_bench selects a bench, reserves it and writes
\* the session in one transaction.
TryAssign ==
  /\ session.status \in {"created", "waiting_for_bench"} /\ ~session.held
  /\ Available
  /\ bench' = "active"
  /\ session' = [session EXCEPT !.status = "reserved", !.held = TRUE]
  /\ UNCHANGED <<job, stopped, busy, age, handlerVars, finalizing, restarts>>

-----------------------------------------------------------------------------
(* start_workflow *)

\* The run starts (it takes the bench's operation lock) before the session
\* knows of it.
StartWorkflow ==
  /\ launch = "idle" /\ session.status = "reserved" /\ bench = "active" /\ job = "none"
  /\ job' = "active" /\ launch' = "started"
  /\ UNCHANGED <<session, stopped, bench, busy, age, cancelling, seen, due, finalizing,
                 restarts>>

AttachWorkflowRun ==
  /\ launch = "started"
  /\ IF session.status = "reserved" /\ ~session.run
     THEN /\ session' = [session EXCEPT !.status = "running", !.run = TRUE]
          /\ launch' = "idle"
     ELSE launch' = "refused" /\ UNCHANGED session
  /\ UNCHANGED <<agentWorkVars, age, cancelling, seen, due, finalizing, restarts>>

\* The launch lost to a cancellation, timeout or finalization: its run is
\* cancelled.
StopUnattachedRun ==
  /\ launch = "refused" /\ launch' = "idle" /\ CancelRun
  /\ UNCHANGED <<session, job, bench, busy, age, cancelling, seen, due, finalizing, restarts>>

-----------------------------------------------------------------------------
(* get, heartbeat and cancel *)

GetRunning ==
  /\ ~seen /\ session.status = "running" /\ seen' = TRUE
  /\ UNCHANGED <<session, agentWorkVars, age, launch, cancelling, due, finalizing, restarts>>

SynchronizeWorkflow ==
  /\ seen /\ seen' = FALSE
  /\ session' = IF job \in JobEnd /\ session.status \in {"running", "cancel_requested"}
                THEN [session EXCEPT !.status = job, !.outcome = job] ELSE session
  /\ UNCHANGED <<agentWorkVars, age, launch, cancelling, due, finalizing, restarts>>

\* Read and written under the guard; the renewal keeps the reservation active.
HeartbeatCi ==
  /\ session.status \in Early \cup {"running", "cancel_requested"} /\ age = "stale"
  /\ age' = "fresh"
  /\ UNCHANGED <<session, agentWorkVars, handlerVars, finalizing, restarts>>

CancelReads ==
  /\ cancelling = NoCiRow /\ session.status \notin {"none", "completed"}
  /\ session' = Synced(session) /\ cancelling' = session'
  /\ UNCHANGED <<agentWorkVars, age, launch, seen, due, finalizing, restarts>>

\* A finished session is only finalized; otherwise the row is marked unless
\* another handler moved it on, its run is cancelled, and it is finalized.
CancelCi ==
  /\ cancelling # NoCiRow /\ cancelling' = NoCiRow
  /\ IF cancelling.status \in Ended \cup {"cleanup_pending"}
     THEN UNCHANGED <<session, stopped>>
     ELSE /\ session' = IF session.status = cancelling.status
                        THEN [cancelling EXCEPT !.status = "cancel_requested",
                                                !.outcome = "cancelled"]
                        ELSE session
          /\ IF session'.run THEN CancelRun ELSE UNCHANGED stopped
  /\ finalizing' = SharedFinalization(session')
  /\ UNCHANGED <<job, bench, busy, age, launch, seen, due, restarts>>

FinalizeRequested ==
  /\ session.status \notin {"none", "completed"} /\ finalizing = NoFinal
  /\ UNCHANGED session /\ finalizing' = SharedFinalization(session')
  /\ UNCHANGED <<agentWorkVars, age, handlerVars, restarts>>

-----------------------------------------------------------------------------
(* The maintenance pass *)

\* process_maintenance lists the sessions of every status but RESERVED and
\* COMPLETED, and the stale ones.
Listed == session.status \notin {"none", "reserved", "completed"} \/ age # "fresh"

\* _maintain_session reads the row and picks what is due.
MaintainSession ==
  /\ due = "none" /\ Listed
  /\ \/ /\ session.status \in Ended \cup {"cancel_requested", "cleanup_pending"}
        /\ UNCHANGED <<session, due>> /\ finalizing' = SharedFinalization(session')
     \/ /\ session.status = "running" /\ Synced(session) # session
        /\ session' = Synced(session) /\ finalizing' = SharedFinalization(session') /\ UNCHANGED due
     \/ /\ session.status \in Early \cup {"running"} /\ Synced(session) = session
        /\ age # "fresh" /\ due' = age
        /\ UNCHANGED <<session, finalizing>>
  /\ UNCHANGED <<agentWorkVars, age, launch, cancelling, seen, restarts>>

TimeoutAppliesOnce == due = "stale" /\ age = "stale"

\* _timeout_applies: whether the reason still holds of the row under the guard.
TimeoutApplies == due = "expired" \/ age # "fresh"

\* _timeout: judged again under the guard, which keeps heartbeats out.
TimeoutCi ==
  /\ due # "none" /\ due' = "none"
  /\ CASE session.status \in Ended \cup {"cleanup_pending"} ->
            UNCHANGED session /\ finalizing' = SharedFinalization(session)
       [] session.status \in Early \cup {"running", "cancel_requested"} /\ TimeoutApplies ->
            /\ session' = [session EXCEPT !.status = "timed_out", !.outcome = "timed_out"]
            /\ finalizing' = SharedFinalization(session')
       [] OTHER -> UNCHANGED <<session, finalizing>>
  /\ UNCHANGED <<agentWorkVars, age, launch, cancelling, seen, restarts>>

-----------------------------------------------------------------------------
(* The finalization task *)

FinalizeReads ==
  /\ finalizing.at = "read"
  /\ session' = Synced(session)
  /\ finalizing' = IF session'.status = "completed" THEN NoFinal
                   ELSE [finalizing EXCEPT !.at = "prepare", !.snap = session']
  /\ UNCHANGED <<agentWorkVars, age, handlerVars, restarts>>

\* _prepare_cleanup: a row that is still RUNNING is synchronised once more, a
\* pending outcome becomes FAILED, and the row is marked; when another handler
\* has changed it, cleanup goes on with the row as it then is.
PrepareCleanup ==
  /\ finalizing.at = "prepare"
  /\ LET s == finalizing.snap
         read == IF Synced(s) # s /\ session.status \in {"running", "cancel_requested"}
                 THEN Synced(s) ELSE IF Synced(s) # s THEN session ELSE s
         row == IF read # s THEN read ELSE session
         marked == [read EXCEPT !.status = "cleanup_pending",
                      !.outcome = IF read.outcome = "pending" THEN "failed" ELSE read.outcome]
     IN /\ session' = IF row.status \in {read.status, "cleanup_pending"} THEN marked ELSE row
        /\ finalizing' = [finalizing EXCEPT !.at = "stop", !.snap = session']
  /\ UNCHANGED <<agentWorkVars, age, handlerVars, restarts>>

CancelIfAttached == IF finalizing.snap.run THEN CancelRun ELSE UNCHANGED stopped

\* _stop_workflow cancels the attached run and waits for its end, or gives up
\* after its share of the cleanup timeout.
StopWorkflow ==
  /\ finalizing.at = "stop" /\ CancelIfAttached
  /\ \/ /\ ~finalizing.snap.run \/ job # "active"
        /\ finalizing' = [finalizing EXCEPT !.at = "release"]
     \/ /\ finalizing.snap.run /\ job = "active"
        /\ finalizing' = [finalizing EXCEPT !.at = "release", !.clean = FALSE]
  /\ UNCHANGED <<session, job, bench, busy, age, handlerVars, restarts>>

\* _locks_released and _release_reservation: a run that still holds the bench's
\* operation lock makes both fail, and the release may fail by itself.
ReleaseBench ==
  /\ finalizing.at = "release"
  /\ LET free == ~finalizing.snap.held \/ bench = "over"
         locked == finalizing.snap.held /\ job = "active"
     IN \E released \in (IF free THEN {TRUE} ELSE IF locked THEN {FALSE} ELSE BOOLEAN) :
          /\ bench' = IF released /\ ~free THEN "over" ELSE bench
          /\ finalizing' = [finalizing EXCEPT !.at = "artifacts",
                                              !.clean = @ /\ released /\ ~locked]
  /\ UNCHANGED <<session, job, stopped, busy, age, handlerVars, restarts>>

\* _finalize_artifacts stores the logs, results and summary, or fails.
StoreArtifacts ==
  /\ finalizing.at = "artifacts"
  /\ \E stored \in BOOLEAN :
       finalizing' = [finalizing EXCEPT !.at = "finish", !.clean = @ /\ stored]
  /\ UNCHANGED <<session, agentWorkVars, age, handlerVars, restarts>>

FinalVerdictKept == finalizing.snap.outcome

FinalVerdict == IF finalizing.clean THEN finalizing.snap.outcome ELSE "infrastructure_error"

\* mark_finalized, once; there is no second attempt.
MarkFinalized ==
  /\ finalizing.at = "finish"
  /\ session' = [finalizing.snap EXCEPT !.status = "completed", !.outcome = FinalVerdict]
  /\ finalizing' = NoFinal
  /\ UNCHANGED <<agentWorkVars, age, handlerVars, restarts>>

-----------------------------------------------------------------------------
(* The bench, time and the process *)

JobEnds ==
  /\ job = "active"
  /\ job' \in {"succeeded", "failed"} \cup (IF stopped THEN {"cancelled"} ELSE {})
  /\ UNCHANGED <<session, stopped, bench, busy, age, handlerVars, finalizing, restarts>>

\* The scheduler ends the reservation; an active operation delays that.
ReservationEnds ==
  /\ bench = "active" /\ job # "active" /\ bench' = "over"
  /\ UNCHANGED <<session, job, stopped, busy, age, handlerVars, finalizing, restarts>>

OthersUseBench ==
  /\ bench # "active" /\ job # "active" /\ session.status \in Early /\ busy' = ~busy
  /\ UNCHANGED <<session, job, stopped, bench, age, handlerVars, finalizing, restarts>>

CiAges(from, to) ==
  /\ session.status \notin {"none", "completed"} /\ age \in from /\ age' = to
  /\ UNCHANGED <<session, agentWorkVars, handlerVars, finalizing, restarts>>

HeartbeatMissed == CiAges({"fresh"}, "stale")
TimeoutReached  == CiAges({"fresh", "stale"}, "expired")

\* The process dies and restarts: the run is found interrupted, and before any
\* request is served recover_incomplete times out every live session and
\* finalizes it and those that had ended.
RestartAndRecover ==
  /\ restarts < MaxAgentRestarts /\ session.status \notin {"none", "completed"}
  /\ restarts' = restarts + 1
  /\ job' = IF job = "active" THEN "failed" ELSE job
  /\ launch' = "idle" /\ cancelling' = NoCiRow /\ seen' = FALSE /\ due' = "none"
  /\ session' = IF session.status \in Early \cup {"running", "cancel_requested"}
                THEN [session EXCEPT !.status = "timed_out", !.outcome = "timed_out"]
                ELSE session
  /\ finalizing' = [at |-> "read", snap |-> NoCiRow, clean |-> TRUE]
  /\ UNCHANGED <<stopped, bench, busy, age>>

-----------------------------------------------------------------------------
FinalizeStep == FinalizeReads \/ PrepareCleanup \/ StopWorkflow \/ ReleaseBench
                  \/ StoreArtifacts \/ MarkFinalized

AgentCiNext ==
  \/ CreateCi \/ InitializeCi \/ TryAssign
  \/ StartWorkflow \/ AttachWorkflowRun \/ StopUnattachedRun
  \/ GetRunning \/ SynchronizeWorkflow \/ HeartbeatCi \/ CancelReads \/ CancelCi
  \/ FinalizeRequested \/ MaintainSession \/ TimeoutCi \/ FinalizeStep
  \/ JobEnds \/ ReservationEnds \/ OthersUseBench \/ HeartbeatMissed \/ TimeoutReached
  \/ RestartAndRecover

AgentCiSpec == AgentCiInit /\ [][AgentCiNext]_agentCiVars

AgentCiTurn == focus = "agentci"

\* The maintenance loop and the finalization run on and time passes; nothing is
\* assumed of the CI job, the workflow run or the bench.
AgentCiFairness ==
  /\ WF_agentCiVars(AgentCiTurn /\ MaintainSession) /\ WF_agentCiVars(AgentCiTurn /\ TimeoutCi)
  /\ WF_agentCiVars(AgentCiTurn /\ FinalizeStep) /\ WF_agentCiVars(AgentCiTurn /\ TimeoutReached)

-----------------------------------------------------------------------------
(* Properties *)

AgentCiTypeOK ==
  /\ session \in Row
  /\ job \in {"none", "active"} \cup JobEnd /\ bench \in {"none", "active", "over"}
  /\ launch \in {"idle", "started", "refused"} /\ due \in {"none", "stale", "expired"}
  /\ stopped \in BOOLEAN /\ busy \in BOOLEAN /\ seen \in BOOLEAN
  /\ session.held => bench # "none"
  /\ session.run => session.held /\ job # "none"

\* A session reported as succeeded passed, and its bench is free: "A passed
\* workflow with a leaked reservation is never reported as success"
\* (docs/CI_CLEANUP.md), through every race of finalization with the launch,
\* a cancellation, a timeout and a restart.
PassedMeansClean ==
  session.status = "completed" /\ session.outcome = "succeeded" =>
    job = "succeeded" /\ bench = "over"

\* The session is over, whatever the CI job does or fails to do: a missed
\* heartbeat, a timeout, a cancellation or a restart always leads to the shared
\* finalization, which never waits for ever.
CiSessionOver == session.status \in {"none", "completed"}
=============================================================================

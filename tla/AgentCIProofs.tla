---------------------------- MODULE AgentCIProofs ----------------------------
(***************************************************************************)
(* Proofs about AgentCI: a CI session is reported as succeeded only when   *)
(* its run succeeded and its bench is free again.                          *)
(*                                                                         *)
(* Three handlers hold a copy of the row while they wait: the session's    *)
(* row itself, the row a cancellation has read and the row the             *)
(* finalization goes by.  The invariant says of each copy what stays true  *)
(* of it while the others write (RowTrue), and of copies read early that   *)
(* they cannot be of a later stage than the row (ReadsAreBehind).          *)
(***************************************************************************)
EXTENDS AgentCI, TLAPS

\* The session has no bench yet
Unassigned == {"none", "created", "waiting_for_bench"}

FinalAt == {"read", "prepare", "stop", "release", "artifacts", "finish"}

RowTypes ==
    /\ session \in Row
    /\ cancelling \in Row
    /\ finalizing = NoFinal \/ finalizing \in [at : FinalAt, snap : Row, clean : BOOLEAN]

OtherTypes ==
    /\ job \in {"none", "active"} \cup JobEnd
    /\ bench \in {"none", "active", "over"}
    /\ launch \in {"idle", "started", "refused"}
    /\ due \in {"none", "stale", "expired"}
    /\ age \in {"fresh", "stale", "expired"}
    /\ stopped \in BOOLEAN /\ busy \in BOOLEAN /\ seen \in BOOLEAN
    /\ job # "none" => bench # "none"
    /\ launch = "started" => job # "none"

\* What is true of a copy of the row, from when it was read on, of a bench in state b
\* and a run in state j.
RowTrue(r, b, j) ==
    /\ r.held => b # "none"
    /\ r.run => r.held /\ j # "none"
    /\ r.outcome = "succeeded" => r.held /\ j = "succeeded"
    /\ r.status \notin Unassigned \cup {"completed"} /\ b # "none" => r.held

RowsTrue ==
    /\ RowTrue(session, bench, job)
    /\ RowTrue(cancelling, bench, job)
    /\ finalizing # NoFinal => RowTrue(finalizing.snap, bench, job)

\* No copy is of a later stage than the row, where a later write depends on it.
ReadsAreBehind ==
    /\ session.status \in Unassigned =>
        /\ bench = "none"
        /\ cancelling.status \in Unassigned
        /\ finalizing # NoFinal => finalizing.snap.status \in Unassigned
    /\ cancelling.status # "completed"
    /\ finalizing.at = "prepare" =>
        /\ session.status # "completed"
        /\ session.status = "cleanup_pending" => finalizing.snap.status = "cleanup_pending"

\* A clean finalization has released the bench before it stores the artifacts.
CleanMeansReleased ==
    finalizing.at \in {"artifacts", "finish"} /\ finalizing.clean /\ finalizing.snap.held =>
        bench = "over"

AgentCiInv ==
    /\ RowTypes /\ OtherTypes
    /\ RowsTrue
    /\ ReadsAreBehind
    /\ CleanMeansReleased
    /\ PassedMeansClean

\* Neither a run nor a reservation comes back.
Forward ==
    /\ job # "none" => job' # "none"
    /\ job = "succeeded" => job' = "succeeded"
    /\ bench = "none" <=> bench' = "none"
    /\ bench = "over" => bench' = "over"

\* A finalization that has only been asked for
Requested == [at |-> "read", snap |-> NoCiRow, clean |-> TRUE]

-----------------------------------------------------------------------------
(* Rows *)

Written(r, st, out) == [r EXCEPT !.status = st, !.outcome = out]

LEMMA NoCiRowIs ==
    /\ NoCiRow \in Row
    /\ NoCiRow.status = "none" /\ NoCiRow.outcome = "pending" /\ ~NoCiRow.held /\ ~NoCiRow.run
    /\ \A b, j : RowTrue(NoCiRow, b, j)
  BY DEF NoCiRow, Row, CiStage, Verdict, RowTrue, Unassigned

LEMMA RequestedIs ==
    /\ Requested \in [at : FinalAt, snap : Row, clean : BOOLEAN]
    /\ Requested.at = "read" /\ Requested.snap = NoCiRow
    /\ NoFinal.at = "idle" /\ Requested # NoFinal
<1>1. Requested.at = "read" /\ NoFinal.at = "idle"
  BY DEF Requested, NoFinal
<1>2. Requested \in [at : FinalAt, snap : Row, clean : BOOLEAN] /\ Requested.snap = NoCiRow
  BY NoCiRowIs DEF Requested, FinalAt
<1> QED
  BY <1>1, <1>2

\* A status and an outcome written into a copy leave its bench and its run.
LEMMA RowWritten ==
    ASSUME NEW r \in Row, NEW st \in CiStage, NEW out \in Verdict
    PROVE  /\ Written(r, st, out) \in Row
           /\ Written(r, st, out).status = st /\ Written(r, st, out).outcome = out
           /\ Written(r, st, out).held = r.held /\ Written(r, st, out).run = r.run
  BY DEF Row, Written

LEMMA RowTruth == ASSUME NEW r \in Row PROVE r.held \in BOOLEAN /\ r.run \in BOOLEAN
                                             /\ r.status \in CiStage /\ r.outcome \in Verdict
  BY DEF Row

\* A truthful copy with a status of a bench's session, and an outcome that is not a
\* success unless it was one, is a truthful copy.
LEMMA WrittenTrue ==
    ASSUME NEW r \in Row, NEW w \in Row, NEW b, NEW j, RowTrue(r, b, j),
           w.held = r.held, w.run = r.run,
           w.outcome = "succeeded" => r.outcome = "succeeded",
           \/ w.status \in Unassigned \cup {"completed"}
           \/ r.status \notin Unassigned \cup {"completed"}
           \/ b = "none"
    PROVE  RowTrue(w, b, j)
  BY DEF RowTrue

\* A copy stays true while the run and the reservation go forward.
LEMMA TrueStays ==
    ASSUME NEW r \in Row, RowTrue(r, bench, job), Forward
    PROVE  RowTrue(r, bench', job')
  BY DEF RowTrue, Forward

\* The run's end becomes the row's: of a RUNNING row with a run that ended.
LEMMA SyncedIs ==
    ASSUME NEW r \in Row, OtherTypes, RowTrue(r, bench, job)
    PROVE  /\ Synced(r) \in Row
           /\ RowTrue(Synced(r), bench, job)
           /\ \/ Synced(r) = r
              \/ /\ r.status = "running" /\ r.held
                 /\ Synced(r).status \in JobEnd /\ Synced(r).held
<1>1. CASE r.status = "running" /\ r.run /\ job \in JobEnd
  <2>1. job \in CiStage /\ job \in Verdict
    BY <1>1 DEF CiStage, Verdict, Ended, JobEnd
  <2>2. PICK w : w = Written(r, job, job)
    OBVIOUS
  <2>3. /\ w \in Row
        /\ w.status = job /\ w.outcome = job /\ w.held = r.held /\ w.run = r.run
    BY <2>1, <2>2, RowWritten
  <2>4. Synced(r) = w
    BY <1>1, <2>2 DEF Synced, Written
  <2>5. r.held
    BY <1>1 DEF RowTrue
  <2>6. RowTrue(w, bench, job)
    BY <1>1, <2>3, <2>5 DEF RowTrue
  <2> QED
    BY <1>1, <2>3, <2>4, <2>5, <2>6
<1>2. CASE ~(r.status = "running" /\ r.run /\ job \in JobEnd)
  BY <1>2 DEF Synced
<1> QED
  BY <1>1, <1>2

-----------------------------------------------------------------------------
(* Steps *)

LEMMA AgentCiInitInv == AgentCiInit => AgentCiInv
<1> SUFFICES ASSUME AgentCiInit PROVE AgentCiInv
  OBVIOUS
<1>1. /\ session = NoCiRow /\ cancelling = NoCiRow /\ finalizing = NoFinal
      /\ job = "none" /\ bench = "none" /\ launch = "idle" /\ due = "none"
      /\ stopped = FALSE /\ busy \in BOOLEAN /\ seen = FALSE /\ age = "fresh"
  BY DEF AgentCiInit
<1>2. RowTypes /\ RowsTrue
  BY <1>1, NoCiRowIs DEF RowTypes, RowsTrue
<1>3. OtherTypes
  BY <1>1 DEF OtherTypes
<1>4. ReadsAreBehind /\ CleanMeansReleased /\ PassedMeansClean
  BY <1>1, NoCiRowIs, RequestedIs
     DEF ReadsAreBehind, CleanMeansReleased, PassedMeansClean, Unassigned
<1> QED
  BY <1>2, <1>3, <1>4 DEF AgentCiInv

\* A step of a handler: it writes a truthful row or none, keeps or drops the copies
\* others hold, and asks for a finalization or not.
LEMMA HandlerStep ==
    ASSUME AgentCiInv, Forward, OtherTypes',
           session' \in Row, RowTrue(session', bench', job'),
           session'.status \in Unassigned => session.status \in Unassigned,
           session'.status = "completed" => session' = session,
           session.status = "completed" => session' = session,
           session'.status = "cleanup_pending" => session.status = "cleanup_pending",
           \/ cancelling' \in {cancelling, NoCiRow}
           \/ cancelling' = session' /\ session'.status # "completed",
           finalizing' \in {finalizing, NoFinal, Requested}
    PROVE  AgentCiInv'
<1> USE DEF AgentCiInv
<1>1. CASE finalizing' = finalizing
  <2>1. RowTypes'
    BY <1>1, NoCiRowIs DEF RowTypes
  <2>2. RowTrue(cancelling', bench', job')
    BY TrueStays, NoCiRowIs DEF RowTypes, RowsTrue
  <2>3. finalizing # NoFinal => RowTrue(finalizing.snap, bench', job')
    <3>1. finalizing # NoFinal => finalizing.snap \in Row
      BY DEF RowTypes
    <3> QED
      BY <3>1, TrueStays DEF RowsTrue
  <2>4. RowsTrue'
    BY <1>1, <2>2, <2>3 DEF RowsTrue
  <2>5. ReadsAreBehind'
    <3>1. session'.status \in Unassigned => bench' = "none"
      BY DEF ReadsAreBehind, Forward
    <3>2. /\ session'.status \in Unassigned => cancelling'.status \in Unassigned
          /\ cancelling'.status # "completed"
      BY NoCiRowIs DEF ReadsAreBehind, Unassigned
    <3>3. session'.status \in Unassigned /\ finalizing' # NoFinal =>
            finalizing'.snap.status \in Unassigned
      BY <1>1 DEF ReadsAreBehind
    <3>4. finalizing'.at = "prepare" =>
            /\ session'.status # "completed"
            /\ session'.status = "cleanup_pending" => finalizing'.snap.status = "cleanup_pending"
      BY <1>1 DEF ReadsAreBehind
    <3> QED
      BY <3>1, <3>2, <3>3, <3>4 DEF ReadsAreBehind
  <2>6. CleanMeansReleased'
    BY <1>1 DEF CleanMeansReleased, Forward
  <2>7. PassedMeansClean'
    BY DEF PassedMeansClean, Forward
  <2> QED
    BY <2>1, <2>4, <2>5, <2>6, <2>7
<1>2. CASE finalizing' \in {NoFinal, Requested}
  <2>1. RowTypes'
    BY <1>2, NoCiRowIs, RequestedIs DEF RowTypes
  <2>2. RowTrue(cancelling', bench', job')
    BY TrueStays, NoCiRowIs DEF RowTypes, RowsTrue
  <2>3. finalizing' # NoFinal => RowTrue(finalizing'.snap, bench', job')
    BY <1>2, NoCiRowIs, RequestedIs
  <2>4. RowsTrue'
    BY <2>2, <2>3 DEF RowsTrue
  <2>5. ReadsAreBehind'
    <3>1. session'.status \in Unassigned => bench' = "none"
      BY DEF ReadsAreBehind, Forward
    <3>2. /\ session'.status \in Unassigned => cancelling'.status \in Unassigned
          /\ cancelling'.status # "completed"
      BY NoCiRowIs DEF ReadsAreBehind, Unassigned
    <3>3. finalizing' # NoFinal => finalizing'.snap.status \in Unassigned
      BY <1>2, NoCiRowIs, RequestedIs DEF Unassigned
    <3>4. finalizing'.at # "prepare"
      BY <1>2, RequestedIs
    <3> QED
      BY <3>1, <3>2, <3>3, <3>4 DEF ReadsAreBehind
  <2>6. CleanMeansReleased'
    BY <1>2, RequestedIs DEF CleanMeansReleased
  <2>7. PassedMeansClean'
    BY DEF PassedMeansClean, Forward
  <2> QED
    BY <2>1, <2>4, <2>5, <2>6, <2>7
<1> QED
  BY <1>1, <1>2

\* A step that touches neither the rows nor what they say.
LEMMA RowsUntouched ==
    ASSUME AgentCiInv, Forward, OtherTypes', UNCHANGED <<session, cancelling, finalizing>>
    PROVE  AgentCiInv'
<1>1. session' \in Row /\ RowTrue(session', bench', job')
  BY TrueStays DEF AgentCiInv, RowTypes, RowsTrue
<1> QED
  BY <1>1, HandlerStep

LEMMA StoppedIs ==
    ASSUME OtherTypes, CancelRun \/ UNCHANGED stopped PROVE stopped' \in BOOLEAN
  BY DEF OtherTypes, CancelRun

LEMMA SharedFinalizationIs ==
    ASSUME NEW r PROVE SharedFinalization(r) \in {finalizing, NoFinal, Requested}
  BY DEF SharedFinalization, Requested

\* A row that a handler writes from a copy: a status of a session that has had its
\* chance of a bench, and an outcome that is no new success.
LEMMA HandlerWrites ==
    ASSUME NEW r \in Row, RowTrue(r, bench, job),
           NEW st \in CiStage \ Unassigned, NEW out \in Verdict,
           out = "succeeded" => r.outcome = "succeeded",
           \/ r.status \notin Unassigned \cup {"completed"} \/ bench = "none" \/ st = "completed",
           NEW w, w = Written(r, st, out)
    PROVE  w \in Row /\ w.status = st /\ w.outcome = out /\ RowTrue(w, bench, job)
<1>1. /\ w \in Row /\ w.status = st /\ w.outcome = out /\ w.held = r.held /\ w.run = r.run
  BY RowWritten
<1> QED
  BY <1>1, WrittenTrue

\* The finalization goes on by the row it has: the copy stays.
LEMMA FinalizationStep ==
    ASSUME AgentCiInv, Forward, OtherTypes', UNCHANGED <<session, cancelling>>,
           finalizing # NoFinal, NEW at \in {"release", "artifacts", "finish"}, NEW c \in BOOLEAN,
           finalizing' = [finalizing EXCEPT !.at = at, !.clean = c],
           at # "release" /\ c /\ finalizing.snap.held => bench' = "over"
    PROVE  AgentCiInv'
<1> USE DEF AgentCiInv
<1>1. PICK f \in [at : FinalAt, snap : Row, clean : BOOLEAN] : f = finalizing
  BY DEF RowTypes
<1>2. PICK g : g = [f EXCEPT !.at = at, !.clean = c]
  OBVIOUS
<1>3. g \in [at : FinalAt, snap : Row, clean : BOOLEAN]
  BY <1>1, <1>2 DEF FinalAt
<1>4. g.at = at /\ g.snap = f.snap /\ g.clean = c
  BY <1>1, <1>2
<1>5. finalizing' = g /\ g # NoFinal
  BY <1>1, <1>2, <1>4, RequestedIs
<1>6. RowTypes'
  BY <1>3, <1>5 DEF RowTypes
<1>7. RowsTrue'
  <2>1. RowTrue(session, bench', job') /\ RowTrue(cancelling, bench', job')
    BY TrueStays DEF RowTypes, RowsTrue
  <2>2. RowTrue(f.snap, bench', job')
    <3>1. f.snap \in Row /\ RowTrue(f.snap, bench, job)
      BY <1>1 DEF RowsTrue
    <3> QED
      BY <3>1, TrueStays
  <2> QED
    BY <1>4, <1>5, <2>1, <2>2 DEF RowsTrue
<1>8. ReadsAreBehind'
  BY <1>1, <1>4, <1>5 DEF ReadsAreBehind, Forward
<1>9. CleanMeansReleased'
  BY <1>1, <1>4, <1>5 DEF CleanMeansReleased
<1>10. PassedMeansClean'
  BY DEF PassedMeansClean, Forward
<1> QED
  BY <1>6, <1>7, <1>8, <1>9, <1>10

\* The finalization reads, or marks, the row and goes by it from then on.
LEMMA SnapshotStep ==
    ASSUME AgentCiInv, Forward, OtherTypes', UNCHANGED cancelling,
           session' \in Row, RowTrue(session', bench', job'),
           session'.status # "completed",
           session'.status \in Unassigned => session.status \in Unassigned,
           finalizing # NoFinal, NEW at \in {"prepare", "stop"},
           finalizing' = [finalizing EXCEPT !.at = at, !.snap = session']
    PROVE  AgentCiInv'
<1> USE DEF AgentCiInv
<1>1. PICK f \in [at : FinalAt, snap : Row, clean : BOOLEAN] : f = finalizing
  BY DEF RowTypes
<1>2. PICK g : g = [f EXCEPT !.at = at, !.snap = session']
  OBVIOUS
<1>3. g \in [at : FinalAt, snap : Row, clean : BOOLEAN]
  BY <1>1, <1>2 DEF FinalAt
<1>4. g.at = at /\ g.snap = session' /\ g.clean = f.clean
  BY <1>1, <1>2
<1>5. finalizing' = g /\ g # NoFinal
  BY <1>1, <1>2, <1>4, RequestedIs
<1>6. RowTypes'
  BY <1>3, <1>5 DEF RowTypes
<1>7. RowsTrue'
  BY <1>4, <1>5, TrueStays DEF RowTypes, RowsTrue
<1>8. ReadsAreBehind'
  BY <1>4, <1>5 DEF ReadsAreBehind, Forward
<1>9. CleanMeansReleased'
  BY <1>4, <1>5 DEF CleanMeansReleased
<1>10. PassedMeansClean'
  BY DEF PassedMeansClean
<1> QED
  BY <1>6, <1>7, <1>8, <1>9, <1>10

\* Every step keeps the invariant.
LEMMA AgentCiStep == AgentCiInv /\ [AgentCiNext]_agentCiVars => AgentCiInv'
<1> SUFFICES ASSUME AgentCiInv, [AgentCiNext]_agentCiVars PROVE AgentCiInv'
  OBVIOUS
<1> USE DEF AgentCiInv
<1>0. /\ session \in Row /\ RowTrue(session, bench, job)
      /\ session.status \in CiStage /\ session.outcome \in Verdict
  BY RowTruth DEF RowTypes, RowsTrue
<1>1. CASE CreateCi
  <2>1. session' = [NoCiRow EXCEPT !.status = "created"]
    BY <1>1 DEF CreateCi
  <2>2. /\ session' \in Row
        /\ session'.status = "created" /\ ~session'.held /\ ~session'.run
        /\ session'.outcome = "pending"
    BY <2>1 DEF NoCiRow, Row, CiStage, Early, Verdict
  <2>3. RowTrue(session', bench, job)
    BY <2>2 DEF RowTrue, Unassigned
  <2>4. OtherTypes' /\ Forward
    BY <1>1 DEF CreateCi, OtherTypes, Forward, agentWorkVars, handlerVars
  <2> QED
    BY <1>1, <2>2, <2>3, <2>4, HandlerStep
       DEF CreateCi, agentWorkVars, handlerVars, Unassigned
<1>2. CASE InitializeCi
  <2>1. session' = [session EXCEPT !.status = "waiting_for_bench"]
        /\ session.status = "created"
    BY <1>2 DEF InitializeCi
  <2>2. /\ session' \in Row /\ session'.status = "waiting_for_bench"
        /\ session'.held = session.held /\ session'.run = session.run
        /\ session'.outcome = session.outcome
    BY <1>0, <2>1 DEF Row, CiStage, Early
  <2>3. RowTrue(session', bench, job)
    BY <1>0, <2>2 DEF RowTrue, Unassigned
  <2>4. OtherTypes' /\ Forward
    BY <1>2 DEF InitializeCi, OtherTypes, Forward, agentWorkVars, handlerVars
  <2> QED
    BY <1>2, <2>1, <2>2, <2>3, <2>4, HandlerStep
       DEF InitializeCi, agentWorkVars, handlerVars, Unassigned
<1>3. CASE TryAssign
  <2>1. /\ session.status \in Unassigned /\ bench' = "active"
        /\ session' = [session EXCEPT !.status = "reserved", !.held = TRUE]
        /\ UNCHANGED <<job, stopped, busy, age, launch, cancelling, seen, due, finalizing>>
    BY <1>3 DEF TryAssign, Unassigned, handlerVars
  <2>2. PICK w : w = [session EXCEPT !.status = "reserved", !.held = TRUE]
    OBVIOUS
  <2>3. /\ w \in Row /\ w.status = "reserved" /\ w.held /\ w.run = session.run
        /\ w.outcome = session.outcome
    BY <1>0, <2>2 DEF Row, CiStage, Early
  <2>4. bench = "none"
    BY <2>1 DEF ReadsAreBehind
  <2>5. RowTrue(w, "active", job)
    BY <1>0, <2>3, <2>4 DEF RowTrue
  <2>6. RowTrue(cancelling, "active", job)
    BY <2>1, <2>4 DEF ReadsAreBehind, RowsTrue, RowTrue
  <2>7. finalizing # NoFinal => RowTrue(finalizing.snap, "active", job)
    BY <2>1, <2>4 DEF ReadsAreBehind, RowsTrue, RowTrue
  <2>8. RowTypes' /\ RowsTrue'
    BY <2>1, <2>2, <2>3, <2>5, <2>6, <2>7 DEF RowTypes, RowsTrue
  <2>9. OtherTypes'
    BY <2>1 DEF OtherTypes
  <2>10. ReadsAreBehind'
    BY <2>1, <2>2, <2>3 DEF ReadsAreBehind, Unassigned
  <2>11. CleanMeansReleased'
    <3>1. finalizing.at \in {"artifacts", "finish"} => ~finalizing.snap.held
      BY <2>4, RequestedIs DEF RowsTrue, RowTrue, RowTypes, Row
    <3> QED
      BY <2>1, <3>1 DEF CleanMeansReleased
  <2>12. PassedMeansClean'
    BY <2>1, <2>2, <2>3 DEF PassedMeansClean
  <2> QED
    BY <2>8, <2>9, <2>10, <2>11, <2>12
<1>4. CASE StartWorkflow
  <2>1. Forward /\ OtherTypes' /\ UNCHANGED <<session, cancelling, finalizing>>
    BY <1>4 DEF StartWorkflow, Forward, OtherTypes
  <2> QED
    BY <2>1, RowsUntouched
<1>5. CASE AttachWorkflowRun
  <2>1. Forward /\ OtherTypes' /\ UNCHANGED <<bench, job, cancelling, finalizing>>
    BY <1>5 DEF AttachWorkflowRun, Forward, OtherTypes, agentWorkVars
  <2>2. CASE UNCHANGED session
    BY <2>1, <2>2, RowsUntouched
  <2>3. CASE session' = [session EXCEPT !.status = "running", !.run = TRUE]
             /\ session.status = "reserved" /\ launch = "started"
    <3>1. PICK w : w = [session EXCEPT !.status = "running", !.run = TRUE]
      OBVIOUS
    <3>2. /\ w \in Row /\ w.status = "running" /\ w.run /\ w.held = session.held
          /\ w.outcome = session.outcome
      BY <1>0, <3>1 DEF Row, CiStage
    <3>3. job # "none" /\ bench # "none"
      BY <2>3 DEF OtherTypes
    <3>4. session.held
      BY <1>0, <2>3, <3>3 DEF RowTrue, Unassigned
    <3>5. RowTrue(w, bench, job)
      BY <1>0, <3>2, <3>3, <3>4 DEF RowTrue
    <3> QED
      BY <2>1, <2>3, <3>1, <3>2, <3>5, HandlerStep DEF Unassigned
  <2> QED
    BY <1>5, <2>2, <2>3 DEF AttachWorkflowRun
<1>6. CASE StopUnattachedRun
  <2>1. Forward /\ UNCHANGED <<session, cancelling, finalizing>>
    BY <1>6 DEF StopUnattachedRun, Forward
  <2>2. stopped' \in BOOLEAN
    BY <1>6, StoppedIs DEF StopUnattachedRun
  <2>3. OtherTypes'
    BY <1>6, <2>2 DEF StopUnattachedRun, OtherTypes
  <2> QED
    BY <2>1, <2>3, RowsUntouched
<1>7. CASE GetRunning \/ HeartbeatCi \/ HeartbeatMissed \/ TimeoutReached \/ OthersUseBench
  <2>1. Forward /\ UNCHANGED <<session, cancelling, finalizing, job, bench>>
    BY <1>7 DEF GetRunning, HeartbeatCi, HeartbeatMissed, TimeoutReached, OthersUseBench, CiAges,
                Forward, agentWorkVars, handlerVars
  <2>2. OtherTypes'
    <3>1. CASE GetRunning
      BY <3>1 DEF GetRunning, OtherTypes, agentWorkVars
    <3>2. CASE HeartbeatCi \/ HeartbeatMissed \/ TimeoutReached
      BY <3>2 DEF HeartbeatCi, HeartbeatMissed, TimeoutReached, CiAges, OtherTypes,
                  agentWorkVars, handlerVars
    <3>3. CASE OthersUseBench
      BY <3>3 DEF OthersUseBench, OtherTypes, handlerVars
    <3> QED
      BY <1>7, <3>1, <3>2, <3>3
  <2> QED
    BY <2>1, <2>2, RowsUntouched
<1>8. CASE SynchronizeWorkflow
  <2>1. Forward /\ OtherTypes' /\ UNCHANGED <<bench, job, cancelling, finalizing>>
    BY <1>8 DEF SynchronizeWorkflow, Forward, OtherTypes, agentWorkVars
  <2>2. CASE UNCHANGED session
    BY <2>1, <2>2, RowsUntouched
  <2>3. CASE /\ job \in JobEnd /\ session.status \in {"running", "cancel_requested"}
             /\ session' = [session EXCEPT !.status = job, !.outcome = job]
    <3>1. job \in CiStage /\ job \in Verdict
      BY <2>3 DEF CiStage, Verdict, Ended, JobEnd
    <3>0. session' = Written(session, job, job)
      BY <2>3 DEF Written
    <3>2. /\ session' \in Row /\ session'.status = job /\ session'.outcome = job
          /\ session'.held = session.held /\ session'.run = session.run
      BY <1>0, <3>0, <3>1, RowWritten
    <3>3. bench # "none" /\ job # "none"
      BY <2>3 DEF OtherTypes, JobEnd
    <3>4. session.held
      BY <1>0, <2>3, <3>3 DEF RowTrue, Unassigned
    <3>5. RowTrue(session', bench, job)
      BY <3>2, <3>3, <3>4 DEF RowTrue
    <3> QED
      BY <2>1, <2>3, <3>2, <3>5, HandlerStep DEF Unassigned, JobEnd
  <2> QED
    BY <1>8, <2>2, <2>3 DEF SynchronizeWorkflow
<1>9. CASE CancelReads
  <2>1. Forward /\ OtherTypes' /\ UNCHANGED <<bench, job, finalizing>>
    BY <1>9 DEF CancelReads, Forward, OtherTypes, agentWorkVars
  <2>2. session' = Synced(session) /\ cancelling' = session' /\ session.status # "completed"
    BY <1>9 DEF CancelReads
  <2>3. /\ session' \in Row /\ RowTrue(session', bench, job)
        /\ session' = session \/ session'.status \in JobEnd
    BY <1>0, <2>2, SyncedIs
  <2> QED
    BY <2>1, <2>2, <2>3, HandlerStep DEF JobEnd, Unassigned
<1>10. CASE CancelCi
  <2>0. stopped' \in BOOLEAN
    <3>1. CancelRun \/ UNCHANGED stopped
      BY <1>10 DEF CancelCi
    <3> QED
      BY <3>1, StoppedIs
  <2>1. Forward /\ OtherTypes' /\ UNCHANGED <<bench, job>>
    BY <1>10, <2>0 DEF CancelCi, Forward, OtherTypes
  <2>2. finalizing' \in {finalizing, NoFinal, Requested} /\ cancelling' = NoCiRow
    BY <1>10, SharedFinalizationIs DEF CancelCi
  <2>3. CASE UNCHANGED session
    BY <1>0, <2>1, <2>2, <2>3, HandlerStep
  <2>4. CASE /\ session.status = cancelling.status
             /\ session' = [cancelling EXCEPT !.status = "cancel_requested",
                                              !.outcome = "cancelled"]
    <3>1. cancelling \in Row /\ RowTrue(cancelling, bench, job)
      BY DEF RowTypes, RowsTrue
    <3>2. cancelling.status # "completed"
          /\ (cancelling.status \in Unassigned => bench = "none")
      BY <2>4 DEF ReadsAreBehind
    <3>3. "cancel_requested" \in CiStage \ Unassigned /\ "cancelled" \in Verdict
      BY DEF CiStage, Unassigned, Verdict, Ended, JobEnd
    <3>0. session' = Written(cancelling, "cancel_requested", "cancelled")
      BY <2>4 DEF Written
    <3>4. /\ session' \in Row /\ session'.status = "cancel_requested"
          /\ RowTrue(session', bench, job)
      BY <3>0, <3>1, <3>2, <3>3, HandlerWrites
    <3> QED
      BY <2>1, <2>2, <2>4, <3>2, <3>4, HandlerStep DEF Unassigned
  <2> QED
    BY <1>10, <2>3, <2>4 DEF CancelCi
<1>11. CASE FinalizeRequested
  <2>1. Forward /\ OtherTypes' /\ UNCHANGED <<bench, job, session, cancelling>>
    BY <1>11 DEF FinalizeRequested, Forward, OtherTypes, agentWorkVars, handlerVars
  <2>2. finalizing' \in {finalizing, NoFinal, Requested}
    BY <1>11, SharedFinalizationIs DEF FinalizeRequested
  <2> QED
    BY <1>0, <2>1, <2>2, HandlerStep
<1>12. CASE MaintainSession
  <2>1. Forward /\ UNCHANGED <<bench, job, cancelling>>
    BY <1>12 DEF MaintainSession, Forward, agentWorkVars
  <2>2. OtherTypes'
    <3>1. due' \in {"none", "stale", "expired"}
      BY <1>12 DEF MaintainSession, OtherTypes
    <3> QED
      BY <1>12, <3>1 DEF MaintainSession, OtherTypes, agentWorkVars
  <2>3. finalizing' \in {finalizing, NoFinal, Requested}
    BY <1>12, SharedFinalizationIs DEF MaintainSession
  <2>4. session' = session \/ session' = Synced(session)
    BY <1>12 DEF MaintainSession
  <2>5. /\ session' \in Row /\ RowTrue(session', bench, job)
        /\ session' = session \/ (session'.status \in JobEnd /\ session.status = "running")
    BY <1>0, <2>4, SyncedIs
  <2> QED
    BY <2>1, <2>2, <2>3, <2>5, HandlerStep DEF JobEnd, Unassigned
<1>13. CASE TimeoutCi
  <2>1. Forward /\ OtherTypes' /\ UNCHANGED <<bench, job, cancelling>>
    BY <1>13 DEF TimeoutCi, Forward, OtherTypes, agentWorkVars
  <2>2. /\ finalizing' \in {finalizing, NoFinal, Requested}
        /\ \/ UNCHANGED session
           \/ /\ session.status \in Early \cup {"running", "cancel_requested"}
              /\ session' = [session EXCEPT !.status = "timed_out", !.outcome = "timed_out"]
    <3>1. CASE session.status \in Ended \cup {"cleanup_pending"}
      BY <1>13, <3>1, SharedFinalizationIs DEF TimeoutCi
    <3>2. CASE /\ session.status \notin Ended \cup {"cleanup_pending"}
               /\ session.status \in Early \cup {"running", "cancel_requested"}
               /\ TimeoutApplies
      BY <1>13, <3>2, SharedFinalizationIs DEF TimeoutCi
    <3>3. CASE /\ session.status \notin Ended \cup {"cleanup_pending"}
               /\ ~(/\ session.status \in Early \cup {"running", "cancel_requested"}
                    /\ TimeoutApplies)
      BY <1>13, <3>3 DEF TimeoutCi
    <3> QED
      BY <3>1, <3>2, <3>3
  <2>3. CASE UNCHANGED session
    BY <1>0, <2>1, <2>2, <2>3, HandlerStep
  <2>4. CASE /\ session.status \in Early \cup {"running", "cancel_requested"}
             /\ session' = [session EXCEPT !.status = "timed_out", !.outcome = "timed_out"]
    <3>1. session.status # "completed" /\ (session.status \in Unassigned => bench = "none")
      BY <2>4 DEF ReadsAreBehind, Early
    <3>2. "timed_out" \in CiStage \ Unassigned /\ "timed_out" \in Verdict
      BY DEF CiStage, Unassigned, Verdict, Ended
    <3>0. session' = Written(session, "timed_out", "timed_out")
      BY <2>4 DEF Written
    <3>3. /\ session' \in Row /\ session'.status = "timed_out"
          /\ RowTrue(session', bench, job)
      BY <1>0, <3>0, <3>1, <3>2, HandlerWrites
    <3> QED
      BY <2>1, <2>2, <3>1, <3>3, HandlerStep DEF Unassigned
  <2> QED
    BY <2>2, <2>3, <2>4
<1>14. CASE FinalizeReads
  <2>1. Forward /\ OtherTypes' /\ UNCHANGED <<bench, job, cancelling>>
    BY <1>14 DEF FinalizeReads, Forward, OtherTypes, agentWorkVars, handlerVars
  <2>2. session' = Synced(session) /\ finalizing.at = "read" /\ finalizing # NoFinal
    BY <1>14, RequestedIs DEF FinalizeReads
  <2>3. /\ session' \in Row /\ RowTrue(session', bench, job)
        /\ session' = session \/ (session'.status \in JobEnd /\ session.status = "running")
    BY <1>0, <2>2, SyncedIs
  <2>4. CASE session'.status = "completed"
    <3>1. finalizing' = NoFinal
      BY <1>14, <2>4 DEF FinalizeReads
    <3> QED
      BY <2>1, <2>3, <2>4, <3>1, HandlerStep DEF JobEnd, Unassigned
  <2>5. CASE session'.status # "completed"
    <3>1. finalizing' = [finalizing EXCEPT !.at = "prepare", !.snap = session']
      BY <1>14, <2>5 DEF FinalizeReads
    <3>2. session'.status \in Unassigned => session.status \in Unassigned
      BY <2>3 DEF JobEnd, Unassigned
    <3> QED
      BY <2>1, <2>2, <2>3, <2>5, <3>1, <3>2, SnapshotStep
  <2> QED
    BY <2>4, <2>5
<1>15. CASE PrepareCleanup
  <2> DEFINE s == finalizing.snap
             read == IF Synced(s) # s /\ session.status \in {"running", "cancel_requested"}
                     THEN Synced(s) ELSE IF Synced(s) # s THEN session ELSE s
             row == IF read # s THEN read ELSE session
             marked == Written(read, "cleanup_pending",
                               IF read.outcome = "pending" THEN "failed" ELSE read.outcome)
  <2>1. Forward /\ OtherTypes' /\ UNCHANGED <<bench, job, cancelling>>
    BY <1>15 DEF PrepareCleanup, Forward, OtherTypes, agentWorkVars, handlerVars
  <2>2. /\ session' = IF row.status \in {read.status, "cleanup_pending"} THEN marked ELSE row
        /\ finalizing' = [finalizing EXCEPT !.at = "stop", !.snap = session']
        /\ finalizing.at = "prepare" /\ finalizing # NoFinal
    BY <1>15, RequestedIs DEF PrepareCleanup, Written
  <2>3. s \in Row /\ RowTrue(s, bench, job)
    BY <2>2 DEF RowTypes, RowsTrue
  <2>4. /\ session.status # "completed"
        /\ session.status = "cleanup_pending" => s.status = "cleanup_pending"
        /\ session.status \in Unassigned => bench = "none"
    BY <2>2 DEF ReadsAreBehind
  <2>5. /\ Synced(s) \in Row /\ RowTrue(Synced(s), bench, job)
        /\ Synced(s) # s => Synced(s).status \in JobEnd
    BY <2>3, SyncedIs
  <2>6. /\ read \in Row /\ RowTrue(read, bench, job)
        /\ read = s \/ read = session \/ read.status \in JobEnd
    BY <1>0, <2>3, <2>5
  <2>7. CASE row.status \in {read.status, "cleanup_pending"}
    <3>1. session' = marked
      BY <2>2, <2>7
    <3>2. read.status \notin Unassigned \cup {"completed"} \/ bench = "none"
      BY <2>4, <2>6, <2>7 DEF JobEnd, Unassigned
    <3>3. read.outcome \in Verdict
      BY <2>6, RowTruth
    <3> HIDE DEF read
    <3>4. PICK out \in Verdict : out = IF read.outcome = "pending" THEN "failed" ELSE read.outcome
      BY <3>3 DEF Verdict, Ended, JobEnd
    <3>5. "cleanup_pending" \in CiStage \ Unassigned
      BY DEF CiStage, Unassigned
    <3>6. session' = Written(read, "cleanup_pending", out)
      BY <3>1, <3>4
    <3>7. out = "succeeded" => read.outcome = "succeeded"
      BY <3>4
    <3>8. read \in Row /\ RowTrue(read, bench, job)
      BY <2>6
    <3>9. /\ session' \in Row /\ session'.status = "cleanup_pending"
          /\ RowTrue(session', bench, job)
      BY <3>2, <3>5, <3>6, <3>7, <3>8, HandlerWrites
    <3> QED
      BY <2>1, <2>2, <3>9, SnapshotStep DEF Unassigned
  <2>8. CASE row.status \notin {read.status, "cleanup_pending"}
    <3>1. session' = session
      BY <2>2, <2>8
    <3> QED
      BY <1>0, <2>1, <2>2, <2>4, <3>1, SnapshotStep
  <2> QED
    BY <2>7, <2>8
<1>16. CASE StopWorkflow
  <2>1. Forward /\ UNCHANGED <<session, cancelling>>
        /\ finalizing.at = "stop" /\ finalizing # NoFinal
    BY <1>16, RequestedIs DEF StopWorkflow, Forward, handlerVars
  <2>2. OtherTypes'
    <3>1. CancelRun \/ UNCHANGED stopped
      BY <1>16 DEF StopWorkflow, CancelIfAttached
    <3>2. stopped' \in BOOLEAN
      BY <3>1, StoppedIs
    <3> QED
      BY <1>16, <3>2 DEF StopWorkflow, OtherTypes, handlerVars
  <2>3. PICK f \in [at : FinalAt, snap : Row, clean : BOOLEAN] : f = finalizing
    BY <2>1 DEF RowTypes
  <2>4. PICK c \in BOOLEAN : finalizing' = [finalizing EXCEPT !.at = "release", !.clean = c]
    <3>1. [f EXCEPT !.at = "release"] = [f EXCEPT !.at = "release", !.clean = f.clean]
      BY <2>3
    <3> QED
      BY <1>16, <2>3, <3>1 DEF StopWorkflow
  <2> QED
    BY <2>1, <2>2, <2>4, FinalizationStep
<1>17. CASE ReleaseBench
  <2> DEFINE free == ~finalizing.snap.held \/ bench = "over"
             locked == finalizing.snap.held /\ job = "active"
  <2>1. PICK released \in BOOLEAN :
          /\ free => released
          /\ bench' = IF released /\ ~free THEN "over" ELSE bench
          /\ finalizing' = [finalizing EXCEPT !.at = "artifacts",
                                              !.clean = @ /\ released /\ ~locked]
    BY <1>17 DEF ReleaseBench
  <2>2. UNCHANGED <<session, cancelling, job>> /\ finalizing.at = "release"
        /\ finalizing # NoFinal
    BY <1>17, RequestedIs DEF ReleaseBench, handlerVars
  <2>3. finalizing.snap \in Row /\ RowTrue(finalizing.snap, bench, job)
    BY <2>2 DEF RowTypes, RowsTrue
  <2>4. Forward
    BY <2>1, <2>2, <2>3 DEF Forward, RowTrue
  <2>5. OtherTypes'
    <3>1. bench' \in {"none", "active", "over"}
      BY <2>1 DEF OtherTypes
    <3> QED
      BY <1>17, <2>4, <3>1 DEF ReleaseBench, OtherTypes, handlerVars, Forward
  <2>6. PICK c \in BOOLEAN : c = (finalizing.clean /\ released /\ ~locked)
    OBVIOUS
  <2>7. finalizing' = [finalizing EXCEPT !.at = "artifacts", !.clean = c]
    BY <2>1, <2>6
  <2>8. c /\ finalizing.snap.held => bench' = "over"
    BY <2>1, <2>6
  <2> QED
    BY <2>2, <2>4, <2>5, <2>7, <2>8, FinalizationStep
<1>18. CASE StoreArtifacts
  <2>1. Forward /\ OtherTypes' /\ UNCHANGED <<session, cancelling, bench>>
    BY <1>18 DEF StoreArtifacts, Forward, OtherTypes, agentWorkVars, handlerVars
  <2>2. finalizing.at = "artifacts" /\ finalizing # NoFinal
    BY <1>18, RequestedIs DEF StoreArtifacts
  <2>3. PICK stored \in BOOLEAN :
          finalizing' = [finalizing EXCEPT !.at = "finish", !.clean = @ /\ stored]
    BY <1>18 DEF StoreArtifacts
  <2>4. PICK c \in BOOLEAN : c = (finalizing.clean /\ stored)
    OBVIOUS
  <2>5. finalizing' = [finalizing EXCEPT !.at = "finish", !.clean = c]
    BY <2>3, <2>4
  <2>6. finalizing.clean \in BOOLEAN
    BY <2>2 DEF RowTypes
  <2>7. c /\ finalizing.snap.held => bench' = "over"
    BY <2>1, <2>2, <2>4, <2>6 DEF CleanMeansReleased
  <2> QED
    BY <2>1, <2>2, <2>5, <2>7, FinalizationStep
<1>19. CASE MarkFinalized
  <2>1. Forward /\ OtherTypes' /\ UNCHANGED <<cancelling, bench, job>>
    BY <1>19 DEF MarkFinalized, Forward, OtherTypes, agentWorkVars, handlerVars
  <2>2. /\ finalizing.at = "finish" /\ finalizing # NoFinal /\ finalizing' = NoFinal
        /\ session' = Written(finalizing.snap, "completed", FinalVerdict)
    BY <1>19, RequestedIs DEF MarkFinalized, Written
  <2>3. finalizing.snap \in Row /\ RowTrue(finalizing.snap, bench, job)
        /\ finalizing.clean \in BOOLEAN
    BY <2>2 DEF RowTypes, RowsTrue
  <2>4. /\ FinalVerdict \in Verdict
        /\ FinalVerdict = "succeeded" => /\ finalizing.snap.outcome = "succeeded"
                                         /\ finalizing.clean
    BY <2>3, RowTruth DEF FinalVerdict, Verdict, Ended, JobEnd
  <2>5. "completed" \in CiStage \ Unassigned
    BY DEF CiStage, Unassigned
  <2>6. /\ session' \in Row /\ session'.status = "completed"
        /\ session'.outcome = FinalVerdict /\ RowTrue(session', bench, job)
    BY <2>2, <2>3, <2>4, <2>5, HandlerWrites
  <2>7. RowTypes' /\ RowsTrue'
    BY <2>1, <2>2, <2>6 DEF RowTypes, RowsTrue
  <2>8. ReadsAreBehind' /\ CleanMeansReleased'
    BY <2>1, <2>2, <2>6, RequestedIs DEF ReadsAreBehind, CleanMeansReleased, Unassigned
  <2>9. PassedMeansClean'
    BY <2>1, <2>2, <2>3, <2>4, <2>6 DEF PassedMeansClean, CleanMeansReleased, RowTrue
  <2> QED
    BY <2>1, <2>7, <2>8, <2>9
<1>20. CASE JobEnds
  <2>1. Forward /\ UNCHANGED <<session, cancelling, finalizing>>
    BY <1>20 DEF JobEnds, Forward, handlerVars
  <2>2. job' \in JobEnd /\ job = "active"
    BY <1>20 DEF JobEnds, JobEnd
  <2>3. OtherTypes'
    BY <1>20, <2>2 DEF JobEnds, OtherTypes, handlerVars
  <2> QED
    BY <2>1, <2>3, RowsUntouched
<1>21. CASE ReservationEnds
  <2>1. Forward /\ OtherTypes' /\ UNCHANGED <<session, cancelling, finalizing>>
    BY <1>21 DEF ReservationEnds, Forward, OtherTypes, handlerVars
  <2> QED
    BY <2>1, RowsUntouched
<1>22. CASE RestartAndRecover
  <2>1. Forward
    BY <1>22 DEF RestartAndRecover, Forward
  <2>2. OtherTypes'
    BY <1>22 DEF RestartAndRecover, OtherTypes, JobEnd
  <2>3. cancelling' = NoCiRow /\ finalizing' = Requested /\ session.status # "completed"
    BY <1>22 DEF RestartAndRecover, Requested
  <2>4. CASE UNCHANGED session
    <3>1. RowTrue(session', bench', job')
      BY <1>0, <2>1, <2>4, TrueStays
    <3> QED
      BY <1>0, <2>1, <2>2, <2>3, <2>4, <3>1, HandlerStep
  <2>5. CASE /\ session.status \in Early \cup {"running", "cancel_requested"}
             /\ session' = [session EXCEPT !.status = "timed_out", !.outcome = "timed_out"]
    <3>1. session.status # "completed" /\ (session.status \in Unassigned => bench = "none")
      BY <2>5 DEF ReadsAreBehind, Early
    <3>2. "timed_out" \in CiStage \ Unassigned /\ "timed_out" \in Verdict
      BY DEF CiStage, Unassigned, Verdict, Ended
    <3>0. session' = Written(session, "timed_out", "timed_out")
      BY <2>5 DEF Written
    <3>3. /\ session' \in Row /\ session'.status = "timed_out"
          /\ RowTrue(session', bench, job)
      BY <1>0, <3>0, <3>1, <3>2, HandlerWrites
    <3>4. RowTrue(session', bench', job')
      BY <2>1, <3>3, TrueStays
    <3> QED
      BY <2>1, <2>2, <2>3, <3>1, <3>3, <3>4, HandlerStep DEF Unassigned
  <2> QED
    BY <1>22, <2>4, <2>5 DEF RestartAndRecover
<1>23. CASE UNCHANGED agentCiVars
  <2>1. Forward /\ OtherTypes' /\ UNCHANGED <<session, cancelling, finalizing>>
    BY <1>23 DEF agentCiVars, Forward, OtherTypes
  <2> QED
    BY <2>1, RowsUntouched
<1> HIDE DEF AgentCiInv
<1> QED
  BY <1>1, <1>2, <1>3, <1>4, <1>5, <1>6, <1>7, <1>8, <1>9, <1>10, <1>11, <1>12, <1>13, <1>14,
     <1>15, <1>16, <1>17, <1>18, <1>19, <1>20, <1>21, <1>22, <1>23
     DEF AgentCiNext, FinalizeStep

\* The copies the handlers hold across their awaits stay true of the row, in every
\* reachable state of the Agent's CI service (core/ci.py).
THEOREM AgentCiInvariant == AgentCiSpec => []AgentCiInv
<1> QED
  BY AgentCiInitInv, AgentCiStep, PTL DEF AgentCiSpec

\* The row and what the handlers hold are well formed; a session that has a bench has its
\* reservation, and one with a run has both (assign_compatible_bench, attach_workflow_run).
THEOREM AgentCiTypeCorrect == AgentCiSpec => []AgentCiTypeOK
<1>1. AgentCiInv => AgentCiTypeOK
  BY DEF AgentCiInv, RowTypes, OtherTypes, RowsTrue, RowTrue, AgentCiTypeOK
<1> QED
  BY <1>1, AgentCiInvariant, PTL

\* A session reported as succeeded has a run that succeeded and a bench that is free
\* again, however the finalization races with the launch, a cancellation, a timeout, the
\* run's end and restarts (mark_finalized after _release_reservation, docs/CI_CLEANUP.md).
THEOREM PassedMeansCleanHolds == AgentCiSpec => []PassedMeansClean
<1>1. AgentCiInv => PassedMeansClean
  BY DEF AgentCiInv
<1> QED
  BY <1>1, AgentCiInvariant, PTL
=============================================================================

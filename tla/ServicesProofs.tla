--------------------------- MODULE ServicesProofs ---------------------------
(***************************************************************************)
(* Proofs about the components of Services: each has an inductive          *)
(* invariant of its own, and AuthoritySound, RecordsSound and StepsHold    *)
(* follow from them.                                                       *)
(***************************************************************************)
EXTENDS Services, FiniteSetTheorems, SequenceTheorems, WellFoundedInduction, TLAPS

-----------------------------------------------------------------------------
(* Access to artifacts. *)

GuardAnswers == {"none", "allowed", "denied", "not found"}

\* A bound session exists and its work is a workflow; both stay.
BoundWork == boundTo => sessionOf # Unowned /\ work = "RUN_WORKFLOW"

GuardInv ==
    /\ GuardTypeOK
    /\ BoundWork
    /\ outcome.ends = "denied" => ~HideDenied

\* Every parent names resources or a session.
LEMMA ParentShapes ==
    ASSUME GuardTypeOK, NEW i \in Guarded
    PROVE  ParentOf(i) \in {NoParent, Parent({"bench"}, FALSE), Parent({"workflow", "bench"}, FALSE),
                            Parent({"workflow", "bench"}, TRUE), Parent({}, TRUE)}
<1>1. boundTo \in BOOLEAN
  BY DEF GuardTypeOK
<1>2. BenchOperationParent \in {NoParent, Parent({"bench"}, FALSE)}
  BY DEF BenchOperationParent
<1>3. WorkflowOperationParent \in {NoParent, Parent({"workflow", "bench"}, FALSE),
                                   Parent({"workflow", "bench"}, TRUE)}
  BY <1>1 DEF WorkflowOperationParent
<1>4. OperationParent \in {NoParent, Parent({"bench"}, FALSE), Parent({"workflow", "bench"}, FALSE),
                           Parent({"workflow", "bench"}, TRUE)}
  BY <1>2, <1>3 DEF OperationParent
<1>5. i = "OPERATION" \/ i = "WORKFLOW_RUN" \/ i = "CI_SESSION" \/ i = "WORKFLOW_STEP" \/ i = "REMOTE"
  BY DEF Guarded, OwnerType
<1> QED
  BY <1>4, <1>5 DEF ParentOf, RemoteParent, OwnerParent

\* What a listing shows is what a read would give.
LEMMA ListingIsRead ==
    ASSUME NEW v, NEW permission,
           NEW parent \in {NoParent, Parent({"bench"}, FALSE), Parent({"workflow", "bench"}, FALSE),
                           Parent({"workflow", "bench"}, TRUE), Parent({}, TRUE)}
    PROVE  ParentAllows(v, parent, permission) <=> RequireParent(v, parent, permission) = "allowed"
<1>1. parent.found \in BOOLEAN /\ parent.session \in BOOLEAN
      /\ (parent.found /\ parent.resources = {} => parent.session)
  <2>1. CASE parent = NoParent
    BY <2>1 DEF NoParent
  <2>2. ASSUME NEW resources, NEW session \in BOOLEAN, parent = Parent(resources, session),
               resources # {} \/ session
        PROVE  /\ parent.found \in BOOLEAN /\ parent.session \in BOOLEAN
               /\ (parent.found /\ parent.resources = {} => parent.session)
    BY <2>2 DEF Parent
  <2> QED  BY <2>1, <2>2
<1>2. Refusal # "allowed"
  BY DEF Refusal
<1> QED
  BY <1>1, <1>2 DEF ParentAllows, RequireParent

LEMMA GuardSoundInside ==
    ASSUME GuardInv PROVE GuardSound
<1>1. \A i \in Guarded : \A v : ParentAllows(v, ParentOf(i), "artifacts:read")
          <=> RequireParent(v, ParentOf(i), "artifacts:read") = "allowed"
  BY ParentShapes, ListingIsRead DEF GuardInv
<1>2. present \subseteq Guarded
  BY DEF GuardInv, GuardTypeOK
<1>3. \A v \in Viewer : Visible(v) =
          {i \in present : RequireParent(v, ParentOf(i), "artifacts:read") = "allowed"}
  BY <1>1, <1>2 DEF Visible
<1>4. ParentOf("OPERATION") = ParentOf("REMOTE")
  <2>1. work = "NONE" \/ ~benchHere => OperationParent = NoParent
    BY DEF OperationParent, BenchOperationParent, NoParent
  <2> QED  BY <2>1 DEF ParentOf, RemoteParent, OwnerParent
<1>5. ASSUME boundTo, NEW v \in Viewer,
             Visible(v) \cap {"OPERATION", "REMOTE", "CI_SESSION"} # {}
      PROVE  \/ <<"ci:sessions:read", "organisation">> \in profileOf[v]
             \/ v = sessionOf /\ MayAnywhere(v, "ci:sessions:read")
  <2>1. PICK i \in {"OPERATION", "REMOTE", "CI_SESSION"} : ParentAllows(v, ParentOf(i), "artifacts:read")
    BY <1>5 DEF Visible
  <2>2. ParentOf(i).found /\ (ParentOf(i).session => CiSessionAllowed(v, "ci:sessions:read"))
    BY <2>1 DEF ParentAllows, CiPermission
  <2>3. sessionOf # Unowned /\ work = "RUN_WORKFLOW"
    BY <1>5 DEF GuardInv, BoundWork
  <2>4. WorkflowOperationParent.found => WorkflowOperationParent.session
    BY <1>5, <2>3 DEF WorkflowOperationParent, NoParent, Parent
  <2>5. OperationParent.found => OperationParent.session
    BY <2>3, <2>4 DEF OperationParent, NoParent
  <2>6. ParentOf("CI_SESSION").found => ParentOf("CI_SESSION").session
    BY <1>5, <2>3 DEF ParentOf, OwnerParent, NoParent, Parent
  <2>7. ParentOf(i).session
    BY <1>4, <2>2, <2>5, <2>6 DEF ParentOf, OwnerParent
  <2> QED  BY <2>2, <2>7 DEF CiSessionAllowed, May
<1> QED
  BY <1>3, <1>4, <1>5 DEF GuardSound, GuardInv, Visible

LEMMA GuardInvInit == GuardInit => GuardInv
<1> SUFFICES ASSUME GuardInit PROVE GuardInv
  OBVIOUS
<1>1. profileOf \in [Viewer -> SUBSET (Permissions \X GuardResource)]
  BY GuardAssumption DEF GuardInit
<1> QED  BY <1>1 DEF GuardInit, GuardInv, GuardTypeOK, BoundWork, Silent

\* A request ends with an answer that tells what it may.
LEMMA AnswerTold ==
    ASSUME NEW v, NEW parent, NEW permission
    PROVE  /\ RequireParent(v, parent, permission) \in GuardAnswers
           /\ RequireParent(v, parent, permission) = "denied" => ~HideDenied
<1>1. RequireParent(v, parent, permission) \in {Refusal, "allowed"}
  BY DEF RequireParent
<1> QED  BY <1>1 DEF Refusal, GuardAnswers

LEMMA RequestKeeps ==
    ASSUME GuardInv, NEW v, NEW item, NEW permission, NEW ends \in GuardAnswers,
           Ends(v, item, permission, ends), ends = "denied" => ~HideDenied,
           present' \subseteq Guarded
    PROVE  GuardInv'
<1>1. outcome'.ends = ends
  BY DEF Ends
<1> QED  BY <1>1 DEF GuardInv, GuardTypeOK, BoundWork, Ends, GuardAnswers

LEMMA GuardInvNext == GuardInv /\ [GuardNext]_guardVars => GuardInv'
<1> SUFFICES ASSUME GuardInv, [GuardNext]_guardVars PROVE GuardInv'
  OBVIOUS
<1>p. present \subseteq Guarded
  BY DEF GuardInv, GuardTypeOK
<1>1. CASE UNCHANGED guardVars
  BY <1>1 DEF guardVars, GuardInv, GuardTypeOK, BoundWork
<1>2. ASSUME NEW v \in Viewer, UploadForRoute(v) PROVE GuardInv'
  <2>1. PICK ends \in GuardAnswers : /\ Ends(v, "OPERATION", "artifacts:write", ends)
                                     /\ ends = "denied" => ~HideDenied
    <3>1. PICK route : Ends(v, "OPERATION", "artifacts:write", RequireParent(v, route, "artifacts:write"))
      BY <1>2 DEF UploadForRoute
    <3> QED  BY <3>1, AnswerTold
  <2>2. present' \subseteq Guarded
    BY <1>2, <1>p DEF UploadForRoute, Guarded, OwnerType
  <2> QED  BY <2>1, <2>2, RequestKeeps
<1>3. ASSUME NEW v \in Viewer, NEW i \in Guarded, Get(v, i) \/ IssueCapability(v, i) PROVE GuardInv'
  <2>1. PICK ends \in GuardAnswers : /\ Ends(v, i, "artifacts:read", ends)
                                     /\ ends = "denied" => ~HideDenied
    BY <1>3, AnswerTold DEF Get, IssueCapability, GuardAnswers
  <2> QED  BY <1>3, <1>p, <2>1, RequestKeeps DEF Get, IssueCapability
<1>4. ASSUME NEW v \in Viewer, NEW i \in Guarded, UploadOwned(v, i) PROVE GuardInv'
  <2>1. PICK ends \in GuardAnswers : /\ Ends(v, i, "artifacts:write", ends)
                                     /\ ends = "denied" => ~HideDenied
    BY <1>4, AnswerTold DEF UploadOwned
  <2>2. present' \subseteq Guarded
    BY <1>4, <1>p DEF UploadOwned
  <2> QED  BY <2>1, <2>2, RequestKeeps
<1>5. ASSUME NEW v \in Viewer, NEW i \in Guarded, Delete(v, i) PROVE GuardInv'
  <2>1. PICK ends \in GuardAnswers : /\ Ends(v, i, "artifacts:delete", ends)
                                     /\ ends = "denied" => ~HideDenied
    BY <1>5, AnswerTold DEF Delete, GuardAnswers
  <2>2. present' \subseteq Guarded
    BY <1>5, <1>p DEF Delete
  <2> QED  BY <2>1, <2>2, RequestKeeps
<1>6. CASE ChainChanges
  <2>1. profileOf' \in [Viewer -> SUBSET (Permissions \X GuardResource)]
    BY <1>6, GuardAssumption DEF ChainChanges, GuardInv, GuardTypeOK
  <2>2. present' \subseteq Guarded /\ outcome'.ends = "none"
    BY <1>6, <1>p DEF ChainChanges, Guarded, Silent
  <2>3. /\ work' \in {"NONE", "FLASH", "RUN_WORKFLOW"} /\ sessionOf' \in Viewer \cup {Unowned}
        /\ benchHere' \in BOOLEAN /\ sameDefinition' \in BOOLEAN /\ boundTo' \in BOOLEAN
    BY <1>6 DEF ChainChanges, GuardInv, GuardTypeOK
  <2>4. BoundWork'
    BY <1>6 DEF ChainChanges, GuardInv, BoundWork
  <2> QED  BY <2>1, <2>2, <2>3, <2>4 DEF GuardInv, GuardTypeOK
<1> QED  BY <1>1, <1>2, <1>3, <1>4, <1>5, <1>6 DEF GuardNext

LEMMA GuardSoundAlways == GuardSpec => [](GuardTypeOK /\ GuardSound)
<1>1. GuardInv => GuardTypeOK /\ GuardSound
  BY GuardSoundInside DEF GuardInv
<1> QED  BY <1>1, GuardInvInit, GuardInvNext, PTL DEF GuardSpec

-----------------------------------------------------------------------------
(* Admission of commands. *)

LeaseRow == [version : 0..MaxRenewals, until : 0..LeaseHorizon, released : BOOLEAN]

AdmittedRow == [type : CommandType, who : Actor \cup {Unidentified}, named : BOOLEAN,
                evidence : Snapshot \cup {NoSnapshot}, version : 0..MaxRenewals,
                status : AdmittedStatus]

\* The first version of the lease ends at the start of time.
FirstIsShort(lease) == lease.version = 1 => lease.until = 0

AdmissionRows ==
    /\ rights \subseteq Actor \X CommandRight /\ renamed \subseteq Actor
    /\ trusted \in BOOLEAN
    /\ leaseNow \in LeaseRow /\ leaseNow.version # 0 /\ FirstIsShort(leaseNow)
    /\ time \in 0..LeaseHorizon
    /\ evidence \subseteq Snapshot
    /\ commands \in [CommandKey -> {Absent} \cup AdmittedRow]
    /\ bound \in CommandKey \cup {NotBound}

\* A call names a lease version it read, and a caller without a principal has a
\* credential without restrictions.
CallsRead ==
    /\ calls \subseteq Call
    /\ \A c \in calls : /\ FirstIsShort(c.lease)
                        /\ c.who = Unidentified => c.limits = CommandRight

\* Mutating work is stored under a lease, a principal's command with its evidence.
RowsHaveEvidence ==
    \A k \in CommandKey : commands[k] # Absent =>
        /\ commands[k].type \in Mutating => commands[k].version # 0
        /\ commands[k].who # Unidentified =>
              /\ commands[k].evidence \in evidence
              /\ commands[k].evidence.who = commands[k].who
              /\ commands[k].evidence.permission = EvidencePermission(commands[k].type)

\* What the last step let out was allowed out.
ShownAllowed ==
    /\ shown.kind = "answer" =>
          /\ shown.who = commands[shown.key].who
          /\ EvidencePermission(commands[shown.key].type) \in shown.limits
    /\ shown.kind = "sent" /\ commands[shown.key].type \in Mutating =>
          shown.version # 0 /\ (shown.version = 1 => time = 0)
    /\ shown.kind = "cancel" =>
          /\ shown.via = "session" => shown.key = bound
          /\ shown.who # Unidentified => \E e \in evidence :
                /\ e.who = shown.who
                /\ e.permission = IF shown.via = "session" THEN "ci:sessions:cancel"
                                  ELSE "operations:cancel"

AdmissionInv == AdmissionRows /\ CallsRead /\ RowsHaveEvidence /\ ShownAllowed

LEMMA QuietShown == ASSUME shown' = Quiet PROVE ShownAllowed'
  BY DEF ShownAllowed, Quiet

LEMMA RowIsThere == ASSUME NEW rec \in AdmittedRow PROVE rec # Absent
  BY DEF AdmittedRow, Absent, AdmittedStatus

LEMMA AdmissionInvInit == AdmissionInit => AdmissionInv
<1> SUFFICES ASSUME AdmissionInit PROVE AdmissionInv
  OBVIOUS
<1>1. leaseNow \in LeaseRow /\ leaseNow.version # 0 /\ FirstIsShort(leaseNow) /\ time \in 0..LeaseHorizon
  BY AdmissionAssumption DEF AdmissionInit, LeaseRow, FirstIsShort
<1>2. AdmissionRows
  BY <1>1 DEF AdmissionInit, AdmissionRows
<1>3. CallsRead /\ RowsHaveEvidence
  BY DEF AdmissionInit, CallsRead, RowsHaveEvidence
<1>4. ShownAllowed
  BY DEF AdmissionInit, ShownAllowed, Quiet
<1> QED  BY <1>2, <1>3, <1>4 DEF AdmissionInv

\* The rows and calls stay, and more evidence may be kept.
LEMMA EvidenceGrows ==
    ASSUME RowsHaveEvidence, commands' = commands, evidence \subseteq evidence'
    PROVE  RowsHaveEvidence'
  BY DEF RowsHaveEvidence

LEMMA AroundKeeps ==
    ASSUME AdmissionInv, WorldChanges \/ PresenceChanges \/ LeaseChanges
    PROVE  AdmissionInv'
<1>1. /\ shown' = Quiet /\ UNCHANGED <<evidence, calls, commands, bound>>
  BY DEF WorldChanges, PresenceChanges, LeaseChanges
<1>2. rights' \subseteq Actor \X CommandRight /\ renamed' \subseteq Actor /\ trusted' \in BOOLEAN
  BY DEF AdmissionInv, AdmissionRows, WorldChanges, PresenceChanges, LeaseChanges
<1>3. leaseNow' \in LeaseRow /\ leaseNow'.version # 0 /\ FirstIsShort(leaseNow') /\ time' \in 0..LeaseHorizon
  <2>1. CASE UNCHANGED <<leaseNow, time>>
    BY <2>1 DEF AdmissionInv, AdmissionRows
  <2>2. CASE leaseNow.version < MaxRenewals /\ time' = time
             /\ leaseNow' = [version |-> leaseNow.version + 1, until |-> LeaseHorizon, released |-> FALSE]
    <3>1. leaseNow.version \in 1..MaxRenewals /\ leaseNow.version + 1 \in 0..MaxRenewals
      BY <2>2, AdmissionAssumption DEF AdmissionInv, AdmissionRows, LeaseRow
    <3>2. leaseNow'.version = 1 => leaseNow'.until = 0
      BY <2>2, <3>1
    <3> QED  BY <2>2, <3>1, <3>2, AdmissionAssumption DEF LeaseRow, FirstIsShort, AdmissionInv, AdmissionRows
  <2>3. CASE leaseNow' = [leaseNow EXCEPT !.released = TRUE] /\ time' = time
    BY <2>3 DEF AdmissionInv, AdmissionRows, LeaseRow, FirstIsShort
  <2>4. CASE time < LeaseHorizon /\ time' = time + 1 /\ leaseNow' = leaseNow
    BY <2>4, AdmissionAssumption DEF AdmissionInv, AdmissionRows
  <2> QED  BY <2>1, <2>2, <2>3, <2>4 DEF WorldChanges, PresenceChanges, LeaseChanges
<1> QED
  BY <1>1, <1>2, <1>3, QuietShown, EvidenceGrows
  DEF AdmissionInv, AdmissionRows, CallsRead
\* A call reads the lease as it is, or none.
LEMMA AskKeeps ==
    ASSUME AdmissionInv, NEW who \in Actor \cup {Unidentified}, NEW type \in CommandType,
           NEW key \in CommandKey, NEW limits \in Restrictions, NEW fresh \in BOOLEAN,
           who = Unidentified => limits = CommandRight /\ ~fresh,
           Ask(who, type, key, limits, fresh)
    PROVE  AdmissionInv'
<1>1. PICK read : read = LeaseRead(type)
  OBVIOUS
<1>2. read \in LeaseRow /\ FirstIsShort(read)
  BY <1>1, AdmissionAssumption DEF LeaseRead, NoLeaseRead, LeaseRow, FirstIsShort, AdmissionInv, AdmissionRows
<1>3. PICK decision : decision = [who |-> who, permission |-> EvidencePermission(type)]
  OBVIOUS
<1>4. fresh => decision \in Snapshot
  BY <1>3 DEF Snapshot, EvidencePermission, CommandPermission, CommandRight
<1>5. PICK handed \in Snapshot \cup {NoSnapshot} : handed = IF fresh THEN decision ELSE NoSnapshot
  BY <1>4
<1>6. PICK named \in BOOLEAN : ActorContext(who) = [who |-> who, named |-> named]
  <2>1. CASE who \in renamed
    <3>1. ActorContext(who) = [who |-> who, named |-> TRUE]
      BY Zenon, <2>1 DEF ActorContext
    <3> QED  BY <3>1
  <2>2. CASE who \notin renamed
    <3>0. (who \in renamed) = FALSE
      BY <2>2
    <3>1. ActorContext(who) = [who |-> who, named |-> FALSE]
      BY Zenon, <3>0 DEF ActorContext
    <3> QED  BY <3>1
  <2> QED  BY <2>1, <2>2
<1>7. PICK c : c = [who |-> who, named |-> named, type |-> type, key |-> key,
                    lease |-> read, limits |-> limits, evidence |-> handed]
  OBVIOUS
<1>8. c \in Call /\ c.lease = read /\ c.who = who /\ c.limits = limits
  BY <1>2, <1>7 DEF Call, LeaseRow
<1>9. /\ calls' = calls \cup {c} /\ evidence' = IF fresh THEN evidence \cup {decision} ELSE evidence
      /\ shown' = Quiet /\ UNCHANGED <<world, commands, bound>>
  BY <1>1, <1>3, <1>5, <1>6, <1>7 DEF Ask
<1>10. CallsRead'
  BY <1>2, <1>8, <1>9 DEF AdmissionInv, CallsRead
<1>11. AdmissionRows'
  BY <1>4, <1>9 DEF AdmissionInv, AdmissionRows, world
<1>12. RowsHaveEvidence'
  BY <1>9, EvidenceGrows DEF AdmissionInv
<1> QED  BY <1>9, <1>10, <1>11, <1>12, QuietShown DEF AdmissionInv

\* A dispatch changes the status only, and sends mutating work while its lease
\* is valid.
LEMMA DispatchSends ==
    ASSUME NEW rec \in AdmittedRow, NEW lease
    PROVE  /\ Dispatched(rec, lease) \in AdmittedRow
           /\ Dispatched(rec, lease).type = rec.type /\ Dispatched(rec, lease).who = rec.who
           /\ Dispatched(rec, lease).evidence = rec.evidence
           /\ Dispatched(rec, lease).version = rec.version
           /\ rec.status # "DISPATCHED" /\ Dispatched(rec, lease).status = "DISPATCHED"
                 => DispatchLease(rec, lease)
<1>1. "DISPATCHED" \in AdmittedStatus
  BY DEF AdmittedStatus
<1> QED  BY <1>1 DEF Dispatched, AdmittedRow

\* One row is written, with its evidence, and perhaps sent.
LEMMA RowWrittenKeeps ==
    ASSUME AdmissionInv, NEW k \in CommandKey, NEW rec \in AdmittedRow,
           commands' = [commands EXCEPT ![k] = rec],
           evidence \subseteq evidence', evidence' \subseteq Snapshot,
           UNCHANGED <<rights, renamed, trusted, leaseNow, time, bound>>,
           CallsRead',
           rec.type \in Mutating => rec.version # 0,
           rec.who # Unidentified =>
              /\ rec.evidence \in evidence' /\ rec.evidence.who = rec.who
              /\ rec.evidence.permission = EvidencePermission(rec.type),
           \/ shown' = Quiet
           \/ /\ shown' = Sent(k, rec)
              /\ rec.status = "DISPATCHED" /\ rec.type \in Mutating
                     => (rec.version = 1 => time = 0)
    PROVE  AdmissionInv'
<1>1. /\ commands' \in [CommandKey -> {Absent} \cup AdmittedRow] /\ commands'[k] = rec
      /\ \A j \in CommandKey : j # k => commands'[j] = commands[j]
  BY DEF AdmissionInv, AdmissionRows
<1>2. AdmissionRows'
  BY <1>1 DEF AdmissionInv, AdmissionRows
<1>3. RowsHaveEvidence'
  BY <1>1 DEF AdmissionInv, RowsHaveEvidence
<1>4. ShownAllowed'
  <2>1. CASE shown' = Quiet
    BY <2>1, QuietShown
  <2>2. CASE shown' # Quiet
    <3>1. /\ shown' = [kind |-> "sent", key |-> k, version |-> rec.version]
          /\ rec.type \in Mutating => (rec.version = 1 => time' = 0)
      BY <2>2 DEF Sent
    <3> QED  BY <1>1, <3>1 DEF ShownAllowed
  <2> QED  BY <2>1, <2>2
<1> QED  BY <1>2, <1>3, <1>4 DEF AdmissionInv

LEMMA CreateKeeps ==
    ASSUME AdmissionInv, NEW c \in calls, CreateCommand(c)
    PROVE  AdmissionInv'
<1>1. c \in Call /\ FirstIsShort(c.lease) /\ (c.who = Unidentified => c.limits = CommandRight)
  BY DEF AdmissionInv, CallsRead
<1>2. CallsRead' /\ UNCHANGED <<world, bound>>
  BY DEF AdmissionInv, CallsRead, CreateCommand
<1>3. CASE /\ commands[c.key] # Absent /\ IdempotentReplay(c, commands[c.key])
           /\ shown' = [kind |-> "answer", key |-> c.key, who |-> c.who, limits |-> c.limits]
           /\ UNCHANGED <<commands, evidence>>
  <2>1. commands[c.key].who = c.who /\ commands[c.key].type = c.type
    BY <1>3 DEF IdempotentReplay
  <2>2. EvidencePermission(c.type) \in c.limits
    BY <1>1, <1>3 DEF IdempotentReplay, EvidencePermission, CommandPermission, CommandRight
  <2>3. ShownAllowed'
    BY <1>3, <2>1, <2>2 DEF ShownAllowed
  <2> QED  BY <1>2, <1>3, <2>3, EvidenceGrows DEF AdmissionInv, AdmissionRows, world
<1>4. CASE shown' = Quiet /\ UNCHANGED <<commands, evidence>>
  BY <1>2, <1>4, QuietShown, EvidenceGrows DEF AdmissionInv, AdmissionRows, world
<1>5. ASSUME NEW fresh,
             fresh = [type |-> c.type, who |-> c.who, named |-> c.named,
                      evidence |-> EvidenceOf(c), version |-> c.lease.version,
                      status |-> IF agentIs = "OFFLINE" THEN "QUEUED" ELSE "CREATED"],
             LeaseAdmits(c),
             commands' = [commands EXCEPT ![c.key] = Dispatched(fresh, c.lease)],
             evidence' = IF c.who = Unidentified THEN evidence ELSE evidence \cup {EvidenceOf(c)},
             shown' = Sent(c.key, Dispatched(fresh, c.lease))
      PROVE  AdmissionInv'
  <2>1. /\ EvidenceOf(c) \in Snapshot \cup {NoSnapshot}
        /\ c.who # Unidentified =>
              /\ EvidenceOf(c) \in Snapshot /\ EvidenceOf(c).who = c.who
              /\ EvidenceOf(c).permission = EvidencePermission(c.type)
    BY <1>1 DEF EvidenceOf, Call, Snapshot, EvidencePermission, CommandPermission, CommandRight
  <2>2. /\ c.type \in CommandType /\ c.key \in CommandKey /\ c.named \in BOOLEAN
        /\ c.who \in Actor \cup {Unidentified} /\ c.lease \in LeaseRow
    BY <1>1 DEF Call, LeaseRow
  <2>3. fresh \in AdmittedRow /\ fresh.status # "DISPATCHED"
    BY <1>5, <2>1, <2>2 DEF AdmittedRow, AdmittedStatus, LeaseRow
  <2>4. PICK made \in AdmittedRow : made = Dispatched(fresh, c.lease)
    BY <2>3, DispatchSends
  <2>5. /\ made.type = c.type /\ made.who = c.who /\ made.evidence = EvidenceOf(c)
        /\ made.version = c.lease.version
    BY <1>5, <2>3, <2>4, DispatchSends
  <2>6. c.type \in Mutating => /\ c.lease.version # 0
                               /\ c.lease.version = 1 => time = 0
    <3>1. time \in Nat
      BY AdmissionAssumption DEF AdmissionInv, AdmissionRows
    <3> QED  BY <1>1, <1>5, <3>1 DEF LeaseAdmits, ValidAt, FirstIsShort
  <2>7. evidence \subseteq evidence' /\ evidence' \subseteq Snapshot
    BY <1>5, <2>1 DEF AdmissionInv, AdmissionRows
  <2>8. made.who # Unidentified => made.evidence \in evidence'
    BY <1>5, <2>5
  <2> QED
    BY <1>2, <1>5, <2>1, <2>2, <2>4, <2>5, <2>6, <2>7, <2>8, RowWrittenKeeps DEF world
<1> QED  BY <1>3, <1>4, <1>5 DEF CreateCommand

LEMMA ReplayKeeps ==
    ASSUME AdmissionInv, NEW k \in CommandKey, ReplayQueued(k)
    PROVE  AdmissionInv'
<1>1. commands[k] # Absent
  BY DEF ReplayQueued, Absent
<1>2. PICK rec \in AdmittedRow : rec = commands[k]
  BY <1>1 DEF AdmissionInv, AdmissionRows
<1>3. PICK lease : /\ lease = IF rec.version # 0 /\ leaseNow.version = rec.version
                              THEN leaseNow ELSE NoLeaseRead
                   /\ commands' = [commands EXCEPT ![k] = Dispatched(rec, lease)]
                   /\ shown' = Sent(k, Dispatched(rec, lease))
                   /\ Dispatched(rec, lease).status = "DISPATCHED" /\ rec.status = "QUEUED"
                   /\ UNCHANGED <<world, evidence, calls, bound>>
  BY <1>2 DEF ReplayQueued
<1>4. PICK made \in AdmittedRow : made = Dispatched(rec, lease)
  BY DispatchSends
<1>5. /\ made.type = rec.type /\ made.who = rec.who /\ made.evidence = rec.evidence
      /\ made.version = rec.version /\ DispatchLease(rec, lease)
  BY <1>3, <1>4, DispatchSends
<1>6. /\ rec.type \in Mutating => rec.version # 0
      /\ rec.who # Unidentified =>
            /\ rec.evidence \in evidence /\ rec.evidence.who = rec.who
            /\ rec.evidence.permission = EvidencePermission(rec.type)
  BY <1>1, <1>2 DEF AdmissionInv, RowsHaveEvidence
<1>7. rec.type \in Mutating => (rec.version = 1 => time = 0)
  <2>1. time \in Nat
    BY AdmissionAssumption DEF AdmissionInv, AdmissionRows
  <2>2. rec.version # 0 => ValidAt(lease) /\ lease.version = rec.version
    BY <1>5 DEF DispatchLease
  <2>3. lease = NoLeaseRead \/ lease = leaseNow
    BY <1>3
  <2> QED  BY <1>6, <2>1, <2>2, <2>3 DEF ValidAt, NoLeaseRead, FirstIsShort, AdmissionInv, AdmissionRows
<1>8. CallsRead' /\ evidence' \subseteq Snapshot
  BY <1>3 DEF AdmissionInv, CallsRead, AdmissionRows
<1> QED  BY <1>3, <1>4, <1>5, <1>6, <1>7, <1>8, RowWrittenKeeps DEF world

\* Only the status of a row changes, and nothing is let out.
LEMMA StatusKeeps ==
    ASSUME AdmissionInv, NEW k \in CommandKey, commands[k] # Absent, NEW standing \in AdmittedStatus,
           commands' = [commands EXCEPT ![k].status = standing], shown' = Quiet,
           UNCHANGED <<world, evidence, calls, bound>>
    PROVE  AdmissionInv'
<1>1. PICK rec \in AdmittedRow : rec = commands[k]
  BY DEF AdmissionInv, AdmissionRows
<1>2. PICK made : made = [rec EXCEPT !.status = standing]
  OBVIOUS
<1>3. /\ made \in AdmittedRow /\ made.type = rec.type /\ made.who = rec.who
      /\ made.evidence = rec.evidence /\ made.version = rec.version
  BY <1>2 DEF AdmittedRow
<1>4. commands' = [commands EXCEPT ![k] = made]
  BY <1>1, <1>2
<1>5. /\ rec.type \in Mutating => rec.version # 0
      /\ rec.who # Unidentified =>
            /\ rec.evidence \in evidence /\ rec.evidence.who = rec.who
            /\ rec.evidence.permission = EvidencePermission(rec.type)
  BY <1>1 DEF AdmissionInv, RowsHaveEvidence
<1>6. CallsRead' /\ evidence' \subseteq Snapshot
  BY DEF AdmissionInv, CallsRead, AdmissionRows
<1>7. /\ UNCHANGED <<rights, renamed, trusted, leaseNow, time, bound>>
      /\ evidence' = evidence
  BY DEF world
<1>8. /\ made.type \in Mutating => made.version # 0
      /\ made.who # Unidentified =>
            /\ made.evidence \in evidence' /\ made.evidence.who = made.who
            /\ made.evidence.permission = EvidencePermission(made.type)
  BY <1>3, <1>5, <1>7
<1> QED  BY <1>3, <1>4, <1>6, <1>7, <1>8, RowWrittenKeeps

LEMMA CancelKeeps ==
    ASSUME AdmissionInv, NEW k \in CommandKey, commands[k] # Absent, NEW who, NEW via,
           CancelAuthorised(k, who, via), UNCHANGED <<world, evidence, calls, bound>>,
           via = "session" => k = bound,
           commands[k].status = "DISPATCHED" /\ who # Unidentified => \E e \in evidence :
               /\ e.who = who
               /\ e.permission = IF via = "session" THEN "ci:sessions:cancel" ELSE "operations:cancel"
    PROVE  AdmissionInv'
<1>1. CASE commands[k].status \in {"CREATED", "QUEUED"}
  BY <1>1, StatusKeeps DEF CancelAuthorised, AdmittedStatus
<1>2. CASE commands[k].status \notin {"CREATED", "QUEUED"}
  <2>1. commands' = commands
    BY <1>2 DEF CancelAuthorised
  <2>2. CASE commands[k].status = "DISPATCHED"
    <3>1. shown' = [kind |-> "cancel", key |-> k, who |-> who, via |-> via]
      BY <2>2 DEF CancelAuthorised
    <3>2. ShownAllowed'
      BY <2>2, <3>1 DEF ShownAllowed
    <3> QED  BY <2>1, <3>2, EvidenceGrows DEF AdmissionInv, AdmissionRows, CallsRead, world
  <2>3. CASE commands[k].status # "DISPATCHED"
    <3>1. shown' = Quiet
      BY <2>3 DEF CancelAuthorised
    <3> QED  BY <2>1, <3>1, QuietShown, EvidenceGrows DEF AdmissionInv, AdmissionRows, CallsRead, world
  <2> QED  BY <2>2, <2>3
<1> QED  BY <1>1, <1>2

LEMMA AdmissionInvNext == AdmissionInv /\ [AdmissionNext]_admissionVars => AdmissionInv'
<1> SUFFICES ASSUME AdmissionInv, [AdmissionNext]_admissionVars PROVE AdmissionInv'
  OBVIOUS
<1>1. CASE UNCHANGED admissionVars
  BY <1>1 DEF admissionVars, AdmissionInv, AdmissionRows, CallsRead, RowsHaveEvidence, ShownAllowed
<1>2. CASE WorldChanges \/ PresenceChanges \/ LeaseChanges
  BY <1>2, AroundKeeps
<1>3. ASSUME NEW a \in Actor, NEW t \in CommandType, NEW k \in CommandKey, NEW l \in Restrictions,
             NEW f \in BOOLEAN, Ask(a, t, k, l, f)
      PROVE  AdmissionInv'
  BY <1>3, AskKeeps, AdmissionAssumption
<1>4. ASSUME NEW t \in CommandType, NEW k \in CommandKey, Ask(Unidentified, t, k, CommandRight, FALSE)
      PROVE  AdmissionInv'
  BY <1>4, AskKeeps DEF Restrictions
<1>5. ASSUME NEW k \in CommandKey, AgentFinishes(k) PROVE AdmissionInv'
  <2>1. commands[k] # Absent /\ "SUCCEEDED" \in AdmittedStatus
    BY <1>5 DEF AgentFinishes, Absent, AdmittedStatus
  <2> QED  BY <1>5, <2>1, StatusKeeps DEF AgentFinishes
<1>6. ASSUME NEW k \in CommandKey, BindSession(k) PROVE AdmissionInv'
  BY <1>6, QuietShown, EvidenceGrows DEF BindSession, AdmissionInv, AdmissionRows, CallsRead, world
<1>7. ASSUME NEW k \in CommandKey, NEW a, NEW l, NEW s \in evidence \cup {NoSnapshot},
             CancelCommand(k, a, l, s)
      PROVE  AdmissionInv'
  BY <1>7, CancelKeeps DEF CancelCommand, SnapshotEvidence
<1>8. ASSUME NEW k \in CommandKey, NEW a \in Actor, NEW s \in evidence, RequestCiCancel(k, a, s)
      PROVE  AdmissionInv'
  BY <1>8, CancelKeeps DEF RequestCiCancel, SnapshotEvidence, CiBinding
<1>9. ASSUME NEW a \in Actor, NEW p \in CommandRight, DecideCancel(a, p) PROVE AdmissionInv'
  <2>1. [who |-> a, permission |-> p] \in Snapshot
    BY DEF Snapshot
  <2> QED
    BY <1>9, <2>1, QuietShown, EvidenceGrows DEF DecideCancel, AdmissionInv, AdmissionRows, CallsRead
<1> QED
  BY <1>1, <1>2, <1>3, <1>4, <1>5, <1>6, <1>7, <1>8, <1>9, CreateKeeps, ReplayKeeps DEF AdmissionNext

LEMMA AdmissionInvAlways == AdmissionSpec => []AdmissionInv
  BY AdmissionInvInit, AdmissionInvNext, PTL DEF AdmissionSpec

LEMMA AdmissionTyped == AdmissionSpec => []AdmissionTypeOK
<1>1. AdmissionInv => AdmissionTypeOK
  <2> SUFFICES ASSUME AdmissionInv PROVE AdmissionTypeOK
    OBVIOUS
  <2>1. ASSUME NEW k \in CommandKey, commands[k] # Absent PROVE commands[k] \in AdmittedRow
    BY <2>1 DEF AdmissionInv, AdmissionRows
  <2> QED  BY <2>1 DEF AdmissionInv, AdmissionRows, CallsRead, AdmittedRow, AdmissionTypeOK
<1> QED  BY <1>1, AdmissionInvAlways, PTL

LEMMA AdmissionSoundAlways == AdmissionSpec => []AdmissionSound
<1>1. AdmissionInv => AdmissionSound
  BY DEF AdmissionInv, RowsHaveEvidence, ShownAllowed, AdmissionSound
<1> QED  BY <1>1, AdmissionInvAlways, PTL

\* A command is created for a principal only while its assignments give both
\* permissions and the workflow is the catalog's, and only while the Agent
\* takes new work (RemoteCommandService.create).
THEOREM AdmittedNowAlways == AdmissionSpec => AdmittedNow
<1>1. ASSUME AdmissionInv, [AdmissionNext]_admissionVars, NEW k \in CommandKey,
             commands[k] = Absent, commands'[k] # Absent
      PROVE  /\ agentIs \in {"ONLINE", "OFFLINE"}
             /\ commands'[k].who # Unidentified =>
                   /\ <<commands'[k].who, CommandPermission(commands'[k].type)>> \in rights
                   /\ <<commands'[k].who, EvidencePermission(commands'[k].type)>> \in rights
                   /\ commands'[k].type = "RUN_WORKFLOW" => trusted
  <2>1. commands \in [CommandKey -> {Absent} \cup AdmittedRow]
    BY <1>1 DEF AdmissionInv, AdmissionRows
  <2>2. ~ \E j \in CommandKey : ReplayQueued(j) \/ AgentFinishes(j)
    BY <1>1, <2>1 DEF ReplayQueued, AgentFinishes, Absent
  <2>3. ~ \E j \in CommandKey : \E who, via : commands[j] # Absent /\ CancelAuthorised(j, who, via)
    BY <1>1, <2>1 DEF CancelAuthorised
  <2>4. PICK c \in calls : CreateCommand(c)
    <3>1. ~ \/ UNCHANGED admissionVars \/ WorldChanges \/ PresenceChanges \/ LeaseChanges
            \/ \E a, t, j, l, f : Ask(a, t, j, l, f)
            \/ \E j : BindSession(j)
            \/ \E a, p : DecideCancel(a, p)
      <4>1. commands' # commands
        BY <1>1
      <4>2. UNCHANGED admissionVars => commands' = commands
        BY DEF admissionVars
      <4>3. WorldChanges \/ PresenceChanges \/ LeaseChanges => commands' = commands
        BY DEF WorldChanges, PresenceChanges, LeaseChanges
      <4>4. \A a, t, j, l, f : Ask(a, t, j, l, f) => commands' = commands
        BY DEF Ask
      <4>5. \A a, p : BindSession(a) \/ DecideCancel(a, p) => commands' = commands
        BY DEF BindSession, DecideCancel
      <4> QED  BY Zenon, <4>1, <4>2, <4>3, <4>4, <4>5
    <3>2. ~ \/ \E j \in CommandKey : \E a, l, e : CancelCommand(j, a, l, e)
            \/ \E j \in CommandKey : \E a, e : RequestCiCancel(j, a, e)
      BY <2>3 DEF CancelCommand, RequestCiCancel
    <3> QED  BY Zenon, <1>1, <2>2, <3>1, <3>2 DEF AdmissionNext
  <2>5. PICK fresh : /\ fresh = [type |-> c.type, who |-> c.who, named |-> c.named,
                                 evidence |-> EvidenceOf(c), version |-> c.lease.version,
                                 status |-> IF agentIs = "OFFLINE" THEN "QUEUED" ELSE "CREATED"]
                     /\ commands' = [commands EXCEPT ![c.key] = Dispatched(fresh, c.lease)]
                     /\ CreateAuthorised(c) /\ AcceptsNewWork(TRUE)
    BY <1>1, <2>4 DEF CreateCommand
  <2>6. c \in Call /\ c.key = k
    BY <1>1, <2>1, <2>4, <2>5 DEF AdmissionInv, CallsRead
  <2>7. commands'[k].who = c.who /\ commands'[k].type = c.type
    <3>1. commands'[k] = Dispatched(fresh, c.lease)
      BY <2>1, <2>5, <2>6
    <3>2. Dispatched(fresh, c.lease).who = fresh.who /\ Dispatched(fresh, c.lease).type = fresh.type
      BY <2>5 DEF Dispatched
    <3> QED  BY <2>5, <3>1, <3>2
  <2> QED
    BY <2>5, <2>7 DEF AcceptsNewWork, CreateAuthorised, ResourceAuthorised, TrustedDefinition,
                      IdentityAuthorised, Permits
<1>2. AdmissionInv /\ [AdmissionNext]_admissionVars =>
        [\A k \in CommandKey : commands[k] = Absent /\ commands'[k] # Absent =>
          /\ agentIs \in {"ONLINE", "OFFLINE"}
          /\ commands'[k].who # Unidentified =>
                /\ <<commands'[k].who, CommandPermission(commands'[k].type)>> \in rights
                /\ <<commands'[k].who, EvidencePermission(commands'[k].type)>> \in rights
                /\ commands'[k].type = "RUN_WORKFLOW" => trusted]_admissionVars
  BY <1>1
<1> QED  BY <1>2, AdmissionInvAlways, PTL DEF AdmissionSpec, AdmittedNow

-----------------------------------------------------------------------------
(* Identity. *)

SessionOp == {"touch", "refresh", "logout"}

RecoveryOp == {"user", "password", "member", "sessions"}

LoginServed == [op : {"login", "issue"}, user : Person, row : UserRow]

SessionServed == [op : SessionOp, session : Login, row : SessionRow]

StatusServed == [op : {"status"}, user : Person, row : UserRow, before : SUBSET Login]

RevokeServed == [op : {"revoke"}, user : Person, before : SUBSET Login]

Recovering == [op : RecoveryOp, user : Person]

DirectoryRows ==
    /\ users \in [Person -> UserRow]
    /\ membership \in [Person -> MemberRole]
    /\ failures \in [Person -> 0..RateLimit]
    /\ accounts \in [Account -> AccountStatus]
    /\ recovery \in {NotServing} \cup Recovering
    /\ exchanges \subseteq LoginState

\* What a request read of sessions still describes them: they stay their user's.
SessionRows ==
    /\ sessions \in [Login -> SessionRow \cup {NoSession}]
    /\ serving \in {NotServing} \cup LoginServed \cup SessionServed \cup StatusServed \cup RevokeServed
    /\ serving \in SessionServed => sessions[serving.session] # NoSession
    /\ serving \in StatusServed \cup RevokeServed => serving.before \subseteq SessionsOf(serving.user)
    /\ outdated \subseteq Login
    /\ \A s \in outdated : sessions[s] # NoSession /\ sessions[s].revoked

\* The credentials of a revoked account are revoked.
CredentialRows ==
    /\ credentials \in [Credential -> CredentialRow \cup {NoCredential}]
    /\ \A k \in Credential :
          credentials[k] # NoCredential /\ accounts[credentials[k].account] = "REVOKED"
              => credentials[k].revoked

\* A transaction is pending once, and only before its code was exchanged.
PendingOnce ==
    /\ pendingLogins \in Seq(LoginState)
    /\ Len(pendingLogins) <= PendingLimit
    /\ \A i, j \in 1..Len(pendingLogins) : pendingLogins[i] = pendingLogins[j] => i = j
    /\ logins \in [LoginState -> {0, 1}]
    /\ \A i \in 1..Len(pendingLogins) : logins[pendingLogins[i]] = 0

IdentityInv == DirectoryRows /\ SessionRows /\ CredentialRows /\ PendingOnce

LEMMA SessionThere == \A rec \in SessionRow : rec # NoSession
  BY IdentityAssumption DEF SessionRow, NoSession

LEMMA CredentialThere == \A rec \in CredentialRow : rec # NoCredential
  BY IdentityAssumption DEF CredentialRow, NoCredential

LEMMA ServedByOp ==
    ASSUME SessionRows
    PROVE  /\ serving.op \in {"login", "issue"} => serving \in LoginServed
           /\ serving.op \in SessionOp => serving \in SessionServed
           /\ serving.op = "status" => serving \in StatusServed
           /\ serving.op = "revoke" => serving \in RevokeServed
  BY DEF SessionRows, LoginServed, SessionServed, StatusServed, RevokeServed, NotServing, SessionOp

LEMMA IdentityInvInit == IdentityInit => IdentityInv
<1> SUFFICES ASSUME IdentityInit PROVE IdentityInv
  OBVIOUS
<1>1. DirectoryRows
  BY IdentityAssumption DEF IdentityInit, DirectoryRows, UserRow, UserStatus, Source, MemberRole, AccountStatus
<1>2. SessionRows
  BY DEF IdentityInit, SessionRows, NotServing, SessionServed, StatusServed, RevokeServed, SessionOp
<1>3. CredentialRows
  BY DEF IdentityInit, CredentialRows
<1>4. PendingOnce
  BY IdentityAssumption DEF IdentityInit, PendingOnce
<1> QED  BY <1>1, <1>2, <1>3, <1>4 DEF IdentityInv

-----------------------------------------------------------------------------
(* What can happen to a session. *)

\* A row stays its user's, its secret only advances and its revocation stays.
Aged(old, new) ==
    old = NoSession \/ (/\ new # NoSession /\ new.user = old.user
                        /\ new.secret >= old.secret /\ (old.revoked => new.revoked))

SessionsAge ==
    /\ sessions' \in [Login -> SessionRow \cup {NoSession}]
    /\ \A s \in Login : Aged(sessions[s], sessions'[s])

LEMMA SameSecretAges ==
    ASSUME NEW old \in SessionRow, NEW new \in SessionRow, new.user = old.user,
           new.secret = old.secret, old.revoked => new.revoked
    PROVE  Aged(old, new)
<1>1. old.secret \in Nat
  BY DEF SessionRow
<1> QED  BY <1>1, SessionThere DEF Aged

LEMMA OneSessionAges ==
    ASSUME SessionRows, NEW s \in Login, NEW new \in SessionRow,
           sessions' = [sessions EXCEPT ![s] = new], Aged(sessions[s], new)
    PROVE  SessionsAge
<1>1. \A r \in Login : sessions[r] # NoSession => sessions[r].secret \in Nat
  BY DEF SessionRows, SessionRow
<1> QED  BY <1>1 DEF SessionRows, SessionsAge, Aged

LEMMA NoSessionAges ==
    ASSUME SessionRows, sessions' = sessions PROVE SessionsAge
<1>1. \A r \in Login : sessions[r] # NoSession => sessions[r].secret \in Nat
  BY DEF SessionRows, SessionRow
<1> QED  BY <1>1 DEF SessionRows, SessionsAge, Aged

LEMMA RevokedAges ==
    ASSUME SessionRows, NEW s \in Opened, sessions' = [sessions EXCEPT ![s].revoked = TRUE]
    PROVE  SessionsAge
<1>1. PICK old \in SessionRow : old = sessions[s]
  BY DEF SessionRows, Opened
<1> DEFINE new == [old EXCEPT !.revoked = TRUE]
<1>2. new \in SessionRow /\ new.user = old.user /\ new.secret = old.secret /\ new.revoked
  BY DEF SessionRow
<1>3. sessions' = [sessions EXCEPT ![s] = new]
  BY <1>1
<1> HIDE DEF new
<1>4. s \in Login
  BY DEF Opened
<1>5. Aged(old, new)
  BY <1>2, SameSecretAges
<1> QED  BY <1>1, <1>2, <1>3, <1>4, <1>5, OneSessionAges

\* Sessions that belong to a user go on belonging to that user.
LEMMA OwnersStay ==
    ASSUME SessionRows, SessionsAge, NEW u
    PROVE  SessionsOf(u) \subseteq SessionsOf(u)'
  BY DEF SessionsOf, Opened, SessionsAge, Aged

\* A write of the sessions by the request or the command under way keeps what
\* the other one read.
LEMMA SessionRowsKept ==
    ASSUME SessionRows, SessionsAge, UNCHANGED outdated,
           serving' = serving \/ serving' = NotServing
    PROVE  SessionRows'
<1>1. NotServing \notin SessionServed \cup StatusServed \cup RevokeServed
  BY DEF NotServing, SessionServed, StatusServed, RevokeServed, SessionOp
<1>2. \A s \in Login : sessions[s] # NoSession =>
          sessions'[s] # NoSession /\ (sessions[s].revoked => sessions'[s].revoked)
  BY DEF SessionsAge, Aged
<1>3. serving \in SessionServed => serving.session \in Login
  BY DEF SessionServed
<1>4. serving \in StatusServed \cup RevokeServed =>
          \A u : serving.user = u => serving.before \subseteq SessionsOf(u)'
  <2>1. \A u : SessionsOf(u) \subseteq SessionsOf(u)'
    BY OwnersStay
  <2> QED  BY <2>1 DEF SessionRows
<1>5. CASE serving' = serving
  BY <1>2, <1>3, <1>4, <1>5 DEF SessionRows, SessionsAge
<1>6. CASE serving' = NotServing
  BY <1>1, <1>2, <1>6 DEF SessionRows, SessionsAge
<1> QED  BY <1>5, <1>6

\* One step of every operation that writes a session.
LEMMA SessionsStep ==
    ASSUME IdentityInv,
           \/ \E s \in Login : IssueSession(s) \/ ExpireAccess(s) \/ EndSession(s)
           \/ FinishTouch \/ FinishRefresh \/ FinishLogout
           \/ \E s, t \in Login : RevokeOwnSession(s, t)
           \/ RevokeOne \/ RecoverSessions
    PROVE  SessionsAge
<1> USE DEF IdentityInv
<1>1. ASSUME NEW s \in Login, IssueSession(s) PROVE SessionsAge
  <2>1. serving \in LoginServed
    BY <1>1, ServedByOp DEF IssueSession
  <2>2. PICK new \in SessionRow : new = [user |-> serving.user, secret |-> 1, expired |-> FALSE,
                                        over |-> FALSE, revoked |-> FALSE]
    <3>1. PICK u \in Person : u = serving.user
      BY <2>1 DEF LoginServed
    <3>2. 1 \in 1..MaxSecrets
      BY IdentityAssumption
    <3>3. [user |-> u, secret |-> 1, expired |-> FALSE, over |-> FALSE, revoked |-> FALSE] \in SessionRow
      BY <3>2 DEF SessionRow
    <3> QED  BY <3>1, <3>3
  <2>3. sessions[s] = NoSession
    BY <1>1 DEF IssueSession, Opened
  <2> QED  BY <1>1, <2>2, <2>3, OneSessionAges DEF IssueSession, Aged
<1>2. ASSUME NEW s \in Login, ExpireAccess(s) \/ EndSession(s) PROVE SessionsAge
  <2>1. PICK old \in SessionRow : old = sessions[s]
    BY <1>2 DEF SessionRows, Opened, ExpireAccess, EndSession
  <2>2. PICK over \in BOOLEAN :
          sessions' = [sessions EXCEPT ![s] = [old EXCEPT !.over = over, !.expired = TRUE]]
    <3>1. [old EXCEPT !.over = old.over, !.expired = TRUE] = [old EXCEPT !.expired = TRUE]
          /\ old.over \in BOOLEAN
      BY DEF SessionRow
    <3>2. CASE ExpireAccess(s)
      BY <2>1, <3>1, <3>2 DEF ExpireAccess
    <3>3. CASE EndSession(s)
      BY <2>1, <3>3 DEF EndSession, SessionRows
    <3> QED  BY <1>2, <3>2, <3>3
  <2> DEFINE new == [old EXCEPT !.over = over, !.expired = TRUE]
  <2>3. new \in SessionRow /\ new.user = old.user /\ new.secret = old.secret /\ new.revoked = old.revoked
    BY DEF SessionRow
  <2>4. sessions' = [sessions EXCEPT ![s] = new]
    BY <2>2
  <2> HIDE DEF new
  <2>5. Aged(old, new)
    BY <2>3, SameSecretAges
  <2> QED  BY <2>1, <2>3, <2>4, <2>5, OneSessionAges
<1>3. ASSUME serving.op \in SessionOp
      PROVE  /\ serving.session \in Login /\ serving.row \in SessionRow
             /\ sessions[serving.session] \in SessionRow
  <2>1. serving \in SessionServed
    BY <1>3, ServedByOp
  <2> QED  BY <2>1 DEF SessionServed, SessionRows
<1>4. CASE FinishTouch
  <2>1. sessions' = sessions
    BY <1>3, <1>4 DEF FinishTouch, Touched, SessionOp, SessionRows
  <2> QED  BY <2>1, NoSessionAges
<1>5. CASE FinishRefresh
  <2>1. PICK s \in Login : s = serving.session
    BY <1>3, <1>5 DEF FinishRefresh, SessionOp
  <2>2. PICK old \in SessionRow : old = sessions[s]
    BY <1>3, <1>5, <2>1 DEF FinishRefresh, SessionOp
  <2>3. PICK new : new = Rotated(s, serving.row)
    OBVIOUS
  <2>4. new \in SessionRow /\ new.user = old.user /\ new.secret >= old.secret /\ new.revoked = old.revoked
    <3>1. old.secret \in Nat
      BY DEF SessionRow
    <3>2. CASE new = old
      BY <3>1, <3>2
    <3>3. CASE new = [old EXCEPT !.secret = @ + 1, !.expired = FALSE] /\ old.secret = serving.row.secret
      <4>1. old.secret \in 1..MaxSecrets /\ old.secret < MaxSecrets
        BY <1>5, <3>3 DEF FinishRefresh, SessionRow
      <4>2. old.secret + 1 \in 1..MaxSecrets
        BY <4>1, IdentityAssumption
      <4>3. old.secret + 1 >= old.secret
        BY <4>1, IdentityAssumption
      <4> QED  BY <3>3, <4>2, <4>3 DEF SessionRow
    <3> QED  BY <2>2, <2>3, <3>2, <3>3 DEF Rotated
  <2>5. sessions' = [sessions EXCEPT ![s] = new]
    BY <1>5, <2>1, <2>3 DEF FinishRefresh
  <2> QED  BY <2>2, <2>4, <2>5, SessionThere, OneSessionAges DEF Aged
<1>6. CASE FinishLogout
  <2>1. PICK s \in Login : s = serving.session
    BY <1>3, <1>6 DEF FinishLogout, SessionOp
  <2>2. PICK old \in SessionRow : old = sessions[s]
    BY <1>3, <1>6, <2>1 DEF FinishLogout, SessionOp
  <2>3. PICK revoked \in BOOLEAN : /\ sessions' = [sessions EXCEPT ![s] = [old EXCEPT !.revoked = revoked]]
                                   /\ old.revoked => revoked
    BY <1>6, <2>1, <2>2 DEF FinishLogout, SessionRow, SessionRows
  <2> DEFINE new == [old EXCEPT !.revoked = revoked]
  <2>4. new \in SessionRow /\ new.user = old.user /\ new.secret = old.secret /\ new.revoked = revoked
    BY DEF SessionRow
  <2>5. sessions' = [sessions EXCEPT ![s] = new]
    BY <2>3
  <2> HIDE DEF new
  <2>6. Aged(old, new)
    BY <2>3, <2>4, SameSecretAges
  <2> QED  BY <2>2, <2>4, <2>5, <2>6, OneSessionAges
<1>7. ASSUME NEW s \in Login, NEW t \in Login, RevokeOwnSession(s, t) PROVE SessionsAge
  BY <1>7, RevokedAges DEF RevokeOwnSession, SessionsOf
<1>8. CASE RevokeOne
  BY <1>8, RevokedAges DEF RevokeOne, Unrevoked, SessionsOf
<1>9. CASE RecoverSessions
  <2>1. CASE UNCHANGED sessions
    BY <2>1, NoSessionAges
  <2>2. CASE sessions' # sessions
    BY <1>9, <2>2, RevokedAges DEF RecoverSessions, Unrevoked, SessionsOf
  <2> QED  BY <2>1, <2>2
<1> QED  BY <1>1, <1>2, <1>4, <1>5, <1>6, <1>7, <1>8, <1>9
-----------------------------------------------------------------------------
(* The tables. *)

\* update_user keeps the password.
LEMMA WrittenTyped ==
    ASSUME DirectoryRows, NEW u \in Person, NEW rec \in UserRow
    PROVE  Written(u, rec) \in [Person -> UserRow]
<1>1. users[u].password \in 0..MaxPasswords
  BY DEF DirectoryRows, UserRow
<1>2. [rec EXCEPT !.password = users[u].password] \in UserRow
  BY <1>1 DEF UserRow
<1> QED  BY <1>2 DEF Written, DirectoryRows

LEMMA PasswordTyped ==
    ASSUME DirectoryRows, NEW u \in Person, users[u].password < MaxPasswords
    PROVE  [users EXCEPT ![u].password = @ + 1] \in [Person -> UserRow]
<1>1. users[u].password \in 0..MaxPasswords /\ users[u] \in UserRow
  BY DEF DirectoryRows, UserRow
<1>2. users[u].password + 1 \in 0..MaxPasswords
  BY <1>1, IdentityAssumption
<1>3. PICK rec \in UserRow : rec = users[u]
  BY <1>1
<1>4. [rec EXCEPT !.password = users[u].password + 1] \in UserRow
  BY <1>2 DEF UserRow
<1>5. [users EXCEPT ![u].password = @ + 1]
        = [users EXCEPT ![u] = [rec EXCEPT !.password = users[u].password + 1]]
  BY <1>3
<1> QED  BY <1>4, <1>5 DEF DirectoryRows

LEMMA NewUserTyped ==
    ASSUME NEW source \in Source, NEW password \in {0, 1}
    PROVE  [status |-> "ACTIVE", source |-> source, password |-> password] \in UserRow
<1>1. password \in 0..MaxPasswords
  BY IdentityAssumption
<1> QED  BY <1>1 DEF UserRow, UserStatus

\* A request reads, or ends, or goes on to its next transaction, and no session
\* is written.
LEMMA ServingMoves ==
    ASSUME SessionRows, sessions' = sessions, outdated' = outdated,
           serving' \in {NotServing} \cup LoginServed \cup SessionServed \cup StatusServed \cup RevokeServed,
           serving' \in SessionServed => sessions[serving'.session] # NoSession,
           serving' \in StatusServed \cup RevokeServed => serving'.before \subseteq SessionsOf(serving'.user)
    PROVE  SessionRows'
<1>1. \A u : SessionsOf(u)' = SessionsOf(u)
  BY DEF SessionsOf, Opened
<1>2. serving' \in StatusServed \cup RevokeServed =>
          \A u : serving'.user = u => serving'.before \subseteq SessionsOf(u)'
  BY <1>1
<1> QED  BY <1>2 DEF SessionRows

LEMMA ServingKept ==
    ASSUME SessionRows, UNCHANGED <<sessions, serving, outdated>>
    PROVE  SessionRows'
  BY ServingMoves DEF SessionRows

LEMMA ServingEnds ==
    ASSUME SessionRows, UNCHANGED <<sessions, outdated>>, serving' = NotServing
    PROVE  SessionRows'
<1>1. NotServing \notin SessionServed \cup StatusServed \cup RevokeServed
  BY DEF NotServing, SessionServed, StatusServed, RevokeServed, SessionOp
<1> QED  BY <1>1, ServingMoves

\* The login of a user.
LEMMA LoginBegins ==
    ASSUME IdentityInv, NEW u \in Person, UNCHANGED <<sessions, outdated>>,
           serving' = [op |-> "login", user |-> u, row |-> users[u]]
    PROVE  SessionRows'
<1>1. PICK rec \in UserRow : rec = users[u]
  BY DEF IdentityInv, DirectoryRows
<1>2. serving' \in LoginServed /\ serving'.op = "login"
  BY <1>1 DEF LoginServed
<1>3. serving' \notin SessionServed \cup StatusServed \cup RevokeServed
  BY <1>2 DEF SessionServed, StatusServed, RevokeServed, SessionOp
<1> QED  BY <1>2, <1>3, ServingMoves DEF IdentityInv

LEMMA LoginGoesOn ==
    ASSUME IdentityInv, LoginWrites PROVE DirectoryRows' /\ SessionRows'
<1>1. serving \in LoginServed
  BY ServedByOp DEF LoginWrites, IdentityInv
<1>2. serving.user \in Person /\ serving.row \in UserRow
  BY <1>1 DEF LoginServed
<1>3. users' \in [Person -> UserRow]
  BY <1>2, WrittenTyped DEF LoginWrites, IdentityInv
<1>4. serving' \in LoginServed /\ serving'.op = "issue"
  BY <1>1 DEF LoginWrites, LoginServed
<1>5. serving' \notin SessionServed \cup StatusServed \cup RevokeServed
  BY <1>4 DEF SessionServed, StatusServed, RevokeServed, SessionOp
<1>6. SessionRows'
  BY <1>4, <1>5, ServingMoves DEF LoginWrites, IdentityInv
<1> QED  BY <1>3, <1>6 DEF LoginWrites, SameDirectory, IdentityInv, DirectoryRows

LEMMA SessionRead ==
    ASSUME IdentityInv, NEW s \in Login, NEW op \in SessionOp, ReadSession(s, op)
    PROVE  SessionRows'
<1>1. PICK rec \in SessionRow : rec = sessions[s]
  BY DEF ReadSession, Opened, IdentityInv, SessionRows
<1>2. /\ serving' \in SessionServed /\ serving'.op \in SessionOp /\ serving'.session = s
  BY <1>1 DEF ReadSession, SessionServed
<1>3. serving' \notin StatusServed \cup RevokeServed
  BY <1>2 DEF StatusServed, RevokeServed, SessionOp
<1>4. sessions[s] # NoSession
  BY DEF ReadSession, Opened
<1> QED  BY <1>2, <1>3, <1>4, ServingMoves DEF ReadSession, IdentityInv

\* The revocation of a user's sessions begins, with the sessions of before.
LEMMA RevokeBegins ==
    ASSUME IdentityInv, NEW u \in Person, NEW earlier \in SUBSET Login, earlier \subseteq SessionsOf(u),
           UNCHANGED <<sessions, outdated>>,
           serving' = [op |-> "revoke", user |-> u, before |-> earlier]
    PROVE  SessionRows'
<1>1. serving' \in RevokeServed /\ serving'.op = "revoke" /\ serving'.user = u /\ serving'.before = earlier
  BY DEF RevokeServed
<1>2. serving' \notin SessionServed
  BY <1>1 DEF SessionServed, SessionOp
<1> QED  BY <1>1, <1>2, ServingMoves DEF IdentityInv

LEMMA StatusRead ==
    ASSUME IdentityInv, NEW a \in Person, NEW u \in Person, NEW standing \in {"ACTIVE", "DISABLED"},
           ReadForStatus(a, u, standing)
    PROVE  SessionRows'
<1>1. PICK rec \in UserRow : rec = [users[u] EXCEPT !.status = standing]
  BY DEF IdentityInv, DirectoryRows, UserRow, UserStatus
<1>2. PICK earlier \in SUBSET Login : earlier = SessionsOf(u)
  BY DEF SessionsOf, Opened
<1>3. /\ serving' \in StatusServed /\ serving'.op = "status" /\ serving'.user = u
      /\ serving'.before = earlier
  BY <1>1, <1>2 DEF ReadForStatus, StatusServed
<1>4. serving' \notin SessionServed
  BY <1>3 DEF SessionServed, SessionOp
<1> QED  BY <1>2, <1>3, <1>4, ServingMoves DEF ReadForStatus, IdentityInv

LEMMA StatusWritten ==
    ASSUME IdentityInv, WriteStatus PROVE DirectoryRows' /\ SessionRows'
<1>1. serving \in StatusServed
  BY ServedByOp DEF WriteStatus, IdentityInv
<1>2. /\ serving.user \in Person /\ serving.row \in UserRow /\ serving.before \in SUBSET Login
      /\ serving.before \subseteq SessionsOf(serving.user)
  BY <1>1 DEF StatusServed, IdentityInv, SessionRows
<1>3. users' \in [Person -> UserRow]
  BY <1>2, WrittenTyped DEF WriteStatus, IdentityInv
<1>4. SessionRows'
  <2>1. CASE serving' = NotServing
    BY <2>1, ServingEnds DEF WriteStatus, IdentityInv
  <2>2. CASE serving' = [op |-> "revoke", user |-> serving.user, before |-> serving.before]
    BY <1>2, <2>2, RevokeBegins DEF WriteStatus
  <2> QED  BY <2>1, <2>2 DEF WriteStatus
<1> QED  BY <1>3, <1>4 DEF WriteStatus, SameDirectory, IdentityInv, DirectoryRows

LEMMA PasswordReset ==
    ASSUME IdentityInv, NEW a \in Person, NEW u \in Person, ResetPassword(a, u)
    PROVE  DirectoryRows' /\ SessionRows'
<1>1. users' \in [Person -> UserRow]
  BY PasswordTyped DEF ResetPassword, IdentityInv
<1>2. PICK earlier \in SUBSET Login : earlier = SessionsOf(u)
  BY DEF SessionsOf, Opened
<1>3. SessionRows'
  BY <1>2, RevokeBegins DEF ResetPassword
<1> QED  BY <1>1, <1>3 DEF ResetPassword, SameDirectory, IdentityInv, DirectoryRows

\* Once every session of the user is revoked, those of before are outdated.
LEMMA AllRevoked ==
    ASSUME IdentityInv, RevokedAll PROVE SessionRows'
<1>1. serving \in RevokeServed
  BY ServedByOp DEF RevokedAll, IdentityInv
<1>2. serving.before \subseteq SessionsOf(serving.user) /\ serving.before \subseteq Login
  BY <1>1 DEF RevokeServed, IdentityInv, SessionRows
<1>3. \A s \in serving.before : sessions[s] # NoSession /\ sessions[s].revoked
  BY <1>2 DEF RevokedAll, Unrevoked, SessionsOf, Opened
<1>4. NotServing \notin SessionServed \cup StatusServed \cup RevokeServed
  BY DEF NotServing, SessionServed, StatusServed, RevokeServed, SessionOp
<1> QED  BY <1>2, <1>3, <1>4 DEF RevokedAll, IdentityInv, SessionRows
\* The tables a step leaves alone.
LEMMA CredentialsSame ==
    ASSUME CredentialRows, UNCHANGED <<accounts, credentials>> PROVE CredentialRows'
  BY DEF CredentialRows

LEMMA PendingSame ==
    ASSUME PendingOnce, UNCHANGED <<pendingLogins, logins>> PROVE PendingOnce'
  BY DEF PendingOnce

\* A credential stays its account's and its revocation stays.
CredentialsAge ==
    \A k \in Credential : credentials[k] # NoCredential =>
        /\ credentials'[k] # NoCredential /\ credentials'[k].account = credentials[k].account
        /\ credentials[k].revoked => credentials'[k].revoked

LEMMA OneCredentialChanges ==
    ASSUME IdentityInv, NEW k \in Credential, NEW new \in CredentialRow, UNCHANGED accounts,
           credentials' = [credentials EXCEPT ![k] = new],
           \/ credentials[k] = NoCredential /\ accounts[new.account] = "ACTIVE"
           \/ /\ credentials[k] # NoCredential /\ new.account = credentials[k].account
              /\ credentials[k].revoked => new.revoked
    PROVE  CredentialRows' /\ CredentialsAge
<1>1. credentials' \in [Credential -> CredentialRow \cup {NoCredential}]
      /\ credentials'[k] = new /\ \A j \in Credential : j # k => credentials'[j] = credentials[j]
  BY DEF IdentityInv, CredentialRows
<1>2. new # NoCredential
  BY CredentialThere
<1>3. CredentialsAge
  BY <1>1, <1>2 DEF CredentialsAge
<1>4. accounts[new.account] = "REVOKED" => new.revoked
  BY DEF IdentityInv, CredentialRows
<1>5. CredentialRows'
  BY <1>1, <1>4 DEF IdentityInv, CredentialRows
<1> QED  BY <1>3, <1>5

LEMMA CredentialsStep ==
    ASSUME IdentityInv, NEW a,
           \/ \E c \in Account : CreateAccount(a, c)
           \/ \E c \in Account, standing \in {"ACTIVE", "DISABLED", "REVOKED"} : SetAccountStatus(a, c, standing)
           \/ \E c \in Account, k \in Credential : IssueCredential(a, c, k)
           \/ \E k \in Credential : RevokeCredential(a, k) \/ ExpireCredential(k)
    PROVE  CredentialRows' /\ CredentialsAge /\ accounts' \in [Account -> AccountStatus]
<1>a. accounts \in [Account -> AccountStatus]
  BY DEF IdentityInv, DirectoryRows
<1>c. /\ credentials \in [Credential -> CredentialRow \cup {NoCredential}]
      /\ \A k \in Credential :
            credentials[k] # NoCredential => credentials[k] \in CredentialRow /\ credentials[k].account \in Account
  BY DEF IdentityInv, CredentialRows, CredentialRow
<1>1. ASSUME NEW c \in Account, CreateAccount(a, c)
      PROVE  CredentialRows' /\ CredentialsAge /\ accounts' \in [Account -> AccountStatus]
  <2>1. accounts' \in [Account -> AccountStatus] /\ accounts'[c] = "ACTIVE"
        /\ \A d \in Account : d # c => accounts'[d] = accounts[d]
    BY <1>1, <1>a DEF CreateAccount, AccountStatus
  <2>2. credentials' = credentials
    BY <1>1 DEF CreateAccount
  <2>3. CredentialRows'
    BY <1>c, <2>1, <2>2 DEF CredentialRows, IdentityInv
  <2> QED  BY <2>1, <2>2, <2>3 DEF CredentialsAge
<1>2. ASSUME NEW c \in Account, NEW standing \in {"ACTIVE", "DISABLED", "REVOKED"}, SetAccountStatus(a, c, standing)
      PROVE  CredentialRows' /\ CredentialsAge /\ accounts' \in [Account -> AccountStatus]
  <2>1. /\ accounts' \in [Account -> AccountStatus] /\ accounts'[c] = standing /\ accounts[c] # "REVOKED"
        /\ \A d \in Account : d # c => accounts'[d] = accounts[d]
    BY <1>2, <1>a DEF SetAccountStatus, AccountStatus, StatusAllowed
  <2>2. ASSUME NEW k \in Credential
        PROVE  /\ credentials[k] = NoCredential => credentials'[k] = NoCredential
               /\ credentials[k] # NoCredential =>
                     /\ credentials'[k] \in CredentialRow /\ credentials'[k].account = credentials[k].account
                     /\ credentials[k].revoked => credentials'[k].revoked
                     /\ standing = "REVOKED" /\ credentials[k].account = c => credentials'[k].revoked
    <3>1. credentials' = CredentialsAfter(c, standing)
      BY <1>2 DEF SetAccountStatus
    <3>2. CASE standing = "REVOKED" /\ credentials[k] # NoCredential /\ credentials[k].account = c
      <4>1. PICK rec \in CredentialRow : rec = credentials[k]
        BY <1>c, <3>2
      <4>2. credentials'[k] = [rec EXCEPT !.revoked = TRUE]
        BY <3>1, <3>2, <4>1 DEF CredentialsAfter
      <4>3. /\ [rec EXCEPT !.revoked = TRUE] \in CredentialRow
            /\ [rec EXCEPT !.revoked = TRUE].account = rec.account
            /\ [rec EXCEPT !.revoked = TRUE].revoked
        BY DEF CredentialRow
      <4> QED  BY <3>2, <4>1, <4>2, <4>3
    <3>3. CASE ~(standing = "REVOKED" /\ credentials[k] # NoCredential /\ credentials[k].account = c)
      <4>1. credentials'[k] = credentials[k]
        BY <3>1, <3>3 DEF CredentialsAfter
      <4> QED  BY <1>c, <3>3, <4>1
    <3> QED  BY <3>2, <3>3
  <2>3. credentials' \in [Credential -> CredentialRow \cup {NoCredential}]
    <3>1. \A k \in Credential : credentials'[k] \in CredentialRow \cup {NoCredential}
      BY <2>2
    <3>2. credentials' = [k \in Credential |-> credentials'[k]]
      BY <1>2 DEF SetAccountStatus, CredentialsAfter
    <3> QED  BY <3>1, <3>2
  <2>4. CredentialsAge
    BY <2>2, CredentialThere DEF CredentialsAge
  <2>5. CredentialRows'
    BY <1>c, <2>1, <2>2, <2>3 DEF CredentialRows, IdentityInv
  <2> QED  BY <2>1, <2>4, <2>5
<1>3. ASSUME NEW c \in Account, NEW k \in Credential, IssueCredential(a, c, k)
      PROVE  CredentialRows' /\ CredentialsAge /\ accounts' \in [Account -> AccountStatus]
  <2>1. PICK new \in CredentialRow : new = [account |-> c, expired |-> FALSE, revoked |-> FALSE]
    BY DEF CredentialRow
  <2> QED  BY <1>3, <1>a, <2>1, OneCredentialChanges DEF IssueCredential
<1>4. ASSUME NEW k \in Credential, RevokeCredential(a, k) \/ ExpireCredential(k)
      PROVE  CredentialRows' /\ CredentialsAge /\ accounts' \in [Account -> AccountStatus]
  <2>1. PICK rec \in CredentialRow : rec = credentials[k]
    BY <1>4, <1>c DEF RevokeCredential, ExpireCredential
  <2>2. /\ [rec EXCEPT !.revoked = TRUE] \in CredentialRow /\ [rec EXCEPT !.expired = TRUE] \in CredentialRow
        /\ [rec EXCEPT !.revoked = TRUE].account = rec.account
        /\ [rec EXCEPT !.expired = TRUE].account = rec.account
        /\ [rec EXCEPT !.revoked = TRUE].revoked
        /\ [rec EXCEPT !.expired = TRUE].revoked = rec.revoked
    BY DEF CredentialRow
  <2>3. PICK new \in CredentialRow : /\ new = [rec EXCEPT !.revoked = TRUE] \/ new = [rec EXCEPT !.expired = TRUE]
                                     /\ credentials' = [credentials EXCEPT ![k] = new]
    BY <1>4, <2>1, <2>2 DEF RevokeCredential, ExpireCredential
  <2>4. new.account = rec.account /\ (rec.revoked => new.revoked)
    BY <2>2, <2>3
  <2> QED
    BY <1>4, <1>a, <2>1, <2>3, <2>4, CredentialThere, OneCredentialChanges
    DEF RevokeCredential, ExpireCredential
<1> QED  BY <1>1, <1>2, <1>3, <1>4

-----------------------------------------------------------------------------
(* The pending OIDC logins. *)

\* One transaction leaves.
LEMMA TakenOut ==
    ASSUME PendingOnce, NEW o \in LoginState, NEW m \in 1..Len(pendingLogins), pendingLogins[m] = o
    PROVE  /\ Without(o) \in Seq(LoginState) /\ Len(Without(o)) <= PendingLimit
           /\ \A i \in 1..Len(Without(o)) : /\ Without(o)[i] # o
                                             /\ \E j \in 1..Len(pendingLogins) : Without(o)[i] = pendingLogins[j]
           /\ \A i, j \in 1..Len(Without(o)) : Without(o)[i] = Without(o)[j] => i = j
<1>1. PICK place \in 1..Len(pendingLogins) :
          /\ pendingLogins[place] = o
          /\ Without(o) = [i \in 1..Len(pendingLogins) - 1 |-> pendingLogins[IF i < place THEN i ELSE i + 1]]
  <2>1. DOMAIN pendingLogins = 1..Len(pendingLogins)
    BY DEF PendingOnce
  <2> QED  BY <2>1 DEF Without
<1>2. PICK n \in Nat : n = Len(pendingLogins) /\ n >= 1 /\ place \in 1..n
  BY <1>1 DEF PendingOnce
<1>3. \A i \in 1..n - 1 : /\ (IF i < place THEN i ELSE i + 1) \in 1..n
                          /\ (IF i < place THEN i ELSE i + 1) # place
  BY <1>2
<1>4. \A i \in 1..n : pendingLogins[i] \in LoginState
  BY <1>2, ElementOfSeq DEF PendingOnce
<1>5. PICK new : new = Without(o)
  OBVIOUS
<1>6. /\ new \in Seq(LoginState) /\ Len(new) = n - 1
      /\ \A i \in 1..n - 1 : new[i] = pendingLogins[IF i < place THEN i ELSE i + 1]
  <2>1. PICK k \in Nat : k = n - 1
    BY <1>2
  <2>2. new = [i \in 1..k |-> pendingLogins[IF i < place THEN i ELSE i + 1]]
    BY <1>1, <1>2, <1>5, <2>1
  <2>3. \A i \in 1..k : pendingLogins[IF i < place THEN i ELSE i + 1] \in LoginState
    BY <1>3, <1>4, <2>1
  <2>4. new \in Seq(LoginState) /\ Len(new) = k
    BY <2>2, <2>3
  <2> QED  BY <2>1, <2>2, <2>4
<1>7. \A i \in 1..n - 1 : new[i] # o /\ \E j \in 1..n : new[i] = pendingLogins[j]
  BY <1>1, <1>2, <1>3, <1>6 DEF PendingOnce
<1>8. ASSUME NEW i \in 1..n - 1, NEW j \in 1..n - 1, new[i] = new[j] PROVE i = j
  <2>0. \A a, b \in 1..n : pendingLogins[a] = pendingLogins[b] => a = b
    BY <1>2 DEF PendingOnce
  <2>1. (IF i < place THEN i ELSE i + 1) = (IF j < place THEN j ELSE j + 1)
    <3>1. PICK a \in 1..n : a = IF i < place THEN i ELSE i + 1
      BY <1>3
    <3>2. PICK b \in 1..n : b = IF j < place THEN j ELSE j + 1
      BY <1>3
    <3> QED  BY <1>6, <1>8, <2>0, <3>1, <3>2
  <2> QED  BY <1>2, <2>1
<1>9. n - 1 <= PendingLimit
  BY <1>2, IdentityAssumption DEF PendingOnce
<1> QED  BY <1>2, <1>5, <1>6, <1>7, <1>8, <1>9

LEMMA OneMorePending ==
    ASSUME IdentityInv, NEW o \in LoginState, logins' = logins, logins[o] = 0,
           NEW kept \in Seq(LoginState), NEW m \in Nat, m = Len(kept), m < PendingLimit,
           pendingLogins' = Append(kept, o),
           \A i \in 1..m : kept[i] # o /\ logins[kept[i]] = 0,
           \A i, j \in 1..m : kept[i] = kept[j] => i = j
    PROVE  PendingOnce'
<1>2. /\ pendingLogins' \in Seq(LoginState) /\ Len(pendingLogins') = m + 1
      /\ \A i \in 1..m : pendingLogins'[i] = kept[i]
      /\ pendingLogins'[m + 1] = o
  BY AppendProperties
<1>3. \A i \in 1..m + 1 : i \in 1..m \/ i = m + 1
  OBVIOUS
<1>5. \A i, j \in 1..m + 1 : pendingLogins'[i] = pendingLogins'[j] => i = j
  BY <1>2, <1>3
<1>6. \A i \in 1..m + 1 : logins[pendingLogins'[i]] = 0
  BY <1>2, <1>3
<1>7. m + 1 <= PendingLimit
  BY IdentityAssumption
<1> QED  BY <1>2, <1>5, <1>6, <1>7 DEF PendingOnce, IdentityInv

\* At the limit the oldest transaction goes first.
LEMMA StartKeeps ==
    ASSUME IdentityInv, NEW o \in LoginState, StartOidc(o) PROVE PendingOnce'
<1>1. PICK n \in Nat : n = Len(pendingLogins) /\ n <= PendingLimit
  BY DEF IdentityInv, PendingOnce
<1>2. \A i \in 1..n : pendingLogins[i] # o /\ logins[pendingLogins[i]] = 0
  BY <1>1 DEF StartOidc, IdentityInv, PendingOnce
<1>3. logins' = logins /\ logins[o] = 0
  BY DEF StartOidc
<1>4. CASE n >= PendingLimit
  <2>1. pendingLogins # <<>> /\ n >= 1
    BY <1>1, <1>4, IdentityAssumption DEF IdentityInv, PendingOnce
  <2>2. PICK kept : kept = Tail(pendingLogins)
    OBVIOUS
  <2>3. PICK m \in Nat : m = n - 1
    BY <2>1
  <2>4. /\ kept \in Seq(LoginState) /\ Len(kept) = m
        /\ \A i \in 1..m : kept[i] = pendingLogins[i + 1]
    BY <1>1, <2>1, <2>2, <2>3, HeadTailProperties DEF IdentityInv, PendingOnce
  <2>5. \A i \in 1..m : i + 1 \in 1..n
    BY <2>3
  <2>6. m < PendingLimit
    BY <1>1, <2>3, IdentityAssumption
  <2>7. \A i, j \in 1..m : kept[i] = kept[j] => i = j
    BY <1>1, <2>4, <2>5 DEF IdentityInv, PendingOnce
  <2>8. ASSUME NEW i \in 1..m PROVE kept[i] # o /\ logins[kept[i]] = 0
    <3>1. kept[i] = pendingLogins[i + 1]
      BY <2>4
    <3>2. pendingLogins[i + 1] # o /\ logins[pendingLogins[i + 1]] = 0
      BY <1>2, <2>5
    <3> QED  BY <3>1, <3>2
  <2>9. pendingLogins' = Append(kept, o)
    BY <1>1, <1>4, <2>2 DEF StartOidc
  <2> QED  BY <1>3, <2>4, <2>6, <2>7, <2>8, <2>9, OneMorePending
<1>5. CASE ~(n >= PendingLimit)
  <2>1. n < PendingLimit
    BY <1>1, <1>5, IdentityAssumption
  <2>2. pendingLogins' = Append(pendingLogins, o)
    BY <1>1, <1>5 DEF StartOidc
  <2>3. /\ pendingLogins \in Seq(LoginState)
        /\ \A i, j \in 1..n : pendingLogins[i] = pendingLogins[j] => i = j
    BY <1>1 DEF IdentityInv, PendingOnce
  <2> QED  BY <1>1, <1>2, <1>3, <2>1, <2>2, <2>3, OneMorePending
<1> QED  BY <1>4, <1>5

LEMMA ConsumedKeeps ==
    ASSUME IdentityInv, NEW o \in LoginState, CompleteOidc(o) \/ ExpireState(o) PROVE PendingOnce'
<1>1. PICK m \in 1..Len(pendingLogins) : pendingLogins[m] = o
  BY DEF CompleteOidc, ExpireState, IdentityInv, PendingOnce
<1>2. pendingLogins' = Without(o)
  BY DEF CompleteOidc, ExpireState, ConsumeState
<1>3. logins[o] = 0
  BY <1>1 DEF IdentityInv, PendingOnce
<1>4. /\ logins' \in [LoginState -> {0, 1}]
      /\ \A p \in LoginState : p # o => logins'[p] = logins[p]
  <2>1. logins' = logins \/ logins' = [logins EXCEPT ![o] = 1]
    BY <1>3 DEF CompleteOidc, ExpireState, IdentityInv, PendingOnce
  <2> QED  BY <2>1 DEF IdentityInv, PendingOnce
<1>5. \A j \in 1..Len(pendingLogins) : pendingLogins[j] \in LoginState
  BY ElementOfSeq DEF IdentityInv, PendingOnce
<1>6. ASSUME NEW i \in 1..Len(Without(o)) PROVE logins'[Without(o)[i]] = 0
  <2>1. Without(o)[i] # o
    BY <1>1, TakenOut DEF IdentityInv
  <2>2. PICK j \in 1..Len(pendingLogins) : Without(o)[i] = pendingLogins[j]
    BY <1>1, TakenOut DEF IdentityInv
  <2>3. logins[pendingLogins[j]] = 0
    BY DEF IdentityInv, PendingOnce
  <2> QED  BY <1>4, <1>5, <2>1, <2>2, <2>3
<1>7. /\ Without(o) \in Seq(LoginState) /\ Len(Without(o)) <= PendingLimit
      /\ \A i, j \in 1..Len(Without(o)) : Without(o)[i] = Without(o)[j] => i = j
  BY <1>1, TakenOut DEF IdentityInv
<1> QED  BY <1>2, <1>4, <1>6, <1>7 DEF PendingOnce

-----------------------------------------------------------------------------
(* Every step. *)

\* What every step keeps, and what it may do to a session or a credential.
IdentityKept == IdentityInv' /\ SessionsAge /\ CredentialsAge

LEMMA NoCredentialAges ==
    ASSUME credentials' = credentials PROVE CredentialsAge
  BY DEF CredentialsAge

LEMMA SessionsWritten ==
    ASSUME IdentityInv,
           \/ \E s \in Login : IssueSession(s) \/ ExpireAccess(s) \/ EndSession(s)
           \/ FinishTouch \/ FinishRefresh \/ FinishLogout
           \/ \E s, t \in Login : RevokeOwnSession(s, t)
           \/ RevokeOne \/ RecoverSessions
    PROVE  IdentityKept
<1> USE DEF IssueSession, ExpireAccess, EndSession, FinishTouch, FinishRefresh, FinishLogout,
            RevokeOwnSession, RevokeOne, RecoverSessions
<1>1. SessionsAge
  BY SessionsStep
<1>2. SameDirectory /\ UNCHANGED <<users, membership, failures, outdated>>
  OBVIOUS
<1>3. serving' = serving \/ serving' = NotServing
  OBVIOUS
<1>4. recovery' = recovery \/ recovery' = NotServing
  OBVIOUS
<1>5. SessionRows'
  BY <1>1, <1>2, <1>3, SessionRowsKept DEF IdentityInv
<1>6. DirectoryRows'
  BY <1>2, <1>4 DEF DirectoryRows, IdentityInv, SameDirectory
<1>7. CredentialRows' /\ PendingOnce' /\ CredentialsAge
  BY <1>2, CredentialsSame, PendingSame, NoCredentialAges DEF IdentityInv, SameDirectory
<1> QED  BY <1>1, <1>5, <1>6, <1>7 DEF IdentityKept, IdentityInv

LEMMA DirectoryWritten ==
    ASSUME IdentityInv, SameDirectory, UNCHANGED sessions, DirectoryRows', SessionRows'
    PROVE  IdentityKept
  BY NoSessionAges, CredentialsSame, PendingSame, NoCredentialAges
  DEF IdentityKept, IdentityInv, SameDirectory

LEMMA LoginsKept ==
    ASSUME IdentityInv, NEW u \in Person,
           LoginFails(u) \/ LoginReads(u) \/ WindowPasses(u) \/ LoginWrites
    PROVE  IdentityKept
<1> USE DEF IdentityInv
<1>0. failures[u] \in 0..RateLimit /\ 0 \in 0..RateLimit
  BY IdentityAssumption DEF DirectoryRows
<1>1. CASE LoginFails(u)
  <2>1. failures[u] + 1 \in 0..RateLimit
    BY <1>0, <1>1, IdentityAssumption DEF LoginFails, RateLimited
  <2>2. DirectoryRows'
    BY <1>1, <2>1 DEF LoginFails, DirectoryRows, SameDirectory
  <2>3. SessionRows'
    BY <1>1, ServingKept DEF LoginFails
  <2> QED  BY <1>1, <2>2, <2>3, DirectoryWritten DEF LoginFails
<1>2. CASE LoginReads(u)
  <2>1. DirectoryRows'
    BY <1>0, <1>2 DEF LoginReads, DirectoryRows, SameDirectory
  <2>2. SessionRows'
    BY <1>2, LoginBegins DEF LoginReads
  <2> QED  BY <1>2, <2>1, <2>2, DirectoryWritten DEF LoginReads
<1>3. CASE WindowPasses(u)
  <2>1. DirectoryRows'
    BY <1>0, <1>3 DEF WindowPasses, DirectoryRows, SameDirectory
  <2>2. SessionRows'
    BY <1>3, ServingKept DEF WindowPasses
  <2> QED  BY <1>3, <2>1, <2>2, DirectoryWritten DEF WindowPasses
<1>4. CASE LoginWrites
  BY <1>4, LoginGoesOn, DirectoryWritten DEF LoginWrites
<1> QED  BY <1>1, <1>2, <1>3, <1>4

LEMMA AdministrationKept ==
    ASSUME IdentityInv, NEW a \in Person, NEW u \in Person,
           \/ \E role \in {"OWNER", "ADMIN", "MEMBER"}, source \in Source : CreateUser(a, u, role, source)
           \/ \E standing \in {"ACTIVE", "DISABLED"} : ReadForStatus(a, u, standing)
           \/ ResetPassword(a, u) \/ WriteStatus \/ RevokedAll
    PROVE  IdentityKept
<1> USE DEF IdentityInv
<1>1. ASSUME NEW role \in {"OWNER", "ADMIN", "MEMBER"}, NEW source \in Source,
             CreateUser(a, u, role, source)
      PROVE  IdentityKept
  <2>1. PICK new \in UserRow :
            new = [status |-> "ACTIVE", source |-> source, password |-> IF source = "LOCAL" THEN 1 ELSE 0]
    BY NewUserTyped
  <2>2. users' = [users EXCEPT ![u] = new] /\ membership' = [membership EXCEPT ![u] = role]
    BY <1>1, <2>1 DEF CreateUser
  <2>3. DirectoryRows'
    BY <1>1, <2>2 DEF CreateUser, DirectoryRows, SameDirectory, MemberRole
  <2>4. SessionRows'
    BY <1>1, ServingKept DEF CreateUser
  <2> QED  BY <1>1, <2>3, <2>4, DirectoryWritten DEF CreateUser
<1>2. ASSUME NEW standing \in {"ACTIVE", "DISABLED"}, ReadForStatus(a, u, standing)
      PROVE  IdentityKept
  <2>1. DirectoryRows'
    BY <1>2 DEF ReadForStatus, DirectoryRows, SameDirectory
  <2>2. SessionRows'
    BY <1>2, StatusRead
  <2> QED  BY <1>2, <2>1, <2>2, DirectoryWritten DEF ReadForStatus
<1>3. CASE ResetPassword(a, u)
  BY <1>3, PasswordReset, DirectoryWritten DEF ResetPassword
<1>4. CASE WriteStatus
  BY <1>4, StatusWritten, DirectoryWritten DEF WriteStatus
<1>5. CASE RevokedAll
  <2>1. DirectoryRows'
    BY <1>5 DEF RevokedAll, DirectoryRows, SameDirectory
  <2>2. SessionRows'
    BY <1>5, AllRevoked
  <2> QED  BY <1>5, <2>1, <2>2, DirectoryWritten DEF RevokedAll
<1> QED  BY <1>1, <1>2, <1>3, <1>4, <1>5

LEMMA RecoveryKept ==
    ASSUME IdentityInv,
           \/ \E u \in Person : CreateOwner(u) \/ Bootstrap(u) \/ RecoverReads(u)
           \/ RecoverUser \/ RecoverPassword \/ RecoverMembership \/ RecoveryStops
    PROVE  IdentityKept
<1> USE DEF IdentityInv
<1>1. SameDirectory /\ UNCHANGED <<sessions, failures, serving, outdated>>
  BY DEF CreateOwner, Bootstrap, RecoverReads, RecoverUser, RecoverPassword, RecoverMembership, RecoveryStops
<1>2. SessionRows'
  BY <1>1, ServingKept
<1>d. ASSUME users' \in [Person -> UserRow], membership' \in [Person -> MemberRole],
             recovery' \in {NotServing} \cup Recovering
      PROVE  DirectoryRows'
  BY <1>1, <1>d DEF DirectoryRows, SameDirectory
<1>m. membership \in [Person -> MemberRole] /\ users \in [Person -> UserRow] /\ "OWNER" \in MemberRole
  BY DEF DirectoryRows, MemberRole
<1>3. ASSUME recovery.op \in RecoveryOp PROVE recovery \in Recovering
  BY <1>3 DEF DirectoryRows, NotServing, RecoveryOp
<1>4. \A op \in RecoveryOp, u \in Person : [op |-> op, user |-> u] \in Recovering
  BY DEF Recovering
<1>5. ASSUME NEW op \in RecoveryOp, recovery \in Recovering, recovery' = [recovery EXCEPT !.op = op]
      PROVE  recovery' \in Recovering
  BY <1>5 DEF Recovering
<1>6. ASSUME NEW u \in Person, CreateOwner(u) \/ Bootstrap(u) PROVE DirectoryRows'
  <2>1. PICK new \in UserRow : new = [status |-> "ACTIVE", source |-> "LOCAL", password |-> 1]
    BY NewUserTyped DEF Source
  <2>2. users' = [users EXCEPT ![u] = new] /\ membership' = [membership EXCEPT ![u] = "OWNER"]
        /\ recovery' = recovery
    BY <1>6, <2>1 DEF CreateOwner, Bootstrap
  <2>3. users' \in [Person -> UserRow] /\ membership' \in [Person -> MemberRole]
    BY <1>m, <2>2
  <2> QED  BY <1>1, <2>2, <2>3 DEF DirectoryRows, SameDirectory
<1>7. ASSUME NEW u \in Person, RecoverReads(u) PROVE DirectoryRows'
  <2>1. recovery' \in Recovering
    BY <1>4, <1>7 DEF RecoveryOp, RecoverReads
  <2>2. users' = users /\ membership' = membership
    BY <1>7 DEF RecoverReads
  <2> QED  BY <1>d, <1>m, <2>1, <2>2
<1>8. ASSUME RecoverUser PROVE DirectoryRows'
  <2>1. recovery \in Recovering /\ recovery.user \in Person
    BY <1>3, <1>8 DEF RecoveryOp, Recovering, RecoverUser
  <2>2. PICK new \in UserRow : new = [status |-> "ACTIVE", source |-> "LOCAL", password |-> 0]
    BY NewUserTyped DEF Source
  <2>3. users' = Written(recovery.user, new)
    BY <1>8, <2>2 DEF RecoverUser
  <2>4. users' \in [Person -> UserRow]
    BY <2>1, <2>3, WrittenTyped
  <2>5. recovery' \in Recovering
    BY <1>5, <1>8, <2>1 DEF RecoveryOp, RecoverUser
  <2>6. membership' = membership
    BY <1>8 DEF RecoverUser
  <2> QED  BY <1>d, <1>m, <2>4, <2>5, <2>6
<1>9. ASSUME RecoverPassword PROVE DirectoryRows'
  <2>1. recovery \in Recovering /\ recovery.user \in Person
    BY <1>3, <1>9 DEF RecoveryOp, Recovering, RecoverPassword
  <2>2. users' \in [Person -> UserRow]
    BY <1>9, <2>1, PasswordTyped DEF RecoverPassword
  <2>3. recovery' \in Recovering
    BY <1>5, <1>9, <2>1 DEF RecoveryOp, RecoverPassword
  <2>4. membership' = membership
    BY <1>9 DEF RecoverPassword
  <2> QED  BY <1>d, <1>m, <2>2, <2>3, <2>4
<1>10. ASSUME RecoverMembership PROVE DirectoryRows'
  <2>1. recovery \in Recovering /\ recovery.user \in Person
    BY <1>3, <1>10 DEF RecoveryOp, Recovering, RecoverMembership
  <2>2. recovery' \in Recovering
    BY <1>5, <1>10, <2>1 DEF RecoveryOp, RecoverMembership
  <2>3. membership' \in [Person -> MemberRole] /\ users' = users
    BY <1>m, <1>10 DEF RecoverMembership
  <2> QED  BY <1>d, <1>m, <2>2, <2>3
<1>11. ASSUME RecoveryStops PROVE DirectoryRows'
  <2>1. users' = users /\ membership' = membership /\ recovery' = NotServing
    BY <1>11 DEF RecoveryStops
  <2> QED  BY <1>d, <1>m, <2>1
<1>12. DirectoryRows'
  BY <1>6, <1>7, <1>8, <1>9, <1>10, <1>11
<1> QED  BY <1>1, <1>2, <1>12, DirectoryWritten

LEMMA OidcKept ==
    ASSUME IdentityInv,
           \/ \E o \in LoginState : StartOidc(o) \/ CompleteOidc(o) \/ ExchangeFails(o) \/ ExpireState(o)
           \/ \E o \in LoginState, u \in Person : ExchangeDone(o, u)
           \/ ServerStops
    PROVE  IdentityKept
<1> USE DEF IdentityInv
<1>1. UNCHANGED <<users, membership, sessions, failures, accounts, credentials, recovery, outdated>>
  BY DEF StartOidc, CompleteOidc, ExchangeFails, ExpireState, ExchangeDone, ServerStops
<1>2. SessionsAge /\ CredentialsAge /\ CredentialRows'
  BY <1>1, NoSessionAges, NoCredentialAges, CredentialsSame
<1>3. exchanges' \subseteq LoginState
  BY DEF StartOidc, CompleteOidc, ExchangeFails, ExpireState, ExchangeDone, ServerStops, DirectoryRows
<1>4. DirectoryRows'
  BY <1>1, <1>3 DEF DirectoryRows
<1>5. SessionRows'
  <2>1. CASE serving' = serving
    BY <1>1, <2>1, ServingKept
  <2>2. CASE serving' = NotServing
    BY <1>1, <2>2, ServingEnds
  <2>3. ASSUME NEW o \in LoginState, NEW u \in Person, ExchangeDone(o, u) PROVE SessionRows'
    BY <1>1, <2>3, LoginBegins DEF ExchangeDone
  <2>4. \/ serving' = serving \/ serving' = NotServing
        \/ \E o \in LoginState, u \in Person : ExchangeDone(o, u)
    BY DEF StartOidc, CompleteOidc, ExchangeFails, ExpireState, ServerStops
  <2> QED  BY <2>1, <2>2, <2>3, <2>4
<1>6. PendingOnce'
  <2>1. ASSUME UNCHANGED <<pendingLogins, logins>> PROVE PendingOnce'
    BY <2>1, PendingSame
  <2>2. ASSUME ServerStops PROVE PendingOnce'
    <3>1. pendingLogins' = <<>> /\ logins' = logins
      BY <2>2 DEF ServerStops
    <3> QED  BY <3>1, IdentityAssumption DEF PendingOnce
  <2>3. ASSUME NEW o \in LoginState, StartOidc(o) PROVE PendingOnce'
    BY <2>3, StartKeeps
  <2>4. ASSUME NEW o \in LoginState, CompleteOidc(o) \/ ExpireState(o) PROVE PendingOnce'
    BY <2>4, ConsumedKeeps
  <2>5. ASSUME NEW o \in LoginState, ExchangeFails(o) PROVE PendingOnce'
    BY <2>1, <2>5 DEF ExchangeFails
  <2>6. ASSUME NEW o \in LoginState, NEW u \in Person, ExchangeDone(o, u) PROVE PendingOnce'
    BY <2>1, <2>6 DEF ExchangeDone
  <2> QED  BY <2>2, <2>3, <2>4, <2>5, <2>6
<1> QED  BY <1>2, <1>4, <1>5, <1>6 DEF IdentityKept

LEMMA AccountsKept ==
    ASSUME IdentityInv, NEW a,
           \/ \E c \in Account : CreateAccount(a, c)
           \/ \E c \in Account, standing \in {"ACTIVE", "DISABLED", "REVOKED"} : SetAccountStatus(a, c, standing)
           \/ \E c \in Account, k \in Credential : IssueCredential(a, c, k)
           \/ \E k \in Credential : RevokeCredential(a, k) \/ ExpireCredential(k)
    PROVE  IdentityKept
<1> USE DEF IdentityInv
<1>1. CredentialRows' /\ CredentialsAge /\ accounts' \in [Account -> AccountStatus]
  BY CredentialsStep
<1>2. UNCHANGED <<users, membership, sessions, failures, pendingLogins, exchanges, logins,
                  serving, recovery, outdated>>
  BY DEF CreateAccount, SetAccountStatus, IssueCredential, RevokeCredential, ExpireCredential
<1>3. SessionRows' /\ SessionsAge
  BY <1>2, ServingKept, NoSessionAges
<1>4. DirectoryRows'
  BY <1>1, <1>2 DEF DirectoryRows
<1>5. PendingOnce'
  BY <1>2, PendingSame
<1> QED  BY <1>1, <1>3, <1>4, <1>5 DEF IdentityKept

LEMMA SessionReadKept ==
    ASSUME IdentityInv, NEW s \in Login, NEW op \in SessionOp, ReadSession(s, op)
    PROVE  IdentityKept
<1>1. DirectoryRows'
  BY DEF ReadSession, IdentityInv, DirectoryRows, SameDirectory
<1> QED  BY <1>1, SessionRead, DirectoryWritten DEF ReadSession

LEMMA RequestedKept == ASSUME IdentityInv, Requested PROVE IdentityKept
<1>1. ASSUME NEW u \in Person, LoginFails(u) \/ LoginReads(u) PROVE IdentityKept
  BY <1>1, LoginsKept
<1>2. ASSUME NEW u \in Person, RecoverReads(u) \/ CreateOwner(u) PROVE IdentityKept
  BY <1>2, RecoveryKept
<1>3. ASSUME NEW s \in Login, NEW op \in {"touch", "refresh", "logout"}, ReadSession(s, op)
      PROVE  IdentityKept
  BY <1>3, SessionReadKept DEF SessionOp
<1>4. ASSUME NEW s \in Login, NEW t \in Login, RevokeOwnSession(s, t) PROVE IdentityKept
  BY <1>4, SessionsWritten
<1>5. ASSUME NEW o \in LoginState, StartOidc(o) PROVE IdentityKept
  BY <1>5, OidcKept
<1>6. ASSUME NEW a \in Person, NEW u \in Person, NEW role \in {"OWNER", "ADMIN", "MEMBER"},
             NEW source \in Source, CreateUser(a, u, role, source)
      PROVE  IdentityKept
  BY <1>6, AdministrationKept
<1>7. ASSUME NEW a \in Person, NEW u \in Person, NEW standing \in {"ACTIVE", "DISABLED"},
             ReadForStatus(a, u, standing)
      PROVE  IdentityKept
  BY <1>7, AdministrationKept
<1>8. ASSUME NEW a \in Person, NEW u \in Person, ResetPassword(a, u) PROVE IdentityKept
  BY <1>8, AdministrationKept
<1>9. ASSUME NEW a \in Person, NEW c \in Account, CreateAccount(a, c) PROVE IdentityKept
  BY <1>9, AccountsKept
<1>10. ASSUME NEW a \in Person, NEW c \in Account, NEW standing \in {"ACTIVE", "DISABLED", "REVOKED"},
              SetAccountStatus(a, c, standing)
       PROVE  IdentityKept
  BY <1>10, AccountsKept
<1>11. ASSUME NEW a \in Person, NEW c \in Account, NEW k \in Credential, IssueCredential(a, c, k)
       PROVE  IdentityKept
  BY <1>11, AccountsKept
<1>12. ASSUME NEW a \in Person, NEW k \in Credential, RevokeCredential(a, k) PROVE IdentityKept
  BY <1>12, AccountsKept
<1> QED
  BY <1>1, <1>2, <1>3, <1>4, <1>5, <1>6, <1>7, <1>8, <1>9, <1>10, <1>11, <1>12, Zenon DEF Requested

LEMMA FollowsKept == ASSUME IdentityInv, Follows PROVE IdentityKept
<1>1. CASE LoginWrites
  <2>1. serving.user \in Person
    BY <1>1, ServedByOp DEF LoginWrites, LoginServed, IdentityInv
  <2> QED  BY <1>1, <2>1, LoginsKept
<1>2. ASSUME NEW u \in Person, Bootstrap(u) PROVE IdentityKept
  BY <1>2, RecoveryKept
<1>3. ASSUME NEW u \in Person, WindowPasses(u) PROVE IdentityKept
  BY <1>3, LoginsKept
<1>4. ASSUME NEW s \in Login, IssueSession(s) \/ ExpireAccess(s) \/ EndSession(s) PROVE IdentityKept
  BY <1>4, SessionsWritten
<1>5. CASE FinishTouch \/ FinishRefresh \/ FinishLogout \/ RevokeOne \/ RecoverSessions
  BY <1>5, SessionsWritten
<1>6. ASSUME NEW o \in LoginState, CompleteOidc(o) \/ ExchangeFails(o) \/ ExpireState(o)
      PROVE  IdentityKept
  BY <1>6, OidcKept
<1>7. ASSUME NEW o \in LoginState, NEW u \in Person, ExchangeDone(o, u) PROVE IdentityKept
  BY <1>7, OidcKept
<1>8. CASE ServerStops
  BY <1>8, OidcKept
<1>9. CASE WriteStatus \/ RevokedAll
  <2>1. serving.user \in Person
    BY <1>9, ServedByOp DEF WriteStatus, RevokedAll, StatusServed, RevokeServed, IdentityInv
  <2> QED  BY <1>9, <2>1, AdministrationKept
<1>10. ASSUME NEW k \in Credential, ExpireCredential(k) PROVE IdentityKept
  BY <1>10, AccountsKept
<1>11. CASE RecoverUser \/ RecoverPassword \/ RecoverMembership \/ RecoveryStops
  BY <1>11, RecoveryKept
<1> QED
  BY <1>1, <1>2, <1>3, <1>4, <1>5, <1>6, <1>7, <1>8, <1>9, <1>10, <1>11, Zenon DEF Follows

LEMMA NothingKept == ASSUME IdentityInv, UNCHANGED identityVars PROVE IdentityKept
<1>1. SessionRows' /\ SessionsAge /\ CredentialsAge
  BY ServingKept, NoSessionAges, NoCredentialAges DEF identityVars, IdentityInv
<1>2. CredentialRows' /\ PendingOnce'
  BY CredentialsSame, PendingSame DEF identityVars, IdentityInv
<1>3. DirectoryRows'
  BY DEF identityVars, IdentityInv, DirectoryRows
<1> QED  BY <1>1, <1>2, <1>3 DEF IdentityKept, IdentityInv

LEMMA IdentityStepKeeps == IdentityInv /\ [IdentityNext]_identityVars => IdentityKept
  BY RequestedKept, FollowsKept, NothingKept DEF IdentityNext

LEMMA IdentityInvAlways == IdentitySpec => []IdentityInv
<1>1. IdentityInv /\ [IdentityNext]_identityVars => IdentityInv'
  BY IdentityStepKeeps DEF IdentityKept
<1> QED  BY <1>1, IdentityInvInit, PTL DEF IdentitySpec

LEMMA IdentityTyped == IdentitySpec => []IdentityTypeOK
<1>1. IdentityInv => IdentityTypeOK
  BY DEF IdentityInv, DirectoryRows, SessionRows, CredentialRows, PendingOnce, IdentityTypeOK
<1> QED  BY <1>1, IdentityInvAlways, PTL

LEMMA IdentitySoundAlways == IdentitySpec => [](OutdatedSessionsEnd /\ OneLoginPerState)
<1>1. IdentityInv => OutdatedSessionsEnd
  BY DEF IdentityInv, SessionRows, OutdatedSessionsEnd, Authenticates
<1>2. IdentityInv => OneLoginPerState
  <2> SUFFICES ASSUME IdentityInv PROVE OneLoginPerState
    OBVIOUS
  <2>1. \A o \in LoginState : logins[o] = 0 \/ logins[o] = 1
    BY DEF IdentityInv, PendingOnce
  <2> QED  BY <2>1 DEF OneLoginPerState
<1> QED  BY <1>1, <1>2, IdentityInvAlways, PTL

\* No write of a session, by a request or by the recovery command in between,
\* brings back a secret that was replaced or a session that was revoked.
THEOREM RetiredStaysRetiredAlways == IdentitySpec => RetiredStaysRetired
<1> DEFINE Stays == \A s \in Login, k \in 1..MaxSecrets : Retired(s, k) => Retired(s, k)'
<1>1. IdentityInv /\ [IdentityNext]_identityVars => Stays
  <2> SUFFICES ASSUME IdentityInv, [IdentityNext]_identityVars,
                      NEW s \in Login, NEW k \in 1..MaxSecrets, Retired(s, k)
               PROVE  Retired(s, k)'
    OBVIOUS
  <2>1. SessionsAge
    BY IdentityStepKeeps DEF IdentityKept
  <2>2. /\ sessions'[s] # NoSession /\ sessions'[s].secret >= sessions[s].secret
        /\ sessions[s].revoked => sessions'[s].revoked
    BY <2>1 DEF SessionsAge, Aged, Retired, Opened
  <2>3. sessions[s] \in SessionRow /\ sessions'[s] \in SessionRow
    BY <2>1, <2>2 DEF IdentityInv, SessionRows, SessionsAge, Retired, Opened
  <2>4. sessions[s].secret \in Nat /\ sessions'[s].secret \in Nat /\ k \in Nat
    BY <2>3 DEF SessionRow
  <2>5. k < sessions[s].secret => k < sessions'[s].secret
    BY <2>2, <2>4
  <2> QED  BY <2>2, <2>5 DEF Retired, Opened
<1>2. IdentityInv /\ [IdentityNext]_identityVars => [Stays]_identityVars
  BY <1>1
<1> QED  BY <1>2, IdentityInvAlways, PTL DEF IdentitySpec, RetiredStaysRetired

\* Revoking a service account ends its credentials for good, whatever is done
\* to the account, or issued for it, afterwards.
THEOREM RevokedAccountsEndAlways == IdentitySpec => RevokedAccountsEnd
<1> DEFINE End == \A k \in Credential :
                      (credentials[k] # NoCredential /\ accounts[credentials[k].account] = "REVOKED")
                          => ~CredentialAccepted(k)' /\ credentials'[k].revoked
<1>1. IdentityInv /\ [IdentityNext]_identityVars => End
  <2> SUFFICES ASSUME IdentityInv, [IdentityNext]_identityVars, NEW k \in Credential,
                      credentials[k] # NoCredential, accounts[credentials[k].account] = "REVOKED"
               PROVE  ~CredentialAccepted(k)' /\ credentials'[k].revoked
    OBVIOUS
  <2>1. credentials[k].revoked
    BY DEF IdentityInv, CredentialRows
  <2>2. CredentialsAge
    BY IdentityStepKeeps DEF IdentityKept
  <2>3. credentials'[k].revoked
    BY <2>1, <2>2 DEF CredentialsAge
  <2> QED  BY <2>3 DEF CredentialAccepted
<1>2. IdentityInv /\ [IdentityNext]_identityVars => [End]_identityVars
  BY <1>1
<1> QED  BY <1>2, IdentityInvAlways, PTL DEF IdentitySpec, RevokedAccountsEnd

-----------------------------------------------------------------------------
(* Authority. *)

\* Users, sessions, credentials, command rows, their evidence and an artifact's
\* parents stay within their types, and the failures counted within a window
\* stay within the limit.
THEOREM AuthorityTypeCorrect ==
    IdentitySpec /\ AdmissionSpec /\ GuardSpec
        => [](IdentityTypeOK /\ AdmissionTypeOK /\ GuardTypeOK)
  BY IdentityTyped, AdmissionTyped, GuardSoundAlways, PTL

\* Whoever logs in, asks for a command or reads an artifact, in whatever order
\* and number: no login outlives a disable, reset or revocation that completed,
\* no OIDC state is exchanged twice, every command has its evidence and every
\* artifact shown may be read.
THEOREM AuthoritySoundAlways ==
    IdentitySpec /\ AdmissionSpec /\ GuardSpec => []AuthoritySound
<1>1. (OutdatedSessionsEnd /\ OneLoginPerState) /\ AdmissionSound /\ GuardSound => AuthoritySound
  BY DEF AuthoritySound
<1> QED  BY <1>1, IdentitySoundAlways, AdmissionSoundAlways, GuardSoundAlways, PTL


-----------------------------------------------------------------------------
(* Backup and restore. *)

BackupRow == [stage : {"idle", "listing", "copying", "verifying"}, dump : SUBSET Item,
              listed : SUBSET Item, copied : SUBSET Item]
ArchiveRow == [state : {"none", "partial", "full"}, dump : SUBSET Item, items : SUBSET Item]
RestoreStage == {"idle", "database", "staging", "displacing", "installing", "removing",
                 "undoing", "done", "failed", "killed"}
RestoreRow == [stage : RestoreStage, overwrite : BOOLEAN, installed : SUBSET Item,
               saved : SUBSET (Item \X {"old", "new"}), apart : SUBSET Item]
FileState == {"none", "old", "new"}

BackupRows ==
    /\ store \in {"local", "s3"} /\ engine \in {"sqlite", "postgresql"}
    /\ serverUp \in BOOLEAN /\ asked \in BOOLEAN
    /\ referred \in SUBSET Item /\ gone \in SUBSET Item /\ previous \in SUBSET Item /\ aside \in SUBSET Item
    /\ files \in [Item -> FileState] /\ before \in [Item -> FileState]
    /\ backup \in BackupRow /\ archive \in ArchiveRow /\ restore \in RestoreRow
    /\ backupFaults \in 0 .. MaxBackupFaults

\* A restore runs beside no server and no backup, from an archive that was verified.
RestoreAlone == restore.stage # "idle" => ~serverUp /\ backup.stage = "idle" /\ archive.state = "full"

\* What the dump of a backup, and of its archive, refers to is in the store, the
\* listing or the archive, but for what had gone when the store was listed.
DumpCovered ==
    /\ backup.stage = "listing" => \A i \in backup.dump \ gone : files[i] # "none"
    /\ backup.stage \in {"copying", "verifying"} /\ asked => backup.dump \ gone \subseteq backup.listed
    /\ backup.stage = "verifying" => archive.state # "none"
    /\ archive.state # "none" /\ asked => archive.dump \ gone \subseteq archive.items

\* The store holds the archive, and nothing else.
InstalledWhole == \A i \in Item : files[i] = IF i \in archive.items THEN "new" ELSE "none"

\* What a restore has done at each of its stages.
RestoreAt ==
    /\ restore.installed \subseteq archive.items
    /\ restore.stage \in {"idle", "database", "staging", "killed"} =>
         restore.installed = {} /\ restore.saved = {} /\ restore.apart = {}
    /\ restore.stage = "displacing" => restore.installed = {} /\ (aside = {} \/ restore.apart = {})
    /\ restore.stage \in {"staging", "displacing", "installing", "removing", "done"} =>
         referred = archive.dump
    /\ restore.stage = "installing" =>
         aside = {} /\ \A i \in Item : files[i] = IF i \in restore.installed THEN "new" ELSE "none"
    /\ restore.stage = "removing" \/ (restore.stage = "done" /\ archive.items # {}) =>
         aside = {} /\ InstalledWhole

\* Where the file of an artifact is while a local restore runs.
Placed(i) ==
    IF i \in restore.installed
    THEN files[i] = "new" /\ (before[i] # "none" => <<i, before[i]>> \in restore.saved)
    ELSE files[i] = IF <<i, before[i]>> \in restore.saved THEN "none" ELSE before[i]

LocalRestore ==
    store = "local" =>
      /\ restore.stage \in {"database", "staging", "failed"} =>
           restore.saved = {} /\ restore.installed = {} /\ restore.apart = {}
      /\ restore.stage \in {"database", "staging", "displacing", "installing", "undoing"} =>
           /\ \A i \in Item : Placed(i)
           /\ \A i \in Item, v \in {"old", "new"} : <<i, v>> \in restore.saved => v = before[i]
      /\ restore.stage = "failed" => (\A i \in Item : files[i] = before[i]) \/ InstalledWhole

OldKept ==
    /\ restore.stage \in {"idle", "removing"} => previous = {}
    /\ store = "local" =>
         \A i \in previous : files[i] = "old" \/ i \in aside \/ i \in restore.apart
                                \/ <<i, "old">> \in restore.saved

BackupInv == BackupRows /\ RestoreAlone /\ DumpCovered /\ RestoreAt /\ LocalRestore /\ OldKept

\* A step of the server or of the backup command beside no restore.
LEMMA NoRestoreKeeps ==
    ASSUME BackupInv, restore.stage = "idle", UNCHANGED <<store, restore, aside, before, previous>>
    PROVE  LocalRestore' /\ OldKept'
  BY DEF BackupInv, LocalRestore, OldKept, RestoreAt

LEMMA BackupInvInit == BackupInit => BackupInv
<1> SUFFICES ASSUME BackupInit PROVE BackupInv
  OBVIOUS
<1> USE DEF BackupInit, NoBackup, NoArchive, NoRestore
<1>1. BackupRows
  <2>1. files \in [Item -> FileState]
    BY DEF FileState
  <2>2. backup \in BackupRow /\ archive \in ArchiveRow /\ restore \in RestoreRow
    BY DEF BackupRow, ArchiveRow, RestoreRow, RestoreStage
  <2>3. backupFaults \in 0 .. MaxBackupFaults
    BY BackupAssumption
  <2> QED  BY <2>1, <2>2, <2>3 DEF BackupRows
<1>2. RestoreAlone /\ DumpCovered
  BY <1>1 DEF RestoreAlone, DumpCovered, BackupRows
<1>3. RestoreAt /\ LocalRestore /\ OldKept
  BY <1>1 DEF RestoreAt, LocalRestore, OldKept, BackupRows
<1> QED  BY <1>1, <1>2, <1>3 DEF BackupInv

LEMMA ServerSteps ==
    ASSUME BackupInv, StopServer \/ \E i \in Item : StoreContent(i) \/ SaveRow(i) \/ RemoveContent(i) \/ RemoveRow(i)
    PROVE  BackupInv'
<1>1. BackupRows /\ RestoreAlone /\ DumpCovered /\ RestoreAt
  BY DEF BackupInv
<1>2. restore.stage = "idle" /\ UNCHANGED <<store, restore, aside, before, previous>>
  BY <1>1 DEF RestoreAlone, StopServer, StoreContent, SaveRow, RemoveContent, RemoveRow
<1>3. CASE StopServer
  <2>1. BackupRows' /\ RestoreAlone' /\ DumpCovered' /\ RestoreAt'
    BY <1>1, <1>3 DEF StopServer, BackupRows, RestoreAlone, DumpCovered, RestoreAt, InstalledWhole
  <2> QED  BY <1>2, <2>1, NoRestoreKeeps DEF BackupInv
<1>4. ASSUME NEW i \in Item, StoreContent(i) \/ SaveRow(i) \/ RemoveContent(i) \/ RemoveRow(i)  PROVE BackupInv'
  <2>1. BackupRows'
    BY <1>1, <1>4 DEF StoreContent, SaveRow, RemoveContent, RemoveRow, BackupRows, FileState
  <2>2. RestoreAlone'
    BY <1>1, <1>4 DEF StoreContent, SaveRow, RemoveContent, RemoveRow, RestoreAlone
  <2>3. DumpCovered'
    <3>1. CASE StoreContent(i)
      BY <1>1, <3>1 DEF StoreContent, DumpCovered, BackupRows, BackupRow
    <3>2. CASE SaveRow(i)
      BY <1>1, <3>2 DEF SaveRow, DumpCovered, BackupRows, BackupRow
    <3>3. CASE RemoveContent(i)
      BY <1>1, <3>3 DEF RemoveContent, DumpCovered, BackupRows, BackupRow
    <3>4. CASE RemoveRow(i)
      BY <1>1, <3>4 DEF RemoveRow, DumpCovered, BackupRows, BackupRow
    <3> QED  BY <1>4, <3>1, <3>2, <3>3, <3>4
  <2>4. RestoreAt'
    BY <1>1, <1>2, <1>4 DEF StoreContent, SaveRow, RemoveContent, RemoveRow, RestoreAt
  <2> QED  BY <1>2, <2>1, <2>2, <2>3, <2>4, NoRestoreKeeps DEF BackupInv
<1> QED  BY <1>3, <1>4

LEMMA BackupSteps ==
    ASSUME BackupInv,
           \/ CreateBackup \/ ListItems \/ WriteArchive \/ VerifyBackup \/ FailBackup \/ KillBackup
           \/ DeleteArchive \/ \E i \in Item : CopyFile(i) \/ CopyObject(i)
    PROVE  BackupInv'
<1>1. BackupRows /\ RestoreAlone /\ DumpCovered /\ RestoreAt
  BY DEF BackupInv
<1> USE DEF CopyFile, CopyObject, Copied
<1>2. restore.stage = "idle" /\ UNCHANGED <<store, restore, aside, before, previous, files, referred>>
  BY <1>1 DEF RestoreAlone, CreateBackup, ListItems, WriteArchive, VerifyBackup, FailBackup, KillBackup,
              DeleteArchive
<1>3. LocalRestore' /\ OldKept'
  BY <1>2, NoRestoreKeeps
<1>4. RestoreAlone'
  BY <1>2 DEF RestoreAlone
<1>5. restore.installed = {} /\ RestoreAt'
  BY <1>1, <1>2 DEF RestoreAt
<1> USE DEF BackupRows, BackupRow, ArchiveRow, DumpCovered
<1>6. CASE CreateBackup
  <2>1. BackupRows' /\ DumpCovered'
    BY <1>1, <1>2, <1>6 DEF CreateBackup, CreateDump, NoBackup, StoredItems
  <2> QED  BY <1>3, <1>4, <1>5, <2>1 DEF BackupInv
<1>7. CASE ListItems
  <2>1. backup' = Listed /\ UNCHANGED <<gone, asked, archive, backupFaults, engine, serverUp>>
    BY <1>7 DEF ListItems
  <2>2. backup' \in BackupRow /\ backup'.stage = "copying" /\ backup'.dump = backup.dump
        /\ (asked => backup'.listed = StoredItems)
    BY <1>1, <2>1 DEF Listed, StoredItems
  <2>3. BackupRows'
    BY <1>1, <1>2, <2>1, <2>2
  <2>4. DumpCovered'
    BY <1>1, <1>2, <1>7, <2>1, <2>2 DEF ListItems, StoredItems
  <2> QED  BY <1>3, <1>4, <1>5, <2>3, <2>4 DEF BackupInv
<1>8. CASE WriteArchive
  <2>1. BackupRows' /\ DumpCovered'
    BY <1>1, <1>2, <1>8 DEF WriteArchive, ArchivedDump
  <2> QED  BY <1>3, <1>4, <1>5, <2>1 DEF BackupInv
<1>9. CASE VerifyBackup
  <2>1. BackupRows'
    BY <1>1, <1>2, <1>9 DEF VerifyBackup, NoBackup
  <2>2. archive'.dump = archive.dump /\ archive'.items = archive.items /\ archive.state # "none"
    BY <1>1, <1>9 DEF VerifyBackup
  <2>3. DumpCovered'
    BY <1>1, <1>2, <1>9, <2>2 DEF VerifyBackup, NoBackup
  <2> QED  BY <1>3, <1>4, <1>5, <2>1, <2>3 DEF BackupInv
<1>10. CASE FailBackup \/ KillBackup \/ DeleteArchive
  <2>1. backupFaults' \in 0 .. MaxBackupFaults
    BY <1>1, <1>10, BackupAssumption DEF FailBackup, KillBackup, DeleteArchive, BackupFault
  <2>2. CASE archive' \in {archive, NoArchive}
    <3>1. BackupRows' /\ DumpCovered'
      BY <1>1, <1>2, <1>10, <2>1, <2>2 DEF FailBackup, KillBackup, DeleteArchive, NoBackup, NoArchive
    <3> QED  BY <1>3, <1>4, <1>5, <3>1 DEF BackupInv
  <2>3. CASE KillBackup /\ backup.stage = "verifying" /\ archive' = [archive EXCEPT !.state = "full"]
    <3>1. /\ archive' \in ArchiveRow /\ archive'.dump = archive.dump /\ archive'.items = archive.items
          /\ archive.state # "none"
      BY <1>1, <2>3
    <3>2. BackupRows'
      BY <1>1, <1>2, <2>1, <2>3, <3>1 DEF KillBackup, NoBackup
    <3>3. DumpCovered'
      BY <1>1, <1>2, <2>3, <3>1 DEF KillBackup, NoBackup
    <3> QED  BY <1>3, <1>4, <1>5, <3>2, <3>3 DEF BackupInv
  <2> QED  BY <1>10, <2>2, <2>3 DEF FailBackup, KillBackup, DeleteArchive
<1>11. CASE \E i \in Item : CopyFile(i) \/ CopyObject(i)
  <2>1. BackupRows' /\ DumpCovered'
    BY <1>1, <1>2, <1>11
  <2> QED  BY <1>3, <1>4, <1>5, <2>1 DEF BackupInv
<1> QED  BY <1>6, <1>7, <1>8, <1>9, <1>10, <1>11

\* A step of the restore command changes no archive, and starts no server and no
\* backup.
LEMMA RestoreBeside ==
    ASSUME BackupInv, RestoreAlone', restore.stage # "idle" \/ Verified(archive), restore'.stage # "idle",
           UNCHANGED <<store, engine, serverUp, gone, backup, archive, asked>>
    PROVE  DumpCovered'
<1>1. archive.state = "full" /\ backup.stage = "idle"
  BY DEF BackupInv, RestoreAlone, Verified
<1> QED  BY <1>1 DEF BackupInv, DumpCovered

LEMMA RestoreStartKeeps == ASSUME BackupInv, StartRestore PROVE BackupInv'
<1>1. PICK o \in BOOLEAN : restore' = [NoRestore EXCEPT !.stage = "database", !.overwrite = o]
  BY DEF StartRestore
<1>2. /\ restore' \in RestoreRow /\ restore'.stage = "database" /\ restore'.installed = {}
      /\ restore'.saved = {} /\ restore'.apart = {}
  BY <1>1 DEF NoRestore, RestoreRow, RestoreStage
<1>3. /\ restore.stage \in {"idle", "failed", "killed"} /\ backup.stage = "idle" /\ ~serverUp
      /\ Verified(archive) /\ before' = files
      /\ previous' = IF restore.stage = "idle" THEN Present("old") ELSE previous
      /\ UNCHANGED <<store, engine, serverUp, referred, files, gone, backup, archive, aside, asked,
                     backupFaults>>
  BY DEF StartRestore
<1>4. BackupRows'
  BY <1>2, <1>3 DEF BackupInv, BackupRows, Present
<1>5. RestoreAlone'
  BY <1>3 DEF RestoreAlone, Verified
<1>6. DumpCovered'
  BY <1>2, <1>3, <1>5, RestoreBeside
<1>7. RestoreAt'
  BY <1>2 DEF RestoreAt
<1>8. LocalRestore'
  BY <1>2, <1>3 DEF LocalRestore, Placed
<1>9. OldKept'
  <2>1. CASE restore.stage = "idle"
    BY <1>2, <1>3, <2>1 DEF OldKept, Present
  <2>2. CASE restore.stage # "idle" /\ store = "local"
    <3>1. restore.saved = {} /\ restore.apart = {}
      BY <1>3, <2>2 DEF BackupInv, RestoreAt, LocalRestore
    <3> QED  BY <1>2, <1>3, <2>2, <3>1 DEF BackupInv, OldKept
  <2> QED  BY <1>2, <1>3, <2>1, <2>2 DEF OldKept
<1> QED  BY <1>4, <1>5, <1>6, <1>7, <1>8, <1>9 DEF BackupInv

LEMMA DatabaseKeeps == ASSUME BackupInv, RestoreDatabase PROVE BackupInv'
<1>1. /\ restore' \in RestoreRow /\ restore'.installed = {} /\ restore'.saved = {} /\ restore'.apart = {}
      /\ restore'.stage = IF archive.items = {} THEN "done" ELSE "staging"
      /\ restore.installed = {} /\ restore.saved = {} /\ restore.apart = {}
  BY DEF RestoreDatabase, BackupInv, BackupRows, RestoreRow, RestoreStage, RestoreAt
<1>2. /\ restore.stage = "database" /\ referred' = archive.dump
      /\ UNCHANGED <<store, engine, serverUp, files, gone, backup, archive, aside, before, previous, asked,
                     backupFaults>>
  BY DEF RestoreDatabase
<1>3. BackupRows'
  BY <1>1, <1>2 DEF BackupInv, BackupRows, ArchiveRow
<1>4. RestoreAlone'
  BY <1>1, <1>2 DEF BackupInv, RestoreAlone
<1>5. DumpCovered'
  BY <1>1, <1>2, <1>4, RestoreBeside
<1>6. RestoreAt'
  BY <1>1, <1>2 DEF RestoreAt
<1>7. LocalRestore'
  BY <1>1, <1>2 DEF BackupInv, LocalRestore, Placed
<1>8. OldKept'
  BY <1>1, <1>2 DEF BackupInv, OldKept
<1> QED  BY <1>3, <1>4, <1>5, <1>6, <1>7, <1>8 DEF BackupInv

LEMMA StageKeeps == ASSUME BackupInv, StageItems PROVE BackupInv'
<1>1. /\ restore' \in RestoreRow /\ restore'.installed = {} /\ restore'.saved = {} /\ restore'.apart = {}
      /\ restore'.stage = "displacing"
      /\ restore.installed = {} /\ restore.saved = {} /\ restore.apart = {}
  BY DEF StageItems, BackupInv, BackupRows, RestoreRow, RestoreStage, RestoreAt
<1>2. /\ restore.stage = "staging"
      /\ UNCHANGED <<store, engine, serverUp, referred, files, gone, backup, archive, aside, before,
                     previous, asked, backupFaults>>
  BY DEF StageItems
<1>3. BackupRows'
  BY <1>1, <1>2 DEF BackupInv, BackupRows
<1>4. RestoreAlone'
  BY <1>1, <1>2 DEF BackupInv, RestoreAlone
<1>5. DumpCovered'
  BY <1>1, <1>2, <1>4, RestoreBeside
<1>6. RestoreAt'
  BY <1>1, <1>2 DEF BackupInv, RestoreAt
<1>7. LocalRestore'
  BY <1>1, <1>2 DEF BackupInv, LocalRestore, Placed
<1>8. OldKept'
  BY <1>1, <1>2 DEF BackupInv, OldKept
<1> QED  BY <1>3, <1>4, <1>5, <1>6, <1>7, <1>8 DEF BackupInv

LEMMA DisplaceKeeps ==
    ASSUME BackupInv, NEW i \in Item, DisplaceFile(i) \/ DeleteArchived(i)
    PROVE  BackupInv'
<1>1. /\ restore.stage = "displacing" /\ files[i] # "none" /\ restore.installed = {}
      /\ files' = [files EXCEPT ![i] = "none"]
      /\ UNCHANGED <<store, engine, serverUp, referred, gone, backup, archive, aside, before,
                     previous, asked, backupFaults>>
  BY DEF DisplaceFile, DeleteArchived, Displaced, BackupInv, RestoreAt
<1>2. files[i] \in {"old", "new"} /\ files' \in [Item -> FileState] /\ files \in [Item -> FileState]
  BY <1>1 DEF BackupInv, BackupRows, FileState
<1>3. /\ restore' \in RestoreRow /\ restore'.stage = "displacing" /\ restore'.installed = {}
      /\ restore'.apart = restore.apart
      /\ store = "local" => restore'.saved = restore.saved \cup {<<i, files[i]>>}
  BY <1>1, <1>2 DEF DisplaceFile, DeleteArchived, BackupInv, BackupRows, RestoreRow, RestoreStage
<1>4. BackupRows'
  BY <1>1, <1>2, <1>3 DEF BackupInv, BackupRows
<1>5. RestoreAlone'
  BY <1>1, <1>3 DEF BackupInv, RestoreAlone
<1>6. DumpCovered'
  BY <1>1, <1>3, <1>5, RestoreBeside
<1>7. RestoreAt'
  BY <1>1, <1>3 DEF BackupInv, RestoreAt
<1>8. LocalRestore'
  <2> SUFFICES ASSUME store = "local" PROVE LocalRestore'
    BY <1>1 DEF LocalRestore
  <2>1. Placed(i) /\ files[i] = before[i]
    BY <1>1, <1>2 DEF BackupInv, LocalRestore, Placed
  <2>2. \A j \in Item : Placed(j)'
    <3> SUFFICES ASSUME NEW j \in Item PROVE Placed(j)'
      OBVIOUS
    <3>1. Placed(j) /\ files'[j] = IF j = i THEN "none" ELSE files[j]
      BY <1>1, <1>2 DEF BackupInv, LocalRestore
    <3>2. <<j, before[j]>> \in restore'.saved <=> (j = i \/ <<j, before[j]>> \in restore.saved)
      BY <1>3, <2>1
    <3> QED  BY <1>1, <1>3, <3>1, <3>2 DEF Placed
  <2>3. \A j \in Item, v \in {"old", "new"} : <<j, v>> \in restore'.saved => v = before'[j]
    <3> SUFFICES ASSUME NEW j \in Item, NEW v \in {"old", "new"}, <<j, v>> \in restore'.saved
                 PROVE  v = before[j]
      BY <1>1
    <3>1. <<j, v>> \in restore.saved \/ (j = i /\ v = files[i])
      BY <1>3
    <3>2. <<j, v>> \in restore.saved => v = before[j]
      BY <1>1 DEF BackupInv, LocalRestore
    <3> QED  BY <2>1, <3>1, <3>2
  <2> QED  BY <1>3, <2>2, <2>3 DEF LocalRestore
<1>9. OldKept'
  <2> SUFFICES ASSUME store = "local", NEW j \in previous
               PROVE  files'[j] = "old" \/ j \in aside \/ j \in restore.apart \/ <<j, "old">> \in restore'.saved
    BY <1>1, <1>3 DEF OldKept
  <2>1. files[j] = "old" \/ j \in aside \/ j \in restore.apart \/ <<j, "old">> \in restore.saved
    BY <1>1 DEF BackupInv, OldKept
  <2>2. j \in Item /\ files'[j] = IF j = i THEN "none" ELSE files[j]
    BY <1>1, <1>2 DEF BackupInv, BackupRows
  <2> QED  BY <1>3, <2>1, <2>2
<1> QED  BY <1>4, <1>5, <1>6, <1>7, <1>8, <1>9 DEF BackupInv

LEMMA AsideKeeps == ASSUME BackupInv, DisplaceAside PROVE BackupInv'
<1>1. /\ restore.stage = "displacing" /\ aside # {} /\ aside' = {}
      /\ UNCHANGED <<store, engine, serverUp, referred, files, gone, backup, archive, before,
                     previous, asked, backupFaults>>
  BY DEF DisplaceAside
<1>2. /\ restore' \in RestoreRow /\ restore'.stage = "displacing" /\ restore'.apart = aside
      /\ restore'.installed = restore.installed /\ restore'.saved = restore.saved
  BY <1>1 DEF DisplaceAside, BackupInv, BackupRows, RestoreRow
<1>3. BackupRows'
  BY <1>1, <1>2 DEF BackupInv, BackupRows
<1>4. RestoreAlone'
  BY <1>1, <1>2 DEF BackupInv, RestoreAlone
<1>5. DumpCovered'
  BY <1>1, <1>2, <1>4, RestoreBeside
<1>6. RestoreAt'
  BY <1>1, <1>2 DEF BackupInv, RestoreAt
<1>7. LocalRestore'
  BY <1>1, <1>2 DEF BackupInv, LocalRestore, Placed
<1>8. OldKept'
  BY <1>1, <1>2 DEF BackupInv, OldKept, RestoreAt
<1> QED  BY <1>3, <1>4, <1>5, <1>6, <1>7, <1>8 DEF BackupInv

LEMMA InstallKeeps ==
    ASSUME BackupInv, NEW i \in Item, InstallFile(i) \/ UploadObject(i)
    PROVE  BackupInv'
<1> DEFINE last == store = "local" /\ archive.items \ restore.installed = {i}
<1>1. /\ \/ restore.stage = "displacing" /\ StoredItems = {} /\ aside = {}
         \/ restore.stage = "installing"
      /\ i \in archive.items \ restore.installed
      /\ files' = [files EXCEPT ![i] = "new"]
      /\ restore' = [restore EXCEPT !.installed = @ \cup {i},
                                    !.stage = IF last THEN "removing" ELSE "installing"]
      /\ previous' = IF restore'.stage = "removing" THEN {} ELSE previous
      /\ UNCHANGED <<store, engine, serverUp, referred, gone, backup, archive, aside, before,
                     asked, backupFaults>>
  BY DEF InstallFile, UploadObject, Installed
<1>2. /\ restore' \in RestoreRow /\ restore'.stage = IF last THEN "removing" ELSE "installing"
      /\ restore'.installed = restore.installed \cup {i}
      /\ restore'.saved = restore.saved /\ restore'.apart = restore.apart
  BY <1>1 DEF BackupInv, BackupRows, RestoreRow, RestoreStage
<1>3. files' \in [Item -> FileState] /\ files \in [Item -> FileState]
  BY <1>1 DEF BackupInv, BackupRows, FileState
<1>4. \A j \in Item : files[j] = IF j \in restore.installed THEN "new" ELSE "none"
  BY <1>1 DEF BackupInv, RestoreAt, StoredItems
<1>5. \A j \in Item : files'[j] = IF j = i THEN "new" ELSE files[j]
  BY <1>1, <1>3
<1>6. BackupRows'
  BY <1>1, <1>2, <1>3 DEF BackupInv, BackupRows
<1>7. RestoreAlone'
  BY <1>1, <1>2 DEF BackupInv, RestoreAlone
<1>8. DumpCovered'
  BY <1>1, <1>2, <1>7, RestoreBeside
<1>9. RestoreAt'
  <2>1. aside = {} /\ referred = archive.dump /\ restore'.installed \subseteq archive.items
    BY <1>1, <1>2 DEF BackupInv, RestoreAt
  <2>2. last => restore'.installed = archive.items
    BY <1>2, <2>1
  <2> QED  BY <1>1, <1>2, <1>4, <1>5, <2>1, <2>2 DEF RestoreAt, InstalledWhole
<1>10. LocalRestore'
  <2> SUFFICES ASSUME store = "local" PROVE LocalRestore'
    BY <1>1 DEF LocalRestore
  <2>1. \A j \in Item : Placed(j)'
    <3> SUFFICES ASSUME NEW j \in Item PROVE Placed(j)'
      OBVIOUS
    <3>1. Placed(j)
      BY <1>1 DEF BackupInv, LocalRestore
    <3> QED  BY <1>1, <1>2, <1>4, <1>5, <3>1 DEF Placed
  <2>2. \A j \in Item, v \in {"old", "new"} : <<j, v>> \in restore.saved => v = before[j]
    BY <1>1 DEF BackupInv, LocalRestore
  <2> QED  BY <1>1, <1>2, <2>1, <2>2 DEF LocalRestore
<1>11. OldKept'
  <2>1. CASE last
    BY <1>1, <1>2, <2>1 DEF OldKept
  <2>2. CASE ~last
    <3> SUFFICES ASSUME store = "local", NEW j \in previous
                 PROVE  files'[j] = "old" \/ j \in aside \/ j \in restore.apart \/ <<j, "old">> \in restore.saved
      BY <1>1, <1>2, <2>2 DEF OldKept
    <3>1. files[j] = "old" \/ j \in aside \/ j \in restore.apart \/ <<j, "old">> \in restore.saved
      BY <1>1 DEF BackupInv, OldKept
    <3>2. j \in Item
      BY DEF BackupInv, BackupRows
    <3> QED  BY <1>4, <3>1, <3>2
  <2> QED  BY <2>1, <2>2
<1> QED  BY <1>6, <1>7, <1>8, <1>9, <1>10, <1>11 DEF BackupInv

\* Once the last file is in place nothing old is owed any more: the removal takes
\* what it likes, raises or ends.
LEMMA RemovalKeeps ==
    ASSUME BackupInv, restore.stage = "removing", RemovePrevious \/ FailRemoval \/ FinishRestore
    PROVE  BackupInv'
<1>1. UNCHANGED <<store, engine, serverUp, referred, files, gone, backup, archive, before, previous, asked>>
  BY DEF RemovePrevious, FailRemoval, FinishRestore
<1>2. /\ restore' \in RestoreRow /\ restore'.stage \in {"removing", "failed", "done"}
      /\ restore'.installed \subseteq archive.items
      /\ restore'.stage = "failed" =>
           restore'.installed = {} /\ restore'.saved = {} /\ restore'.apart = {}
  <2>1. restore \in RestoreRow /\ restore.installed \subseteq archive.items
    BY DEF BackupInv, BackupRows, RestoreAt
  <2>2. CASE RemovePrevious
    BY <2>1, <2>2 DEF RemovePrevious, RestoreRow
  <2>3. CASE FailRemoval \/ FinishRestore
    BY <2>3 DEF FailRemoval, FinishRestore, NoRestore, RestoreRow, RestoreStage
  <2> QED  BY <2>2, <2>3
<1>3. /\ aside' \in SUBSET Item /\ backupFaults' \in 0 .. MaxBackupFaults
      /\ restore'.stage \in {"removing", "done"} => aside' = aside
  <2>1. aside \in SUBSET Item /\ restore \in RestoreRow /\ backupFaults \in 0 .. MaxBackupFaults
    BY DEF BackupInv, BackupRows
  <2>2. LeftBehind \in SUBSET Item
    BY <2>1 DEF LeftBehind, RestoreRow
  <2>3. CASE FailRemoval
    BY <2>1, <2>2, <2>3, BackupAssumption DEF FailRemoval, BackupFault, NoRestore
  <2>4. CASE RemovePrevious \/ FinishRestore
    BY <2>1, <2>4 DEF RemovePrevious, FinishRestore
  <2> QED  BY <2>3, <2>4
<1>4. InstalledWhole /\ aside = {} /\ referred = archive.dump /\ previous = {}
  BY DEF BackupInv, RestoreAt, OldKept
<1>5. BackupRows'
  BY <1>1, <1>2, <1>3 DEF BackupInv, BackupRows
<1>6. RestoreAlone'
  BY <1>1, <1>2 DEF BackupInv, RestoreAlone
<1>7. DumpCovered'
  BY <1>1, <1>2, <1>6, RestoreBeside
<1>8. RestoreAt'
  BY <1>1, <1>2, <1>3, <1>4 DEF RestoreAt, InstalledWhole
<1>9. LocalRestore'
  BY <1>1, <1>2, <1>4 DEF LocalRestore, InstalledWhole
<1>10. OldKept'
  BY <1>1, <1>2, <1>4 DEF OldKept
<1> QED  BY <1>5, <1>6, <1>7, <1>8, <1>9, <1>10 DEF BackupInv

LEMMA UploadedKeeps ==
    ASSUME BackupInv, FinishRestore, restore.stage # "removing" PROVE BackupInv'
<1>1. /\ restore' \in RestoreRow /\ restore'.stage = "done" /\ restore'.installed = {}
  BY DEF FinishRestore, NoRestore, RestoreRow, RestoreStage
<1>2. /\ store = "s3" /\ restore.stage = "installing" /\ restore.installed = archive.items
      /\ UNCHANGED <<store, engine, serverUp, referred, files, gone, backup, archive, aside, before,
                     previous, asked, backupFaults>>
  BY DEF FinishRestore
<1>3. BackupRows'
  BY <1>1, <1>2 DEF BackupInv, BackupRows
<1>4. RestoreAlone'
  BY <1>1, <1>2 DEF BackupInv, RestoreAlone
<1>5. DumpCovered'
  BY <1>1, <1>2, <1>4, RestoreBeside
<1>6. RestoreAt'
  BY <1>1, <1>2 DEF BackupInv, RestoreAt, InstalledWhole
<1>7. LocalRestore' /\ OldKept'
  BY <1>1, <1>2 DEF LocalRestore, OldKept
<1> QED  BY <1>3, <1>4, <1>5, <1>6, <1>7 DEF BackupInv

\* What an interrupted pg_restore leaves is part of the dump.
LEMMA PartsTyped == ASSUME BackupInv, PartlyRestored PROVE referred' \in SUBSET Item
<1>1. archive.dump \subseteq Item /\ referred \in SUBSET Item
  BY DEF BackupInv, BackupRows, ArchiveRow
<1> QED  BY <1>1 DEF PartlyRestored

LEMMA RaiseKeeps == ASSUME BackupInv, FailRestore PROVE BackupInv'
<1>1. /\ restore.stage \in {"database", "staging", "displacing", "installing"}
      /\ restore' = [restore EXCEPT !.stage = RaisesAt(restore.stage)]
      /\ UNCHANGED <<store, engine, serverUp, files, gone, backup, archive, aside, before, previous, asked>>
  BY DEF FailRestore
<1>2. referred' \in SUBSET Item
  BY PartsTyped DEF FailRestore
<1>3. backupFaults' \in 0 .. MaxBackupFaults
  BY BackupAssumption DEF FailRestore, BackupFault, BackupInv, BackupRows
<1>4. /\ restore' \in RestoreRow /\ restore'.stage \in {"failed", "undoing"}
      /\ restore'.installed = restore.installed /\ restore'.saved = restore.saved
      /\ restore'.apart = restore.apart
      /\ store = "local" /\ restore'.stage = "failed" => restore.stage = "database"
  BY <1>1 DEF RaisesAt, BackupInv, BackupRows, RestoreRow, RestoreStage
<1>5. BackupRows'
  BY <1>1, <1>2, <1>3, <1>4 DEF BackupInv, BackupRows
<1>6. RestoreAlone'
  BY <1>1, <1>4 DEF BackupInv, RestoreAlone
<1>7. DumpCovered'
  BY <1>1, <1>4, <1>6, RestoreBeside
<1>8. RestoreAt'
  BY <1>1, <1>4 DEF BackupInv, RestoreAt
<1>9. LocalRestore'
  BY <1>1, <1>4 DEF BackupInv, LocalRestore, Placed
<1>10. OldKept'
  BY <1>1, <1>4 DEF BackupInv, OldKept
<1> QED  BY <1>5, <1>6, <1>7, <1>8, <1>9, <1>10 DEF BackupInv

LEMMA KillKeeps == ASSUME BackupInv, KillRestore PROVE BackupInv'
<1>1. /\ restore' \in RestoreRow /\ restore'.stage = "killed" /\ restore'.installed = {}
      /\ restore'.saved = {} /\ restore'.apart = {}
  BY DEF KillRestore, NoRestore, RestoreRow, RestoreStage
<1>2. /\ restore.stage \notin {"idle", "done", "failed", "killed"}
      /\ aside' = aside \cup restore.apart \cup {i \in Item : <<i, "old">> \in restore.saved}
      /\ UNCHANGED <<store, engine, serverUp, files, gone, backup, archive, before, previous, asked>>
  BY DEF KillRestore, LeftBehind
<1>3. backupFaults' \in 0 .. MaxBackupFaults
  BY BackupAssumption DEF KillRestore, BackupFault, BackupInv, BackupRows
<1>10. referred' \in SUBSET Item
  BY PartsTyped DEF KillRestore
<1>4. BackupRows'
  BY <1>1, <1>2, <1>3, <1>10 DEF BackupInv, BackupRows, RestoreRow
<1>5. RestoreAlone'
  BY <1>1, <1>2 DEF BackupInv, RestoreAlone
<1>6. DumpCovered'
  BY <1>1, <1>2, <1>5, RestoreBeside
<1>7. RestoreAt'
  BY <1>1 DEF RestoreAt
<1>8. LocalRestore'
  BY <1>1 DEF LocalRestore
<1>9. OldKept'
  <2>1. previous \subseteq Item
    BY DEF BackupInv, BackupRows
  <2> QED  BY <1>1, <1>2, <2>1 DEF BackupInv, OldKept
<1> QED  BY <1>4, <1>5, <1>6, <1>7, <1>8, <1>9 DEF BackupInv

LEMMA UndoKeeps == ASSUME BackupInv, UndoRestore PROVE BackupInv'
<1>1. /\ restore.stage = "undoing"
      /\ UNCHANGED <<store, engine, serverUp, referred, gone, backup, archive, before, previous,
                     asked, backupFaults>>
  BY DEF UndoRestore
<1>2. files \in [Item -> FileState] /\ aside \in SUBSET Item /\ restore \in RestoreRow /\ previous \subseteq Item
  BY DEF BackupInv, BackupRows
<1>3. ASSUME files' \in [Item -> FileState], aside' \in SUBSET Item, restore' \in RestoreRow,
             restore'.stage \in {"undoing", "failed"}, restore'.installed \subseteq restore.installed,
             LocalRestore', OldKept'
      PROVE  BackupInv'
  <2>1. BackupRows'
    BY <1>1, <1>3 DEF BackupInv, BackupRows
  <2>2. RestoreAlone'
    BY <1>1, <1>3 DEF BackupInv, RestoreAlone
  <2>3. DumpCovered'
    BY <1>1, <1>3, <2>2, RestoreBeside
  <2>4. RestoreAt'
    BY <1>1, <1>3 DEF BackupInv, RestoreAt
  <2> QED  BY <1>3, <2>1, <2>2, <2>3, <2>4 DEF BackupInv
<1>4. store = "local" =>
        /\ \A j \in Item : Placed(j)
        /\ \A j \in Item, v \in {"old", "new"} : <<j, v>> \in restore.saved => v = before[j]
        /\ \A j \in previous : files[j] = "old" \/ j \in aside \/ j \in restore.apart
                                 \/ <<j, "old">> \in restore.saved
  BY <1>1 DEF BackupInv, LocalRestore, OldKept
<1>5. CASE UndoInstallation
  <2>1. PICK k \in restore.installed : /\ files' = [files EXCEPT ![k] = "none"]
                                       /\ restore' = [restore EXCEPT !.installed = @ \ {k}]
                                       /\ UNCHANGED aside
    BY <1>5 DEF UndoInstallation
  <2>2. /\ restore' \in RestoreRow /\ restore'.stage = "undoing"
        /\ restore'.installed = restore.installed \ {k}
        /\ restore'.saved = restore.saved /\ restore'.apart = restore.apart
    BY <1>1, <1>2, <2>1 DEF RestoreRow, RestoreStage
  <2>3. k \in Item /\ files' \in [Item -> FileState] /\ \A j \in Item : files'[j] = IF j = k THEN "none" ELSE files[j]
    BY <1>2, <2>1 DEF RestoreRow, FileState
  <2>4. LocalRestore'
    <3> SUFFICES ASSUME store = "local" PROVE LocalRestore'
      BY <1>1 DEF LocalRestore
    <3>1. \A j \in Item : Placed(j)'
      <4> SUFFICES ASSUME NEW j \in Item PROVE Placed(j)'
        OBVIOUS
      <4>1. Placed(j) /\ before[j] \in FileState
        BY <1>4 DEF BackupInv, BackupRows
      <4>2. before[j] = "none" => <<j, before[j]>> \notin restore.saved
        BY <1>2 DEF RestoreRow
      <4> QED  BY <1>1, <2>2, <2>3, <4>1, <4>2 DEF Placed
    <3> QED  BY <1>1, <1>4, <2>2, <3>1 DEF LocalRestore
  <2>5. OldKept'
    <3> SUFFICES ASSUME store = "local", NEW j \in previous
                 PROVE  files'[j] = "old" \/ j \in aside \/ j \in restore.apart \/ <<j, "old">> \in restore.saved
      BY <1>1, <2>1, <2>2 DEF OldKept
    <3>1. files[k] = "new"
      BY <1>4, <2>3 DEF Placed
    <3>2. j \in Item
      BY <1>2
    <3> QED  BY <1>4, <2>3, <3>1, <3>2
  <2> QED  BY <1>2, <1>3, <2>1, <2>2, <2>3, <2>4, <2>5
<1>6. CASE UndoDisplacement /\ restore.saved # {}
  <2>1. PICK f \in restore.saved : /\ files' = [files EXCEPT ![f[1]] = f[2]]
                                   /\ restore' = [restore EXCEPT !.saved = @ \ {f}]
                                   /\ UNCHANGED aside
    BY <1>6 DEF UndoDisplacement
  <2>2. PICK k \in Item, old \in {"old", "new"} : f = <<k, old>>
    BY <1>2 DEF RestoreRow
  <2>3. /\ restore' \in RestoreRow /\ restore'.stage = "undoing"
        /\ restore'.installed = restore.installed /\ restore.installed = {}
        /\ restore'.saved = restore.saved \ {<<k, old>>} /\ restore'.apart = restore.apart
    BY <1>1, <1>2, <1>6, <2>1, <2>2 DEF UndoDisplacement, RestoreRow, RestoreStage
  <2>4. files' \in [Item -> FileState] /\ \A j \in Item : files'[j] = IF j = k THEN old ELSE files[j]
    BY <1>2, <2>1, <2>2 DEF FileState
  <2>5. store = "local" => old = before[k]
    BY <1>4, <2>1, <2>2
  <2>6. LocalRestore'
    <3> SUFFICES ASSUME store = "local" PROVE LocalRestore'
      BY <1>1 DEF LocalRestore
    <3>1. \A j \in Item : Placed(j)'
      <4> SUFFICES ASSUME NEW j \in Item PROVE Placed(j)'
        OBVIOUS
      <4>1. Placed(j)
        BY <1>4
      <4>2. <<j, before[j]>> \in restore'.saved <=> <<j, before[j]>> \in restore.saved /\ j # k
        BY <2>3, <2>5
      <4> QED  BY <1>1, <2>3, <2>4, <2>5, <4>1, <4>2 DEF Placed
    <3>2. \A j \in Item, v \in {"old", "new"} : <<j, v>> \in restore'.saved => v = before[j]
      BY <1>4, <2>3
    <3> QED  BY <1>1, <2>3, <3>1, <3>2 DEF LocalRestore
  <2>7. OldKept'
    <3> SUFFICES ASSUME store = "local", NEW j \in previous
                 PROVE  files'[j] = "old" \/ j \in aside \/ j \in restore.apart \/ <<j, "old">> \in restore'.saved
      BY <1>1, <2>1, <2>3 DEF OldKept
    <3>1. j \in Item
      BY <1>2
    <3>2. j # k => (<<j, "old">> \in restore'.saved <=> <<j, "old">> \in restore.saved)
      BY <2>3
    <3>3. j = k /\ <<j, "old">> \in restore.saved => old = "old"
      BY <1>4, <2>5, <3>1
    <3>4. Placed(k) /\ (j = k => files'[j] = old)
      BY <1>4, <2>4
    <3>5. <<k, old>> \in restore.saved
      BY <2>1, <2>2
    <3>6. files[k] = "none"
      BY <2>3, <2>5, <3>4, <3>5 DEF Placed
    <3> QED  BY <1>4, <2>4, <3>1, <3>2, <3>3, <3>4, <3>6
  <2> QED  BY <1>3, <1>2, <2>1, <2>3, <2>4, <2>6, <2>7
<1>7. CASE UndoDisplacement /\ restore.saved = {}
  <2>1. restore.installed = {} /\ restore' = RolledBack /\ aside' = aside \cup restore.apart /\ UNCHANGED files
    BY <1>7 DEF UndoDisplacement
  <2>2. /\ restore' \in RestoreRow /\ restore'.stage = "failed" /\ restore'.installed = {}
        /\ restore'.saved = {} /\ restore'.apart = {}
    BY <2>1 DEF RolledBack, NoRestore, RestoreRow, RestoreStage
  <2>3. LocalRestore'
    BY <1>1, <1>4, <1>7, <2>1, <2>2 DEF LocalRestore, Placed
  <2>4. OldKept'
    BY <1>1, <1>4, <1>7, <2>1, <2>2 DEF OldKept
  <2>5. aside' \in SUBSET Item
    BY <1>2, <2>1 DEF RestoreRow
  <2> QED  BY <1>2, <1>3, <2>1, <2>2, <2>3, <2>4, <2>5
<1> QED  BY <1>5, <1>6, <1>7 DEF UndoRestore

LEMMA BackupInvNext == BackupInv /\ [BackupNext]_backupVars => BackupInv'
<1>1. BackupInv /\ UNCHANGED backupVars => BackupInv'
  BY DEF backupVars, BackupInv, BackupRows, RestoreAlone, DumpCovered, RestoreAt, LocalRestore, Placed, OldKept,
         InstalledWhole
<1> QED
  BY <1>1, ServerSteps, BackupSteps, RestoreStartKeeps, DatabaseKeeps, StageKeeps, DisplaceKeeps, AsideKeeps,
     InstallKeeps, RemovalKeeps, UploadedKeeps, RaiseKeeps, UndoKeeps, KillKeeps
     DEF BackupNext, RemovePrevious, FailRemoval

LEMMA BackupInvAlways == BackupSpec => []BackupInv
  BY BackupInvInit, BackupInvNext, PTL DEF BackupSpec

LEMMA BackupTyped == BackupSpec => []BackupTypeOK
<1>1. BackupInv => BackupTypeOK
  BY DEF BackupInv, BackupRows, RestoreAt, BackupTypeOK, BackupRow, ArchiveRow, RestoreRow, RestoreStage, FileState
<1> QED  BY <1>1, BackupInvAlways, PTL

\* An archive that can be restored holds every artifact its database refers to whose
\* content was there when the store was listed, however uploads, the two steps of
\* deletions and killed commands fall beside the backup.
THEOREM ArchiveIsWholeAlways == BackupSpec => []ArchiveIsWhole
<1>1. BackupInv => ArchiveIsWhole
  BY DEF BackupInv, DumpCovered, ArchiveIsWhole
<1> QED  BY <1>1, BackupInvAlways, PTL

\* A restore that ends has put back the archive; one that raises, in a local
\* directory, leaves the store it found or the whole archive, also where it raises
\* while it removes the old files; and no file is lost before its last is in place.
THEOREM RestoreIsSafeAlways == BackupSpec => []RestoreIsSafe
<1>1. BackupInv => RestoreIsSafe
  <2> SUFFICES ASSUME BackupInv PROVE RestoreIsSafe
    OBVIOUS
  <2>1. BackupRows /\ RestoreAt /\ LocalRestore /\ OldKept
    BY DEF BackupInv
  <2>2. restore.stage = "done" =>
          /\ referred = archive.dump
          /\ archive.items # {} => StoredItems = archive.items /\ Present("old") = {} /\ aside = {}
    <3> SUFFICES ASSUME restore.stage = "done", archive.items # {}
                 PROVE  StoredItems = archive.items /\ Present("old") = {} /\ aside = {}
      BY <2>1 DEF RestoreAt
    <3>1. aside = {} /\ archive.items \subseteq Item
          /\ \A i \in Item : files[i] = IF i \in archive.items THEN "new" ELSE "none"
      BY <2>1 DEF RestoreAt, InstalledWhole, BackupRows, ArchiveRow
    <3> QED  BY <3>1 DEF StoredItems, Present
  <2>3. store = "local" /\ restore.stage = "failed" =>
          files = before \/ (StoredItems = archive.items /\ Present("old") = {})
    <3> SUFFICES ASSUME store = "local", restore.stage = "failed"
                 PROVE  files = before \/ (StoredItems = archive.items /\ Present("old") = {})
      OBVIOUS
    <3>1. archive.items \subseteq Item
      BY <2>1 DEF BackupRows, ArchiveRow
    <3>2. CASE \A i \in Item : files[i] = before[i]
      BY <2>1, <3>2 DEF BackupRows
    <3>3. CASE InstalledWhole
      BY <3>1, <3>3 DEF InstalledWhole, StoredItems, Present
    <3> QED  BY <2>1, <3>2, <3>3 DEF LocalRestore
  <2>4. store = "local" =>
          previous \subseteq Present("old") \cup aside \cup restore.apart
                                \cup {i \in Item : <<i, "old">> \in restore.saved}
    <3>1. previous \subseteq Item
      BY <2>1 DEF BackupRows
    <3> QED  BY <2>1, <3>1 DEF OldKept, Present
  <2> QED  BY <2>2, <2>3, <2>4 DEF RestoreIsSafe
<1> QED  BY <1>1, BackupInvAlways, PTL


-----------------------------------------------------------------------------
(* The rows of remote commands. *)

CommandRow == [status : CommandStatus, key : RequestKey, content : Content,
               count : 0..MaxCount, carries : BOOLEAN]

OperationRow == [status : OperationStatus, stamp : 0..MaxStamp]

AttemptRow == [id : CommandId, number : 1..MaxCount, end : {"OPEN", "ACKNOWLEDGED", "FAILED"}]

CommandCopy == [status : {"READ"}, id : CommandId, row : CommandRow]

OperationCopy == [status : {"READ"}, id : CommandId, row : OperationRow]

StoreRows ==
    /\ commandRows \in [CommandId -> {NoRecord} \cup CommandRow]
    /\ operationRows \in [CommandId -> {NoRecord} \cup OperationRow]
    /\ attemptRows \subseteq AttemptRow /\ IsFiniteSet(attemptRows)
    /\ copies \in [Writer -> {NoRecord} \cup CommandCopy \cup OperationCopy]

\* A copy is of a row that is there, and what is never rewritten is as read.
CopiesBehind ==
    \A w \in Writer :
        /\ copies[w] \in CommandCopy =>
              /\ commandRows[copies[w].id] # NoRecord
              /\ commandRows[copies[w].id].key = copies[w].row.key
              /\ commandRows[copies[w].id].content = copies[w].row.content
              /\ commandRows[copies[w].id].carries = copies[w].row.carries
        /\ copies[w] \in OperationCopy => operationRows[copies[w].id] # NoRecord

\* One identifier for one key, and an operation for the commands that carry one.
RowsMatch ==
    /\ \A c, d \in CommandId :
          commandRows[c] # NoRecord /\ commandRows[d] # NoRecord
              /\ commandRows[c].key = commandRows[d].key => c = d
    /\ \A c \in CommandId :
          (operationRows[c] # NoRecord) <=> (commandRows[c] # NoRecord /\ commandRows[c].carries)

AttemptsCounted ==
    /\ \A a, b \in attemptRows : a.id = b.id /\ a.number = b.number => a = b
    /\ \A c \in CommandId :
         /\ commandRows[c] = NoRecord => AttemptsOf(c) = {}
         /\ commandRows[c] # NoRecord =>
              /\ {a.number : a \in AttemptsOf(c)} = 1..commandRows[c].count
              /\ Cardinality(AttemptsOf(c)) = commandRows[c].count

StoreInv == StoreRows /\ CopiesBehind /\ RowsMatch /\ AttemptsCounted

LEMMA RecordShapes ==
    /\ \A row \in CommandRow : row # NoRecord /\ "key" \in DOMAIN row /\ "stamp" \notin DOMAIN row
    /\ \A row \in OperationRow : row # NoRecord /\ "stamp" \in DOMAIN row /\ "key" \notin DOMAIN row
    /\ \A copy \in CommandCopy \cup OperationCopy : copy # NoRecord
<1>1. NoRecord.status = "NONE"
  BY DEF NoRecord
<1>2. \A row \in CommandRow : row.status \in CommandStatus
  BY DEF CommandRow
<1>3. \A row \in OperationRow : row.status \in OperationStatus
  BY DEF OperationRow
<1>4. DOMAIN CommandFollows = {"CREATED", "QUEUED", "DISPATCHED", "ACCEPTED", "RUNNING", "UNKNOWN"}
      /\ DOMAIN OperationFollows = {"CREATED", "DISPATCHED", "ACCEPTED", "RUNNING", "UNKNOWN", "RECONCILING"}
  BY DEF CommandFollows, OperationFollows
<1>5. "NONE" \notin CommandStatus /\ "NONE" \notin OperationStatus
  BY <1>4 DEF CommandStatus, OperationStatus, CommandTerminal, OperationTerminal
<1>6. \A copy \in CommandCopy \cup OperationCopy : copy.status = "READ"
  BY DEF CommandCopy, OperationCopy
<1>7. \A row \in CommandRow : DOMAIN row = {"status", "key", "content", "count", "carries"}
  BY DEF CommandRow
<1>8. \A row \in OperationRow : DOMAIN row = {"status", "stamp"}
  BY DEF OperationRow
<1> QED  BY <1>1, <1>2, <1>3, <1>5, <1>6, <1>7, <1>8

\* What is terminal in a table leads nowhere.
LEMMA TerminalStays ==
    /\ \A old \in CommandTerminal : \A new : CommandTransition(old, new) => new = old
    /\ \A old \in OperationTerminal : \A new : OperationTransition(old, new) => new = old
<1>1. DOMAIN CommandFollows = {"CREATED", "QUEUED", "DISPATCHED", "ACCEPTED", "RUNNING", "UNKNOWN"}
      /\ DOMAIN OperationFollows = {"CREATED", "DISPATCHED", "ACCEPTED", "RUNNING", "UNKNOWN", "RECONCILING"}
  BY DEF CommandFollows, OperationFollows
<1> QED  BY <1>1 DEF CommandTransition, OperationTransition, CommandTerminal, OperationTerminal

LEMMA CopyKinds ==
    ASSUME StoreInv, NEW w \in Writer
    PROVE  /\ HoldsCommand(w) => copies[w] \in CommandCopy
           /\ HoldsOperation(w) => copies[w] \in OperationCopy
<1>1. copies[w] \in {NoRecord} \cup CommandCopy \cup OperationCopy
  BY DEF StoreInv, StoreRows
<1>2. ASSUME copies[w] \in OperationCopy PROVE copies[w].row \in OperationRow
  BY <1>2 DEF OperationCopy
<1>3. ASSUME copies[w] \in CommandCopy PROVE copies[w].row \in CommandRow
  BY <1>3 DEF CommandCopy
<1> QED  BY <1>1, <1>2, <1>3, RecordShapes DEF HoldsCommand, HoldsOperation

LEMMA StoreInvInit == StoreInit => StoreInv
<1> SUFFICES ASSUME StoreInit PROVE StoreInv
  OBVIOUS
<1>1. StoreRows
  BY FS_EmptySet DEF StoreInit, StoreRows
<1>2. CopiesBehind
  BY RecordShapes DEF StoreInit, CopiesBehind
<1>3. RowsMatch
  BY DEF StoreInit, RowsMatch
<1>4. AttemptsCounted
  BY DEF StoreInit, AttemptsCounted, AttemptsOf
<1> QED  BY <1>1, <1>2, <1>3, <1>4 DEF StoreInv

\* Rows that no command's attempts changed are counted as before.
LEMMA SameAttempts ==
    ASSUME AttemptsCounted, attemptRows' = attemptRows,
           \A c \in CommandId : /\ commandRows'[c] = NoRecord <=> commandRows[c] = NoRecord
                                /\ commandRows[c] # NoRecord => commandRows'[c].count = commandRows[c].count
    PROVE  AttemptsCounted'
<1>1. \A c \in CommandId : AttemptsOf(c)' = AttemptsOf(c)
  BY DEF AttemptsOf
<1> QED  BY <1>1 DEF AttemptsCounted

LEMMA BundleKeeps ==
    ASSUME StoreInv, NEW w \in Writer, NEW id \in CommandId, NEW key \in RequestKey,
           NEW content \in Content, NEW carries \in BOOLEAN, CreateBundle(w, id, key, content, carries)
    PROVE  StoreInv'
<1> USE DEF StoreInv
<1>1. CASE \E c \in Colliding(id, key) : /\ copies' = [copies EXCEPT ![w] = Copy(c, commandRows)]
                                        /\ UNCHANGED <<commandRows, operationRows, attemptRows>>
  <2>1. PICK c \in CommandId : /\ copies' = [copies EXCEPT ![w] = Copy(c, commandRows)]
                               /\ UNCHANGED <<commandRows, operationRows, attemptRows>>
                               /\ commandRows[c] # NoRecord
    BY <1>1 DEF Colliding
  <2>2. commandRows[c] \in CommandRow
    BY <2>1 DEF StoreRows
  <2>3. PICK copy \in CommandCopy : copy = Copy(c, commandRows) /\ copy.id = c /\ copy.row = commandRows[c]
    <3>1. Copy(c, commandRows) \in CommandCopy
      BY <2>2 DEF CommandCopy, Copy
    <3>2. Copy(c, commandRows).id = c /\ Copy(c, commandRows).row = commandRows[c]
      BY DEF Copy
    <3> QED  BY <3>1, <3>2
  <2>4. copy \notin OperationCopy
    BY <2>2, <2>3, RecordShapes DEF OperationCopy
  <2>5. StoreRows'
    BY <2>1, <2>3 DEF StoreRows
  <2>6. CopiesBehind'
    BY <2>1, <2>3, <2>4 DEF CopiesBehind, StoreRows
  <2>7. RowsMatch' /\ AttemptsCounted'
    BY <2>1, SameAttempts DEF RowsMatch
  <2> QED  BY <2>5, <2>6, <2>7
<1>2. CASE /\ Colliding(id, key) = {}
           /\ commandRows' = [commandRows EXCEPT ![id] =
                [status |-> "CREATED", key |-> key, content |-> content,
                 count |-> 0, carries |-> carries]]
           /\ operationRows' = [operationRows EXCEPT ![id] =
                IF carries THEN [status |-> "CREATED", stamp |-> 0] ELSE NoRecord]
           /\ copies' = [copies EXCEPT ![w] = Copy(id, commandRows')]
           /\ UNCHANGED attemptRows
  <2>1. PICK new \in CommandRow :
            /\ new = [status |-> "CREATED", key |-> key, content |-> content, count |-> 0, carries |-> carries]
            /\ new.key = key /\ new.count = 0 /\ new.carries = carries
    <3>1. "CREATED" \in CommandStatus /\ 0 \in 0..MaxCount
      BY StoreAssumption DEF CommandStatus, CommandFollows
    <3> DEFINE made == [status |-> "CREATED", key |-> key, content |-> content,
                        count |-> 0, carries |-> carries]
    <3>2. made \in CommandRow
      BY <3>1 DEF CommandRow
    <3>3. made.key = key /\ made.count = 0 /\ made.carries = carries
      OBVIOUS
    <3> HIDE DEF made
    <3>4. \E new \in CommandRow : new = made /\ new.key = key /\ new.count = 0 /\ new.carries = carries
      BY <3>2, <3>3
    <3> QED  BY <3>4 DEF made
  <2>2. PICK op \in {NoRecord} \cup OperationRow :
            /\ op = IF carries THEN [status |-> "CREATED", stamp |-> 0] ELSE NoRecord
            /\ (op # NoRecord) <=> carries
    <3>1. "CREATED" \in OperationStatus /\ 0 \in 0..MaxStamp
      BY StoreAssumption DEF OperationStatus, OperationFollows
    <3>2. [status |-> "CREATED", stamp |-> 0] \in OperationRow
      BY <3>1 DEF OperationRow
    <3> QED  BY <3>2, RecordShapes
  <2>3. /\ commandRows' = [commandRows EXCEPT ![id] = new]
        /\ operationRows' = [operationRows EXCEPT ![id] = op]
        /\ new # NoRecord
    BY <1>2, <2>1, <2>2, RecordShapes
  <2>4. /\ commandRows[id] = NoRecord
        /\ \A c \in CommandId : commandRows[c] # NoRecord => commandRows[c].key # key
    BY <1>2 DEF Colliding
  <2>5. PICK copy \in CommandCopy : copy = Copy(id, commandRows') /\ copy.id = id /\ copy.row = new
    <3>1. commandRows'[id] = new
      BY <2>3 DEF StoreRows
    <3>2. Copy(id, commandRows') \in CommandCopy
      BY <3>1 DEF CommandCopy, Copy
    <3>3. Copy(id, commandRows').id = id /\ Copy(id, commandRows').row = commandRows'[id]
      BY DEF Copy
    <3> QED  BY <3>1, <3>2, <3>3
  <2>6. copy \notin OperationCopy
    BY <2>1, <2>5, RecordShapes DEF OperationCopy
  <2>7. copies' = [copies EXCEPT ![w] = copy]
    BY <1>2, <2>5
  <2>8. StoreRows'
    BY <1>2, <2>2, <2>3, <2>7 DEF StoreRows
  <2>9. operationRows[id] = NoRecord
    BY <2>4 DEF RowsMatch
  <2>10. CopiesBehind'
    <3>1. ASSUME NEW v \in Writer, v # w
          PROVE  /\ copies'[v] = copies[v]
                 /\ copies[v] \in CommandCopy \cup OperationCopy => copies[v].id \in CommandId \ {id}
      <4>1. copies[v] \in CommandCopy \cup OperationCopy => copies[v].id \in CommandId
        BY DEF CommandCopy, OperationCopy
      <4> QED  BY <2>4, <2>7, <2>9, <3>1, <4>1 DEF StoreRows, CopiesBehind
    <3>2. ASSUME NEW c \in CommandId \ {id}
          PROVE  commandRows'[c] = commandRows[c] /\ operationRows'[c] = operationRows[c]
      BY <2>3 DEF StoreRows
    <3>3. copies'[w] = copy /\ commandRows'[id] = new
      BY <2>3, <2>7 DEF StoreRows
    <3> QED  BY <2>3, <2>5, <2>6, <3>1, <3>2, <3>3 DEF CopiesBehind
  <2>11. RowsMatch'
    BY <2>1, <2>2, <2>3, <2>4 DEF RowsMatch, StoreRows
  <2>12. AttemptsCounted'
    <3>1. \A c \in CommandId : AttemptsOf(c)' = AttemptsOf(c)
      BY <1>2 DEF AttemptsOf
    <3>2. AttemptsOf(id) = {} /\ commandRows'[id] = new
      BY <2>3, <2>4 DEF AttemptsCounted, StoreRows
    <3>3. {a.number : a \in AttemptsOf(id)} = 1..0 /\ Cardinality(AttemptsOf(id)) = 0
      BY <3>2, FS_EmptySet
    <3>4. \A c \in CommandId \ {id} : commandRows'[c] = commandRows[c]
      BY <2>3 DEF StoreRows
    <3>5. attemptRows' = attemptRows
      BY <1>2
    <3> QED  BY <2>1, <2>3, <3>1, <3>2, <3>3, <3>4, <3>5 DEF AttemptsCounted
  <2> QED  BY <2>8, <2>10, <2>11, <2>12
<1> QED  BY <1>1, <1>2 DEF CreateBundle

LEMMA ReadKeeps ==
    ASSUME StoreInv, NEW w \in Writer, NEW c \in CommandId, ReadRows(w, c)
    PROVE  StoreInv'
<1> USE DEF StoreInv
<1>1. UNCHANGED <<commandRows, operationRows, attemptRows>>
  BY DEF ReadRows
<1>2. PICK copy \in CommandCopy \cup OperationCopy :
          /\ copies' = [copies EXCEPT ![w] = copy]
          /\ copy.id = c
          /\ copy \in CommandCopy => commandRows[c] # NoRecord /\ copy.row = commandRows[c]
          /\ copy \in OperationCopy => operationRows[c] # NoRecord
  <2>1. PICK rows \in {commandRows, operationRows} :
            rows[c] # NoRecord /\ copies' = [copies EXCEPT ![w] = Copy(c, rows)]
    BY DEF ReadRows
  <2>2. Copy(c, rows).id = c /\ Copy(c, rows).row = rows[c]
    BY DEF Copy
  <2>3. CASE rows = commandRows
    <3>1. rows[c] \in CommandRow
      BY <2>1, <2>3 DEF StoreRows
    <3>2. Copy(c, rows) \in CommandCopy
      BY <3>1 DEF CommandCopy, Copy
    <3>3. Copy(c, rows) \notin OperationCopy
      BY <2>2, <3>1, RecordShapes DEF OperationCopy
    <3> QED  BY <2>1, <2>2, <2>3, <3>2, <3>3
  <2>4. CASE rows = operationRows
    <3>1. rows[c] \in OperationRow
      BY <2>1, <2>4 DEF StoreRows
    <3>2. Copy(c, rows) \in OperationCopy
      BY <3>1 DEF OperationCopy, Copy
    <3>3. Copy(c, rows) \notin CommandCopy
      BY <2>2, <3>1, RecordShapes DEF CommandCopy
    <3> QED  BY <2>1, <2>2, <2>4, <3>2, <3>3
  <2> QED  BY <2>1, <2>3, <2>4
<1>3. StoreRows'
  BY <1>1, <1>2 DEF StoreRows
<1>4. CopiesBehind'
  BY <1>1, <1>2 DEF CopiesBehind, StoreRows
<1>5. RowsMatch' /\ AttemptsCounted'
  BY <1>1, SameAttempts DEF RowsMatch
<1> QED  BY <1>3, <1>4, <1>5

\* Dropping a copy leaves the other copies behind their rows.
LEMMA OneRowRewritten ==
    ASSUME StoreInv, NEW w \in Writer, copies' = [copies EXCEPT ![w] = NoRecord],
           \A c \in CommandId :
               /\ commandRows[c] # NoRecord =>
                     /\ commandRows'[c] # NoRecord /\ commandRows'[c].key = commandRows[c].key
                     /\ commandRows'[c].content = commandRows[c].content
                     /\ commandRows'[c].carries = commandRows[c].carries
               /\ operationRows[c] # NoRecord => operationRows'[c] # NoRecord
    PROVE  CopiesBehind'
<1>1. \A v \in Writer : copies[v] \in CommandCopy \cup OperationCopy => copies[v].id \in CommandId
  BY DEF CommandCopy, OperationCopy
<1>2. NoRecord \notin CommandCopy \cup OperationCopy
  BY RecordShapes
<1>3. \A v \in Writer : copies'[v] = copies[v] \/ copies'[v] = NoRecord
  BY DEF StoreInv, StoreRows
<1> QED  BY <1>1, <1>2, <1>3 DEF StoreInv, CopiesBehind

\* A write of a copy that is still current changes the status and nothing else.
LEMMA CommandWritten ==
    ASSUME StoreInv, NEW w \in Writer, NEW standing \in CommandStatus, UpdateCommand(w, standing)
    PROVE  /\ copies[w] \in CommandCopy
           /\ \E old \in CommandRow, new \in CommandRow :
                 /\ commandRows[copies[w].id] = old
                 /\ commandRows' = [commandRows EXCEPT ![copies[w].id] = new]
                 /\ new.key = old.key /\ new.content = old.content /\ new.count = old.count
                 /\ new.carries = old.carries /\ CommandTransition(old.status, new.status)
<1>1. copies[w] \in CommandCopy
  BY CopyKinds DEF UpdateCommand
<1>2. PICK c \in CommandId : c = copies[w].id
  BY <1>1 DEF CommandCopy
<1>3. PICK read \in CommandRow : read = copies[w].row
  BY <1>1 DEF CommandCopy
<1>4. PICK old \in CommandRow : old = commandRows[c]
  BY <1>1, <1>2 DEF StoreInv, CopiesBehind, StoreRows
<1>5. /\ old.status = read.status /\ old.count = read.count /\ old.key = read.key
      /\ old.content = read.content /\ old.carries = read.carries
  BY <1>1, <1>2, <1>3, <1>4 DEF UpdateCommand, CommandCurrent, StoreInv, CopiesBehind
<1> DEFINE new == [read EXCEPT !.status = standing]
<1>6. /\ new \in CommandRow /\ new.status = standing /\ new.key = read.key /\ new.content = read.content
      /\ new.count = read.count /\ new.carries = read.carries
  BY DEF CommandRow
<1>7. commandRows' = [commandRows EXCEPT ![c] = new]
  BY <1>2, <1>3 DEF UpdateCommand
<1>8. CommandTransition(old.status, standing)
  BY <1>3, <1>5 DEF UpdateCommand
<1> HIDE DEF new
<1>9. \E anew \in CommandRow :
          /\ commandRows' = [commandRows EXCEPT ![c] = anew]
          /\ anew.key = old.key /\ anew.content = old.content /\ anew.count = old.count
          /\ anew.carries = old.carries /\ CommandTransition(old.status, anew.status)
  BY <1>5, <1>6, <1>7, <1>8
<1> QED  BY <1>1, <1>2, <1>4, <1>9

LEMMA UpdateCommandKeeps ==
    ASSUME StoreInv, NEW w \in Writer, NEW standing \in CommandStatus, UpdateCommand(w, standing)
    PROVE  StoreInv'
<1> USE DEF StoreInv
<1>1. PICK c \in CommandId : c = copies[w].id
  BY CommandWritten DEF CommandCopy
<1>2. PICK old \in CommandRow, new \in CommandRow :
                 /\ commandRows[c] = old
                 /\ commandRows' = [commandRows EXCEPT ![c] = new]
                 /\ new.key = old.key /\ new.content = old.content /\ new.count = old.count
                 /\ new.carries = old.carries /\ CommandTransition(old.status, new.status)
  BY <1>1, CommandWritten
<1>3. /\ commandRows'[c] = new /\ old # NoRecord /\ new # NoRecord
      /\ \A d \in CommandId \ {c} : commandRows'[d] = commandRows[d]
  BY <1>2, RecordShapes DEF StoreRows
<1>4. /\ UNCHANGED <<operationRows, attemptRows>> /\ copies' = [copies EXCEPT ![w] = NoRecord]
  BY DEF UpdateCommand
<1>5. StoreRows'
  BY <1>2, <1>4 DEF StoreRows
<1>6. CopiesBehind'
  BY <1>2, <1>3, <1>4, OneRowRewritten
<1>7. RowsMatch'
  BY <1>2, <1>3, <1>4 DEF RowsMatch
<1>8. AttemptsCounted'
  BY <1>2, <1>3, <1>4, SameAttempts
<1> QED  BY <1>5, <1>6, <1>7, <1>8

LEMMA UpdateOperationKeeps ==
    ASSUME StoreInv, NEW w \in Writer, NEW standing \in OperationStatus, NEW stamp \in 0..MaxStamp,
           UpdateOperation(w, standing, stamp)
    PROVE  StoreInv'
<1> USE DEF StoreInv
<1>1. copies[w] \in OperationCopy
  BY CopyKinds DEF UpdateOperation
<1>2. PICK c \in CommandId : c = copies[w].id
  BY <1>1 DEF OperationCopy
<1>3. PICK new \in OperationRow : new = [status |-> standing, stamp |-> stamp]
  BY DEF OperationRow
<1>4. operationRows' = [operationRows EXCEPT ![c] = new] /\ new # NoRecord /\ operationRows[c] # NoRecord
  BY <1>1, <1>2, <1>3, RecordShapes DEF UpdateOperation, CopiesBehind
<1>5. /\ UNCHANGED <<commandRows, attemptRows>> /\ copies' = [copies EXCEPT ![w] = NoRecord]
  BY DEF UpdateOperation
<1>6. StoreRows'
  BY <1>4, <1>5 DEF StoreRows
<1>7. \A d \in CommandId : operationRows'[d] # NoRecord <=> operationRows[d] # NoRecord
  BY <1>4 DEF StoreRows
<1>8. CopiesBehind'
  BY <1>5, <1>7, OneRowRewritten
<1>9. RowsMatch'
  BY <1>5, <1>7 DEF RowsMatch
<1>10. AttemptsCounted'
  BY <1>5, SameAttempts
<1> QED  BY <1>6, <1>8, <1>9, <1>10

LEMMA AddAttemptKeeps ==
    ASSUME StoreInv, NEW w \in Writer, AddAttempt(w)
    PROVE  StoreInv'
<1> USE DEF StoreInv
<1>1. copies[w] \in CommandCopy
  BY CopyKinds DEF AddAttempt
<1>2. PICK c \in CommandId : c = copies[w].id
  BY <1>1 DEF CommandCopy
<1>3. PICK old \in CommandRow : old = commandRows[c] /\ old # NoRecord
  BY <1>1, <1>2 DEF CopiesBehind, StoreRows
<1>4. PICK n \in Nat : n = old.count /\ n = copies[w].row.count /\ n + 1 \in 1..MaxCount
  <2>1. old.count \in 0..MaxCount /\ old.count = copies[w].row.count /\ old.count < MaxCount
    BY <1>2, <1>3 DEF AddAttempt, AttemptFollows, CommandRow
  <2>2. old.count + 1 \in 1..MaxCount
    BY <2>1, StoreAssumption
  <2> QED  BY <2>1, <2>2
<1> DEFINE new == [old EXCEPT !.count = n + 1]
<1>5. /\ new \in CommandRow /\ new.key = old.key /\ new.content = old.content /\ new.count = n + 1
      /\ new.carries = old.carries
  BY <1>4 DEF CommandRow
<1>6. commandRows' = [commandRows EXCEPT ![c] = new]
  BY <1>2, <1>3, <1>4 DEF AddAttempt
<1> HIDE DEF new
<1>7. PICK added \in AttemptRow : /\ added = [id |-> c, number |-> n + 1, end |-> "OPEN"]
                                  /\ added.id = c /\ added.number = n + 1
  <2> DEFINE row == [id |-> c, number |-> n + 1, end |-> "OPEN"]
  <2>1. row \in AttemptRow
    BY <1>4 DEF AttemptRow
  <2>2. row.id = c /\ row.number = n + 1
    OBVIOUS
  <2> HIDE DEF row
  <2>3. \E added \in AttemptRow : added = row /\ added.id = c /\ added.number = n + 1
    BY <2>1, <2>2
  <2> QED  BY <2>3 DEF row
<1>8. /\ attemptRows' = attemptRows \cup {added} /\ operationRows' = operationRows
      /\ copies' = [copies EXCEPT ![w] = NoRecord]
  BY <1>2, <1>4, <1>7 DEF AddAttempt
<1>9. /\ commandRows'[c] = new /\ new # NoRecord
      /\ \A d \in CommandId \ {c} : commandRows'[d] = commandRows[d]
  BY <1>5, <1>6, RecordShapes DEF StoreRows
<1>10. IsFiniteSet(attemptRows')
  BY <1>8, FS_AddElement DEF StoreRows
<1>11. StoreRows'
  BY <1>5, <1>6, <1>7, <1>8, <1>10 DEF StoreRows
<1>12. CopiesBehind'
  BY <1>3, <1>5, <1>8, <1>9, OneRowRewritten
<1>13. RowsMatch'
  BY <1>3, <1>5, <1>8, <1>9 DEF RowsMatch
<1>14. AttemptsCounted'
  <2>1. \A a \in AttemptsOf(c) : a.number \in 1..n
    BY <1>3, <1>4 DEF AttemptsCounted
  <2>2. added \notin AttemptsOf(c) /\ \A a \in attemptRows : a.id = c => a.number # n + 1
    <3>1. \A a \in AttemptsOf(c) : a.number # n + 1
      BY <2>1
    <3> QED  BY <1>7, <3>1 DEF AttemptsOf
  <2>3. AttemptsOf(c)' = AttemptsOf(c) \cup {added}
    BY <1>7, <1>8 DEF AttemptsOf
  <2>4. \A d \in CommandId \ {c} : AttemptsOf(d)' = AttemptsOf(d)
    BY <1>7, <1>8 DEF AttemptsOf
  <2>5. IsFiniteSet(AttemptsOf(c))
    BY FS_Subset DEF AttemptsOf, StoreRows
  <2>6. Cardinality(AttemptsOf(c)) = n
    BY <1>3, <1>4 DEF AttemptsCounted
  <2>7. Cardinality(AttemptsOf(c)') = n + 1
    BY <2>2, <2>3, <2>5, <2>6, FS_AddElement
  <2>8. {a.number : a \in AttemptsOf(c)'} = 1..n + 1
    <3>1. {a.number : a \in AttemptsOf(c)} = 1..n
      BY <1>3, <1>4 DEF AttemptsCounted
    <3>2. {a.number : a \in AttemptsOf(c)'} = {a.number : a \in AttemptsOf(c)} \cup {n + 1}
      BY <1>7, <2>3
    <3>3. (1..n) \cup {n + 1} = 1..n + 1
      BY <1>4
    <3> QED  BY <3>1, <3>2, <3>3
  <2>9. \A a, b \in attemptRows' : a.id = b.id /\ a.number = b.number => a = b
    BY <1>7, <1>8, <2>2 DEF AttemptsCounted
  <2>10. ASSUME NEW d \in CommandId
         PROVE  /\ commandRows'[d] = NoRecord => AttemptsOf(d)' = {}
                /\ commandRows'[d] # NoRecord =>
                      /\ {a.number : a \in AttemptsOf(d)'} = 1..commandRows'[d].count
                      /\ Cardinality(AttemptsOf(d)') = commandRows'[d].count
    <3>1. CASE d = c
      BY <1>5, <1>9, <2>7, <2>8, <3>1
    <3>2. CASE d # c
      BY <1>9, <2>4, <3>2 DEF AttemptsCounted
    <3> QED  BY <3>1, <3>2
  <2> QED  BY <2>9, <2>10 DEF AttemptsCounted
<1> QED  BY <1>11, <1>12, <1>13, <1>14

LEMMA FinishAttemptKeeps ==
    ASSUME StoreInv, NEW c \in CommandId, NEW end \in {"ACKNOWLEDGED", "FAILED"}, FinishAttempt(c, end)
    PROVE  StoreInv'
<1> USE DEF StoreInv
<1>1. PICK a \in AttemptRow : /\ a \in attemptRows /\ a.id = c /\ a.end = "OPEN"
                              /\ attemptRows' = (attemptRows \ {a}) \cup {[a EXCEPT !.end = end]}
  BY DEF FinishAttempt, LatestAttempt, AttemptsOf, StoreRows
<1> DEFINE new == [a EXCEPT !.end = end]
<1>2. new \in AttemptRow /\ new.id = c /\ new.number = a.number /\ new.end = end
  BY <1>1 DEF AttemptRow
<1>3. attemptRows' = (attemptRows \ {a}) \cup {new}
  BY <1>1
<1> HIDE DEF new
<1>4. UNCHANGED <<commandRows, operationRows, copies>>
  BY DEF FinishAttempt
<1>5. new \notin attemptRows
  BY <1>1, <1>2 DEF AttemptsCounted
<1>6. IsFiniteSet(attemptRows')
  <2>1. IsFiniteSet(attemptRows \ {a})
    BY FS_RemoveElement DEF StoreRows
  <2> QED  BY <1>3, <2>1, FS_AddElement
<1>7. StoreRows'
  BY <1>2, <1>3, <1>4, <1>6 DEF StoreRows
<1>8. CopiesBehind' /\ RowsMatch'
  BY <1>4 DEF CopiesBehind, RowsMatch
<1>9. AttemptsCounted'
  <2>1. AttemptsOf(c)' = (AttemptsOf(c) \ {a}) \cup {new}
    BY <1>1, <1>2, <1>3 DEF AttemptsOf
  <2>2. \A d \in CommandId \ {c} : AttemptsOf(d)' = AttemptsOf(d)
    BY <1>1, <1>2, <1>3 DEF AttemptsOf
  <2>3. IsFiniteSet(AttemptsOf(c)) /\ a \in AttemptsOf(c) /\ new \notin AttemptsOf(c)
    BY <1>1, <1>5, FS_Subset DEF AttemptsOf, StoreRows
  <2>4. IsFiniteSet(AttemptsOf(c) \ {a}) /\ Cardinality(AttemptsOf(c) \ {a}) = Cardinality(AttemptsOf(c)) - 1
    BY <2>3, FS_RemoveElement
  <2>5. Cardinality(AttemptsOf(c)') = Cardinality(AttemptsOf(c) \ {a}) + 1
    BY <2>1, <2>3, <2>4, FS_AddElement
  <2>6. Cardinality(AttemptsOf(c)) \in Nat
    BY <2>3, FS_CardinalityType
  <2>7. Cardinality(AttemptsOf(c)') = Cardinality(AttemptsOf(c))
    BY <2>4, <2>5, <2>6
  <2>8. {b.number : b \in AttemptsOf(c)'} = {b.number : b \in AttemptsOf(c)}
    BY <1>2, <2>1, <2>3
  <2>9. \A b, d \in attemptRows' : b.id = d.id /\ b.number = d.number => b = d
    BY <1>1, <1>2, <1>3 DEF AttemptsCounted
  <2>10. c \in CommandId /\ AttemptsOf(c)' # {}
    BY <2>1
  <2>11. commandRows[c] # NoRecord
    BY <2>3 DEF AttemptsCounted
  <2> QED  BY <1>4, <2>2, <2>7, <2>8, <2>9, <2>11 DEF AttemptsCounted
<1> QED  BY <1>7, <1>8, <1>9

LEMMA StoreInvNext == StoreInv /\ [StoreNext]_storeVars => StoreInv'
<1> SUFFICES ASSUME StoreInv, [StoreNext]_storeVars PROVE StoreInv'
  OBVIOUS
<1>1. CASE UNCHANGED storeVars
  <2>1. UNCHANGED <<commandRows, operationRows, attemptRows, copies>>
    BY <1>1 DEF storeVars
  <2> QED
    BY <2>1, SameAttempts DEF StoreInv, StoreRows, CopiesBehind, RowsMatch
<1> QED
  BY <1>1, BundleKeeps, ReadKeeps, UpdateCommandKeeps, UpdateOperationKeeps, AddAttemptKeeps,
     FinishAttemptKeeps DEF StoreNext

LEMMA StoreInvAlways == StoreSpec => []StoreInv
  BY StoreInvInit, StoreInvNext, PTL DEF StoreSpec

\* One command for an idempotency key, an operation for each command that carries
\* one, and attempts numbered without gap or repetition, whatever stale copies the
\* writers hold (distributed_adapters.create_bundle, distributed.add_attempt).
THEOREM StoreConsistentAlways == StoreSpec => []StoreConsistent
<1>1. StoreInv => StoreConsistent
  BY DEF StoreInv, RowsMatch, AttemptsCounted, StoreConsistent
<1> QED  BY <1>1, StoreInvAlways, PTL

\* What no step does to a settled row, whatever copy it writes.
CommandSettled ==
    \A c \in CommandId :
        commandRows[c] # NoRecord =>
          /\ commandRows[c].status \in CommandTerminal =>
               commandRows'[c].status = commandRows[c].status
          /\ commandRows'[c].content = commandRows[c].content
          /\ commandRows'[c].count >= commandRows[c].count

OperationSettled ==
    /\ \A c \in CommandId :
         operationRows[c].status \in OperationTerminal =>
           operationRows'[c].status = operationRows[c].status
    /\ \A c \in CommandId :
         operationRows[c] # NoRecord /\ operationRows'[c].stamp # 0 =>
           operationRows'[c].stamp >= operationRows[c].stamp

AttemptSettled == \A a \in attemptRows : a.end # "OPEN" => a \in attemptRows'

LEMMA CommandsStay ==
    ASSUME StoreInv, commandRows' = commandRows PROVE CommandSettled
<1>1. \A c \in CommandId : commandRows[c] # NoRecord => commandRows[c].count \in Nat
  BY DEF StoreInv, StoreRows, CommandRow
<1> QED  BY <1>1 DEF CommandSettled

LEMMA OneCommandChanges ==
    ASSUME StoreInv, NEW c \in CommandId, NEW new \in CommandRow,
           commandRows' = [commandRows EXCEPT ![c] = new],
           commandRows[c] # NoRecord =>
               /\ commandRows[c].status \in CommandTerminal => new.status = commandRows[c].status
               /\ new.content = commandRows[c].content /\ new.count >= commandRows[c].count
    PROVE  CommandSettled
<1>1. \A d \in CommandId : commandRows[d] # NoRecord => commandRows[d].count \in Nat
  BY DEF StoreInv, StoreRows, CommandRow
<1> QED  BY <1>1 DEF CommandSettled, StoreInv, StoreRows

LEMMA OperationsStay ==
    ASSUME StoreInv, operationRows' = operationRows PROVE OperationSettled
<1>1. \A c \in CommandId : operationRows[c] # NoRecord => operationRows[c].stamp \in Nat
  BY DEF StoreInv, StoreRows, OperationRow
<1> QED  BY <1>1 DEF OperationSettled

LEMMA OneOperationChanges ==
    ASSUME StoreInv, NEW c \in CommandId, NEW new,
           operationRows' = [operationRows EXCEPT ![c] = new],
           \/ operationRows[c] = NoRecord
           \/ /\ operationRows[c].status \in OperationTerminal => new.status = operationRows[c].status
              /\ new.stamp # 0 => new.stamp >= operationRows[c].stamp
    PROVE  OperationSettled
<1>1. \A d \in CommandId : operationRows[d] # NoRecord => operationRows[d].stamp \in Nat
  BY DEF StoreInv, StoreRows, OperationRow
<1>2. NoRecord.status \notin OperationTerminal
  BY DEF NoRecord, OperationTerminal
<1> QED  BY <1>1, <1>2 DEF OperationSettled, StoreInv, StoreRows

SettledStep == CommandSettled /\ OperationSettled /\ AttemptSettled

LEMMA BundleSettles ==
    ASSUME StoreInv, NEW w \in Writer, NEW id \in CommandId, NEW key \in RequestKey,
           NEW content \in Content, NEW carries \in BOOLEAN, CreateBundle(w, id, key, content, carries)
    PROVE  SettledStep
<1>0. attemptRows' = attemptRows
  BY DEF CreateBundle
<1>1. CASE UNCHANGED <<commandRows, operationRows>>
  BY <1>0, <1>1, CommandsStay, OperationsStay DEF SettledStep, AttemptSettled
<1>2. CASE ~UNCHANGED <<commandRows, operationRows>>
  <2>1. /\ commandRows' = [commandRows EXCEPT ![id] =
                [status |-> "CREATED", key |-> key, content |-> content,
                 count |-> 0, carries |-> carries]]
        /\ operationRows' = [operationRows EXCEPT ![id] =
                IF carries THEN [status |-> "CREATED", stamp |-> 0] ELSE NoRecord]
        /\ commandRows[id] = NoRecord
    BY <1>2 DEF CreateBundle, Colliding
  <2>2. PICK new \in CommandRow : commandRows' = [commandRows EXCEPT ![id] = new]
    <3>1. "CREATED" \in CommandStatus /\ 0 \in 0..MaxCount
      BY StoreAssumption DEF CommandStatus, CommandFollows
    <3>2. [status |-> "CREATED", key |-> key, content |-> content,
           count |-> 0, carries |-> carries] \in CommandRow
      BY <3>1 DEF CommandRow
    <3> QED  BY <2>1, <3>2
  <2>3. operationRows[id] = NoRecord
    BY <2>1 DEF StoreInv, RowsMatch
  <2>4. CommandSettled
    BY <2>1, <2>2, OneCommandChanges
  <2>5. OperationSettled
    BY <2>1, <2>3, OneOperationChanges
  <2> QED  BY <1>0, <2>4, <2>5 DEF SettledStep, AttemptSettled
<1> QED  BY <1>1, <1>2

LEMMA UpdateCommandSettles ==
    ASSUME StoreInv, NEW w \in Writer, NEW standing \in CommandStatus, UpdateCommand(w, standing)
    PROVE  SettledStep
<1>1. PICK c \in CommandId : c = copies[w].id
  BY CommandWritten DEF CommandCopy
<1>2. PICK old \in CommandRow, new \in CommandRow :
                 /\ commandRows[c] = old
                 /\ commandRows' = [commandRows EXCEPT ![c] = new]
                 /\ new.key = old.key /\ new.content = old.content /\ new.count = old.count
                 /\ new.carries = old.carries /\ CommandTransition(old.status, new.status)
  BY <1>1, CommandWritten
<1>3. old.count \in Nat /\ (old.status \in CommandTerminal => new.status = old.status)
  BY <1>2, TerminalStays DEF CommandRow
<1>4. CommandSettled
  <2>1. /\ commandRows[c].status \in CommandTerminal => new.status = commandRows[c].status
        /\ new.content = commandRows[c].content
    BY <1>2, <1>3
  <2>2. new.count >= commandRows[c].count
    BY <1>2, <1>3
  <2>3. commandRows' = [commandRows EXCEPT ![c] = new]
    BY <1>2
  <2> QED  BY <2>1, <2>2, <2>3, OneCommandChanges
<1>5. operationRows' = operationRows /\ attemptRows' = attemptRows
  BY DEF UpdateCommand
<1> QED  BY <1>4, <1>5, OperationsStay DEF SettledStep, AttemptSettled

LEMMA UpdateOperationSettles ==
    ASSUME StoreInv, NEW w \in Writer, NEW standing \in OperationStatus, NEW stamp \in 0..MaxStamp,
           UpdateOperation(w, standing, stamp)
    PROVE  SettledStep
<1>1. copies[w] \in OperationCopy
  BY CopyKinds DEF UpdateOperation
<1>2. PICK c \in CommandId : c = copies[w].id
  BY <1>1 DEF OperationCopy
<1>3. PICK old \in OperationRow : old = operationRows[c]
  BY <1>1, <1>2 DEF StoreInv, StoreRows, CopiesBehind
<1>4. /\ old.status = copies[w].row.status /\ (old.stamp # 0 /\ stamp # 0 => stamp >= old.stamp)
      /\ OperationTransition(old.status, standing)
  BY <1>2, <1>3 DEF UpdateOperation, OperationCurrent
<1>5. stamp \in Nat /\ old.stamp \in Nat
  BY <1>3 DEF OperationRow
<1>6. stamp # 0 => stamp >= old.stamp
  BY <1>4, <1>5
<1>7. PICK new : new = [status |-> standing, stamp |-> stamp] /\ new.status = standing /\ new.stamp = stamp
  <2> DEFINE made == [status |-> standing, stamp |-> stamp]
  <2>1. made.status = standing /\ made.stamp = stamp
    OBVIOUS
  <2> HIDE DEF made
  <2>2. \E new : new = made /\ new.status = standing /\ new.stamp = stamp
    BY <2>1
  <2> QED  BY <2>2 DEF made
<1>8. operationRows' = [operationRows EXCEPT ![c] = new]
  BY <1>2, <1>7 DEF UpdateOperation
<1>9. OperationSettled
  BY <1>3, <1>4, <1>6, <1>7, <1>8, TerminalStays, OneOperationChanges
<1>10. commandRows' = commandRows /\ attemptRows' = attemptRows
  BY DEF UpdateOperation
<1> QED  BY <1>9, <1>10, CommandsStay DEF SettledStep, AttemptSettled

LEMMA AddAttemptSettles ==
    ASSUME StoreInv, NEW w \in Writer, AddAttempt(w)
    PROVE  SettledStep
<1>1. copies[w] \in CommandCopy
  BY CopyKinds DEF AddAttempt
<1>2. PICK c \in CommandId : c = copies[w].id
  BY <1>1 DEF CommandCopy
<1>3. PICK old \in CommandRow : old = commandRows[c] /\ old.count < MaxCount
  BY <1>1, <1>2 DEF StoreInv, CopiesBehind, StoreRows, AddAttempt, AttemptFollows
<1>4. old.count \in Nat /\ old.count + 1 \in 0..MaxCount /\ old.count + 1 >= old.count
  <2>1. old.count \in 0..MaxCount
    BY DEF CommandRow
  <2> QED  BY <1>3, <2>1, StoreAssumption
<1> DEFINE new == [old EXCEPT !.count = old.count + 1]
<1>5. /\ new \in CommandRow /\ new.content = old.content /\ new.count = old.count + 1
      /\ new.status = old.status
  BY <1>4 DEF CommandRow
<1>6. commandRows' = [commandRows EXCEPT ![c] = new]
  BY <1>2, <1>3 DEF AddAttempt
<1> HIDE DEF new
<1>7. CommandSettled
  BY <1>3, <1>4, <1>5, <1>6, OneCommandChanges
<1>8. operationRows' = operationRows /\ attemptRows \subseteq attemptRows'
  BY DEF AddAttempt
<1> QED  BY <1>7, <1>8, OperationsStay DEF SettledStep, AttemptSettled

LEMMA SettledAlways == StoreInv /\ [StoreNext]_storeVars => SettledStep
<1> SUFFICES ASSUME StoreInv, [StoreNext]_storeVars PROVE SettledStep
  OBVIOUS
<1>1. ASSUME UNCHANGED <<commandRows, operationRows, attemptRows>> PROVE SettledStep
  BY <1>1, CommandsStay, OperationsStay DEF SettledStep, AttemptSettled
<1>2. ASSUME NEW w \in Writer, NEW c \in CommandId, ReadRows(w, c) PROVE SettledStep
  BY <1>1, <1>2 DEF ReadRows
<1>3. ASSUME NEW c \in CommandId, NEW end \in {"ACKNOWLEDGED", "FAILED"}, FinishAttempt(c, end)
      PROVE  SettledStep
  <2>1. UNCHANGED <<commandRows, operationRows>>
    BY <1>3 DEF FinishAttempt
  <2>2. AttemptSettled
    BY <1>3 DEF FinishAttempt, AttemptSettled
  <2> QED  BY <2>1, <2>2, CommandsStay, OperationsStay DEF SettledStep
<1>4. CASE UNCHANGED storeVars
  BY <1>1, <1>4 DEF storeVars
<1> QED
  BY <1>2, <1>3, <1>4, BundleSettles, UpdateCommandSettles, UpdateOperationSettles, AddAttemptSettles
  DEF StoreNext

\* No write with a stale copy moves a command, an operation or an attempt that has
\* ended (the expected_status checks of distributed.update).
THEOREM SettledRowsStayAlways == StoreSpec => SettledRowsStay
<1> DEFINE AllSettled ==
       /\ \A c \in CommandId :
            commandRows[c] # NoRecord =>
              /\ commandRows[c].status \in CommandTerminal =>
                   commandRows'[c].status = commandRows[c].status
              /\ commandRows'[c].content = commandRows[c].content
              /\ commandRows'[c].count >= commandRows[c].count
       /\ \A c \in CommandId :
            operationRows[c].status \in OperationTerminal =>
              operationRows'[c].status = operationRows[c].status
       /\ \A c \in CommandId :
            operationRows[c] # NoRecord /\ operationRows'[c].stamp # 0 =>
              operationRows'[c].stamp >= operationRows[c].stamp
       /\ \A a \in attemptRows : a.end # "OPEN" => a \in attemptRows'
<1>1. SettledStep => AllSettled
  BY DEF SettledStep, CommandSettled, OperationSettled, AttemptSettled
<1>2. StoreInv /\ [StoreNext]_storeVars => [AllSettled]_storeVars
  BY <1>1, SettledAlways
<1> QED  BY <1>2, StoreInvAlways, PTL DEF StoreSpec, SettledRowsStay

LEMMA StoreTyped == StoreSpec => []StoreTypeOK
<1>1. StoreInv => StoreTypeOK
  BY DEF StoreInv, StoreRows, StoreTypeOK, CommandRow, OperationRow, AttemptRow, CommandCopy, OperationCopy
<1> QED  BY <1>1, StoreInvAlways, PTL


-----------------------------------------------------------------------------
(* Reconciliation reports and connection rows. *)

Claim == [status : {"PROCESSING", "COMPLETE"}, content : ReportContent]

HandlingRow == [step : {"CLAIM", "APPLY", "HANDLED", "REJECTED"}, id : ReportId, content : ReportContent]

LinkRow == [state : {"OPEN", "CLOSED"}, since : 0..MaxClock, beat : 0..MaxClock,
            number : 0..MaxSequence, end : 0..MaxClock]

ProtocolRows ==
    /\ archivedReports \in [ReportId -> ReportContent \cup {Unheard}]
    /\ messages \in [ReportId -> {Unheard, "RECEIVED", "HANDLED", "REJECTED"}]
    /\ claims \in [ReportId -> Claim \cup {NoClaim}]
    /\ handling \in [Handler -> HandlingRow \cup {NoHandling}]
    /\ appliedReports \in [ReportContent -> {0, 1}]

\* A claim, and a handler's report until it is answered, are the archive's.
ClaimsMatchArchive ==
    /\ \A r \in ReportId : claims[r] # NoClaim => archivedReports[r] = claims[r].content
    /\ \A h \in Handler : handling[h] # NoHandling => archivedReports[handling[h].id] = handling[h].content

\* Who applies a report holds its claim, and the content was not applied.
ApplyingIsClaimed ==
    \A h \in Handler : handling[h].step = "APPLY" =>
        /\ claims[handling[h].id].status = "PROCESSING"
        /\ claims[handling[h].id].content = handling[h].content
        /\ appliedReports[handling[h].content] = 0

\* No two handlers apply one content.
AppliedByOne ==
    \A g, h \in Handler :
        handling[g].step = "APPLY" /\ handling[h].step = "APPLY" /\ handling[g].content = handling[h].content
        => g = h

AppliedIsComplete ==
    \A d \in ReportContent :
        appliedReports[d] = 1 <=> \E r \in ReportId : claims[r].status = "COMPLETE" /\ claims[r].content = d

LinksInOrder ==
    /\ links \in [Circuit -> LinkRow \cup {NoCircuit}]
    /\ \A k, l \in Circuit : links[k].state = "OPEN" /\ links[l].state = "OPEN" => k = l
    /\ \A l \in Circuit : links[l] # NoCircuit =>
         /\ links[l].beat >= links[l].since
         /\ links[l].state = "CLOSED" => links[l].end >= links[l].beat

ReportsInv == ProtocolRows /\ ClaimsMatchArchive /\ ApplyingIsClaimed /\ AppliedByOne /\ AppliedIsComplete

ProtocolInv == ReportsInv /\ LinksInOrder /\ crashes \in 0..MaxStoreCrashes

LEMMA ProtocolShapes ==
    /\ \A row \in Claim : row # NoClaim /\ row.status \in {"PROCESSING", "COMPLETE"} /\ row.content \in ReportContent
    /\ NoClaim.status = "NONE"
    /\ \A row \in HandlingRow : /\ row # NoHandling /\ row.id \in ReportId /\ row.content \in ReportContent
                                /\ row.step \in {"CLAIM", "APPLY", "HANDLED", "REJECTED"}
    /\ NoHandling.step = "IDLE"
    /\ \A row \in LinkRow : row # NoCircuit /\ row.state \in {"OPEN", "CLOSED"}
    /\ NoCircuit.state = "NONE"
  BY DEF Claim, NoClaim, HandlingRow, NoHandling, LinkRow, NoCircuit

LEMMA ProtocolInvInit == ProtocolInit => ProtocolInv
<1> SUFFICES ASSUME ProtocolInit PROVE ProtocolInv
  OBVIOUS
<1>1. ProtocolRows
  BY DEF ProtocolInit, ProtocolRows
<1>2. ClaimsMatchArchive
  BY DEF ProtocolInit, ClaimsMatchArchive
<1>3. ApplyingIsClaimed /\ AppliedByOne
  <2>1. \A h \in Handler : handling[h].step # "APPLY"
    BY ProtocolShapes DEF ProtocolInit
  <2> QED  BY <2>1 DEF ApplyingIsClaimed, AppliedByOne
<1>4. AppliedIsComplete
  BY ProtocolShapes DEF ProtocolInit, AppliedIsComplete
<1>5. LinksInOrder
  BY ProtocolShapes DEF ProtocolInit, LinksInOrder
<1>6. crashes \in 0..MaxStoreCrashes
  BY ProtocolAssumption DEF ProtocolInit
<1> QED  BY <1>1, <1>2, <1>3, <1>4, <1>5, <1>6 DEF ProtocolInv, ReportsInv

\* What a step may not do to a message's outcome or a completed claim.
ReportsFinal ==
    \A r \in ReportId :
        /\ messages[r] \in {"HANDLED", "REJECTED"} => messages'[r] = messages[r]
        /\ claims[r].status = "COMPLETE" => claims'[r] = claims[r]

LEMMA SaveKeeps ==
    ASSUME ReportsInv, NEW h \in Handler, NEW r \in ReportId, NEW d \in ReportContent, SaveReport(h, r, d)
    PROVE  ReportsInv' /\ ReportsFinal
<1> USE DEF ReportsInv
<1>1. PICK row \in HandlingRow : row = [step |-> "CLAIM", id |-> r, content |-> d]
                                 /\ row.step = "CLAIM" /\ row.id = r /\ row.content = d
  <2> DEFINE made == [step |-> "CLAIM", id |-> r, content |-> d]
  <2>1. made \in HandlingRow /\ made.step = "CLAIM" /\ made.id = r /\ made.content = d
    BY DEF HandlingRow
  <2> HIDE DEF made
  <2>2. \E row \in HandlingRow : row = made /\ row.step = "CLAIM" /\ row.id = r /\ row.content = d
    BY <2>1
  <2> QED  BY <2>2 DEF made
<1>2. /\ handling' = [handling EXCEPT ![h] = row] /\ handling[h] = NoHandling
      /\ archivedReports' = [archivedReports EXCEPT ![r] = d] /\ archivedReports[r] \in {Unheard, d}
      /\ messages' = [messages EXCEPT ![r] = IF @ = Unheard THEN "RECEIVED" ELSE @]
      /\ UNCHANGED <<claims, appliedReports>>
  BY <1>1 DEF SaveReport
<1>3. ProtocolRows'
  BY <1>2 DEF ProtocolRows
<1>4. d # Unheard /\ \A e \in ReportContent : e # Unheard
  BY ProtocolAssumption DEF Unheard
<1>5. ASSUME NEW s \in ReportId, archivedReports[s] \in ReportContent
      PROVE  archivedReports'[s] = archivedReports[s]
  BY <1>2, <1>4, <1>5 DEF ProtocolRows
<1>6. ClaimsMatchArchive'
  <2>1. ASSUME NEW s \in ReportId, claims'[s] # NoClaim PROVE archivedReports'[s] = claims'[s].content
    <3>1. claims[s] \in Claim /\ archivedReports[s] = claims[s].content
      BY <1>2, <2>1 DEF ClaimsMatchArchive, ProtocolRows
    <3> QED  BY <1>2, <1>5, <3>1, ProtocolShapes
  <2>2. ASSUME NEW g \in Handler, handling'[g] # NoHandling
        PROVE  archivedReports'[handling'[g].id] = handling'[g].content
    <3>1. CASE g = h
      BY <1>1, <1>2, <3>1 DEF ProtocolRows
    <3>2. CASE g # h
      <4>1. handling'[g] = handling[g] /\ handling[g] \in HandlingRow
        BY <1>2, <2>2, <3>2 DEF ProtocolRows
      <4>2. archivedReports[handling[g].id] = handling[g].content
        BY <4>1, ProtocolShapes DEF ClaimsMatchArchive
      <4> QED  BY <1>5, <4>1, <4>2, ProtocolShapes
    <3> QED  BY <3>1, <3>2
  <2> QED  BY <2>1, <2>2 DEF ClaimsMatchArchive
<1>7. \A g \in Handler : handling'[g].step = "APPLY" => handling'[g] = handling[g]
  BY <1>1, <1>2 DEF ProtocolRows
<1>8. ApplyingIsClaimed' /\ AppliedByOne'
  <2>1. ApplyingIsClaimed'
    <3> SUFFICES ASSUME NEW g \in Handler, handling'[g].step = "APPLY"
                 PROVE  /\ claims'[handling'[g].id].status = "PROCESSING"
                        /\ claims'[handling'[g].id].content = handling'[g].content
                        /\ appliedReports'[handling'[g].content] = 0
      BY DEF ApplyingIsClaimed
    <3>1. handling'[g] = handling[g]
      BY <1>7
    <3> QED  BY <1>2, <3>1 DEF ApplyingIsClaimed
  <2>2. AppliedByOne'
    BY <1>7 DEF AppliedByOne
  <2> QED  BY <2>1, <2>2
<1>9. AppliedIsComplete'
  BY <1>2 DEF AppliedIsComplete
<1>10. ReportsFinal
  BY <1>2 DEF ReportsFinal, ProtocolRows, Unheard
<1> QED  BY <1>3, <1>6, <1>8, <1>9, <1>10

\* A handler goes on with the report it has.
LEMMA HandlerMoves ==
    ASSUME NEW row \in HandlingRow, NEW step \in {"CLAIM", "APPLY", "HANDLED", "REJECTED"}
    PROVE  \E new \in HandlingRow : /\ new = [row EXCEPT !.step = step]
                                    /\ new.step = step /\ new.id = row.id /\ new.content = row.content
<1> DEFINE made == [row EXCEPT !.step = step]
<1>1. made \in HandlingRow /\ made.step = step /\ made.id = row.id /\ made.content = row.content
  BY DEF HandlingRow
<1> HIDE DEF made
<1>2. \E new \in HandlingRow : new = made /\ new.step = step /\ new.id = row.id /\ new.content = row.content
  BY <1>1
<1> QED  BY <1>2 DEF made

LEMMA ClaimMade ==
    ASSUME NEW d \in ReportContent, NEW standing \in {"PROCESSING", "COMPLETE"}
    PROVE  \E new \in Claim : /\ new = [status |-> standing, content |-> d]
                              /\ new.status = standing /\ new.content = d
<1> DEFINE made == [status |-> standing, content |-> d]
<1>1. made \in Claim /\ made.status = standing /\ made.content = d
  BY DEF Claim
<1> HIDE DEF made
<1>2. \E new \in Claim : new = made /\ new.status = standing /\ new.content = d
  BY <1>1
<1> QED  BY <1>2 DEF made

LEMMA ClaimsAlike ==
    ASSUME NEW one \in Claim, NEW other \in Claim, one.status = other.status, one.content = other.content
    PROVE  one = other
  BY DEF Claim

LEMMA ClaimKeeps ==
    ASSUME ReportsInv, NEW h \in Handler, ClaimReport(h)
    PROVE  ReportsInv' /\ ReportsFinal
<1> USE DEF ReportsInv
<1>1. PICK row \in HandlingRow : row = handling[h] /\ row.step = "CLAIM"
  BY ProtocolShapes DEF ClaimReport, ProtocolRows
<1>2. PICK r \in ReportId : r = row.id
  BY ProtocolShapes
<1>3. PICK d \in ReportContent : d = row.content
  BY ProtocolShapes
<1>4. UNCHANGED <<archivedReports, appliedReports, messages>>
  BY DEF ClaimReport
<1>5. archivedReports[r] = d
  BY <1>1, <1>2, <1>3, ProtocolShapes DEF ClaimsMatchArchive
<1>6. CASE Answer(r, d) = "NEW"
  <2>1. PICK new \in Claim : new = [status |-> "PROCESSING", content |-> d]
                             /\ new.status = "PROCESSING" /\ new.content = d
    BY ClaimMade
  <2>2. PICK going \in HandlingRow : /\ going = [row EXCEPT !.step = "APPLY"]
                                     /\ going.step = "APPLY" /\ going.id = r /\ going.content = d
    BY <1>2, <1>3, HandlerMoves
  <2>3. claims' = [claims EXCEPT ![r] = new] /\ handling' = [handling EXCEPT ![h] = going]
    BY <1>1, <1>2, <1>3, <1>6, <2>1, <2>2 DEF ClaimReport
  <2>4. /\ claims[r] = NoClaim
        /\ \A s \in ReportId : claims[s].content = d => claims[s].status \notin {"COMPLETE", "PROCESSING"}
    BY <1>6 DEF Answer, ClaimsOf
  <2>5. ProtocolRows'
    BY <1>4, <2>3 DEF ProtocolRows
  <2>6. ClaimsMatchArchive'
    BY <1>4, <1>5, <2>1, <2>2, <2>3 DEF ClaimsMatchArchive, ProtocolRows
  <2>7. appliedReports[d] = 0
    BY <2>4 DEF AppliedIsComplete, ProtocolRows
  <2>8. ASSUME NEW g \in Handler, handling[g].step = "APPLY"
        PROVE  handling[g].content # d /\ handling[g].id # r /\ handling[g] \in HandlingRow
    <3>1. handling[g] \in HandlingRow
      BY <2>8, ProtocolShapes DEF ProtocolRows
    <3>2. /\ claims[handling[g].id].status = "PROCESSING"
          /\ claims[handling[g].id].content = handling[g].content
      BY <2>8 DEF ApplyingIsClaimed
    <3> QED  BY <2>4, <3>1, <3>2, ProtocolShapes
  <2>9. ASSUME NEW g \in Handler, handling'[g].step = "APPLY"
        PROVE  /\ claims'[handling'[g].id].status = "PROCESSING"
               /\ claims'[handling'[g].id].content = handling'[g].content
               /\ appliedReports'[handling'[g].content] = 0
    <3>1. CASE g = h
      BY <1>4, <2>1, <2>2, <2>3, <2>7, <3>1 DEF ProtocolRows
    <3>2. CASE g # h
      <4>1. handling'[g] = handling[g] /\ handling[g] \in HandlingRow
        BY <2>3, <2>9, <3>2, ProtocolShapes DEF ProtocolRows
      <4>2. claims'[handling[g].id] = claims[handling[g].id]
        BY <2>3, <2>8, <2>9, <4>1, ProtocolShapes DEF ProtocolRows
      <4> QED  BY <1>4, <2>9, <4>1, <4>2 DEF ApplyingIsClaimed
    <3> QED  BY <3>1, <3>2
  <2>10. ASSUME NEW f \in Handler, NEW g \in Handler, handling'[f].step = "APPLY", handling'[g].step = "APPLY",
                handling'[f].content = handling'[g].content
         PROVE  f = g
    <3>1. \A k \in Handler : handling'[k] = IF k = h THEN going ELSE handling[k]
      BY <2>3 DEF ProtocolRows
    <3>2. CASE f = h /\ g # h
      BY <2>2, <2>8, <2>10, <3>1, <3>2
    <3>3. CASE f # h /\ g = h
      BY <2>2, <2>8, <2>10, <3>1, <3>3
    <3>4. CASE f # h /\ g # h
      BY <2>10, <3>1, <3>4 DEF AppliedByOne
    <3> QED  BY <3>2, <3>3, <3>4
  <2>11. ApplyingIsClaimed' /\ AppliedByOne'
    <3>1. ApplyingIsClaimed'
      BY <2>9 DEF ApplyingIsClaimed
    <3>2. AppliedByOne'
      BY <2>10 DEF AppliedByOne
    <3> QED  BY <3>1, <3>2
  <2>12. AppliedIsComplete'
    <3>1. \A s \in ReportId : claims'[s].status = "COMPLETE" <=> claims[s].status = "COMPLETE"
      BY <2>1, <2>3, <2>4, ProtocolShapes DEF ProtocolRows
    <3>2. \A s \in ReportId : claims[s].status = "COMPLETE" => claims'[s] = claims[s]
      BY <2>3, <2>4, ProtocolShapes DEF ProtocolRows
    <3> QED  BY <1>4, <3>1, <3>2 DEF AppliedIsComplete
  <2>13. ReportsFinal
    BY <1>4, <2>3, <2>4, ProtocolShapes DEF ReportsFinal, ProtocolRows
  <2> QED  BY <2>5, <2>6, <2>11, <2>12, <2>13
<1>7. CASE Answer(r, d) # "NEW"
  <2>1. PICK going \in HandlingRow : /\ handling' = [handling EXCEPT ![h] = going]
                                     /\ going.step # "APPLY" /\ going.id = r /\ going.content = d
    <3>1. PICK a \in HandlingRow : /\ a = [row EXCEPT !.step = "HANDLED"]
                                   /\ a.step = "HANDLED" /\ a.id = r /\ a.content = d
      BY <1>2, <1>3, HandlerMoves
    <3>2. PICK b \in HandlingRow : /\ b = [row EXCEPT !.step = "REJECTED"]
                                   /\ b.step = "REJECTED" /\ b.id = r /\ b.content = d
      BY <1>2, <1>3, HandlerMoves
    <3>3. handling' = [handling EXCEPT ![h] = a] \/ handling' = [handling EXCEPT ![h] = b]
      BY <1>1, <1>2, <1>3, <1>7, <3>1, <3>2 DEF ClaimReport
    <3> QED  BY <3>1, <3>2, <3>3
  <2>2. PICK new \in Claim : /\ new = [status |-> "COMPLETE", content |-> d]
                             /\ new.status = "COMPLETE" /\ new.content = d
    BY ClaimMade
  <2>3. \/ claims' = claims
        \/ /\ claims' = [claims EXCEPT ![r] = new]
           /\ \/ claims[r] = new
              \/ /\ claims[r] = NoClaim
                 /\ \E s \in ReportId : claims[s].status = "COMPLETE" /\ claims[s].content = d
    <3>1. CASE Answer(r, d) = "DUPLICATE"
      <4>1. claims' = [claims EXCEPT ![r] = new]
        BY <1>1, <1>2, <1>3, <2>2, <3>1 DEF ClaimReport
      <4>2. CASE claims[r] = NoClaim
        BY <3>1, <4>1, <4>2 DEF Answer, ClaimsOf
      <4>3. CASE claims[r] # NoClaim
        <5>1. claims[r] \in Claim /\ claims[r].content = d /\ claims[r].status = "COMPLETE"
          BY <3>1, <4>3, ProtocolShapes DEF Answer, ProtocolRows
        <5>2. claims[r] = new
          <6>1. new \in Claim /\ new.status = "COMPLETE" /\ new.content = d
            BY <2>2
          <6> QED  BY <5>1, <6>1, ClaimsAlike
        <5> QED  BY <4>1, <5>2
      <4> QED  BY <4>2, <4>3
    <3>2. CASE Answer(r, d) # "DUPLICATE"
      BY <1>1, <1>2, <1>3, <1>7, <3>2 DEF ClaimReport
    <3> QED  BY <3>1, <3>2
  <2>4. ProtocolRows'
    BY <1>4, <2>1, <2>3 DEF ProtocolRows
  <2>5. ClaimsMatchArchive'
    BY <1>4, <1>5, <2>1, <2>2, <2>3 DEF ClaimsMatchArchive, ProtocolRows
  <2>6. \A s \in ReportId : claims[s] # NoClaim => claims'[s] = claims[s]
    BY <2>3 DEF ProtocolRows
  <2>7. \A g \in Handler : handling'[g].step = "APPLY" => handling'[g] = handling[g]
    BY <2>1 DEF ProtocolRows
  <2>8. ApplyingIsClaimed' /\ AppliedByOne'
    <3>1. ASSUME NEW g \in Handler, handling'[g].step = "APPLY"
          PROVE  /\ claims'[handling'[g].id].status = "PROCESSING"
                 /\ claims'[handling'[g].id].content = handling'[g].content
                 /\ appliedReports'[handling'[g].content] = 0
      <4>1. handling[g].step = "APPLY" /\ handling'[g] = handling[g]
        BY <2>7, <3>1
      <4>2. handling[g] \in HandlingRow
        BY <4>1, ProtocolShapes DEF ProtocolRows
      <4>3. /\ claims[handling[g].id].status = "PROCESSING"
            /\ claims[handling[g].id].content = handling[g].content
            /\ appliedReports[handling[g].content] = 0
        BY <4>1 DEF ApplyingIsClaimed
      <4>4. claims'[handling[g].id] = claims[handling[g].id]
        BY <2>6, <4>2, <4>3, ProtocolShapes
      <4> QED  BY <1>4, <4>1, <4>3, <4>4
    <3>2. ApplyingIsClaimed'
      BY <3>1 DEF ApplyingIsClaimed
    <3>3. AppliedByOne'
      BY <2>7 DEF AppliedByOne
    <3> QED  BY <3>2, <3>3
  <2>9. AppliedIsComplete'
    <3>1. \A s \in ReportId : claims[s].status = "COMPLETE" => claims'[s] = claims[s]
      BY <2>6, ProtocolShapes
    <3>2. \A s \in ReportId : claims'[s].status = "COMPLETE" =>
              \/ claims'[s] = claims[s]
              \/ /\ claims'[s].content = d
                 /\ \E q \in ReportId : claims[q].status = "COMPLETE" /\ claims[q].content = d
      <4>1. CASE claims' = claims
        BY <4>1
      <4>2. CASE claims' # claims
        <5>1. /\ claims' = [claims EXCEPT ![r] = new]
              /\ claims[r] = new \/ \E q \in ReportId : claims[q].status = "COMPLETE" /\ claims[q].content = d
          BY <2>3, <4>2
        <5>2. \A s \in ReportId : claims'[s] = IF s = r THEN new ELSE claims[s]
          BY <5>1 DEF ProtocolRows
        <5>3. new.content = d
          BY <2>2
        <5> QED  BY <5>1, <5>2, <5>3
      <4> QED  BY <4>1, <4>2
    <3> QED  BY <1>4, <3>1, <3>2 DEF AppliedIsComplete
  <2>10. ReportsFinal
    BY <1>4, <2>6, ProtocolShapes DEF ReportsFinal
  <2> QED  BY <2>4, <2>5, <2>8, <2>9, <2>10
<1> QED  BY <1>6, <1>7

LEMMA CompleteKeeps ==
    ASSUME ReportsInv, NEW h \in Handler, CompleteReport(h)
    PROVE  ReportsInv' /\ ReportsFinal
<1> USE DEF ReportsInv
<1>1. PICK row \in HandlingRow : row = handling[h] /\ row.step = "APPLY"
  BY ProtocolShapes DEF CompleteReport, ProtocolRows
<1>2. PICK r \in ReportId : r = row.id
  BY ProtocolShapes
<1>3. PICK d \in ReportContent : d = row.content
  BY ProtocolShapes
<1>4. UNCHANGED <<archivedReports, messages>>
  BY DEF CompleteReport
<1>5. archivedReports[r] = d
  BY <1>1, <1>2, <1>3, ProtocolShapes DEF ClaimsMatchArchive
<1>6. PICK going \in HandlingRow : /\ going = [row EXCEPT !.step = "HANDLED"]
                                   /\ going.step = "HANDLED" /\ going.id = r /\ going.content = d
  BY <1>2, <1>3, HandlerMoves
<1>7. handling' = [handling EXCEPT ![h] = going]
  <2>1. handling' = [handling EXCEPT ![h].step = "HANDLED"]
    BY DEF CompleteReport
  <2> QED  BY <1>1, <1>6, <2>1
<1>8. PICK claim \in Claim : claim = claims[r] /\ claim.status = "PROCESSING" /\ claim.content = d
  BY <1>1, <1>2, <1>3, ProtocolShapes DEF ApplyingIsClaimed, ProtocolRows
<1>9. PICK new \in Claim : /\ new = [claim EXCEPT !.status = "COMPLETE"]
                           /\ new.status = "COMPLETE" /\ new.content = d
  <2> DEFINE made == [claim EXCEPT !.status = "COMPLETE"]
  <2>1. made \in Claim /\ made.status = "COMPLETE" /\ made.content = d
    BY <1>8 DEF Claim
  <2> HIDE DEF made
  <2>2. \E new \in Claim : new = made /\ new.status = "COMPLETE" /\ new.content = d
    BY <2>1
  <2> QED  BY <2>2 DEF made
<1>10. claims' = [claims EXCEPT ![r] = new]
  <2>1. claims' = [claims EXCEPT ![handling[h].id].status = "COMPLETE"]
    BY DEF CompleteReport
  <2> QED  BY <1>1, <1>2, <1>8, <1>9, <2>1
<1>11. appliedReports' = [appliedReports EXCEPT ![d] = 1] /\ appliedReports[d] = 0
  <2>1. appliedReports[d] = 0
    BY <1>1, <1>3 DEF ApplyingIsClaimed
  <2>2. appliedReports' = [appliedReports EXCEPT ![d] = appliedReports[d] + 1]
    BY <1>1, <1>3 DEF CompleteReport
  <2> QED  BY <2>1, <2>2
<1>12. \A s \in ReportId : claims'[s] = IF s = r THEN new ELSE claims[s]
  BY <1>10 DEF ProtocolRows
<1>13. \A g \in Handler : handling'[g] = IF g = h THEN going ELSE handling[g]
  BY <1>7 DEF ProtocolRows
<1>14. \A e \in ReportContent : appliedReports'[e] = IF e = d THEN 1 ELSE appliedReports[e]
  BY <1>11 DEF ProtocolRows
<1>15. ProtocolRows'
  BY <1>4, <1>7, <1>10, <1>11 DEF ProtocolRows
<1>16. ClaimsMatchArchive'
  <2>1. new.content = d /\ going.content = d /\ going.id = r
    BY <1>6, <1>9
  <2> QED  BY <1>4, <1>5, <1>12, <1>13, <2>1 DEF ClaimsMatchArchive
<1>17. ASSUME NEW g \in Handler, handling'[g].step = "APPLY"
       PROVE  /\ handling'[g] = handling[g] /\ handling[g] \in HandlingRow
              /\ handling[g].content # d /\ handling[g].id # r
  <2>1. g # h
    BY <1>6, <1>13, <1>17
  <2>2. handling'[g] = handling[g] /\ handling[g].step = "APPLY"
    BY <1>13, <1>17, <2>1
  <2>3. handling[g].content # d
    BY <1>1, <1>3, <2>1, <2>2 DEF AppliedByOne
  <2>4. handling[g].id # r
    BY <1>8, <2>2, <2>3 DEF ApplyingIsClaimed
  <2> QED  BY <2>2, <2>3, <2>4, ProtocolShapes DEF ProtocolRows
<1>18. ApplyingIsClaimed'
  <2> SUFFICES ASSUME NEW g \in Handler, handling'[g].step = "APPLY"
               PROVE  /\ claims'[handling'[g].id].status = "PROCESSING"
                      /\ claims'[handling'[g].id].content = handling'[g].content
                      /\ appliedReports'[handling'[g].content] = 0
    BY DEF ApplyingIsClaimed
  <2>1. /\ handling'[g] = handling[g] /\ handling[g].step = "APPLY"
        /\ handling[g].content # d /\ handling[g].id # r
        /\ handling[g].content \in ReportContent /\ handling[g].id \in ReportId
    BY <1>17, ProtocolShapes
  <2>2. /\ claims[handling[g].id].status = "PROCESSING"
        /\ claims[handling[g].id].content = handling[g].content
        /\ appliedReports[handling[g].content] = 0
    BY <2>1 DEF ApplyingIsClaimed
  <2> QED  BY <1>12, <1>14, <2>1, <2>2
<1>19. AppliedByOne'
  BY <1>17 DEF AppliedByOne
<1>20. AppliedIsComplete'
  <2> SUFFICES ASSUME NEW e \in ReportContent
               PROVE  appliedReports'[e] = 1
                      <=> \E s \in ReportId : claims'[s].status = "COMPLETE" /\ claims'[s].content = e
    BY DEF AppliedIsComplete
  <2>1. /\ new.status = "COMPLETE" /\ new.content = d
        /\ claims[r].status = "PROCESSING"
    BY <1>8, <1>9
  <2>2. CASE e = d
    BY <1>12, <1>14, <2>1, <2>2
  <2>3. CASE e # d
    BY <1>12, <1>14, <2>1, <2>3 DEF AppliedIsComplete
  <2> QED  BY <2>2, <2>3
<1>21. ReportsFinal
  <2>1. claims[r].status # "COMPLETE"
    BY <1>8
  <2> QED  BY <1>4, <1>12, <2>1 DEF ReportsFinal
<1> QED  BY <1>15, <1>16, <1>18, <1>19, <1>20, <1>21

LEMMA AbandonKeeps ==
    ASSUME ReportsInv, NEW h \in Handler, AbandonReport(h)
    PROVE  ReportsInv' /\ ReportsFinal
<1> USE DEF ReportsInv
<1>1. PICK row \in HandlingRow : row = handling[h] /\ row.step = "APPLY"
  BY ProtocolShapes DEF AbandonReport, ProtocolRows
<1>2. PICK r \in ReportId : r = row.id
  BY ProtocolShapes
<1>3. PICK d \in ReportContent : d = row.content
  BY ProtocolShapes
<1>4. UNCHANGED <<archivedReports, messages, appliedReports>>
  BY DEF AbandonReport
<1>5. archivedReports[r] = d
  BY <1>1, <1>2, <1>3, ProtocolShapes DEF ClaimsMatchArchive
<1>6. PICK going \in HandlingRow : /\ going = [row EXCEPT !.step = "REJECTED"]
                                   /\ going.step = "REJECTED" /\ going.id = r /\ going.content = d
  BY <1>2, <1>3, HandlerMoves
<1>7. handling' = [handling EXCEPT ![h] = going]
  <2>1. handling' = [handling EXCEPT ![h].step = "REJECTED"]
    BY DEF AbandonReport
  <2> QED  BY <1>1, <1>6, <2>1
<1>8. claims[r].status = "PROCESSING" /\ claims[r].content = d
  BY <1>1, <1>2, <1>3, ProtocolShapes DEF ApplyingIsClaimed
<1>9. claims' = [claims EXCEPT ![r] = NoClaim]
  <2>1. claims' = [claims EXCEPT ![r] = IF claims[r].status = "PROCESSING" THEN NoClaim ELSE claims[r]]
    BY <1>1, <1>2 DEF AbandonReport
  <2> QED  BY <1>8, <2>1
<1>12. \A s \in ReportId : claims'[s] = IF s = r THEN NoClaim ELSE claims[s]
  BY <1>9 DEF ProtocolRows
<1>13. \A g \in Handler : handling'[g] = IF g = h THEN going ELSE handling[g]
  BY <1>7 DEF ProtocolRows
<1>15. ProtocolRows'
  BY <1>4, <1>7, <1>9 DEF ProtocolRows
<1>16. ClaimsMatchArchive'
  <2>1. going.content = d /\ going.id = r
    BY <1>6
  <2> QED  BY <1>4, <1>5, <1>12, <1>13, <2>1 DEF ClaimsMatchArchive
<1>17. ASSUME NEW g \in Handler, handling'[g].step = "APPLY"
       PROVE  /\ handling'[g] = handling[g] /\ handling[g] \in HandlingRow
              /\ handling[g].content # d /\ handling[g].id # r
  <2>1. g # h
    BY <1>6, <1>13, <1>17
  <2>2. handling'[g] = handling[g] /\ handling[g].step = "APPLY"
    BY <1>13, <1>17, <2>1
  <2>3. handling[g].content # d
    BY <1>1, <1>3, <2>1, <2>2 DEF AppliedByOne
  <2>4. handling[g].id # r
    BY <1>8, <2>2, <2>3 DEF ApplyingIsClaimed
  <2> QED  BY <2>2, <2>3, <2>4, ProtocolShapes DEF ProtocolRows
<1>18. ApplyingIsClaimed'
  <2> SUFFICES ASSUME NEW g \in Handler, handling'[g].step = "APPLY"
               PROVE  /\ claims'[handling'[g].id].status = "PROCESSING"
                      /\ claims'[handling'[g].id].content = handling'[g].content
                      /\ appliedReports'[handling'[g].content] = 0
    BY DEF ApplyingIsClaimed
  <2>1. /\ handling'[g] = handling[g] /\ handling[g].step = "APPLY"
        /\ handling[g].id # r /\ handling[g].id \in ReportId
    BY <1>17, ProtocolShapes
  <2>2. /\ claims[handling[g].id].status = "PROCESSING"
        /\ claims[handling[g].id].content = handling[g].content
        /\ appliedReports[handling[g].content] = 0
    BY <2>1 DEF ApplyingIsClaimed
  <2> QED  BY <1>4, <1>12, <2>1, <2>2
<1>19. AppliedByOne'
  BY <1>17 DEF AppliedByOne
<1>20. AppliedIsComplete'
  <2>1. NoClaim.status # "COMPLETE" /\ claims[r].status # "COMPLETE"
    BY <1>8, ProtocolShapes
  <2> QED  BY <1>4, <1>12, <2>1 DEF AppliedIsComplete
<1>21. ReportsFinal
  <2>1. claims[r].status # "COMPLETE"
    BY <1>8
  <2> QED  BY <1>4, <1>12, <2>1 DEF ReportsFinal
<1> QED  BY <1>15, <1>16, <1>18, <1>19, <1>20, <1>21

\* Handlers that become idle disturb nothing of the reports.
LEMMA IdleKeeps ==
    ASSUME ReportsInv, UNCHANGED <<archivedReports, claims, appliedReports>>,
           handling' \in [Handler -> HandlingRow \cup {NoHandling}],
           \A g \in Handler : handling'[g] \in {handling[g], NoHandling}
    PROVE  ClaimsMatchArchive' /\ ApplyingIsClaimed' /\ AppliedByOne' /\ AppliedIsComplete'
<1> USE DEF ReportsInv
<1>1. ClaimsMatchArchive'
  BY DEF ClaimsMatchArchive
<1>2. \A g \in Handler : handling'[g].step = "APPLY" => handling'[g] = handling[g]
  BY ProtocolShapes
<1>3. ApplyingIsClaimed'
  <2> SUFFICES ASSUME NEW g \in Handler, handling'[g].step = "APPLY"
               PROVE  /\ claims'[handling'[g].id].status = "PROCESSING"
                      /\ claims'[handling'[g].id].content = handling'[g].content
                      /\ appliedReports'[handling'[g].content] = 0
    BY DEF ApplyingIsClaimed
  <2>1. handling'[g] = handling[g]
    BY <1>2
  <2> QED  BY <2>1 DEF ApplyingIsClaimed
<1>4. AppliedByOne'
  BY <1>2 DEF AppliedByOne
<1>5. AppliedIsComplete'
  BY DEF AppliedIsComplete
<1> QED  BY <1>1, <1>3, <1>4, <1>5

LEMMA MarkKeeps ==
    ASSUME ReportsInv, NEW h \in Handler, MarkHandled(h)
    PROVE  ReportsInv' /\ ReportsFinal
<1>1. PICK row \in HandlingRow : row = handling[h] /\ row.step \in {"HANDLED", "REJECTED"}
  BY ProtocolShapes DEF MarkHandled, ProtocolRows, ReportsInv
<1>2. PICK r \in ReportId : r = row.id
  BY ProtocolShapes
<1>3. /\ messages' = [messages EXCEPT ![r] = IF messages[r] = "RECEIVED" THEN row.step ELSE messages[r]]
      /\ handling' = [handling EXCEPT ![h] = NoHandling]
      /\ UNCHANGED <<archivedReports, claims, appliedReports>>
  BY <1>1, <1>2 DEF MarkHandled, FirstOutcome
<1>4. ProtocolRows'
  BY <1>1, <1>3 DEF ProtocolRows, ReportsInv
<1>5. \A g \in Handler : handling'[g] \in {handling[g], NoHandling}
  BY <1>3 DEF ProtocolRows, ReportsInv
<1>6. handling' \in [Handler -> HandlingRow \cup {NoHandling}]
  BY <1>4 DEF ProtocolRows
<1>7. ClaimsMatchArchive' /\ ApplyingIsClaimed' /\ AppliedByOne' /\ AppliedIsComplete'
  BY <1>3, <1>5, <1>6, IdleKeeps
<1>8. ReportsFinal
  BY <1>3 DEF ReportsFinal, ProtocolRows, ReportsInv
<1> QED  BY <1>4, <1>7, <1>8 DEF ReportsInv

LEMMA RestartKeeps ==
    ASSUME ReportsInv, RestartStore
    PROVE  ReportsInv' /\ ReportsFinal
<1>1. /\ handling' = [h \in Handler |-> NoHandling]
      /\ UNCHANGED <<archivedReports, claims, appliedReports, messages>>
  BY DEF RestartStore
<1>2. ProtocolRows'
  BY <1>1 DEF ProtocolRows, ReportsInv
<1>3. handling' \in [Handler -> HandlingRow \cup {NoHandling}]
      /\ \A g \in Handler : handling'[g] \in {handling[g], NoHandling}
  BY <1>1
<1>4. ClaimsMatchArchive' /\ ApplyingIsClaimed' /\ AppliedByOne' /\ AppliedIsComplete'
  BY <1>1, <1>3, IdleKeeps
<1>5. ReportsFinal
  BY <1>1 DEF ReportsFinal
<1> QED  BY <1>2, <1>4, <1>5 DEF ReportsInv

\* A closed connection stays as it is.
LinksFinal == \A l \in Circuit : links[l].state = "CLOSED" => links'[l] = links[l]

LEMMA LinkRows ==
    ASSUME NEW row \in LinkRow
    PROVE  /\ row.state \in {"OPEN", "CLOSED"} /\ row.since \in Nat /\ row.beat \in Nat
           /\ row.number \in Nat /\ row.end \in Nat
  BY ProtocolAssumption DEF LinkRow

LEMMA OpenKeeps ==
    ASSUME LinksInOrder, NEW l \in Circuit, NEW at \in 0..MaxClock, OpenLink(l, at)
    PROVE  LinksInOrder' /\ LinksFinal
<1> DEFINE made == [state |-> "OPEN", since |-> at, beat |-> at, number |-> 0, end |-> 0]
<1> DEFINE shut(k) == [links[k] EXCEPT !.state = "CLOSED", !.end = at]
<1>1. MaxClock \in Nat /\ MaxSequence \in Nat
  BY ProtocolAssumption
<1>2. at \in Nat /\ 0 \in 0..MaxClock /\ 0 \in 0..MaxSequence
  BY <1>1
<1>3. made \in LinkRow /\ made.state = "OPEN" /\ made.since = at /\ made.beat = at
  BY <1>2 DEF LinkRow
<1>4. ASSUME NEW k \in Circuit, links[k].state = "OPEN"
      PROVE  /\ shut(k) \in LinkRow /\ shut(k).state = "CLOSED" /\ shut(k).since = links[k].since
             /\ shut(k).beat = links[k].beat /\ shut(k).end = at
             /\ links[k].beat >= links[k].since /\ at >= links[k].beat
  <2>1. links[k] \in LinkRow /\ links[k] # NoCircuit
    BY <1>4, ProtocolShapes DEF LinksInOrder
  <2>2. shut(k) \in LinkRow /\ shut(k).state = "CLOSED" /\ shut(k).since = links[k].since
        /\ shut(k).beat = links[k].beat /\ shut(k).end = at
    BY <2>1 DEF LinkRow
  <2>3. links[k].beat >= links[k].since
    BY <2>1 DEF LinksInOrder
  <2>4. at >= links[k].beat
    BY <1>4 DEF OpenLink, OpenedCircuits
  <2> QED  BY <2>2, <2>3, <2>4
<1>5. links' = [k \in Circuit |->
         IF k = l THEN made ELSE IF links[k].state = "OPEN" THEN shut(k) ELSE links[k]]
  BY DEF OpenLink, OpenedCircuits
<1>6. links[l] = NoCircuit
  BY DEF OpenLink
<1> HIDE DEF made, shut
<1>7. links' \in [Circuit -> LinkRow \cup {NoCircuit}]
  BY <1>3, <1>4, <1>5 DEF LinksInOrder
<1>8. \A k \in Circuit : links'[k] =
         IF k = l THEN made ELSE IF links[k].state = "OPEN" THEN shut(k) ELSE links[k]
  BY <1>5
<1>9. \A k, m \in Circuit : links'[k].state = "OPEN" /\ links'[m].state = "OPEN" => k = m
  BY <1>4, <1>8
<1>10. ASSUME NEW k \in Circuit, links'[k] # NoCircuit
       PROVE  /\ links'[k].beat >= links'[k].since
              /\ links'[k].state = "CLOSED" => links'[k].end >= links'[k].beat
  <2>1. CASE k = l
    BY <1>2, <1>3, <1>8, <2>1
  <2>2. CASE k # l /\ links[k].state = "OPEN"
    BY <1>4, <1>8, <2>2
  <2>3. CASE k # l /\ links[k].state # "OPEN"
    BY <1>8, <1>10, <2>3 DEF LinksInOrder
  <2> QED  BY <2>1, <2>2, <2>3
<1>11. LinksFinal
  <2>1. links[l].state # "CLOSED"
    BY <1>6, ProtocolShapes
  <2> QED  BY <1>8, <2>1 DEF LinksFinal
<1> QED  BY <1>7, <1>9, <1>10, <1>11 DEF LinksInOrder

LEMMA HeartbeatKeeps ==
    ASSUME LinksInOrder, NEW l \in Circuit, NEW expected \in 0..MaxSequence, NEW number \in 0..MaxSequence,
           NEW at \in 0..MaxClock, HeartbeatLink(l, expected, number, at)
    PROVE  LinksInOrder' /\ LinksFinal
<1>1. links[l].state = "OPEN" /\ at >= links[l].beat
  BY DEF HeartbeatLink, BeatFits
<1>2. PICK row \in LinkRow : row = links[l]
  BY <1>1, ProtocolShapes DEF LinksInOrder
<1>3. row.state = "OPEN" /\ row.beat >= row.since /\ at >= row.beat
  BY <1>1, <1>2, ProtocolShapes DEF LinksInOrder
<1> DEFINE made == [row EXCEPT !.beat = at, !.number = number]
<1>4. made \in LinkRow /\ made.state = "OPEN" /\ made.beat = at /\ made.since = row.since
  BY <1>3 DEF LinkRow
<1>5. made.beat >= made.since
  <2>1. at \in Nat
    BY ProtocolAssumption
  <2> QED  BY <1>3, <1>4, <2>1, LinkRows
<1>6. links' = [links EXCEPT ![l] = made]
  BY <1>2 DEF HeartbeatLink
<1> HIDE DEF made
<1>7. \A k \in Circuit : links'[k] = IF k = l THEN made ELSE links[k]
  BY <1>6 DEF LinksInOrder
<1>8. links' \in [Circuit -> LinkRow \cup {NoCircuit}]
  BY <1>4, <1>6 DEF LinksInOrder
<1>9. \A k, m \in Circuit : links'[k].state = "OPEN" /\ links'[m].state = "OPEN" => k = m
  BY <1>1, <1>7 DEF LinksInOrder
<1>10. ASSUME NEW k \in Circuit, links'[k] # NoCircuit
       PROVE  /\ links'[k].beat >= links'[k].since
              /\ links'[k].state = "CLOSED" => links'[k].end >= links'[k].beat
  <2>1. CASE k = l
    BY <1>4, <1>5, <1>7, <2>1
  <2>2. CASE k # l
    BY <1>7, <1>10, <2>2 DEF LinksInOrder
  <2> QED  BY <2>1, <2>2
<1>11. LinksFinal
  BY <1>1, <1>7 DEF LinksFinal
<1> QED  BY <1>8, <1>9, <1>10, <1>11 DEF LinksInOrder

LEMMA DisconnectKeeps ==
    ASSUME LinksInOrder, NEW l \in Circuit, NEW expected \in 0..MaxSequence,
           NEW at \in 0..MaxClock, DisconnectLink(l, expected, at)
    PROVE  LinksInOrder' /\ LinksFinal
<1>1. links[l].state = "OPEN" /\ at >= links[l].beat
  BY DEF DisconnectLink
<1>2. PICK row \in LinkRow : row = links[l]
  BY <1>1, ProtocolShapes DEF LinksInOrder
<1>3. row.state = "OPEN" /\ row.beat >= row.since /\ at >= row.beat
  BY <1>1, <1>2, ProtocolShapes DEF LinksInOrder
<1> DEFINE made == [row EXCEPT !.state = "CLOSED", !.end = at]
<1>4. made \in LinkRow /\ made.state = "CLOSED" /\ made.beat = row.beat /\ made.since = row.since
      /\ made.end = at
  BY <1>3 DEF LinkRow
<1>6. links' = [links EXCEPT ![l] = made]
  BY <1>2 DEF DisconnectLink
<1> HIDE DEF made
<1>7. \A k \in Circuit : links'[k] = IF k = l THEN made ELSE links[k]
  BY <1>6 DEF LinksInOrder
<1>8. links' \in [Circuit -> LinkRow \cup {NoCircuit}]
  BY <1>4, <1>6 DEF LinksInOrder
<1>9. \A k, m \in Circuit : links'[k].state = "OPEN" /\ links'[m].state = "OPEN" => k = m
  BY <1>4, <1>7 DEF LinksInOrder
<1>10. ASSUME NEW k \in Circuit, links'[k] # NoCircuit
       PROVE  /\ links'[k].beat >= links'[k].since
              /\ links'[k].state = "CLOSED" => links'[k].end >= links'[k].beat
  <2>1. CASE k = l
    BY <1>3, <1>4, <1>7, <2>1
  <2>2. CASE k # l
    BY <1>7, <1>10, <2>2 DEF LinksInOrder
  <2> QED  BY <2>1, <2>2
<1>11. LinksFinal
  BY <1>1, <1>7 DEF LinksFinal
<1> QED  BY <1>8, <1>9, <1>10, <1>11 DEF LinksInOrder

\* What no step of the reports and connections does.
ProtocolFinal == ReportsFinal /\ LinksFinal

LEMMA ReportsLeaveLinks ==
    ASSUME LinksInOrder, crashes \in 0..MaxStoreCrashes, UNCHANGED <<links, crashes>>
    PROVE  LinksInOrder' /\ (crashes \in 0..MaxStoreCrashes)' /\ LinksFinal
  BY DEF LinksInOrder, LinksFinal

LEMMA LinksLeaveReports ==
    ASSUME ReportsInv, crashes \in 0..MaxStoreCrashes, UNCHANGED <<reportVars, crashes>>
    PROVE  ReportsInv' /\ (crashes \in 0..MaxStoreCrashes)' /\ ReportsFinal
<1>1. UNCHANGED <<archivedReports, claims, handling, appliedReports, messages, crashes>>
  BY DEF reportVars
<1>2. ReportsInv'
  BY <1>1 DEF ReportsInv, ProtocolRows, ClaimsMatchArchive, ApplyingIsClaimed, AppliedByOne, AppliedIsComplete
<1> QED  BY <1>1, <1>2 DEF ReportsFinal

LEMMA ProtocolInvNext == ProtocolInv /\ [ProtocolNext]_protocolVars => ProtocolInv' /\ ProtocolFinal
<1> SUFFICES ASSUME ProtocolInv, [ProtocolNext]_protocolVars PROVE ProtocolInv' /\ ProtocolFinal
  OBVIOUS
<1>1. ReportsInv /\ LinksInOrder /\ crashes \in 0..MaxStoreCrashes
  BY DEF ProtocolInv
<1>2. ASSUME ReportsInv' /\ ReportsFinal, UNCHANGED <<links, crashes>>
      PROVE  ProtocolInv' /\ ProtocolFinal
  BY <1>1, <1>2, ReportsLeaveLinks DEF ProtocolInv, ProtocolFinal
<1>3. ASSUME LinksInOrder' /\ LinksFinal, UNCHANGED <<reportVars, crashes>>
      PROVE  ProtocolInv' /\ ProtocolFinal
  BY <1>1, <1>3, LinksLeaveReports DEF ProtocolInv, ProtocolFinal
<1>4. ASSUME NEW h \in Handler, NEW r \in ReportId, NEW d \in ReportContent, SaveReport(h, r, d)
      PROVE  ProtocolInv' /\ ProtocolFinal
  <2>1. UNCHANGED <<links, crashes>>
    BY <1>4 DEF SaveReport
  <2> QED  BY <1>1, <1>2, <1>4, <2>1, SaveKeeps
<1>5. ASSUME NEW h \in Handler, ClaimReport(h) PROVE ProtocolInv' /\ ProtocolFinal
  <2>1. UNCHANGED <<links, crashes>>
    BY <1>5 DEF ClaimReport
  <2> QED  BY <1>1, <1>2, <1>5, <2>1, ClaimKeeps
<1>6. ASSUME NEW h \in Handler, CompleteReport(h) PROVE ProtocolInv' /\ ProtocolFinal
  <2>1. UNCHANGED <<links, crashes>>
    BY <1>6 DEF CompleteReport
  <2> QED  BY <1>1, <1>2, <1>6, <2>1, CompleteKeeps
<1>7. ASSUME NEW h \in Handler, AbandonReport(h) PROVE ProtocolInv' /\ ProtocolFinal
  <2>1. UNCHANGED <<links, crashes>>
    BY <1>7 DEF AbandonReport
  <2> QED  BY <1>1, <1>2, <1>7, <2>1, AbandonKeeps
<1>8. ASSUME NEW h \in Handler, MarkHandled(h) PROVE ProtocolInv' /\ ProtocolFinal
  <2>1. UNCHANGED <<links, crashes>>
    BY <1>8 DEF MarkHandled
  <2> QED  BY <1>1, <1>2, <1>8, <2>1, MarkKeeps
<1>9. CASE RestartStore
  <2>1. ReportsInv' /\ ReportsFinal
    BY <1>1, <1>9, RestartKeeps
  <2>2. UNCHANGED links /\ crashes' = crashes + 1 /\ crashes < MaxStoreCrashes
    BY <1>9 DEF RestartStore
  <2>3. LinksInOrder' /\ LinksFinal
    BY <1>1, <2>2 DEF LinksInOrder, LinksFinal
  <2>4. crashes' \in 0..MaxStoreCrashes
    BY <1>1, <2>2, ProtocolAssumption
  <2> QED  BY <2>1, <2>3, <2>4 DEF ProtocolInv, ProtocolFinal
<1>10. ASSUME NEW l \in Circuit, NEW at \in 0..MaxClock, OpenLink(l, at)
       PROVE  ProtocolInv' /\ ProtocolFinal
  <2>1. UNCHANGED <<reportVars, crashes>>
    BY <1>10 DEF OpenLink
  <2> QED  BY <1>1, <1>3, <1>10, <2>1, OpenKeeps
<1>11. ASSUME NEW l \in Circuit, NEW expected \in 0..MaxSequence, NEW number \in 0..MaxSequence,
              NEW at \in 0..MaxClock, HeartbeatLink(l, expected, number, at)
       PROVE  ProtocolInv' /\ ProtocolFinal
  <2>1. UNCHANGED <<reportVars, crashes>>
    BY <1>11 DEF HeartbeatLink
  <2> QED  BY <1>1, <1>3, <1>11, <2>1, HeartbeatKeeps
<1>12. ASSUME NEW l \in Circuit, NEW expected \in 0..MaxSequence, NEW at \in 0..MaxClock,
              DisconnectLink(l, expected, at)
       PROVE  ProtocolInv' /\ ProtocolFinal
  <2>1. UNCHANGED <<reportVars, crashes>>
    BY <1>12 DEF DisconnectLink
  <2> QED  BY <1>1, <1>3, <1>12, <2>1, DisconnectKeeps
<1>13. CASE UNCHANGED protocolVars
  <2>1. UNCHANGED <<links, crashes>> /\ UNCHANGED reportVars
    BY <1>13 DEF protocolVars
  <2>2. ReportsInv' /\ ReportsFinal
    BY <1>1, <2>1, LinksLeaveReports
  <2> QED  BY <1>2, <2>1, <2>2
<1> QED  BY <1>4, <1>5, <1>6, <1>7, <1>8, <1>9, <1>10, <1>11, <1>12, <1>13 DEF ProtocolNext

\* A set whose members are all the same has at most one.
LEMMA AtMostOne ==
    ASSUME NEW S, \A x, y \in S : x = y
    PROVE  Cardinality(S) <= 1
<1>1. CASE S = {}
  <2>1. Cardinality(S) = 0
    BY <1>1, FS_EmptySet
  <2> QED  BY <2>1
<1>2. CASE S # {}
  <2>1. PICK x \in S : TRUE
    BY <1>2
  <2>2. S = {x}
    BY <2>1
  <2>3. Cardinality(S) = 1
    BY <2>2, FS_Singleton
  <2> QED  BY <2>3
<1> QED  BY <1>1, <1>2

LEMMA ReportsAreFenced == ProtocolInv => ReportsFenced
<1> SUFFICES ASSUME ProtocolInv PROVE ReportsFenced
  OBVIOUS
<1> USE DEF ProtocolInv, ReportsInv
<1>1. ASSUME NEW d \in ReportContent
      PROVE  Cardinality({h \in Handler : handling[h].step = "APPLY" /\ handling[h].content = d}) <= 1
  <2> DEFINE S == {h \in Handler : handling[h].step = "APPLY" /\ handling[h].content = d}
  <2>1. \A g, h \in S : g = h
    BY DEF AppliedByOne
  <2> HIDE DEF S
  <2>2. Cardinality(S) <= 1
    BY <2>1, AtMostOne
  <2> QED  BY <2>2 DEF S
<1>2. ASSUME NEW d \in ReportContent
      PROVE  appliedReports[d] <= 1
  BY DEF ProtocolRows
<1>3. ASSUME NEW d \in ReportContent
      PROVE  ClaimsOf(d, "COMPLETE") # {} <=> appliedReports[d] = 1
  BY DEF AppliedIsComplete, ClaimsOf
<1>4. ASSUME NEW d \in ReportContent, appliedReports[d] = 1
      PROVE  ~ \E h \in Handler : handling[h].step = "APPLY" /\ handling[h].content = d
  BY <1>4 DEF ApplyingIsClaimed
<1>5. \A r \in ReportId : claims[r] # NoClaim => archivedReports[r] = claims[r].content
  BY DEF ClaimsMatchArchive
<1>6. Cardinality(OpenedCircuits) <= 1
  <2>1. \A k, l \in OpenedCircuits : k = l
    BY DEF OpenedCircuits, LinksInOrder
  <2> QED  BY <2>1, AtMostOne
<1>7. \A l \in Circuit : links[l] # NoCircuit =>
         /\ links[l].beat >= links[l].since
         /\ links[l].state = "CLOSED" => links[l].end >= links[l].beat
  BY DEF LinksInOrder
<1> QED  BY <1>1, <1>2, <1>3, <1>4, <1>5, <1>6, <1>7 DEF ReportsFenced

LEMMA ProtocolInvAlways == ProtocolSpec => []ProtocolInv
<1>1. ProtocolInit => ProtocolInv
  BY ProtocolInvInit
<1>2. ProtocolInv /\ [ProtocolNext]_protocolVars => ProtocolInv'
  BY ProtocolInvNext
<1> QED  BY <1>1, <1>2, PTL DEF ProtocolSpec

\* A report's content is applied by one handler at a time and to the end at most
\* once, and an Agent has one open connection (claim_report, complete_report).
THEOREM ReportsFencedAlways == ProtocolSpec => []ReportsFenced
  BY ProtocolInvAlways, ReportsAreFenced, PTL

\* No crash, repetition or late handler changes a message's outcome, a completed
\* claim or a closed connection (mark_handled, complete_report, disconnect).
THEOREM OutcomesAreFinalAlways == ProtocolSpec => OutcomesAreFinal
<1> DEFINE Step ==
       /\ \A r \in ReportId :
            /\ messages[r] \in {"HANDLED", "REJECTED"} => messages'[r] = messages[r]
            /\ claims[r].status = "COMPLETE" => claims'[r] = claims[r]
       /\ \A l \in Circuit : links[l].state = "CLOSED" => links'[l] = links[l]
<1>1. ProtocolInv /\ [ProtocolNext]_protocolVars => [Step]_protocolVars
  BY ProtocolInvNext DEF ProtocolFinal, ReportsFinal, LinksFinal
<1> QED  BY <1>1, ProtocolInvAlways, PTL DEF ProtocolSpec, OutcomesAreFinal

\* No content is applied more often than the bound says.
AppliedBounded == appliedReports \in [ReportContent -> 0..MaxApplies]

LEMMA AppliedBoundedNext ==
    ProtocolInv /\ AppliedBounded /\ [ProtocolNext]_protocolVars => AppliedBounded'
<1> SUFFICES ASSUME ProtocolInv, AppliedBounded, [ProtocolNext]_protocolVars PROVE AppliedBounded'
  OBVIOUS
<1>1. ASSUME NEW h \in Handler, CompleteReport(h) PROVE AppliedBounded'
  <2>1. handling[h].content \in ReportContent
    BY <1>1, ProtocolShapes DEF ProtocolInv, ReportsInv, ProtocolRows, CompleteReport
  <2>2. PICK d \in ReportContent : appliedReports' = [appliedReports EXCEPT ![d] = @ + 1]
                                   /\ appliedReports[d] < MaxApplies
    BY <1>1, <2>1 DEF CompleteReport
  <2>3. appliedReports[d] + 1 \in 0..MaxApplies
    BY <2>2, ProtocolAssumption DEF AppliedBounded
  <2> QED  BY <2>2, <2>3 DEF AppliedBounded
<1>2. CASE UNCHANGED appliedReports
  BY <1>2 DEF AppliedBounded
<1> QED
  BY <1>1, <1>2 DEF ProtocolNext, SaveReport, ClaimReport, AbandonReport, MarkHandled, RestartStore, OpenLink,
     HeartbeatLink, DisconnectLink, reportVars, protocolVars

LEMMA ProtocolTyped == ProtocolSpec => []ProtocolTypeOK
<1>1. ProtocolInit => AppliedBounded
  BY ProtocolAssumption DEF ProtocolInit, AppliedBounded
<1>2. ProtocolInv /\ AppliedBounded => ProtocolTypeOK
  BY ProtocolShapes
  DEF ProtocolInv, ReportsInv, ProtocolRows, LinksInOrder, AppliedBounded, ProtocolTypeOK, Claim, LinkRow
<1> QED  BY <1>1, <1>2, AppliedBoundedNext, ProtocolInvAlways, PTL DEF ProtocolSpec

-----------------------------------------------------------------------------
(* The Agent's start and stop. *)

\* A set of numbers has a least one.
LEMMA LeastNumber ==
    ASSUME NEW T \in SUBSET Nat, T # {}
    PROVE  \E x \in T : \A y \in T : x <= y
<1> DEFINE R == OpToRel(<, Nat)
<1>1. IsWellFoundedOn(R, Nat)
  BY Zenon, NatLessThanWellFounded
<1>2. \A x, y \in Nat : x < y => <<x, y>> \in R
  BY DEF OpToRel
<1> HIDE DEF R
<1>3. PICK x \in T : \A y \in T : <<y, x>> \notin R
  BY <1>1, WFMin
<1>4. \A y \in T : ~(y < x) /\ y \in Nat /\ x \in Nat
  BY <1>2, <1>3
<1> QED  BY <1>4

-----------------------------------------------------------------------------
(* Plugins. *)

AgentPhases == {"off", "plugins", "backends", "catalog", "recovery", "ready", "stopping",
                "unwinding", "stopped", "failed", "abandoned"}

Working(e) == wantedState[e].outcome \in {"sick", "well"}

PluginRows ==
    /\ agentPhase \in AgentPhases
    /\ next \in 1..(NumPlugins + 1)
    /\ plugin \in [PluginNo -> {"absent", "dirty", "up", "down", "stuck"}]
    /\ tracked \in Seq(PluginNo)

\* The entries before the next are decided, the ones after it untouched.
LoadingInOrder ==
    agentPhase \in {"off", "plugins"} =>
        /\ TrackedEntries = {e \in Expected : e < next}
        /\ \A e \in PluginNo : e < next =>
             /\ plugin[e] # "dirty"
             /\ plugin[e] = "up" <=> e \in Expected
             /\ e \in Expected \/ wantedState[e].outcome = "disabled" \/ e \in failed
        /\ \A e \in PluginNo : e >= next =>
             /\ plugin[e] \in {"absent", "dirty"}
             /\ plugin[e] = "dirty" => e = next /\ ~Duplicate(e)

LoadedAll ==
    agentPhase \notin {"off", "plugins"} => \A e \in PluginNo : plugin[e] # "dirty"

ServingInv ==
    agentPhase \in {"backends", "catalog", "recovery", "ready", "abandoned"} =>
        /\ TrackedEntries = Expected /\ known = Expected
        /\ \A e \in PluginNo : plugin[e] = "up" <=> e \in Expected
        /\ \A e \in PluginNo \ Expected : wantedState[e].outcome = "disabled" \/ e \in failed

\* What is left running is still to be stopped.
StoppingInOrder ==
    /\ agentPhase \in {"unwinding", "stopping"} =>
         \A e \in PluginNo : plugin[e] = "up" => e \in TrackedEntries
    /\ agentPhase \in {"failed", "stopped"} =>
         /\ tracked = <<>> /\ started = {}
         /\ \A e \in PluginNo : plugin[e] # "up"

LifecycleInv == PluginRows /\ LoadingInOrder /\ LoadedAll /\ ServingInv /\ StoppingInOrder

LEMMA PluginNumbers ==
    /\ NumPlugins \in Nat
    /\ \A e \in PluginNo : e \in Nat /\ e >= 1 /\ e <= NumPlugins
    /\ \A e \in Nat : e >= 1 /\ e <= NumPlugins => e \in PluginNo
  BY LifecycleAssumption DEF PluginNo

LEMMA LifecycleInvInit == LifecycleInit => LifecycleInv
<1> SUFFICES ASSUME LifecycleInit PROVE LifecycleInv
  OBVIOUS
<1>1. agentPhase = "off" /\ next = 1 /\ tracked = <<>> /\ plugin = [e \in PluginNo |-> "absent"]
  BY DEF LifecycleInit
<1>2. PluginRows
  <2>1. 1 \in 1..(NumPlugins + 1)
    BY PluginNumbers
  <2> QED  BY <1>1, <2>1 DEF PluginRows, AgentPhases
<1>3. TrackedEntries = {}
  BY <1>1 DEF TrackedEntries
<1>4. \A e \in PluginNo : ~(e < next)
  BY <1>1, PluginNumbers
<1>5. LoadingInOrder
  BY <1>1, <1>3, <1>4 DEF LoadingInOrder, Expected
<1>6. LoadedAll /\ ServingInv /\ StoppingInOrder
  BY <1>1 DEF LoadedAll, ServingInv, StoppingInOrder
<1> QED  BY <1>2, <1>5, <1>6 DEF LifecycleInv

\* Of the working entries of one name the first is the one expected.
LEMMA FirstOfName ==
    ASSUME NEW e \in PluginNo, Working(e)
    PROVE  e \in Expected \/ \E d \in Expected : d < e /\ NameOf(d) = NameOf(e)
<1> SUFFICES ASSUME e \notin Expected PROVE \E d \in Expected : d < e /\ NameOf(d) = NameOf(e)
  OBVIOUS
<1> DEFINE T == {d \in 1..(e - 1) : Working(d) /\ NameOf(d) = NameOf(e)}
<1>1. T # {} /\ T \in SUBSET Nat
  <2>1. \E d \in 1..(e - 1) : wantedState[d].outcome \in {"sick", "well"} /\ NameOf(d) = NameOf(e)
    BY DEF Expected, Working
  <2> QED  BY <2>1, PluginNumbers DEF Working
<1>2. PICK d \in T : \A c \in T : d <= c
  BY <1>1, LeastNumber
<1>3. /\ d \in PluginNo /\ d < e /\ d \in Nat /\ e \in Nat
      /\ Working(d) /\ NameOf(d) = NameOf(e)
  BY <1>2, PluginNumbers
<1>4. ASSUME NEW c \in 1..(d - 1), Working(c), NameOf(c) = NameOf(d) PROVE FALSE
  <2>1. c \in 1..(e - 1) /\ c < d
    BY <1>3
  <2>2. c \in T
    BY <1>3, <1>4, <2>1
  <2>3. d <= c
    BY <1>2, <2>2
  <2> QED  BY <1>3, <2>1, <2>3
<1>5. d \in Expected
  BY <1>3, <1>4 DEF Expected, Working
<1> QED  BY <1>3, <1>5

\* While plugins are loaded, an entry is a duplicate when an earlier working one
\* has its name.
LEMMA DuplicateIsLater ==
    ASSUME LifecycleInv, agentPhase = "plugins", next \in PluginNo, Working(next)
    PROVE  ~Duplicate(next) <=> next \in Expected
<1>1. TrackedEntries = {e \in Expected : e < next}
  BY DEF LifecycleInv, LoadingInOrder
<1>2. ASSUME Duplicate(next) PROVE next \notin Expected
  <2>1. PICK d \in Expected : d < next /\ NameOf(d) = NameOf(next)
    BY <1>1, <1>2 DEF Duplicate
  <2>2. d \in 1..(next - 1) /\ wantedState[d].outcome \in {"sick", "well"}
    BY <2>1, PluginNumbers DEF Expected
  <2> QED  BY <2>1, <2>2 DEF Expected
<1>3. ASSUME next \notin Expected PROVE Duplicate(next)
  BY <1>1, <1>3, FirstOfName DEF Duplicate
<1> QED  BY <1>2, <1>3

LEMMA SameExpected ==
    ASSUME UNCHANGED wantedState
    PROVE  /\ Expected' = Expected
           /\ \A e : (wantedState[e].outcome)' = wantedState[e].outcome
           /\ \A e : (NameOf(e))' = NameOf(e)
  BY DEF Expected, NameOf

LEMMA SameTracked ==
    ASSUME UNCHANGED tracked PROVE TrackedEntries' = TrackedEntries
  BY DEF TrackedEntries

LEMMA ExpectedTyped == Expected \subseteq PluginNo
  BY DEF Expected

\* An entry that is decided makes room for the next one.
LEMMA EntryDecided ==
    ASSUME LifecycleInv, agentPhase = "plugins", next \in PluginNo,
           next' = next + 1, UNCHANGED <<agentPhase, wantedState>>,
           tracked' \in Seq(PluginNo), plugin' \in [PluginNo -> {"absent", "dirty", "up", "down", "stuck"}],
           \A e \in PluginNo : e # next => plugin'[e] = plugin[e],
           plugin'[next] # "dirty", plugin'[next] = "up" <=> next \in Expected,
           failed \subseteq failed',
           next \in Expected \/ wantedState[next].outcome = "disabled" \/ next \in failed',
           TrackedEntries' = IF next \in Expected THEN TrackedEntries \cup {next} ELSE TrackedEntries
    PROVE  LifecycleInv'
<1>1. next \in Nat /\ next <= NumPlugins /\ NumPlugins \in Nat /\ next >= 1
  BY PluginNumbers
<1>2. PluginRows'
  <2>1. next + 1 \in 1..(NumPlugins + 1)
    BY <1>1
  <2> QED  BY <2>1 DEF PluginRows, LifecycleInv
<1>3. Expected' = Expected /\ Expected \subseteq PluginNo
  BY SameExpected, ExpectedTyped
<1>4. \A e \in PluginNo : (e < next + 1 <=> e < next \/ e = next) /\ (e >= next + 1 => e # next /\ e >= next)
  BY <1>1, PluginNumbers
<1>5. TrackedEntries' = {e \in Expected' : e < next'}
  <2>1. TrackedEntries = {e \in Expected : e < next}
    BY DEF LifecycleInv, LoadingInOrder
  <2> QED  BY <1>3, <1>4, <2>1
<1>6. ASSUME NEW e \in PluginNo, e < next'
      PROVE  /\ plugin'[e] # "dirty"
             /\ plugin'[e] = "up" <=> e \in Expected'
             /\ e \in Expected' \/ (wantedState[e].outcome = "disabled")' \/ e \in failed'
  <2>1. CASE e = next
    BY <1>3, <2>1
  <2>2. CASE e # next
    <3>1. e < next
      BY <1>4, <1>6, <2>2
    <3> QED  BY <1>3, <2>2, <3>1 DEF LifecycleInv, LoadingInOrder
  <2> QED  BY <2>1, <2>2
<1>7. ASSUME NEW e \in PluginNo, e >= next'
      PROVE  plugin'[e] \in {"absent", "dirty"} /\ plugin'[e] # "dirty"
  <2>1. e # next /\ e >= next
    BY <1>4, <1>7
  <2> QED  BY <2>1 DEF LifecycleInv, LoadingInOrder
<1>8. LoadingInOrder'
  BY <1>5, <1>6, <1>7 DEF LoadingInOrder
<1>9. LoadedAll' /\ ServingInv' /\ StoppingInOrder'
  BY DEF LoadedAll, ServingInv, StoppingInOrder
<1> QED  BY <1>2, <1>8, <1>9 DEF LifecycleInv

\* A step that leaves the plugins as they are, in the phase or within the ones
\* that follow it.
LEMMA PluginsStay ==
    ASSUME LifecycleInv, UNCHANGED <<wantedState, next, tracked, plugin, failed, known>>,
           \/ agentPhase' = agentPhase /\ (agentPhase \in {"failed", "stopped"} => started' = {})
           \/ agentPhase = "off" /\ agentPhase' = "plugins"
           \/ /\ agentPhase \in {"backends", "catalog", "recovery", "ready"}
              /\ agentPhase' \in {"backends", "catalog", "recovery", "ready", "unwinding", "stopping",
                                 "abandoned"}
    PROVE  LifecycleInv'
<1> USE DEF LifecycleInv
<1>1. PluginRows'
  BY DEF PluginRows, AgentPhases
<1>2. Expected' = Expected /\ TrackedEntries' = TrackedEntries
  BY SameExpected, SameTracked
<1>3. \A e \in PluginNo : Duplicate(e)' <=> Duplicate(e)
  BY <1>2, SameExpected DEF Duplicate
<1>4. LoadingInOrder'
  BY <1>2, <1>3 DEF LoadingInOrder
<1>5. LoadedAll'
  BY DEF LoadedAll
<1>6. ServingInv'
  BY <1>2 DEF ServingInv
<1>7. StoppingInOrder'
  BY <1>2 DEF StoppingInOrder, ServingInv
<1> QED  BY <1>1, <1>4, <1>5, <1>6, <1>7

LEMMA SkipKeeps == LifecycleInv /\ SkipEntry => LifecycleInv'
<1> SUFFICES ASSUME LifecycleInv, SkipEntry PROVE LifecycleInv'
  OBVIOUS
<1>1. /\ agentPhase = "plugins" /\ next \in PluginNo /\ plugin[next] = "absent"
      /\ next' = next + 1 /\ UNCHANGED <<agentPhase, wantedState, tracked, plugin>>
  BY DEF SkipEntry
<1>2. failed \subseteq failed' /\ (wantedState[next].outcome = "disabled" \/ next \in failed')
  BY DEF SkipEntry, Report
<1>3. ~Working(next) \/ Duplicate(next)
  BY DEF SkipEntry, Discovered, Working
<1>4. next \notin Expected
  BY <1>1, <1>3, DuplicateIsLater DEF Expected, Working
<1>5. TrackedEntries' = TrackedEntries
  BY <1>1, SameTracked
<1>6. tracked' \in Seq(PluginNo) /\ plugin' \in [PluginNo -> {"absent", "dirty", "up", "down", "stuck"}]
  BY <1>1 DEF LifecycleInv, PluginRows
<1> QED  BY <1>1, <1>2, <1>4, <1>5, <1>6, EntryDecided

LEMMA InitializeKeeps == LifecycleInv /\ InitializePlugin => LifecycleInv'
<1> SUFFICES ASSUME LifecycleInv, InitializePlugin PROVE LifecycleInv'
  OBVIOUS
<1>1. /\ agentPhase = "plugins" /\ next \in PluginNo /\ ~Duplicate(next)
      /\ plugin' = [plugin EXCEPT ![next] = "dirty"]
      /\ UNCHANGED <<agentPhase, wantedState, next, tracked, failed, known, started>>
  BY DEF InitializePlugin, registryVars
<1>2. Expected' = Expected /\ TrackedEntries' = TrackedEntries
  BY <1>1, SameExpected, SameTracked
<1>3. \A e \in PluginNo : Duplicate(e)' <=> Duplicate(e)
  BY <1>1, <1>2, SameExpected DEF Duplicate
<1>4. PluginRows'
  BY <1>1 DEF PluginRows, LifecycleInv
<1>5. \A e \in PluginNo : plugin'[e] = IF e = next THEN "dirty" ELSE plugin[e]
  BY <1>1 DEF LifecycleInv, PluginRows
<1>6. ~(next < next) /\ next >= next
  BY <1>1, PluginNumbers
<1>7. LoadingInOrder'
  BY <1>1, <1>2, <1>3, <1>5, <1>6 DEF LifecycleInv, LoadingInOrder
<1>8. LoadedAll' /\ ServingInv' /\ StoppingInOrder'
  BY <1>1 DEF LoadedAll, ServingInv, StoppingInOrder
<1> QED  BY <1>4, <1>7, <1>8 DEF LifecycleInv

LEMMA InitializeFailsKeeps == LifecycleInv /\ InitializeFails => LifecycleInv'
<1> SUFFICES ASSUME LifecycleInv, InitializeFails PROVE LifecycleInv'
  OBVIOUS
<1>1. /\ agentPhase = "plugins" /\ next \in PluginNo /\ wantedState[next].outcome = "unready"
      /\ plugin' = [plugin EXCEPT ![next] = Down(next)] /\ next' = next + 1
      /\ failed' = failed \cup {next} /\ UNCHANGED <<agentPhase, wantedState, tracked>>
  BY DEF InitializeFails, Report
<1>2. next \notin Expected
  BY <1>1 DEF Expected
<1>3. Down(next) \in {"down", "stuck"}
  BY DEF Down
<1>4. plugin' \in [PluginNo -> {"absent", "dirty", "up", "down", "stuck"}]
      /\ \A e \in PluginNo : plugin'[e] = IF e = next THEN Down(next) ELSE plugin[e]
  BY <1>1, <1>3 DEF LifecycleInv, PluginRows
<1>5. TrackedEntries' = TrackedEntries
  BY <1>1, SameTracked
<1>6. tracked' \in Seq(PluginNo)
  BY <1>1 DEF LifecycleInv, PluginRows
<1>7. plugin'[next] # "dirty" /\ plugin'[next] # "up" /\ failed \subseteq failed' /\ next \in failed'
  BY <1>1, <1>3, <1>4
<1> QED  BY <1>1, <1>2, <1>4, <1>5, <1>6, <1>7, EntryDecided

LEMMA PluginUpKeeps == LifecycleInv /\ PluginUp => LifecycleInv'
<1> SUFFICES ASSUME LifecycleInv, PluginUp PROVE LifecycleInv'
  OBVIOUS
<1>1. /\ agentPhase = "plugins" /\ next \in PluginNo /\ plugin[next] = "dirty" /\ Working(next)
      /\ plugin' = [plugin EXCEPT ![next] = "up"] /\ next' = next + 1
      /\ tracked' = Append(tracked, next) /\ UNCHANGED <<agentPhase, wantedState>>
      /\ failed \subseteq failed'
  BY DEF PluginUp, Working
<1>2. ~Duplicate(next)
  <2>1. next >= next
    BY <1>1, PluginNumbers
  <2> QED  BY <1>1, <2>1 DEF LifecycleInv, LoadingInOrder
<1>3. next \in Expected
  BY <1>1, <1>2, DuplicateIsLater
<1>4. plugin' \in [PluginNo -> {"absent", "dirty", "up", "down", "stuck"}]
      /\ \A e \in PluginNo : plugin'[e] = IF e = next THEN "up" ELSE plugin[e]
  BY <1>1 DEF LifecycleInv, PluginRows
<1>5. tracked \in Seq(PluginNo)
  BY DEF LifecycleInv, PluginRows
<1>6. /\ tracked' \in Seq(PluginNo) /\ Len(tracked') = Len(tracked) + 1
      /\ \A i \in 1..Len(tracked) : tracked'[i] = tracked[i]
      /\ tracked'[Len(tracked) + 1] = next
  BY <1>1, <1>5, AppendProperties
<1>7. TrackedEntries' = TrackedEntries \cup {next}
  <2>1. Len(tracked) \in Nat /\ DOMAIN tracked = 1..Len(tracked)
    BY <1>5, LenProperties
  <2>2. DOMAIN tracked' = 1..Len(tracked')
    BY <1>6, LenProperties
  <2>3. DOMAIN tracked' = (1..Len(tracked)) \cup {Len(tracked) + 1}
    BY <1>6, <2>1, <2>2
  <2> QED  BY <1>6, <2>1, <2>3 DEF TrackedEntries
<1> QED  BY <1>1, <1>3, <1>4, <1>6, <1>7, EntryDecided

LEMMA PluginsLoadedKeeps == LifecycleInv /\ PluginsLoaded => LifecycleInv'
<1> SUFFICES ASSUME LifecycleInv, PluginsLoaded PROVE LifecycleInv'
  OBVIOUS
<1>1. /\ agentPhase = "plugins" /\ next > NumPlugins /\ known' = TrackedEntries /\ agentPhase' = "backends"
      /\ UNCHANGED <<wantedState, next, tracked, plugin, failed>>
  BY DEF PluginsLoaded
<1>2. \A e \in PluginNo : e < next
  BY <1>1, PluginNumbers DEF LifecycleInv, PluginRows
<1>3. Expected' = Expected /\ TrackedEntries' = TrackedEntries
  BY <1>1, SameExpected, SameTracked
<1>4. /\ TrackedEntries = Expected
      /\ \A e \in PluginNo :
           /\ plugin[e] # "dirty"
           /\ plugin[e] = "up" <=> e \in Expected
           /\ e \in Expected \/ wantedState[e].outcome = "disabled" \/ e \in failed
  BY <1>1, <1>2, ExpectedTyped DEF LifecycleInv, LoadingInOrder
<1>5. PluginRows'
  BY <1>1 DEF PluginRows, AgentPhases, LifecycleInv
<1>6. LoadingInOrder' /\ LoadedAll' /\ StoppingInOrder'
  BY <1>1, <1>4 DEF LoadingInOrder, LoadedAll, StoppingInOrder
<1>7. ServingInv'
  BY <1>1, <1>3, <1>4 DEF ServingInv
<1> QED  BY <1>5, <1>6, <1>7 DEF LifecycleInv

LEMMA ShutdownKeeps == LifecycleInv /\ ShutdownPlugin => LifecycleInv'
<1> SUFFICES ASSUME LifecycleInv, ShutdownPlugin PROVE LifecycleInv'
  OBVIOUS
<1>1. tracked \in Seq(PluginNo) /\ tracked # <<>>
  BY DEF ShutdownPlugin, LifecycleInv, PluginRows
<1>2. PICK n \in Nat : Len(tracked) = n + 1 /\ DOMAIN tracked = 1..(n + 1)
  <2>1. Len(tracked) \in Nat /\ DOMAIN tracked = 1..Len(tracked)
    BY <1>1, LenProperties
  <2>2. Len(tracked) # 0
    BY <1>1, EmptySeq
  <2>3. Len(tracked) - 1 \in Nat /\ Len(tracked) = (Len(tracked) - 1) + 1
    BY <2>1, <2>2
  <2> QED  BY <2>1, <2>3
<1>3. PICK e \in PluginNo : e = tracked[n + 1]
  <2>1. n + 1 \in 1..(n + 1)
    BY <1>2
  <2> QED  BY <1>1, <1>2, <2>1, ElementOfSeq
<1>4. /\ agentPhase \in {"unwinding", "stopping"}
      /\ plugin' = [plugin EXCEPT ![e] = Down(e)] /\ tracked' = SubSeq(tracked, 1, n)
      /\ UNCHANGED <<agentPhase, wantedState, next, failed, known>>
  <2>1. Last(tracked) = e
    BY <1>2, <1>3 DEF Last
  <2>2. Front(tracked) = SubSeq(tracked, 1, n)
    BY <1>2 DEF Front
  <2> QED  BY <2>1, <2>2 DEF ShutdownPlugin
<1>5. Down(e) \in {"down", "stuck"}
  BY DEF Down
<1>6. plugin' \in [PluginNo -> {"absent", "dirty", "up", "down", "stuck"}]
      /\ \A d \in PluginNo : plugin'[d] = IF d = e THEN Down(e) ELSE plugin[d]
  BY <1>4, <1>5 DEF LifecycleInv, PluginRows
<1>7. /\ tracked' \in Seq(PluginNo) /\ Len(tracked') = n
      /\ \A i \in 1..n : tracked'[i] = tracked[i]
  <2>1. \A i \in 1..n : tracked[i] \in PluginNo
    BY <1>1, <1>2, ElementOfSeq
  <2>2. /\ SubSeq(tracked, 1, n) \in Seq(PluginNo)
        /\ Len(SubSeq(tracked, 1, n)) = IF 1 <= n THEN n - 1 + 1 ELSE 0
        /\ \A i \in 1..(n - 1 + 1) : SubSeq(tracked, 1, n)[i] = tracked[1 + i - 1]
    BY <1>2, <2>1, SubSeqProperties
  <2> QED  BY <1>2, <1>4, <2>2
<1>8. ASSUME NEW d \in TrackedEntries, d # e PROVE d \in TrackedEntries'
  <2>1. PICK i \in 1..(n + 1) : d = tracked[i]
    BY <1>2 DEF TrackedEntries
  <2>2. i \in 1..n
    BY <1>2, <1>3, <1>8, <2>1
  <2>3. DOMAIN tracked' = 1..n
    BY <1>7, LenProperties
  <2> QED  BY <1>7, <2>1, <2>2, <2>3 DEF TrackedEntries
<1>9. \A d \in PluginNo : plugin'[d] = "up" => d \in TrackedEntries'
  BY <1>4, <1>5, <1>6, <1>8 DEF LifecycleInv, StoppingInOrder
<1>10. PluginRows'
  BY <1>4, <1>6, <1>7 DEF PluginRows, LifecycleInv
<1>11. LoadedAll'
  BY <1>4, <1>5, <1>6 DEF LoadedAll, LifecycleInv
<1>12. LoadingInOrder' /\ ServingInv' /\ StoppingInOrder'
  BY <1>4, <1>9 DEF LoadingInOrder, ServingInv, StoppingInOrder
<1> QED  BY <1>10, <1>11, <1>12 DEF LifecycleInv

LEMMA StopRestKeeps == LifecycleInv /\ StopRest => LifecycleInv'
<1> SUFFICES ASSUME LifecycleInv, StopRest PROVE LifecycleInv'
  OBVIOUS
<1>1. /\ agentPhase \in {"unwinding", "stopping"} /\ tracked = <<>> /\ started' = {}
      /\ agentPhase' \in {"failed", "stopped"}
      /\ UNCHANGED <<wantedState, next, tracked, plugin, failed, known>>
  BY DEF StopRest, pluginVars
<1>2. TrackedEntries = {}
  BY <1>1 DEF TrackedEntries
<1>3. PluginRows'
  BY <1>1 DEF PluginRows, AgentPhases, LifecycleInv
<1>4. LoadingInOrder' /\ LoadedAll' /\ ServingInv'
  BY <1>1 DEF LoadingInOrder, LoadedAll, ServingInv, LifecycleInv
<1>5. StoppingInOrder'
  BY <1>1, <1>2 DEF StoppingInOrder, LifecycleInv
<1> QED  BY <1>3, <1>4, <1>5 DEF LifecycleInv

LEMMA LifecycleInvNext == LifecycleInv /\ [LifecycleNext]_lifecycleVars => LifecycleInv'
<1> SUFFICES ASSUME LifecycleInv, [LifecycleNext]_lifecycleVars PROVE LifecycleInv'
  OBVIOUS
<1> USE DEF pluginVars, registryVars
<1>1. StartAgent => LifecycleInv'
  BY PluginsStay DEF StartAgent
<1>2. SkipEntry => LifecycleInv'
  BY SkipKeeps
<1>3. InitializePlugin => LifecycleInv'
  BY InitializeKeeps
<1>4. InitializeFails => LifecycleInv'
  BY InitializeFailsKeeps
<1>5. PluginUp => LifecycleInv'
  BY PluginUpKeeps
<1>6. PluginsLoaded => LifecycleInv'
  BY PluginsLoadedKeeps
<1>7. ASSUME NEW e \in PluginNo PROVE Diagnose(e) => LifecycleInv'
  BY PluginsStay DEF Diagnose
<1>8. StartBackends => LifecycleInv'
  BY PluginsStay DEF StartBackends
<1>9. ASSUME NEW b \in Backend, NEW benches \in SUBSET Target PROVE Move(b, benches) => LifecycleInv'
  BY PluginsStay DEF Move
<1>10. ASSUME NEW b \in Backend, NEW answers \in BOOLEAN PROVE ListBackend(b, answers) => LifecycleInv'
  BY PluginsStay DEF ListBackend, Refreshing
<1>11. Refresh => LifecycleInv'
  <2> SUFFICES ASSUME Refresh PROVE LifecycleInv'
    OBVIOUS
  <2>1. agentPhase \in {"backends", "catalog", "ready"} /\ UNCHANGED pluginVars
    BY DEF Refresh, Refreshing
  <2>2. agentPhase' \in {"catalog", "recovery", "ready", "unwinding"}
    <3>1. CASE agentPhase = "ready"
      BY <3>1 DEF Refresh
    <3>2. CASE agentPhase = "backends"
      BY <3>2 DEF Refresh
    <3>3. CASE agentPhase = "catalog"
      BY <3>3 DEF Refresh
    <3> QED  BY <2>1, <3>1, <3>2, <3>3
  <2> QED  BY <2>1, <2>2, PluginsStay
<1>12. FinishStart => LifecycleInv'
  BY PluginsStay DEF FinishStart
<1>13. StopAgent => LifecycleInv'
  BY PluginsStay DEF StopAgent
<1>14. ShutdownPlugin => LifecycleInv'
  BY ShutdownKeeps
<1>15. StopRest => LifecycleInv'
  BY StopRestKeeps
<1>16. UNCHANGED lifecycleVars => LifecycleInv'
  BY PluginsStay DEF lifecycleVars, LifecycleInv, StoppingInOrder
<1> QED
  BY <1>1, <1>2, <1>3, <1>4, <1>5, <1>6, <1>7, <1>8, <1>9, <1>10, <1>11, <1>12, <1>13, <1>14, <1>15,
     <1>16, Zenon DEF LifecycleNext

LEMMA LifecycleIsSound == LifecycleInv => LifecycleSound
<1> SUFFICES ASSUME LifecycleInv PROVE LifecycleSound
  OBVIOUS
<1>1. plugin \in [PluginNo -> {"absent", "dirty", "up", "down", "stuck"}] /\ agentPhase \in AgentPhases
  BY DEF LifecycleInv, PluginRows
<1>2. \A e \in PluginNo : plugin[e] = "dirty" => e = next
  <2>1. CASE agentPhase \in {"off", "plugins"}
    <3>1. \A e \in PluginNo : e < next \/ e >= next
      BY PluginNumbers DEF LifecycleInv, PluginRows
    <3> QED  BY <2>1, <3>1 DEF LifecycleInv, LoadingInOrder
  <2>2. CASE agentPhase \notin {"off", "plugins"}
    BY <2>2 DEF LifecycleInv, LoadedAll
  <2> QED  BY <2>1, <2>2
<1>3. agentPhase \in {"failed", "stopped"} =>
         /\ tracked = <<>> /\ started = {}
         /\ \A e \in PluginNo : plugin[e] \in {"absent", "down", "stuck"}
  BY <1>1 DEF LifecycleInv, StoppingInOrder, LoadedAll
<1> QED  BY <1>2, <1>3 DEF LifecycleSound, LifecycleInv, ServingInv

LEMMA LifecycleInvAlways == LifecycleSpec => []LifecycleInv
<1>1. LifecycleInit => LifecycleInv
  BY LifecycleInvInit
<1>2. LifecycleInv /\ [LifecycleNext]_lifecycleVars => LifecycleInv'
  BY LifecycleInvNext
<1> QED  BY <1>1, <1>2, PTL DEF LifecycleSpec

-----------------------------------------------------------------------------
(* Routes to the benches. *)

OwnersKnown == owners \in [Target -> Backend \cup {NoBackend}]

\* What a step does to the ownership: nothing, or what Refresh decides.
NoConflictRefresh ==
    ~Conflict /\ owners' = [t \in Target |->
                   IF Listing(t) \cup Kept(t) = {} THEN NoBackend
                   ELSE CHOOSE b \in Listing(t) \cup Kept(t) : TRUE]

LEMMA RoutesMove ==
    ASSUME [LifecycleNext]_lifecycleVars
    PROVE  UNCHANGED owners \/ NoConflictRefresh
<1>1. StartAgent => UNCHANGED owners
  BY DEF StartAgent, registryVars
<1>2. SkipEntry => UNCHANGED owners
  BY DEF SkipEntry, registryVars
<1>3. InitializePlugin => UNCHANGED owners
  BY DEF InitializePlugin, registryVars
<1>4. InitializeFails => UNCHANGED owners
  BY DEF InitializeFails, registryVars
<1>5. PluginUp => UNCHANGED owners
  BY DEF PluginUp, registryVars
<1>6. PluginsLoaded => UNCHANGED owners
  BY DEF PluginsLoaded, registryVars
<1>7. ASSUME NEW e \in PluginNo PROVE Diagnose(e) => UNCHANGED owners
  BY DEF Diagnose, registryVars
<1>8. StartBackends => UNCHANGED owners
  BY DEF StartBackends
<1>9. ASSUME NEW b \in Backend, NEW benches \in SUBSET Target PROVE Move(b, benches) => UNCHANGED owners
  BY DEF Move
<1>10. ASSUME NEW b \in Backend, NEW answers \in BOOLEAN PROVE ListBackend(b, answers) => UNCHANGED owners
  BY DEF ListBackend
<1>11. Refresh => UNCHANGED owners \/ NoConflictRefresh
  BY DEF Refresh, NoConflictRefresh
<1>12. FinishStart => UNCHANGED owners
  BY DEF FinishStart, registryVars
<1>13. StopAgent => UNCHANGED owners
  BY DEF StopAgent, registryVars
<1>14. ShutdownPlugin => UNCHANGED owners
  BY DEF ShutdownPlugin, registryVars
<1>15. StopRest => UNCHANGED owners
  BY DEF StopRest
<1>16. UNCHANGED lifecycleVars => UNCHANGED owners
  BY DEF lifecycleVars, registryVars
<1> QED
  BY <1>1, <1>2, <1>3, <1>4, <1>5, <1>6, <1>7, <1>8, <1>9, <1>10, <1>11, <1>12, <1>13, <1>14, <1>15,
     <1>16, Zenon DEF LifecycleNext

LEMMA ClaimantsAreBackends ==
    ASSUME NEW t \in Target
    PROVE  /\ Listing(t) \cup Kept(t) \subseteq Backend
           /\ IsFiniteSet(Listing(t) \cup Kept(t))
<1>1. Listing(t) \cup Kept(t) \subseteq Backend
  BY DEF Listing, Kept, Answered
<1>2. IsFiniteSet(Backend)
  BY LifecycleAssumption
<1> QED  BY <1>1, <1>2, FS_Subset

LEMMA OwnersKnownNext == OwnersKnown /\ [LifecycleNext]_lifecycleVars => OwnersKnown'
<1> SUFFICES ASSUME OwnersKnown, [LifecycleNext]_lifecycleVars PROVE OwnersKnown'
  OBVIOUS
<1>1. CASE UNCHANGED owners
  BY <1>1 DEF OwnersKnown
<1>2. CASE NoConflictRefresh
  <2> DEFINE owner(t) == IF Listing(t) \cup Kept(t) = {} THEN NoBackend
                         ELSE CHOOSE b \in Listing(t) \cup Kept(t) : TRUE
  <2>1. ASSUME NEW t \in Target PROVE owner(t) \in Backend \cup {NoBackend}
    BY ClaimantsAreBackends
  <2>2. owners' = [t \in Target |-> owner(t)]
    BY <1>2 DEF NoConflictRefresh
  <2> HIDE DEF owner
  <2> QED  BY <2>1, <2>2 DEF OwnersKnown
<1> QED  BY <1>1, <1>2, RoutesMove

\* A bench that its backend still claims stays there.
LEMMA ClaimedStays ==
    ASSUME NoConflictRefresh, NEW t \in Target, NEW b \in Listing(t) \cup Kept(t)
    PROVE  owners'[t] = b
<1> DEFINE S == Listing(t) \cup Kept(t)
<1>1. IsFiniteSet(S) /\ S \subseteq Backend
  BY ClaimantsAreBackends
<1>2. Cardinality(S) \in Nat
  BY <1>1, FS_CardinalityType
<1>3. ~(Cardinality(S) > 1)
  BY DEF NoConflictRefresh, Conflict
<1>4. ASSUME NEW c \in S PROVE c = b
  <2> SUFFICES ASSUME c # b PROVE FALSE
    OBVIOUS
  <2>1. {b, c} \subseteq S
    OBVIOUS
  <2>2. Cardinality({b, c}) <= Cardinality(S)
    BY <1>1, <2>1, FS_Subset
  <2>3. Cardinality({b, c}) = 2
    <3>1. IsFiniteSet({b}) /\ Cardinality({b}) = 1
      BY FS_Singleton
    <3>2. c \notin {b} /\ {b} \cup {c} = {b, c}
      OBVIOUS
    <3>3. Cardinality({b} \cup {c}) = Cardinality({b}) + 1
      BY <3>1, <3>2, FS_AddElement
    <3> QED  BY <3>1, <3>2, <3>3
  <2> QED  BY <1>2, <1>3, <2>2, <2>3
<1>5. S = {b}
  BY <1>4
<1>6. (CHOOSE c \in S : TRUE) = b /\ S # {}
  BY <1>5
<1>7. owners'[t] = IF S = {} THEN NoBackend ELSE CHOOSE c \in S : TRUE
  BY DEF NoConflictRefresh
<1> QED  BY <1>6, <1>7

LEMMA RoutesStep ==
    OwnersKnown /\ [LifecycleNext]_lifecycleVars =>
        \A t \in Target :
            owners[t] # NoBackend /\ owners'[t] # owners[t] =>
                /\ owners[t] \in Answered
                /\ t \notin listing[owners[t]].benches
<1> SUFFICES ASSUME OwnersKnown, [LifecycleNext]_lifecycleVars,
                    NEW t \in Target, owners[t] # NoBackend, owners'[t] # owners[t]
             PROVE  owners[t] \in Answered /\ t \notin listing[owners[t]].benches
  OBVIOUS
<1>1. owners[t] \in Backend
  BY DEF OwnersKnown
<1>2. NoConflictRefresh
  BY RoutesMove
<1>3. owners[t] \notin Listing(t) \cup Kept(t)
  BY <1>2, ClaimedStays
<1> QED  BY <1>1, <1>3 DEF Listing, Kept

\* A bench leaves a backend only when that backend answered without it, whatever
\* the others claim and however refreshes fail (BackendRegistry.refresh).
THEOREM RoutesHoldAlways == LifecycleSpec => RoutesHold
<1> DEFINE Step ==
       \A t \in Target :
            owners[t] # NoBackend /\ owners'[t] # owners[t] =>
                /\ owners[t] \in Answered
                /\ t \notin listing[owners[t]].benches
<1>1. LifecycleInit => OwnersKnown
  BY DEF LifecycleInit, OwnersKnown
<1>2. OwnersKnown /\ [LifecycleNext]_lifecycleVars => OwnersKnown'
  BY OwnersKnownNext
<1>3. OwnersKnown /\ [LifecycleNext]_lifecycleVars => [Step]_lifecycleVars
  BY RoutesStep
<1> QED  BY <1>1, <1>2, <1>3, PTL DEF LifecycleSpec, RoutesHold

\* The rest of the rows: reports, registrations, backends and the two bounds.
RegistryRows ==
    /\ failed \subseteq PluginNo /\ known \subseteq PluginNo /\ started \subseteq Backend
    /\ moves \in 0..MaxMoves /\ listings \in 0..MaxListings

LEMMA RegistryRowsNext ==
    LifecycleInv /\ RegistryRows /\ [LifecycleNext]_lifecycleVars => RegistryRows'
<1> SUFFICES ASSUME LifecycleInv, RegistryRows, [LifecycleNext]_lifecycleVars PROVE RegistryRows'
  OBVIOUS
<1> USE LifecycleAssumption DEF RegistryRows, pluginVars, registryVars
<1>1. TrackedEntries \subseteq PluginNo
  BY DEF LifecycleInv, PluginRows, TrackedEntries
<1>2. CASE StartAgent \/ FinishStart \/ StopAgent \/ ShutdownPlugin \/ \E e \in PluginNo : Diagnose(e)
  BY <1>2 DEF StartAgent, FinishStart, StopAgent, ShutdownPlugin, Diagnose
<1>3. CASE SkipEntry \/ InitializePlugin \/ InitializeFails \/ PluginUp
  <2>1. failed' \subseteq PluginNo
    BY <1>3 DEF SkipEntry, InitializePlugin, InitializeFails, PluginUp, Report
  <2> QED  BY <1>3, <2>1 DEF SkipEntry, InitializePlugin, InitializeFails, PluginUp
<1>4. CASE PluginsLoaded
  BY <1>1, <1>4 DEF PluginsLoaded
<1>5. CASE StartBackends \/ StopRest
  BY <1>5 DEF StartBackends, StopRest
<1>6. CASE \E b \in Backend, benches \in SUBSET Target : Move(b, benches)
  BY <1>6 DEF Move
<1>7. CASE \E b \in Backend, answers \in BOOLEAN : ListBackend(b, answers)
  BY <1>7 DEF ListBackend
<1>8. CASE Refresh
  BY <1>8 DEF Refresh, Refreshing
<1>9. CASE UNCHANGED lifecycleVars
  BY <1>9 DEF lifecycleVars
<1> QED  BY <1>2, <1>3, <1>4, <1>5, <1>6, <1>7, <1>8, <1>9 DEF LifecycleNext

LEMMA LifecycleTyped == LifecycleSpec => []LifecycleTypeOK
<1>1. LifecycleInit => OwnersKnown /\ RegistryRows
  BY LifecycleAssumption DEF LifecycleInit, OwnersKnown, RegistryRows
<1>2. LifecycleInv /\ OwnersKnown /\ RegistryRows => LifecycleTypeOK
  BY DEF LifecycleInv, PluginRows, AgentPhases, OwnersKnown, RegistryRows, LifecycleTypeOK, TrackedEntries
<1> QED  BY <1>1, <1>2, OwnersKnownNext, RegistryRowsNext, LifecycleInvAlways, PTL DEF LifecycleSpec


-----------------------------------------------------------------------------
(* CI sessions. *)

RemoteState == {"none", "running", "lost"} \cup Settled
Beat == {"fresh", "stale", "expired"}

CiTask ==
    [op : {"start", "heartbeat", "cancel", "cleanup", "maintain"},
     at : {"act", "attach", "send", "leave", "watch", "owner", "cleanup", "release", "finish"},
     snap : Session, sweep : Beat \cup {NoSweep}, freed : BOOLEAN]

\* A row that is bound has an operation; one that says succeeded is bound to an
\* operation that succeeded.
RowTrue(s) ==
    /\ s.held => remote # "none"
    /\ s.outcome = "succeeded" => s.held /\ remote = "succeeded"

\* A row a handler may work with.
LiveRow(s) == s \in Session /\ s.status \notin {"none", "completed"} /\ RowTrue(s)

\* Only what was released, or was never held, counts as freed.
TaskSound(t) ==
    /\ t \in CiTask
    /\ LiveRow(t.snap)
    /\ t.at = "attach" => remote # "none"
    /\ t.freed => t.at = "finish" /\ (t.snap.held => ciLease = "over")

CiRows ==
    /\ ciRow \in Session /\ reader \in Session
    /\ remote \in RemoteState
    /\ ciLease \in {"none", "active", "releasing", "over"}
    /\ pending \in BOOLEAN
    /\ beat \in Beat /\ sweep \in Beat \cup {NoSweep}
    /\ ciLease = "none" <=> remote = "none"
    /\ RowTrue(ciRow) /\ RowTrue(reader)

\* A session that is worked on is neither new nor completed.
TaskInv == task = NoTask \/ (TaskSound(task) /\ LiveRow(ciRow))

CompletedSound ==
    ciRow.status = "completed" =>
        /\ ciRow.held => ciLease = "over"
        /\ ciRow.outcome = "succeeded" => ~pending

CiInv == CiRows /\ TaskInv /\ CompletedSound

LEMMA CiShapes ==
    /\ NoTask.op = "idle"
    /\ \A t \in CiTask : t # NoTask /\ t.op # "idle" /\ t.snap \in Session
                         /\ t.sweep \in Beat \cup {NoSweep} /\ t.freed \in BOOLEAN
    /\ \A s \in Session : s.status \in SessionStatus /\ s.outcome \in Outcome /\ s.held \in BOOLEAN
    /\ NoCiSession \in Session /\ NoCiSession.status = "none" /\ NoCiSession.outcome = "pending"
    /\ NoCiSession.held = FALSE
  BY DEF NoTask, CiTask, NoCiSession, Session, SessionStatus, Outcome

\* A row with another status and outcome.
LEMMA StatusRewritten ==
    ASSUME NEW s \in Session, NEW standing \in SessionStatus
    PROVE  \E row \in Session : /\ row = [s EXCEPT !.status = standing]
                                /\ row.status = standing /\ row.outcome = s.outcome /\ row.held = s.held
<1> DEFINE made == [s EXCEPT !.status = standing]
<1>1. made \in Session /\ made.status = standing /\ made.outcome = s.outcome /\ made.held = s.held
  BY DEF Session
<1> HIDE DEF made
<1>2. \E row \in Session : row = made /\ row.status = standing /\ row.outcome = s.outcome /\ row.held = s.held
  BY <1>1
<1> QED  BY <1>2 DEF made

Rewritten(s, standing, ending) == [s EXCEPT !.status = standing, !.outcome = ending]

LEMMA RowRewritten ==
    ASSUME NEW s \in Session, NEW standing \in SessionStatus, NEW ending \in Outcome
    PROVE  /\ Rewritten(s, standing, ending) \in Session
           /\ Rewritten(s, standing, ending).status = standing
           /\ Rewritten(s, standing, ending).outcome = ending
           /\ Rewritten(s, standing, ending).held = s.held
  BY DEF Session, Rewritten

LEMMA Statuses ==
    /\ {"waiting_for_bench", "cleanup_pending", "running", "cancel_requested", "succeeded", "failed",
        "cancelled", "timed_out"} \subseteq SessionStatus \ {"none", "completed"}
    /\ {"pending", "succeeded", "failed", "cancelled", "timed_out", "infrastructure_error"} \subseteq Outcome
  BY DEF SessionStatus, Watched, Finished, Outcome

\* A live row with another status, and with another outcome that is no success,
\* is a live row.
LEMMA LiveStatusChanged ==
    ASSUME NEW s, LiveRow(s), NEW standing \in SessionStatus \ {"none", "completed"}
    PROVE  LiveRow([s EXCEPT !.status = standing])
<1>1. s \in Session /\ standing \in SessionStatus
  BY DEF LiveRow
<1>2. PICK row \in Session : /\ row = [s EXCEPT !.status = standing]
                             /\ row.status = standing /\ row.outcome = s.outcome /\ row.held = s.held
  BY <1>1, StatusRewritten, Zenon
<1>3. row.status = standing /\ row.outcome = s.outcome /\ row.held = s.held
  BY <1>2
<1>4. LiveRow(row)
  BY <1>3, Zenon DEF LiveRow, RowTrue
<1> QED  BY <1>2, <1>4, Zenon

LEMMA LiveRowChanged ==
    ASSUME NEW s, LiveRow(s), NEW standing \in SessionStatus \ {"none", "completed"},
           NEW ending \in Outcome, ending = "succeeded" => s.held /\ remote = "succeeded"
    PROVE  LiveRow(Rewritten(s, standing, ending))
<1>1. s \in Session /\ standing \in SessionStatus
  BY DEF LiveRow
<1>2. PICK row : row = Rewritten(s, standing, ending)
  OBVIOUS
<1>3. row \in Session /\ row.status = standing /\ row.outcome = ending /\ row.held = s.held
  BY <1>1, <1>2, RowRewritten
<1>4. LiveRow(row)
  BY <1>3, Zenon DEF LiveRow, RowTrue
<1> QED  BY <1>2, <1>4, Zenon

LEMMA ProjectionLive ==
    ASSUME NEW s, LiveRow(s), remote \in RemoteState
    PROVE  LiveRow(Projection(s))
<1>1. CASE s.status \notin Watched \/ ~s.held \/ remote \in {"none", "running"}
  BY <1>1 DEF Projection
<1>2. CASE ~(s.status \notin Watched \/ ~s.held \/ remote \in {"none", "running"}) /\ remote = "lost"
  <2>1. Projection(s) = Rewritten(s, "failed", "infrastructure_error")
    BY <1>2 DEF Projection, Rewritten
  <2> QED  BY <2>1, Statuses, LiveRowChanged
<1>3. CASE ~(s.status \notin Watched \/ ~s.held \/ remote \in {"none", "running"}) /\ remote # "lost"
  <2>1. Projection(s) = OperationSessionResult(s) /\ remote \in Settled /\ s.held
    BY <1>3 DEF Projection, RemoteState
  <2>2. CASE s.outcome = "timed_out"
    <3>1. Projection(s) = [s EXCEPT !.status = "timed_out"]
      BY <2>1, <2>2 DEF OperationSessionResult
    <3> QED  BY <3>1, Statuses, LiveStatusChanged
  <2>3. CASE s.outcome # "timed_out"
    <3>1. Projection(s) = Rewritten(s, remote, remote)
      BY <2>1, <2>3 DEF OperationSessionResult, Rewritten
    <3>2. remote \in SessionStatus \ {"none", "completed"} /\ remote \in Outcome
      BY <2>1, Statuses DEF Settled
    <3> QED  BY <2>1, <3>1, <3>2, LiveRowChanged
  <2> QED  BY <2>2, <2>3
<1> QED  BY <1>1, <1>2, <1>3

\* What a synchronisation leaves of a live row.
LEMMA SynchronizeLive ==
    ASSUME NEW s, LiveRow(s), LiveRow(ciRow), remote \in RemoteState
    PROVE  LiveRow(Synchronize(s)) /\ LiveRow(Synchronized(s))
<1>1. LiveRow(Projection(s))
  BY ProjectionLive
<1>2. LiveRow(CompareAndSet(Projection(s), Watched))
  BY <1>1 DEF CompareAndSet
<1> QED  BY <1>2 DEF Synchronize, Synchronized

LEMMA OwnerCheckLive ==
    ASSUME NEW s, LiveRow(s), LiveRow(ciRow)
    PROVE  LiveRow(CheckOwner(s)) /\ LiveRow(OwnerChecked(s))
<1>1. LiveRow(OwnershipEnded(s))
  <2>1. CASE ~s.held
    <3>1. OwnershipEnded(s) = [s EXCEPT !.status = IF s.outcome = "timed_out" THEN "timed_out" ELSE "cancelled"]
      BY <2>1 DEF OwnershipEnded
    <3> QED  BY <3>1, Statuses, LiveStatusChanged
  <2>2. CASE s.held /\ ciLease = "over"
    <3>1. OwnershipEnded(s) = Rewritten(s, "failed", "infrastructure_error")
      BY <2>2 DEF OwnershipEnded, Rewritten
    <3> QED  BY <3>1, Statuses, LiveRowChanged
  <2>3. CASE s.held /\ ciLease # "over"
    BY <2>3 DEF OwnershipEnded
  <2> QED  BY <2>1, <2>2, <2>3
<1>2. LiveRow(CheckOwner(s))
  BY <1>1 DEF CheckOwner, CompareAndSet
<1> QED  BY <1>2 DEF OwnerChecked

\* The task goes on elsewhere, with another row.
LEMMA TaskGoes ==
    ASSUME TaskSound(task), task.at # "finish", NEW s, LiveRow(s),
           NEW pc \in {"act", "attach", "send", "leave", "watch", "owner", "cleanup", "release", "finish"},
           pc = "attach" => remote # "none", Goto(pc, s), UNCHANGED <<remote, ciLease>>
    PROVE  TaskSound(task)'
<1>1. PICK t \in CiTask : t = task /\ ~t.freed
  BY CiShapes DEF TaskSound
<1>2. PICK w \in Beat \cup {NoSweep} : w = IF pc = "act" THEN t.sweep ELSE NoSweep
  BY CiShapes
<1> DEFINE made == [t EXCEPT !.at = pc, !.snap = s, !.sweep = w]
<1>3. s \in Session
  BY DEF LiveRow
<1>4. made \in CiTask /\ made.at = pc /\ made.snap = s /\ made.freed = t.freed
  BY <1>3 DEF CiTask
<1>5. task' = made
  BY <1>1, <1>2 DEF Goto
<1> HIDE DEF made
<1>6. LiveRow(s)'
  BY DEF LiveRow, RowTrue
<1> QED  BY <1>1, <1>4, <1>5, <1>6 DEF TaskSound, LiveRow, RowTrue

\* A handler writes the row and goes on or leaves.
LEMMA HandlerWrites ==
    ASSUME CiInv, TaskSound(task), UNCHANGED <<remote, ciLease, pending, sweep, reader>>,
           beat' \in Beat, LiveRow(ciRow'), task' = NoTask \/ TaskSound(task)'
    PROVE  CiInv'
<1>1. LiveRow(ciRow)'
  BY DEF LiveRow, RowTrue
<1>2. CiRows'
  BY <1>1 DEF CiInv, CiRows, RowTrue, LiveRow
<1>3. TaskInv'
  BY <1>1 DEF TaskInv
<1>4. CompletedSound'
  BY <1>1 DEF CompletedSound, LiveRow
<1> QED  BY <1>2, <1>3, <1>4 DEF CiInv

LEMMA TaskWorks ==
    ASSUME CiInv, task.op # "idle"
    PROVE  TaskSound(task) /\ LiveRow(ciRow) /\ LiveRow(task.snap)
  BY CiShapes DEF CiInv, TaskInv, TaskSound

LEMMA CiInvInit == CiInit => CiInv
<1> SUFFICES ASSUME CiInit PROVE CiInv
  OBVIOUS
<1>1. RowTrue(NoCiSession)
  BY CiShapes DEF RowTrue
<1>2. CiRows
  BY <1>1, CiShapes DEF CiInit, CiRows, RemoteState, Beat
<1>3. TaskInv
  BY DEF CiInit, TaskInv
<1>4. CompletedSound
  BY CiShapes DEF CiInit, CompletedSound
<1> QED  BY <1>2, <1>3, <1>4 DEF CiInv

\* A request or the maintenance takes the lock.
LEMMA BeginKeeps ==
    ASSUME CiInv, NEW op \in {"start", "heartbeat", "cancel", "cleanup", "maintain"},
           NEW sw \in Beat \cup {NoSweep}, BeginSession(op, sw),
           UNCHANGED <<remote, ciLease, pending, beat, reader>>, sweep' \in Beat \cup {NoSweep}
    PROVE  CiInv'
<1>1. LiveRow(ciRow) /\ remote \in RemoteState
  BY DEF BeginSession, CiInv, CiRows, LiveRow
<1>2. LiveRow(ciRow') /\ LiveRow(Synchronized(ciRow))
  BY <1>1, SynchronizeLive DEF BeginSession
<1>3. LiveRow(ciRow)'
  BY <1>2 DEF LiveRow, RowTrue
<1>4. PICK s \in Session : s = Synchronized(ciRow) /\ LiveRow(s)
  BY <1>2 DEF LiveRow
<1> DEFINE made == [op |-> op, at |-> "act", snap |-> s, sweep |-> sw, freed |-> FALSE]
<1>5. made \in CiTask /\ made.at = "act" /\ made.snap = s /\ made.freed = FALSE
  BY DEF CiTask
<1>6. task' = made
  BY <1>4 DEF BeginSession
<1> HIDE DEF made
<1>7. LiveRow(s)'
  BY <1>4 DEF LiveRow, RowTrue
<1>8. TaskSound(task)'
  BY <1>5, <1>6, <1>7 DEF TaskSound, LiveRow, RowTrue
<1>9. CiRows'
  BY <1>3 DEF CiInv, CiRows, RowTrue, LiveRow
<1>10. CompletedSound'
  BY <1>3 DEF CompletedSound, LiveRow
<1> QED  BY <1>3, <1>8, <1>9, <1>10 DEF CiInv, TaskInv

\* Steps beside the handlers: time, uploads, the end of a lease, a crash, and a
\* reader that reads.
LEMMA BesideKeeps ==
    ASSUME CiInv, UNCHANGED <<remote, ciRow>>, beat' \in Beat,
           task' = task \/ task' = NoTask, pending' = pending \/ pending' = FALSE,
           ciLease' = ciLease \/ (ciLease # "none" /\ ciLease' = "over"),
           sweep' \in Beat \cup {NoSweep}, reader' \in {reader, ciRow, NoCiSession}
    PROVE  CiInv'
<1>1. RowTrue(reader)'
  BY CiShapes DEF CiInv, CiRows, RowTrue
<1>2. CiRows'
  BY <1>1, CiShapes DEF CiInv, CiRows, RowTrue
<1>3. TaskInv'
  BY DEF CiInv, TaskInv, TaskSound, LiveRow, RowTrue
<1>4. CompletedSound'
  BY DEF CiInv, CompletedSound
<1> QED  BY <1>2, <1>3, <1>4 DEF CiInv

LEMMA SessionKeeps == CiInv /\ CreateSession => CiInv'
<1> SUFFICES ASSUME CiInv, CreateSession PROVE CiInv'
  OBVIOUS
<1>1. task = NoTask
  BY DEF CiInv, TaskInv, LiveRow, CreateSession
<1>2. PICK row \in Session : /\ row = [NoCiSession EXCEPT !.status = "waiting_for_bench"]
                             /\ row.status = "waiting_for_bench" /\ row.outcome = NoCiSession.outcome
                             /\ row.held = NoCiSession.held
  <2>1. "waiting_for_bench" \in SessionStatus
    BY Statuses
  <2> QED  BY <2>1, StatusRewritten, CiShapes, Zenon
<1>3. ciRow' = row /\ UNCHANGED <<remote, ciLease, pending, task, beat, sweep, reader>>
  BY <1>2 DEF CreateSession, remoteVars, clockVars
<1>4. row.status # "completed" /\ row.outcome # "succeeded" /\ row.held = FALSE
  BY <1>2, CiShapes
<1>5. CiRows'
  BY <1>3, <1>4 DEF CiInv, CiRows, RowTrue
<1>6. TaskInv' /\ CompletedSound'
  BY <1>1, <1>3, <1>4 DEF TaskInv, CompletedSound
<1> QED  BY <1>5, <1>6 DEF CiInv

-----------------------------------------------------------------------------
(* The handlers. *)

LEMMA StartSteps == CiInv /\ (StartRefused \/ Launch \/ AttachDistributedWorkflow) => CiInv'
<1> SUFFICES ASSUME CiInv, StartRefused \/ Launch \/ AttachDistributedWorkflow PROVE CiInv'
  OBVIOUS
<1>1. /\ TaskSound(task) /\ LiveRow(ciRow) /\ LiveRow(task.snap)
      /\ task.at # "finish" /\ beat' \in Beat
      /\ UNCHANGED <<pending, sweep, reader>>
  <2>1. task.op = "start" /\ task.at # "finish" /\ UNCHANGED <<pending, beat, sweep, reader>>
    BY DEF StartRefused, Launch, AttachDistributedWorkflow, At, remoteVars, clockVars
  <2> QED  BY <2>1, TaskWorks DEF CiInv, CiRows
<1>2. CASE StartRefused
  <2>1. ciRow' = ciRow /\ task' = NoTask /\ UNCHANGED <<remote, ciLease>>
    BY <1>2 DEF StartRefused, Leave, remoteVars
  <2> QED  BY <1>1, <2>1, HandlerWrites
<1>3. CASE Launch
  <2>1. ciRow' = ciRow
    BY <1>3 DEF Launch
  <2>2. CASE remote' # "none" /\ Goto("attach", task.snap) /\ UNCHANGED <<remote, ciLease>>
    <3>1. TaskSound(task)'
      BY <1>1, <2>2, TaskGoes
    <3> QED  BY <1>1, <2>1, <2>2, <3>1, HandlerWrites
  <2>3. CASE Leave /\ UNCHANGED <<remote, ciLease>>
    BY <1>1, <2>1, <2>3, HandlerWrites DEF Leave
  <2>4. CASE /\ remote = "none" /\ remote' = "running" /\ ciLease' = "active"
             /\ Leave \/ Goto("attach", task.snap)
    <3>1. ciRow.outcome # "succeeded" /\ reader.outcome # "succeeded" /\ task.snap.outcome # "succeeded"
      BY <1>1, <2>4 DEF CiInv, CiRows, LiveRow, RowTrue
    <3>2. CiRows'
      BY <1>1, <2>1, <2>4, <3>1 DEF CiInv, CiRows, RowTrue, RemoteState
    <3>3. task' = NoTask \/ TaskSound(task)'
      <4> SUFFICES ASSUME Goto("attach", task.snap) PROVE TaskSound(task)'
        BY <2>4 DEF Leave
      <4>1. PICK t \in CiTask : t = task /\ ~t.freed /\ t.snap \in Session /\ t.snap = task.snap
        BY <1>1, CiShapes DEF TaskSound
      <4> DEFINE made == [t EXCEPT !.at = "attach", !.snap = t.snap, !.sweep = NoSweep]
      <4>2. made \in CiTask /\ made.snap = t.snap /\ made.freed = t.freed
        BY <4>1 DEF CiTask
      <4>3. task' = made
        BY <2>4, <4>1 DEF Goto
      <4> HIDE DEF made
      <4>4. LiveRow(t.snap)'
        BY <1>1, <2>4, <3>1, <4>1 DEF LiveRow, RowTrue
      <4> QED  BY <2>4, <4>1, <4>2, <4>3, <4>4 DEF TaskSound, LiveRow, RowTrue
    <3>4. LiveRow(ciRow)'
      BY <1>1, <2>1, <2>4, <3>1 DEF LiveRow, RowTrue
    <3> QED  BY <3>2, <3>3, <3>4 DEF CiInv, TaskInv, CompletedSound, LiveRow
  <2> QED  BY <1>3, <2>2, <2>3, <2>4 DEF Launch
<1>4. CASE AttachDistributedWorkflow
  <2>1. task' = NoTask /\ UNCHANGED <<remote, ciLease>>
    BY <1>4 DEF AttachDistributedWorkflow, Leave, remoteVars
  <2>2. LiveRow(ciRow')
    <3>1. CASE ~(ciRow.status = "waiting_for_bench" /\ ~ciRow.held)
      BY <1>1, <1>4, <3>1 DEF AttachDistributedWorkflow
    <3>2. CASE ciRow.status = "waiting_for_bench" /\ ~ciRow.held
      <4> DEFINE made == [ciRow EXCEPT !.status = "running", !.held = TRUE]
      <4>1. made \in Session /\ made.status = "running" /\ made.outcome = ciRow.outcome /\ made.held = TRUE
        BY <1>1, Statuses DEF LiveRow, Session
      <4>2. ciRow' = made
        BY <1>4, <3>2 DEF AttachDistributedWorkflow
      <4> HIDE DEF made
      <4>3. ciRow.outcome # "succeeded" /\ remote # "none"
        BY <1>1, <1>4, <3>2 DEF LiveRow, RowTrue, AttachDistributedWorkflow, At, TaskSound
      <4> QED  BY <4>1, <4>2, <4>3 DEF LiveRow, RowTrue
    <3> QED  BY <3>1, <3>2
  <2> QED  BY <1>1, <2>1, <2>2, HandlerWrites
<1> QED  BY <1>2, <1>3, <1>4

LEMMA HeartbeatSteps == CiInv /\ HeartbeatSession => CiInv'
<1> SUFFICES ASSUME CiInv, HeartbeatSession PROVE CiInv'
  OBVIOUS
<1>1. TaskSound(task) /\ LiveRow(ciRow) /\ LiveRow(task.snap)
  <2>1. task.op = "heartbeat"
    BY DEF HeartbeatSession, At
  <2> QED  BY <2>1, TaskWorks
<1>2. /\ UNCHANGED <<remote, ciLease, pending, sweep, reader>> /\ task' = NoTask
      /\ ciRow' = ciRow \/ ciRow' = task.snap
  BY DEF HeartbeatSession, remoteVars, Leave
<1>3. beat' \in Beat
  BY DEF HeartbeatSession, CiInv, CiRows, Beat
<1>4. LiveRow(ciRow')
  BY <1>1, <1>2
<1> QED  BY <1>1, <1>2, <1>3, <1>4, HandlerWrites

LEMMA CancelledLive ==
    ASSUME NEW s, LiveRow(s) PROVE LiveRow(CancelledSession(s))
<1>1. CASE ~s.held
  <2>1. CancelledSession(s) = Rewritten(s, "cancelled", "cancelled")
    BY <1>1 DEF CancelledSession, Rewritten
  <2> QED  BY <2>1, Statuses, LiveRowChanged
<1>2. CASE s.held /\ s.status = "cancel_requested"
  BY <1>2 DEF CancelledSession
<1>3. CASE s.held /\ s.status # "cancel_requested"
  <2>1. CancelledSession(s) = Rewritten(s, "cancel_requested", "cancelled")
    BY <1>3 DEF CancelledSession, Rewritten
  <2> QED  BY <2>1, Statuses, LiveRowChanged
<1> QED  BY <1>1, <1>2, <1>3

LEMMA TimedOutLive ==
    ASSUME NEW s, LiveRow(s) PROVE LiveRow(TimedOut(s))
<1>1. s \in Session
  BY DEF LiveRow
<1>2. PICK standing \in SessionStatus \ {"none", "completed"} :
         standing = IF s.held THEN "cancel_requested" ELSE "timed_out"
  BY Statuses
<1> DEFINE made == [s EXCEPT !.outcome = "timed_out", !.status = standing]
<1>3. made \in Session /\ made.status = standing /\ made.outcome = "timed_out"
      /\ made.held = s.held
  BY <1>1, <1>2, Statuses DEF Session
<1>4. TimedOut(s) = made
  BY <1>2 DEF TimedOut
<1> HIDE DEF made
<1>5. LiveRow(made)
  BY <1>2, <1>3, Zenon DEF LiveRow, RowTrue
<1> QED  BY <1>4, <1>5

\* After each of these the task waits elsewhere or is over.
LEMMA TaskEndsOrGoes ==
    ASSUME TaskSound(task), task.at # "finish", NEW s, LiveRow(s),
           AfterTimeout(s) \/ CleanOrLeave(s), UNCHANGED <<remote, ciLease>>
    PROVE  task' = NoTask \/ TaskSound(task)'
<1>1. Leave \/ Goto("watch", s) \/ Goto("cleanup", s)
  BY DEF AfterTimeout, CleanOrLeave
<1> QED  BY <1>1, TaskGoes DEF Leave

LEMMA CancelSteps == CiInv /\ (CancelSession \/ TrySendCancel \/ CancelReturns) => CiInv'
<1> SUFFICES ASSUME CiInv, CancelSession \/ TrySendCancel \/ CancelReturns PROVE CiInv'
  OBVIOUS
<1>1. /\ TaskSound(task) /\ LiveRow(ciRow) /\ LiveRow(task.snap) /\ task.at # "finish"
      /\ beat' \in Beat /\ UNCHANGED <<remote, ciLease, pending, sweep, reader>>
  <2>1. task.op # "idle" /\ task.at # "finish"
    BY DEF CancelSession, TrySendCancel, CancelReturns, At, Here
  <2>2. UNCHANGED <<remote, ciLease, pending, beat, sweep, reader>>
    BY DEF CancelSession, TrySendCancel, CancelReturns, remoteVars, clockVars
  <2> QED  BY <2>1, <2>2, TaskWorks DEF CiInv, CiRows
<1>2. CASE CancelSession
  <2> DEFINE s == task.snap
             row == CompareAndSet(CancelledSession(s), {s.status})
  <2>1. LiveRow(row)
    BY <1>1, CancelledLive DEF CompareAndSet
  <2>2. \/ Leave /\ ciRow' = ciRow
        \/ Goto("cleanup", s) /\ ciRow' = ciRow
        \/ Goto("send", row) /\ ciRow' = row
        \/ Goto("cleanup", row) /\ ciRow' = row
    BY <1>2 DEF CancelSession
  <2> HIDE DEF row
  <2>3. task' = NoTask \/ TaskSound(task)'
    BY <1>1, <2>1, <2>2, TaskGoes DEF Leave
  <2>4. LiveRow(ciRow')
    BY <1>1, <2>1, <2>2
  <2> QED  BY <1>1, <2>3, <2>4, HandlerWrites
<1>3. CASE TrySendCancel
  <2>1. ciRow' = ciRow /\ (Goto("leave", task.snap) \/ Goto("owner", task.snap))
    BY <1>3 DEF TrySendCancel
  <2>2. TaskSound(task)'
    BY <1>1, <2>1, TaskGoes
  <2> QED  BY <1>1, <2>1, <2>2, HandlerWrites
<1>4. CASE CancelReturns
  <2>1. ciRow' = Synchronize(task.snap) /\ task' = NoTask
    BY <1>4 DEF CancelReturns, Leave
  <2>2. LiveRow(ciRow')
    BY <1>1, <2>1, SynchronizeLive DEF CiInv, CiRows
  <2> QED  BY <1>1, <2>1, <2>2, HandlerWrites
<1> QED  BY <1>2, <1>3, <1>4

LEMMA MaintainSteps ==
    CiInv /\ (MaintainLocked \/ WatchCancellation \/ FailIfOwnershipEnded) => CiInv'
<1> SUFFICES ASSUME CiInv, MaintainLocked \/ WatchCancellation \/ FailIfOwnershipEnded PROVE CiInv'
  OBVIOUS
<1>1. /\ TaskSound(task) /\ LiveRow(ciRow) /\ LiveRow(task.snap) /\ task.at # "finish"
      /\ beat' \in Beat /\ UNCHANGED <<remote, ciLease, pending, sweep, reader>>
  <2>1. task.op # "idle" /\ task.at # "finish"
    BY DEF MaintainLocked, WatchCancellation, FailIfOwnershipEnded, At
  <2>2. UNCHANGED <<remote, ciLease, pending, beat, sweep, reader>>
    BY DEF MaintainLocked, WatchCancellation, FailIfOwnershipEnded, remoteVars, clockVars
  <2> QED  BY <2>1, <2>2, TaskWorks DEF CiInv, CiRows
<1>2. CASE MaintainLocked
  <2> DEFINE s == task.snap
             row == CompareAndSet(TimedOut(s), {s.status})
  <2>1. LiveRow(row)
    BY <1>1, TimedOutLive DEF CompareAndSet
  <2>2. \/ ciRow' = row /\ AfterTimeout(row)
        \/ ciRow' = ciRow /\ AfterTimeout(s)
    BY <1>2 DEF MaintainLocked
  <2> HIDE DEF row
  <2>3. task' = NoTask \/ TaskSound(task)'
    BY <1>1, <2>1, <2>2, TaskEndsOrGoes
  <2>4. LiveRow(ciRow')
    BY <1>1, <2>1, <2>2
  <2> QED  BY <1>1, <2>3, <2>4, HandlerWrites
<1>3. CASE WatchCancellation
  <2>1. LiveRow(Synchronize(task.snap)) /\ LiveRow(Synchronized(task.snap))
    BY <1>1, SynchronizeLive DEF CiInv, CiRows
  <2>2. ciRow' = Synchronize(task.snap)
        /\ (Goto("send", Synchronized(task.snap)) \/ AfterTimeout(Synchronized(task.snap)))
    BY <1>3 DEF WatchCancellation
  <2>3. task' = NoTask \/ TaskSound(task)'
    BY <1>1, <2>1, <2>2, TaskEndsOrGoes, TaskGoes
  <2> QED  BY <1>1, <2>1, <2>2, <2>3, HandlerWrites
<1>4. CASE FailIfOwnershipEnded
  <2>1. LiveRow(CheckOwner(task.snap)) /\ LiveRow(OwnerChecked(task.snap))
    BY <1>1, OwnerCheckLive
  <2>2. ciRow' = CheckOwner(task.snap) /\ CleanOrLeave(OwnerChecked(task.snap))
    BY <1>4 DEF FailIfOwnershipEnded
  <2>3. task' = NoTask \/ TaskSound(task)'
    BY <1>1, <2>1, <2>2, TaskEndsOrGoes
  <2> QED  BY <1>1, <2>1, <2>2, <2>3, HandlerWrites
<1> QED  BY <1>2, <1>3, <1>4

LEMMA CleanupSteps == CiInv /\ (CleanupRequested \/ CleanupBegins) => CiInv'
<1> SUFFICES ASSUME CiInv, CleanupRequested \/ CleanupBegins PROVE CiInv'
  OBVIOUS
<1>1. /\ TaskSound(task) /\ LiveRow(ciRow) /\ LiveRow(task.snap) /\ task.at # "finish"
      /\ beat' \in Beat /\ UNCHANGED <<remote, ciLease, pending, sweep, reader>>
  <2>1. task.op # "idle" /\ task.at # "finish"
    BY DEF CleanupRequested, CleanupBegins, At, Here
  <2>2. UNCHANGED <<remote, ciLease, pending, beat, sweep, reader>>
    BY DEF CleanupRequested, CleanupBegins, remoteVars, clockVars
  <2> QED  BY <2>1, <2>2, TaskWorks DEF CiInv, CiRows
<1>2. CASE CleanupRequested
  <2>1. LiveRow(CheckOwner(task.snap)) /\ LiveRow(OwnerChecked(task.snap))
    BY <1>1, OwnerCheckLive
  <2>2. ciRow' = CheckOwner(task.snap) /\ CleanOrLeave(OwnerChecked(task.snap))
    BY <1>2 DEF CleanupRequested
  <2>3. task' = NoTask \/ TaskSound(task)'
    BY <1>1, <2>1, <2>2, TaskEndsOrGoes
  <2> QED  BY <1>1, <2>1, <2>2, <2>3, HandlerWrites
<1>3. CASE CleanupBegins
  <2> DEFINE s == task.snap
             row == CompareAndSet([s EXCEPT !.status = "cleanup_pending"], {s.status})
  <2>1. LiveRow([s EXCEPT !.status = "cleanup_pending"])
    BY <1>1, Statuses, LiveStatusChanged
  <2>2. LiveRow(row)
    BY <1>1, <2>1 DEF CompareAndSet
  <2>3. ciRow' = row /\ Goto("release", row)
    BY <1>3 DEF CleanupBegins
  <2> HIDE DEF row
  <2>4. TaskSound(task)'
    BY <1>1, <2>2, <2>3, TaskGoes
  <2> QED  BY <1>1, <2>2, <2>3, <2>4, HandlerWrites
<1> QED  BY <1>2, <1>3

LEMMA ReleaseSteps == CiInv /\ ReleaseReservation => CiInv'
<1> SUFFICES ASSUME CiInv, ReleaseReservation PROVE CiInv'
  OBVIOUS
<1>1. TaskSound(task) /\ LiveRow(ciRow) /\ LiveRow(task.snap)
  <2>1. task.op # "idle"
    BY DEF ReleaseReservation, Here
  <2> QED  BY <2>1, TaskWorks
<1>2. PICK t \in CiTask : t = task
  BY <1>1 DEF TaskSound
<1>3. UNCHANGED <<ciRow, remote, pending, beat, sweep, reader>>
  BY DEF ReleaseReservation, remoteVars, clockVars
<1>4. PICK after \in {"none", "active", "releasing", "over"} :
        /\ after \in (IF t.snap.held /\ ciLease # "over" THEN {"active", "releasing", "over"} ELSE {ciLease})
        /\ ciLease' = after
        /\ task' = [t EXCEPT !.at = "finish", !.freed = ~t.snap.held \/ after = "over"]
  BY <1>2 DEF ReleaseReservation, CiInv, CiRows
<1>5. PICK freed \in BOOLEAN : freed = (~t.snap.held \/ after = "over")
  OBVIOUS
<1> DEFINE made == [t EXCEPT !.at = "finish", !.freed = freed]
<1>6. made \in CiTask /\ made.snap = t.snap /\ made.freed = freed /\ made.at = "finish"
  BY DEF CiTask
<1>7. task' = made
  BY <1>4, <1>5
<1> HIDE DEF made
<1>8. LiveRow(t.snap)' /\ LiveRow(ciRow)'
  BY <1>1, <1>2, <1>3 DEF LiveRow, RowTrue
<1>9. freed => (t.snap.held => ciLease' = "over")
  BY <1>4, <1>5
<1>10. TaskSound(task)'
  BY <1>6, <1>7, <1>8, <1>9 DEF TaskSound, LiveRow, RowTrue
<1>11. ciLease' = "none" <=> remote' = "none"
  <2>1. t.snap.held => remote # "none"
    BY <1>1, <1>2 DEF LiveRow, RowTrue
  <2> QED  BY <1>3, <1>4, <2>1 DEF CiInv, CiRows
<1>12. CiRows'
  BY <1>3, <1>4, <1>11 DEF CiInv, CiRows, RowTrue
<1>13. CompletedSound'
  BY <1>8 DEF CompletedSound, LiveRow
<1> QED  BY <1>8, <1>10, <1>12, <1>13 DEF CiInv, TaskInv

\* The outcome a completed row is given.
LEMMA FinishSteps == CiInv /\ FinishCleanup => CiInv'
<1> SUFFICES ASSUME CiInv, FinishCleanup PROVE CiInv'
  OBVIOUS
<1>1. TaskSound(task) /\ LiveRow(ciRow) /\ LiveRow(task.snap) /\ task.at = "finish"
  <2>1. task.op # "idle" /\ task.at = "finish"
    BY DEF FinishCleanup, Here
  <2> QED  BY <2>1, TaskWorks
<1>2. UNCHANGED <<remote, ciLease, pending, beat, sweep, reader>> /\ task' = NoTask
  BY DEF FinishCleanup, remoteVars, clockVars, Leave
<1>3. PICK s \in Session : s = task.snap
  BY <1>1 DEF LiveRow
<1>4. PICK found \in BOOLEAN :
         ciRow' = IF CleanupComplete(found) /\ ciRow.status # "completed"
                  THEN Rewritten(s, "completed", FinalOutcome(found)) ELSE ciRow
  BY <1>3 DEF FinishCleanup, Rewritten
<1>5. CASE ~CleanupComplete(found)
  <2>1. ciRow' = ciRow
    BY <1>4, <1>5
  <2>2. beat' \in Beat
    BY <1>2 DEF CiInv, CiRows
  <2> QED  BY <1>1, <1>2, <2>1, <2>2, HandlerWrites
<1>6. CASE CleanupComplete(found)
  <2>1. PICK final \in Outcome : /\ final = FinalOutcome(found)
                                 /\ final = "succeeded" => s.outcome = "succeeded" /\ ArtifactsFinalized(found)
    <3>1. s.outcome \in Outcome /\ "infrastructure_error" \in Outcome
      BY CiShapes, Statuses
    <3> QED  BY <1>3, <3>1 DEF FinalOutcome
  <2>2. PICK row : row = Rewritten(s, "completed", final)
    OBVIOUS
  <2>3. row \in Session /\ row.status = "completed" /\ row.outcome = final /\ row.held = s.held
    <3>1. "completed" \in SessionStatus
      BY DEF SessionStatus
    <3> QED  BY <2>2, <3>1, RowRewritten
  <2>4. ciRow' = row
    <3>1. ciRow.status # "completed"
      BY <1>1 DEF LiveRow
    <3>2. ciRow' = Rewritten(s, "completed", FinalOutcome(found))
      BY <1>4, <1>6, <3>1
    <3>3. FinalOutcome(found) = final
      BY <2>1
    <3> QED  BY <2>2, <3>2, <3>3
  <2>5. RowTrue(s)
    BY <1>1, <1>3 DEF LiveRow
  <2>6. RowTrue(ciRow)'
    <3>1. final = "succeeded" => s.outcome = "succeeded"
      BY <2>1
    <3>2. row.held = s.held /\ row.outcome = final
      BY <2>3
    <3>3. RowTrue(row)
      BY <2>5, <3>1, <3>2, Zenon DEF RowTrue
    <3> QED  BY <1>2, <2>4, <3>3 DEF RowTrue
  <2>7. CiRows'
    BY <1>2, <2>3, <2>4, <2>6 DEF CiInv, CiRows, RowTrue
  <2>8. s.held => ciLease = "over"
    BY <1>1, <1>3, <1>6 DEF CleanupComplete, TaskSound
  <2>9. final = "succeeded" => ~pending
    <3>1. final = "succeeded" => s.outcome = "succeeded" /\ (~s.held \/ ~pending)
      BY <1>3, <2>1, Zenon DEF ArtifactsFinalized
    <3> QED  BY <2>5, <3>1, Zenon DEF RowTrue
  <2>10. CompletedSound'
    BY <1>2, <2>3, <2>4, <2>8, <2>9 DEF CompletedSound
  <2> QED  BY <1>2, <2>7, <2>10 DEF CiInv, TaskInv
<1> QED  BY <1>5, <1>6

-----------------------------------------------------------------------------
(* Readers, the Agent and the clock. *)

LEMMA ReaderSteps == CiInv /\ (GetReads \/ GetSynchronizes) => CiInv'
<1> SUFFICES ASSUME CiInv, GetReads \/ GetSynchronizes PROVE CiInv'
  OBVIOUS
<1>1. UNCHANGED <<remote, ciLease, pending, beat, sweep, task>> /\ beat' \in Beat
      /\ sweep' \in Beat \cup {NoSweep}
  BY DEF GetReads, GetSynchronizes, remoteVars, clockVars, CiInv, CiRows
<1>2. CASE GetReads
  <2>1. UNCHANGED ciRow /\ reader' = ciRow
    BY <1>2 DEF GetReads
  <2> QED  BY <1>1, <2>1, BesideKeeps
<1>3. CASE GetSynchronizes
  <2>1. ciRow' = Synchronize(reader) /\ reader' = NoCiSession
    BY <1>3 DEF GetSynchronizes
  <2>2. CASE ciRow' = ciRow
    BY <1>1, <2>1, <2>2, BesideKeeps
  <2>3. CASE ciRow' # ciRow
    <3>1. /\ ciRow.status \in Watched /\ reader.status \in Watched
          /\ ciRow' = Projection(reader)
      BY <2>1, <2>3 DEF Synchronize, CompareAndSet, Projection
    <3>2. LiveRow(ciRow) /\ LiveRow(reader)
      BY <3>1 DEF Watched, LiveRow, CiInv, CiRows
    <3>3. LiveRow(ciRow')
      BY <3>1, <3>2, ProjectionLive DEF CiInv, CiRows
    <3>4. LiveRow(ciRow)'
      BY <1>1, <3>3 DEF LiveRow, RowTrue
    <3>5. RowTrue(reader)'
      BY <2>1, CiShapes DEF RowTrue
    <3>6. CiRows'
      BY <1>1, <2>1, <3>4, <3>5, CiShapes DEF CiInv, CiRows, LiveRow
    <3>7. TaskInv'
      BY <1>1, <3>4 DEF CiInv, TaskInv, TaskSound, LiveRow, RowTrue
    <3>8. CompletedSound'
      BY <3>4 DEF CompletedSound, LiveRow
    <3> QED  BY <3>6, <3>7, <3>8 DEF CiInv
  <2> QED  BY <2>2, <2>3
<1> QED  BY <1>2, <1>3

LEMMA RemoteSteps == CiInv /\ RemoteProgress => CiInv'
<1> SUFFICES ASSUME CiInv, RemoteProgress PROVE CiInv'
  OBVIOUS
<1>1. /\ remote \notin Settled \cup {"none"} /\ remote' \in RemoteState \ {"none"}
      /\ pending' \in BOOLEAN
      /\ UNCHANGED <<ciRow, ciLease, beat, sweep, task, reader>>
  BY DEF RemoteProgress, clockVars, CiInv, CiRows, RemoteState, Settled
<1>2. remote # "succeeded" /\ remote # "none"
  BY <1>1 DEF Settled
<1>3. \A s : RowTrue(s) => RowTrue(s)'
  BY <1>1, <1>2 DEF RowTrue
<1>4. CiRows'
  BY <1>1, <1>2, <1>3 DEF CiInv, CiRows, RowTrue
<1>5. TaskInv'
  BY <1>1, <1>2, <1>3 DEF CiInv, TaskInv, TaskSound, LiveRow, RowTrue
<1>6. CompletedSound'
  BY <1>1, <1>2 DEF CiInv, CompletedSound, CiRows, RowTrue
<1> QED  BY <1>4, <1>5, <1>6 DEF CiInv

LEMMA BesideSteps ==
    CiInv /\ (ProcessMaintenance \/ UploadArrives \/ LeaseEnds \/ HeartbeatAges \/ SessionExpires
              \/ ArtifactDeadlinePasses \/ CiCrash \/ UNCHANGED ciVars) => CiInv'
<1> SUFFICES ASSUME CiInv,
                    ProcessMaintenance \/ UploadArrives \/ LeaseEnds \/ HeartbeatAges \/ SessionExpires
                    \/ ArtifactDeadlinePasses \/ CiCrash \/ UNCHANGED ciVars
             PROVE  CiInv'
  OBVIOUS
<1>1. beat \in Beat /\ sweep \in Beat \cup {NoSweep}
  BY DEF CiInv, CiRows
<1> USE DEF remoteVars, clockVars
<1>2. UNCHANGED <<remote, ciRow>>
  BY DEF ProcessMaintenance, UploadArrives, LeaseEnds, HeartbeatAges, SessionExpires, Ages,
         ArtifactDeadlinePasses, CiCrash, ciVars
<1>3. beat' \in Beat
  BY <1>1 DEF ProcessMaintenance, UploadArrives, LeaseEnds, HeartbeatAges, SessionExpires, Ages,
         ArtifactDeadlinePasses, CiCrash, ciVars, Beat
<1>4. sweep' \in Beat \cup {NoSweep}
  BY <1>1 DEF ProcessMaintenance, UploadArrives, LeaseEnds, HeartbeatAges, SessionExpires, Ages,
         ArtifactDeadlinePasses, CiCrash, ciVars
<1>5. (task' = task \/ task' = NoTask) /\ reader' \in {reader, ciRow, NoCiSession}
  BY DEF ProcessMaintenance, UploadArrives, LeaseEnds, HeartbeatAges, SessionExpires, Ages,
         ArtifactDeadlinePasses, CiCrash, ciVars
<1>6. /\ pending' = pending \/ pending' = FALSE
      /\ ciLease' = ciLease \/ (ciLease # "none" /\ ciLease' = "over")
  BY DEF ProcessMaintenance, UploadArrives, LeaseEnds, HeartbeatAges, SessionExpires, Ages,
         ArtifactDeadlinePasses, CiCrash, ciVars
<1> QED  BY <1>2, <1>3, <1>4, <1>5, <1>6, BesideKeeps

LEMMA BeginSteps == CiInv /\ (CiRequest \/ Maintain) => CiInv'
<1> SUFFICES ASSUME CiInv, CiRequest \/ Maintain PROVE CiInv'
  OBVIOUS
<1>1. CASE CiRequest
  <2>1. PICK op \in {"start", "heartbeat", "cancel", "cleanup"} : BeginSession(op, NoSweep)
    BY <1>1 DEF CiRequest
  <2>2. UNCHANGED <<remote, ciLease, pending, beat, reader, sweep>>
    BY <1>1 DEF CiRequest, remoteVars, clockVars
  <2>3. sweep' \in Beat \cup {NoSweep}
    BY <2>2 DEF CiInv, CiRows
  <2> QED  BY <2>1, <2>2, <2>3, BeginKeeps
<1>2. CASE Maintain
  <2>1. BeginSession("maintain", sweep) /\ sweep' = NoSweep
        /\ UNCHANGED <<remote, ciLease, pending, beat, reader>>
    BY <1>2 DEF Maintain, remoteVars, clockVars
  <2>2. sweep \in Beat \cup {NoSweep}
    BY DEF CiInv, CiRows
  <2> QED  BY <2>1, <2>2, BeginKeeps
<1> QED  BY <1>1, <1>2

LEMMA CiInvNext == CiInv /\ [CiNext]_ciVars => CiInv'
<1> SUFFICES ASSUME CiInv, [CiNext]_ciVars PROVE CiInv'
  OBVIOUS
<1>1. CreateSession => CiInv'
  BY SessionKeeps
<1>2. CiRequest \/ Maintain => CiInv'
  BY BeginSteps
<1>3. HandlerStep => CiInv'
  BY StartSteps, HeartbeatSteps, CancelSteps, MaintainSteps, CleanupSteps, ReleaseSteps, FinishSteps
  DEF HandlerStep
<1>4. GetReads \/ GetSynchronizes => CiInv'
  BY ReaderSteps
<1>5. RemoteProgress => CiInv'
  BY RemoteSteps
<1>6. ProcessMaintenance \/ UploadArrives \/ LeaseEnds \/ HeartbeatAges \/ SessionExpires
      \/ ArtifactDeadlinePasses \/ CiCrash \/ UNCHANGED ciVars => CiInv'
  BY BesideSteps
<1> QED  BY <1>1, <1>2, <1>3, <1>4, <1>5, <1>6 DEF CiNext

LEMMA CiInvAlways == CiSpec => []CiInv
<1>1. CiInit => CiInv
  BY CiInvInit
<1>2. CiInv /\ [CiNext]_ciVars => CiInv'
  BY CiInvNext
<1> QED  BY <1>1, <1>2, PTL DEF CiSpec

LEMMA CompletionSound == CiInv => CompletedIsClean /\ SuccessIsReal
  BY DEF CiInv, CiRows, CompletedSound, RowTrue, CompletedIsClean, SuccessIsReal

\* The two flags are flags.
CiFlags == cancelAsked \in BOOLEAN /\ late \in BOOLEAN

LEMMA CiFlagsNext == CiFlags /\ [CiNext]_ciVars => CiFlags'
<1> SUFFICES ASSUME CiFlags, [CiNext]_ciVars PROVE CiFlags'
  OBVIOUS
<1> USE DEF CiFlags, remoteVars, clockVars
<1>1. CASE CreateSession \/ CiRequest \/ ProcessMaintenance \/ Maintain \/ GetReads \/ GetSynchronizes
  BY <1>1 DEF CreateSession, CiRequest, ProcessMaintenance, Maintain, GetReads, GetSynchronizes
<1>2. CASE \/ StartRefused \/ Launch \/ AttachDistributedWorkflow \/ HeartbeatSession \/ CancelSession
           \/ CancelReturns
  BY <1>2 DEF StartRefused, Launch, AttachDistributedWorkflow, HeartbeatSession, CancelSession, CancelReturns
<1>3. CASE TrySendCancel
  BY <1>3 DEF TrySendCancel
<1>4. CASE MaintainLocked
  BY <1>4 DEF MaintainLocked
<1>5. CASE \/ WatchCancellation \/ FailIfOwnershipEnded \/ CleanupRequested \/ CleanupBegins
           \/ ReleaseReservation \/ FinishCleanup
  BY <1>5 DEF WatchCancellation, FailIfOwnershipEnded, CleanupRequested, CleanupBegins, ReleaseReservation,
              FinishCleanup
<1>6. CASE RemoteProgress
  BY <1>6 DEF RemoteProgress
<1>7. CASE UploadArrives \/ LeaseEnds \/ HeartbeatAges \/ SessionExpires \/ ArtifactDeadlinePasses \/ CiCrash
  BY <1>7 DEF UploadArrives, LeaseEnds, HeartbeatAges, SessionExpires, Ages, ArtifactDeadlinePasses, CiCrash
<1>8. CASE UNCHANGED ciVars
  BY <1>8 DEF ciVars
<1> QED  BY <1>1, <1>2, <1>3, <1>4, <1>5, <1>6, <1>7, <1>8 DEF CiNext, HandlerStep

LEMMA CiTyped == CiSpec => []CiTypeOK
<1>1. CiInit => CiFlags
  BY DEF CiInit, CiFlags
<1>2. CiInv /\ CiFlags => CiTypeOK
  BY CiShapes DEF CiInv, CiRows, CiFlags, TaskInv, TaskSound, CiTypeOK, RemoteState, Beat, RowTrue
<1> QED  BY <1>1, <1>2, CiFlagsNext, CiInvAlways, PTL DEF CiSpec


-----------------------------------------------------------------------------
(* Quarantine of a bench. *)

\* A bench that awaits a probe is offline, and a restart awaits none.
QuarantineInv ==
    /\ DOMAIN book = Request
    /\ online \in BOOLEAN /\ probeRequired \in BOOLEAN
    /\ probeRequired => ~online
    /\ phase \in {"down", "recovering"} => ~probeRequired

\* Nobody who had not the bench has it after this.
NobodyGains(rows) ==
    /\ DOMAIN rows = Request
    /\ \A id \in Request : rows[id].status = "active" => book[id].status = "active"

Held == probeRequired /\ probeRequired' => NobodyGains(book')

LEMMA RequestHeld == QuarantineInv /\ ClientRequest => QuarantineInv' /\ Held
<1> SUFFICES ASSUME QuarantineInv, ClientRequest PROVE QuarantineInv' /\ Held
  OBVIOUS
<1>1. UNCHANGED <<online, probeRequired, phase>>
  BY DEF ClientRequest, CreateImmediate, CreateScheduled, CreateQueued, Enqueue, CancelQueueEntry
<1>2. PICK q \in Request, d \in Duration :
         \/ CreateImmediate(q, d)
         \/ \E starts \in 1..MaxStart : CreateScheduled(q, starts, d)
         \/ CreateQueued(q, d) \/ Enqueue(q, d) \/ CancelQueueEntry(q)
  BY DEF ClientRequest
<1>3. CASE CreateImmediate(q, d)
  <2>1. online /\ DOMAIN book' = Request
    BY <1>3 DEF CreateImmediate, FreeNow, InsertRow, QuarantineInv
  <2> QED  BY <1>1, <2>1 DEF QuarantineInv, Held
<1>4. ASSUME NEW starts \in 1..MaxStart, CreateScheduled(q, starts, d) PROVE QuarantineInv' /\ Held
  <2> DEFINE row == [status |-> "scheduled", starts |-> starts, ends |-> starts + d]
  <2>1. book' = [book EXCEPT ![q] = row] /\ row.status = "scheduled"
    BY <1>4 DEF CreateScheduled, InsertRow
  <2> HIDE DEF row
  <2>2. NobodyGains(book')
    BY <2>1 DEF NobodyGains, QuarantineInv
  <2> QED  BY <1>1, <2>2 DEF QuarantineInv, Held, NobodyGains
<1>5. CASE CreateQueued(q, d) \/ Enqueue(q, d) \/ CancelQueueEntry(q)
  <2>1. UNCHANGED book
    BY <1>5 DEF CreateQueued, Enqueue, CancelQueueEntry
  <2> QED  BY <1>1, <2>1 DEF QuarantineInv, Held, NobodyGains
<1> QED  BY <1>2, <1>3, <1>4, <1>5

\* A change of the table alone that gives the bench to nobody.
LEMMA TableHeld ==
    ASSUME QuarantineInv, UNCHANGED <<online, probeRequired, phase>>, NobodyGains(book')
    PROVE  QuarantineInv' /\ Held
  BY DEF QuarantineInv, Held, NobodyGains

LEMMA RowOver ==
    ASSUME QuarantineInv, NEW id \in Request, book' = [book EXCEPT ![id] = Over]
    PROVE  NobodyGains(book')
<1>1. Over.status = "over"
  BY DEF Over
<1> QED  BY <1>1 DEF NobodyGains, QuarantineInv

LEMMA SameTable ==
    ASSUME QuarantineInv, UNCHANGED book PROVE NobodyGains(book')
  BY DEF NobodyGains, QuarantineInv

LEMMA OwnerHeld == QuarantineInv /\ OwnerRequest => QuarantineInv' /\ Held
<1> SUFFICES ASSUME QuarantineInv, NEW id \in Request,
                    \/ Release(id) \/ CancelReservation(id)
                    \/ \E d \in Duration : Extend(id, d)
                    \/ \E o \in Operation : Submit(o, id) \/ SubmitLocked(o, id)
                    \/ ProbeStart(id)
             PROVE  QuarantineInv' /\ Held
  BY DEF OwnerRequest
<1>1. CASE Release(id)
  <2>1. book' = [book EXCEPT ![id] = Over] /\ UNCHANGED <<online, probeRequired, phase>>
    BY <1>1 DEF Release, Update
  <2> QED  BY <2>1, RowOver, TableHeld
<1>2. CASE CancelReservation(id)
  <2>1. book' = [book EXCEPT ![id] = Over] /\ UNCHANGED <<online, probeRequired, phase>>
    BY <1>2 DEF CancelReservation, Update
  <2> QED  BY <2>1, RowOver, TableHeld
<1>3. ASSUME NEW d \in Duration, Extend(id, d) PROVE QuarantineInv' /\ Held
  <2>1. PICK row : book' = [book EXCEPT ![id] = row]
    BY <1>3 DEF Extend, Update
  <2>2. book[id].status = "active" /\ UNCHANGED <<online, probeRequired, phase>>
    BY <1>3 DEF Extend, Update
  <2>3. NobodyGains(book')
    BY <2>1, <2>2 DEF NobodyGains, QuarantineInv
  <2> QED  BY <2>2, <2>3, TableHeld
<1>4. ASSUME NEW o \in Operation, Submit(o, id) \/ SubmitLocked(o, id) PROVE QuarantineInv' /\ Held
  <2>1. UNCHANGED <<book, online, probeRequired, phase>>
    BY <1>4 DEF Submit, SubmitLocked
  <2> QED  BY <2>1, SameTable, TableHeld
<1>5. CASE ProbeStart(id)
  <2>1. UNCHANGED <<book, online, probeRequired, phase>>
    BY <1>5 DEF ProbeStart
  <2> QED  BY <2>1, SameTable, TableHeld
<1> QED  BY <1>1, <1>2, <1>3, <1>4, <1>5

LEMMA FinalizedGainsNobody == ASSUME QuarantineInv PROVE NobodyGains(PendingFinalized)
<1>1. Over.status = "over"
  BY DEF Over
<1> QED  BY <1>1 DEF NobodyGains, PendingFinalized

LEMMA ReleaseHeld ==
    ASSUME QuarantineInv, ReleaseLock PROVE NobodyGains(book')
  BY FinalizedGainsNobody DEF ReleaseLock

LEMMA ExpiredGainsNobody == ASSUME QuarantineInv PROVE NobodyGains(Expired)
<1> SUFFICES ASSUME NEW id \in Request, Expired[id].status = "active" PROVE book[id].status = "active"
  BY DEF NobodyGains, Expired
<1>1. Over.status = "over"
  BY DEF Over
<1>2. CASE book[id].status \in LiveStatus /\ book[id].ends <= now
  <2>1. Expired[id] = ExpireRow(book[id])
    BY <1>2 DEF Expired
  <2>2. CASE book[id].status \in OwnerStatus /\ Locked
    BY <2>1, <2>2, <1>1 DEF ExpireRow, OwnerStatus
  <2>3. CASE ~(book[id].status \in OwnerStatus /\ Locked)
    BY <2>1, <2>3, <1>1 DEF ExpireRow
  <2> QED  BY <2>2, <2>3
<1>3. CASE ~(book[id].status \in LiveStatus /\ book[id].ends <= now)
  BY <1>3 DEF Expired
<1> QED  BY <1>2, <1>3

LEMMA ExpireHeld == QuarantineInv /\ SchedulerExpire => QuarantineInv' /\ Held
<1> SUFFICES ASSUME QuarantineInv, SchedulerExpire PROVE QuarantineInv' /\ Held
  OBVIOUS
<1>1. NobodyGains(Expired)
  BY ExpiredGainsNobody
<1>2. NobodyGains(book')
  <2>1. CASE OverrunReleases
    <3>1. book' = [id \in Request |->
             IF Expired[id].status = "expired_pending_operation" THEN Over ELSE Expired[id]]
      BY <2>1 DEF SchedulerExpire
    <3>2. Over.status = "over"
      BY DEF Over
    <3> QED  BY <1>1, <3>1, <3>2 DEF NobodyGains
  <2>2. CASE ~OverrunReleases
    <3>1. book' = Expired
      BY <2>2 DEF SchedulerExpire
    <3> QED  BY <1>1, <3>1 DEF NobodyGains
  <2> QED  BY <2>1, <2>2
<1>3. /\ online' = (online /\ ~Overrun) /\ probeRequired' = (probeRequired \/ Overrun)
      /\ phase' = "refresh"
  BY DEF SchedulerExpire
<1>4. online' \in BOOLEAN /\ probeRequired' \in BOOLEAN /\ (probeRequired' => ~online')
  BY <1>3 DEF QuarantineInv
<1> QED  BY <1>2, <1>3, <1>4 DEF QuarantineInv, Held, NobodyGains

\* A bench that is offline is given to nobody; the table keeps its rows.
LEMMA OfflineAssigns ==
    ASSUME NEW rows, NEW up, NEW locked, Assign(rows, up, locked), DOMAIN rows = Request
    PROVE  DOMAIN book' = Request /\ (~up => book' = rows)
<1>1. DOMAIN Activated(rows, up, locked) = Request /\ (~up => Activated(rows, up, locked) = rows)
  <2> DEFINE first == CHOOSE id \in Due(rows) :
                        \A other \in Due(rows) : rows[id].starts <= rows[other].starts
  <2>1. DOMAIN [rows EXCEPT ![first].status = "active"] = Request
    <3> HIDE DEF first
    <3> QED  OBVIOUS
  <2>2. \/ up /\ Activated(rows, up, locked) = [rows EXCEPT ![first].status = "active"]
        \/ Activated(rows, up, locked) = rows
    BY Zenon DEF Activated
  <2> QED  BY <2>1, <2>2
<1>2. PICK activated : activated = Activated(rows, up, locked)
  OBVIOUS
<1>3. CASE Promotable(activated, up, locked)
  <2>1. up
    BY <1>3 DEF Promotable
  <2>2. \E q, row : book' = [activated EXCEPT ![q] = row]
    BY <1>2, <1>3, Zenon DEF Assign, Promote
  <2> QED  BY <1>1, <1>2, <2>1, <2>2
<1>4. CASE ~Promotable(activated, up, locked)
  <2>1. book' = activated
    BY <1>2, <1>4 DEF Assign
  <2> QED  BY <1>1, <1>2, <2>1
<1> QED  BY <1>3, <1>4

LEMMA AssignHeld == QuarantineInv /\ (SchedulerAssign \/ RecoverSchedule) => QuarantineInv' /\ Held
<1> SUFFICES ASSUME QuarantineInv, SchedulerAssign \/ RecoverSchedule PROVE QuarantineInv' /\ Held
  OBVIOUS
<1>1. CASE SchedulerAssign
  <2>1. Assign(book, online, Locked) /\ UNCHANGED <<online, probeRequired>> /\ phase' = "expire"
    BY <1>1 DEF SchedulerAssign
  <2>2. DOMAIN book' = Request /\ (~online => book' = book)
    BY <2>1, OfflineAssigns DEF QuarantineInv
  <2> QED  BY <2>1, <2>2 DEF QuarantineInv, Held, NobodyGains
<1>2. CASE RecoverSchedule
  <2>1. Assign(Expired, online, FALSE) /\ UNCHANGED <<online, probeRequired>> /\ phase' = "expire"
        /\ phase = "recovering"
    BY <1>2 DEF RecoverSchedule
  <2>2. DOMAIN Expired = Request
    BY DEF Expired
  <2>3. DOMAIN book' = Request
    BY <2>1, <2>2, OfflineAssigns
  <2> QED  BY <2>1, <2>3 DEF QuarantineInv, Held
<1> QED  BY <1>1, <1>2

LEMMA QuarantineNext == QuarantineInv /\ [SchedulerNext]_schedulerVars => QuarantineInv' /\ Held
<1> SUFFICES ASSUME QuarantineInv, [SchedulerNext]_schedulerVars PROVE QuarantineInv' /\ Held
  OBVIOUS
<1>1. ClientRequest => QuarantineInv' /\ Held
  BY RequestHeld
<1>2. OwnerRequest => QuarantineInv' /\ Held
  BY OwnerHeld
<1>3. ASSUME NEW o \in Operation, CancelOperation(o) PROVE QuarantineInv' /\ Held
  <2>1. (ReleaseLock \/ UNCHANGED book) /\ UNCHANGED <<online, probeRequired, phase>>
    BY <1>3 DEF CancelOperation
  <2> QED  BY <2>1, ReleaseHeld, SameTable, TableHeld
<1>4. ASSUME NEW o \in Operation, StartTask(o) PROVE QuarantineInv' /\ Held
  <2>1. UNCHANGED <<book, online, probeRequired, phase>>
    BY <1>4 DEF StartTask
  <2> QED  BY <2>1, SameTable, TableHeld
<1>5. ASSUME NEW o \in Operation, FinishTask(o) PROVE QuarantineInv' /\ Held
  <2>1. ReleaseLock /\ UNCHANGED <<online, probeRequired, phase>>
    BY <1>5 DEF FinishTask
  <2> QED  BY <2>1, ReleaseHeld, TableHeld
<1>6. MaintenanceProbeStart => QuarantineInv' /\ Held
  <2>1. MaintenanceProbeStart => UNCHANGED <<book, online, probeRequired, phase>>
    BY DEF MaintenanceProbeStart
  <2> QED  BY <2>1, SameTable, TableHeld
<1>7. ASSUME NEW healthy \in BOOLEAN, ProbeEnd(healthy) PROVE QuarantineInv' /\ Held
  <2>1. /\ ReleaseLock /\ online' = healthy /\ probeRequired' = ~healthy /\ Serving /\ phase' = phase
    BY <1>7 DEF ProbeEnd, RecordProbeResult
  <2>2. NobodyGains(book')
    BY <2>1, ReleaseHeld
  <2>3. online' \in BOOLEAN /\ probeRequired' \in BOOLEAN /\ (probeRequired' => ~online')
    BY <2>1
  <2>4. phase' \notin {"down", "recovering"}
    BY <2>1 DEF Serving
  <2> QED  BY <2>2, <2>3, <2>4 DEF QuarantineInv, Held, NobodyGains
<1>8. SchedulerExpire => QuarantineInv' /\ Held
  BY ExpireHeld
<1>9. ASSUME NEW reported \in BOOLEAN, SchedulerRefresh(reported) PROVE QuarantineInv' /\ Held
  <2>1. /\ UNCHANGED <<book, probeRequired>> /\ phase' = "assign"
        /\ online' = (reported /\ ~probeRequired)
    BY <1>9 DEF SchedulerRefresh, Refreshed
  <2>2. online' \in BOOLEAN /\ (probeRequired => ~online')
    BY <2>1
  <2> QED  BY <2>1, <2>2 DEF QuarantineInv, Held, NobodyGains
<1>10. SchedulerAssign \/ RecoverSchedule => QuarantineInv' /\ Held
  BY AssignHeld
<1>11. AgentCrash => QuarantineInv' /\ Held
  BY DEF AgentCrash, QuarantineInv, Held
<1>12. ASSUME NEW reported \in BOOLEAN, RecoverLocks(reported) PROVE QuarantineInv' /\ Held
  <2>1. /\ UNCHANGED <<book, probeRequired>> /\ phase = "down" /\ phase' = "recovering"
        /\ online' = reported
    BY <1>12 DEF RecoverLocks
  <2> QED  BY <2>1 DEF QuarantineInv, Held
<1>13. SchedulerTick => QuarantineInv' /\ Held
  <2>1. SchedulerTick => UNCHANGED <<book, online, probeRequired, phase>>
    BY DEF SchedulerTick
  <2> QED  BY <2>1, SameTable, TableHeld
<1>14. UNCHANGED schedulerVars => QuarantineInv' /\ Held
  <2>1. UNCHANGED schedulerVars => UNCHANGED <<book, online, probeRequired, phase>>
    BY DEF schedulerVars
  <2> QED  BY <2>1, SameTable, TableHeld
<1> QED
  BY <1>1, <1>2, <1>3, <1>4, <1>5, <1>6, <1>7, <1>8, <1>9, <1>10, <1>11, <1>12, <1>13, <1>14, Zenon
  DEF SchedulerNext

\* While a bench awaits its probe no reservation becomes active on it, whatever is
\* reported, recovered or asked for (bench_catalog.py).
THEOREM QuarantineHoldsAlways == SchedulerSpec => QuarantineHolds
<1> DEFINE Step ==
       (probeRequired /\ probeRequired') =>
        \A id \in Request : book'[id].status = "active" => book[id].status = "active"
<1>1. SchedulerInit => QuarantineInv
  BY DEF SchedulerInit, QuarantineInv
<1>2. QuarantineInv /\ [SchedulerNext]_schedulerVars => QuarantineInv'
  BY QuarantineNext
<1>3. QuarantineInv /\ [SchedulerNext]_schedulerVars => [Step]_schedulerVars
  BY QuarantineNext DEF Held, NobodyGains
<1> QED  BY <1>1, <1>2, <1>3, PTL DEF SchedulerSpec, QuarantineHolds
-----------------------------------------------------------------------------
(* The services together. *)

\* Every table, row and counter is of its type.
THEOREM ServicesTypeCorrect ==
    IdentitySpec /\ AdmissionSpec /\ GuardSpec /\ StoreSpec /\ ProtocolSpec /\ BackupSpec
      /\ LifecycleSpec /\ CiSpec => []ServicesTypeOK
  BY AuthorityTypeCorrect, StoreTyped, ProtocolTyped, BackupTyped, LifecycleTyped, CiTyped, PTL
  DEF ServicesTypeOK

\* Whatever writers, handlers, backups, plugins and CI jobs do, in whatever order
\* they fail: the rows, archives and registries are true.
THEOREM RecordsSoundAlways ==
    StoreSpec /\ ProtocolSpec /\ BackupSpec /\ LifecycleSpec /\ CiSpec => []RecordsSound
<1>1. LifecycleInv /\ CiInv => WorkSound
  BY LifecycleIsSound, CompletionSound DEF WorkSound
<1>2. StoreConsistent /\ ReportsFenced /\ ArchiveIsWhole /\ RestoreIsSafe /\ WorkSound => RecordsSound
  BY DEF RecordsSound, StoresSound
<1> QED
  BY <1>1, <1>2, StoreConsistentAlways, ReportsFencedAlways, ArchiveIsWholeAlways, RestoreIsSafeAlways,
     LifecycleInvAlways, CiInvAlways, PTL

\* What no step of any component may do, none does.
THEOREM StepsHoldAlways ==
    IdentitySpec /\ AdmissionSpec /\ StoreSpec /\ ProtocolSpec /\ LifecycleSpec /\ SchedulerSpec
      => StepsHold
  BY AdmittedNowAlways, RetiredStaysRetiredAlways, RevokedAccountsEndAlways, SettledRowsStayAlways,
     OutcomesAreFinalAlways, RoutesHoldAlways, QuarantineHoldsAlways DEF StepsHold
=============================================================================

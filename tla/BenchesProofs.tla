---------------------------- MODULE BenchesProofs ---------------------------
(***************************************************************************)
(* Proofs about the work on the benches, its artifacts and the people who  *)
(* reach them: authorisation (Access), remote work (WorkflowRuns),         *)
(* maintenance and alerts (BenchOperations), artifacts (ArtifactTransfers, *)
(* ArtifactRetention) and reservations (BenchScheduler), for any commands, *)
(* benches, artifacts, people and bounds.                                  *)
(***************************************************************************)
EXTENDS BenchScheduler, WorkflowRuns, Artifacts, BenchOperations, Access,
        FiniteSetTheorems, SequenceTheorems, WellFoundedInduction, TLAPS

-----------------------------------------------------------------------------
(* Reading, and what the dashboard offers. *)

LEMMA ConsideredAreMine ==
    ASSUME NEW p, NEW r PROVE Considered(p, r) \subseteq GrantsOf(p)
  BY DEF Considered, BoardGrants, PlanGrants

\* A permission held on a resource is held somewhere, except for reading a
\* bench, which a team's place in the bench's policy gives as well.
LEMMA AllowedSomewhere ==
    ASSUME NEW p, NEW perm, NEW r, perm # "benches:read", Allowed(p, perm, r)
    PROVE  AllowedAnywhere(p, perm)
<1>1. /\ perm \in Narrowed[p]
      /\ \/ \E g \in Considered(p, r) : perm \in RolePermissions(g.role)
         \/ perm \in FromOrgRole(p)
  BY DEF Allowed
<1> QED
  BY <1>1, ConsideredAreMine DEF AllowedAnywhere

\* Every list shows what can be fetched by name, and nothing else, in any state.
LEMMA ListsAgree == ListAgreesWithGet
<1> SUFFICES ASSUME NEW p \in Principal
             PROVE  /\ ListBenches(p) = {b \in Board : GetBench(p, b)}
                    /\ ListAgents(p) = {a \in Host : GetAgent(p, a)}
                    /\ ListWorkflows(p) = {w \in Plan : GetWorkflow(p, w)}
                    /\ ListOperations(p) = {o \in works : GetOperation(p, o)}
                    /\ ListCiSessions(p) = {by \in ciBy : GetCiSession(p, by)}
                    /\ \A o \in Overview(p).operations : GetOperation(p, o) /\ GetBench(p, o.on)
  BY DEF ListAgreesWithGet
<1>1. ListBenches(p) = {b \in Board : GetBench(p, b)}
  BY DEF ListBenches, BenchListAdmitted, Named, GetBench
<1>2. ListAgents(p) = {a \in Host : GetAgent(p, a)}
  BY AllowedSomewhere DEF ListAgents, Named, GetAgent
<1>3. ListWorkflows(p) = {w \in Plan : GetWorkflow(p, w)}
  BY AllowedSomewhere DEF ListWorkflows, Named, GetWorkflow
<1>4. ListOperations(p) = {o \in works : GetOperation(p, o)}
  BY AllowedSomewhere DEF ListOperations, GetOperation
<1>5. ListCiSessions(p) = {by \in ciBy : GetCiSession(p, by)}
  <2>1. \A by : CiAllowed(p, by, "ci:sessions:read") => AllowedAnywhere(p, "ci:sessions:read")
    BY AllowedSomewhere DEF CiAllowed
  <2> QED  BY <2>1 DEF ListCiSessions, GetCiSession
<1>6. \A o \in Overview(p).operations : GetOperation(p, o) /\ GetBench(p, o.on)
  BY <1>1, <1>4 DEF Overview
<1> QED
  BY <1>1, <1>2, <1>3, <1>4, <1>5, <1>6

LEMMA OffersWork == OfferedActionsWork
<1> SUFFICES ASSUME NEW p \in Principal, NEW b \in Board
             PROVE  /\ Offered(p, b).release \/ Offered(p, b).cancel =>
                           ReleaseAccepts(p, b) \/ RevokeAccepts(p, b)
                    /\ Offered(p, b).extend => RenewAccepts(p, b)
  BY DEF OfferedActionsWork
<1>1. Offered(p, b).release \/ Offered(p, b).cancel => Taken(b)
  BY DEF Offered, Taken
<1>2. Offered(p, b).release \/ Offered(p, b).cancel =>
          \/ OwnedBy(p, b) /\ Allowed(p, "benches:reserve", b)
          \/ Allowed(p, "benches:manage", b)
  BY DEF Offered
<1>3. Offered(p, b).extend => RenewAccepts(p, b)
  BY DEF Offered, RenewAccepts
<1> QED
  BY <1>1, <1>2, <1>3 DEF ReleaseAccepts, RevokeAccepts

-----------------------------------------------------------------------------
(* Work is begun by someone who was allowed it.  Decisions are remembered   *)
(* only while an upload is under way, and the upload that is under way was  *)
(* allowed when it began: what it is dispatched by was decided then.        *)

RememberedForUpload ==
    /\ upload = NoUpload => remembered = {}
    /\ upload # NoUpload => upload.justified

Authority == RememberedForUpload /\ AuthorisedWhenBegun

LEMMA AuthorityInit == AccessInit => Authority
  BY DEF AccessInit, Authority, RememberedForUpload, AuthorisedWhenBegun

\* A step that begins no work and leaves the upload alone.
LEMMA NoWorkBegun ==
    ASSUME Authority, UNCHANGED <<upload, remembered>>,
           \A o \in works' : o \in works \/ o.justified
    PROVE  Authority'
  BY DEF Authority, RememberedForUpload, AuthorisedWhenBegun

LEMMA AuthorityNext == Authority /\ [AccessNext]_accessVars => Authority'
<1> SUFFICES ASSUME Authority, [AccessNext]_accessVars PROVE Authority'
  OBVIOUS
<1> USE NoWorkBegun
<1>1. CASE UNCHANGED accessVars
  BY <1>1 DEF accessVars
<1>2. ASSUME NEW s, NEW role, NEW r, AssignRole(s, role, r) PROVE Authority'
  BY <1>2 DEF AssignRole, Workload, Scopes
<1>3. ASSUME NEW g, RevokeRole(g) PROVE Authority'
  BY <1>3 DEF RevokeRole, Workload, Scopes
<1>4. ASSUME NEW t, NEW u, AddTeamMember(t, u) \/ RemoveTeamMember(t, u) PROVE Authority'
  BY <1>4 DEF AddTeamMember, RemoveTeamMember, Workload, Scopes
<1>5. ASSUME NEW b, NEW policy, SetBenchAccessPolicy(b, policy) PROVE Authority'
  BY <1>5 DEF SetBenchAccessPolicy, Workload, Scopes
<1>6. ASSUME NEW w, NEW v, SetWorkflowAccessPolicy(w, v) PROVE Authority'
  BY <1>6 DEF SetWorkflowAccessPolicy, Workload, Scopes
<1>7. ASSUME NEW p, LoseLogin(p) PROVE Authority'
  BY <1>7 DEF LoseLogin, Workload, Scopes
<1>8. ASSUME NEW p, NEW b,
             \/ \E state : CreateReservation(p, b, state)
             \/ RenewReservation(p, b) \/ EndReservation(p, b)
      PROVE  Authority'
  BY <1>8 DEF CreateReservation, RenewReservation, EndReservation, AskFor, Scopes
<1>9. ASSUME NEW p, NEW b,
             JoinQueue(p, b) \/ (\E q : LeaveQueue(p, q, b)) \/ PromoteQueued(p, b)
      PROVE  Authority'
  BY <1>9 DEF JoinQueue, LeaveQueue, PromoteQueued, AskFor, Scopes
<1>10. ASSUME NEW p, NEW b, ProbeBench(p, b) \/ ResetBench(p, b) \/ ReadBenchSerial(p, b)
       PROVE  Authority'
  BY <1>10 DEF ProbeBench, ResetBench, ReadBenchSerial, AskFor, Scopes, Begin, Work
<1>11. ASSUME NEW p, NEW w, NEW b, RunWorkflow(p, w, b) PROVE Authority'
  BY <1>11 DEF RunWorkflow, AskFor, Scopes, Begin, Work
<1>12. ASSUME NEW p \in Principal, NEW b, FlashBegins(p, b) PROVE Authority'
  <2>1. \A perm \in FlashNeeds : Allowed(p, perm, b)
    BY <1>12 DEF FlashBegins, Decided, Authority, RememberedForUpload
  <2>2. upload'.by = p /\ upload'.justified
    BY <1>12, <2>1 DEF FlashBegins
  <2>3. upload' # NoUpload
    BY <2>2, AccessAssumption DEF NoUpload
  <2> QED  BY <1>12, <2>2, <2>3 DEF FlashBegins, Workload, Authority, RememberedForUpload, AuthorisedWhenBegun
<1>13. ASSUME NEW b, NEW state, LeaseMoves(b, state) PROVE Authority'
  BY <1>13 DEF LeaseMoves, Scopes
<1>14. ASSUME NEW p, NEW o, CancelAsked(p, o) \/ WorkEnds(o) PROVE Authority'
  BY <1>14 DEF CancelAsked, WorkEnds, AskFor, Scopes
<1>15. ASSUME NEW p, CreateCiSession(p) \/ (\E by : EndCiSession(p, by)) PROVE Authority'
  BY <1>15 DEF CreateCiSession, EndCiSession, AskFor, Scopes
<1>16. CASE FlashDispatches
  BY <1>16 DEF FlashDispatches, EndScope, Work, Authority, RememberedForUpload, AuthorisedWhenBegun
<1>17. CASE FlashAborts
  BY <1>17 DEF FlashAborts, EndScope, Workload, Authority, RememberedForUpload, AuthorisedWhenBegun
<1>18. ASSUME NEW s, (\E p : OpenStream(s, p)) \/ Poll(s) \/ CloseStream(s) PROVE Authority'
  BY <1>18 DEF OpenStream, Poll, CloseStream, Workload
<1> QED
  BY <1>1, <1>2, <1>3, <1>4, <1>5, <1>6, <1>7, <1>8, <1>9, <1>10, <1>11, <1>12, <1>13, <1>14,
     <1>15, <1>16, <1>17, <1>18 DEF AccessNext

\* In every reachable state lists and gets agree, what the dashboard offers is
\* accepted, and work was begun by someone who was allowed it.
THEOREM AccessSoundAlways == AccessSpec => []AccessSound
<1>1. AccessInit => Authority
  BY AuthorityInit
<1>2. Authority /\ [AccessNext]_accessVars => Authority'
  BY AuthorityNext
<1>3. Authority => AccessSound
  BY ListsAgree, OffersWork DEF Authority, AccessSound
<1> QED  BY <1>1, <1>2, <1>3, PTL DEF AccessSpec

-----------------------------------------------------------------------------
(* Types, and the counter of event streams. *)

LeaseRow == [by : Principal, state : {"SCHEDULED", "ACTIVATING", "ACTIVE", "UNKNOWN"}]

UploadRow == [by : Principal, on : Board, justified : BOOLEAN]

DirectoryTypes ==
    /\ orgRole \in [User -> {"OWNER", "ADMIN", "MEMBER", "VIEWER", "NONE"}]
    /\ members \subseteq Team \X User
    /\ grants \subseteq [subject : Principal \cup Team, role : RoleName, on : Resource]
    /\ boardPolicy \in [Board -> BoardPolicy]
    /\ planPolicy \in [Plan -> {"ORGANISATION", "RESTRICTED", "ADMIN_ONLY"}]
    /\ live \subseteq Principal
    /\ changes \in 0..MaxChanges

WorkloadTypes ==
    /\ leased \in [Board -> LeaseRow \cup {NoLease}]
    /\ waiting \subseteq Principal \X Board
    /\ \A o \in works : o.by \in Principal /\ o.on \in Board
    /\ ciBy \subseteq Principal

ScopeTypes ==
    /\ upload \in UploadRow \cup {NoUpload}
    /\ remembered \subseteq Principal \X FlashNeeds \X Board

StreamTypes ==
    /\ streams \in [Subscriber -> [by : Principal] \cup {Closed}]
    /\ slots = Cardinality(Streaming)
    /\ slots \in 0..StreamLimit

Types == DirectoryTypes /\ WorkloadTypes /\ ScopeTypes /\ StreamTypes

LEMMA TypesInit == AccessInit => Types
<1> SUFFICES ASSUME AccessInit PROVE Types
  OBVIOUS
<1> USE AccessAssumption DEF AccessInit
<1>1. DirectoryTypes
  <2>1. orgRole \in [User -> {"OWNER", "ADMIN", "MEMBER", "VIEWER", "NONE"}]
    OBVIOUS
  <2>2. boardPolicy \in [Board -> BoardPolicy]
    BY DEF BoardPolicy, NoPolicy, Visibility
  <2>3. grants \subseteq [subject : Principal \cup Team, role : RoleName, on : Resource]
    BY DEF Principal, Resource
  <2> QED  BY <2>1, <2>2, <2>3 DEF DirectoryTypes
<1>2. WorkloadTypes
  BY DEF WorkloadTypes
<1>3. ScopeTypes
  BY DEF ScopeTypes
<1>4. StreamTypes
  <2>1. Streaming = {}
    BY DEF Streaming
  <2>2. Cardinality(Streaming) = 0
    BY <2>1, FS_EmptySet
  <2> QED  BY <2>2 DEF StreamTypes
<1> QED  BY <1>1, <1>2, <1>3, <1>4 DEF Types

LEMMA StreamingFinite == IsFiniteSet(Streaming) /\ IsFiniteSet(Streaming')
  BY AccessAssumption, FS_Subset DEF Streaming

LEMMA DirectoryKept ==
    ASSUME DirectoryTypes, UNCHANGED <<Directory, changes>> PROVE DirectoryTypes'
  BY DEF DirectoryTypes, Directory

LEMMA WorkloadKept == ASSUME WorkloadTypes, UNCHANGED Workload PROVE WorkloadTypes'
  BY DEF WorkloadTypes, Workload

LEMMA ScopesKept ==
    ASSUME ScopeTypes, StreamTypes, UNCHANGED Scopes PROVE ScopeTypes' /\ StreamTypes'
  BY DEF ScopeTypes, StreamTypes, Scopes, Streaming

LEMMA StreamsKept == ASSUME StreamTypes, UNCHANGED <<streams, slots>> PROVE StreamTypes'
  BY DEF StreamTypes, Streaming

LEMMA ChangeCounted == ASSUME DirectoryTypes, Changed PROVE changes' \in 0..MaxChanges
  BY AccessAssumption DEF DirectoryTypes, Changed

LEMMA DirectoryStep ==
    ASSUME Types, DirectoryTypes', UNCHANGED <<Workload, Scopes>> PROVE Types'
  BY WorkloadKept, ScopesKept DEF Types

LEMMA WorkloadStep ==
    ASSUME Types, WorkloadTypes', UNCHANGED <<Directory, Scopes, changes>> PROVE Types'
  BY DirectoryKept, ScopesKept DEF Types

LEMMA TypesNext == Types /\ [AccessNext]_accessVars => Types'
<1> SUFFICES ASSUME Types, [AccessNext]_accessVars PROVE Types'
  OBVIOUS
<1>a. DirectoryTypes /\ WorkloadTypes /\ ScopeTypes /\ StreamTypes
  BY DEF Types
<1>1. CASE UNCHANGED accessVars
  BY <1>1, DirectoryStep, DirectoryKept DEF accessVars, Types, Directory, Workload, Scopes
<1>2. ASSUME NEW s \in (Principal \cup Team) \ {Owner}, NEW role \in RoleName, NEW r \in Resource,
             AssignRole(s, role, r)
      PROVE  Types'
  <2>1. DirectoryTypes'
    BY <1>a, <1>2, ChangeCounted DEF AssignRole, DirectoryTypes
  <2> QED  BY <2>1, <1>2, DirectoryStep DEF AssignRole
<1>3. ASSUME NEW g \in grants, RevokeRole(g) PROVE Types'
  <2>1. DirectoryTypes'
    BY <1>a, <1>3, ChangeCounted DEF RevokeRole, DirectoryTypes
  <2> QED  BY <2>1, <1>3, DirectoryStep DEF RevokeRole
<1>4. ASSUME NEW t \in Team, NEW u \in User \ {Owner}, AddTeamMember(t, u) \/ RemoveTeamMember(t, u)
      PROVE  Types'
  <2>1. DirectoryTypes'
    BY <1>a, <1>4, ChangeCounted DEF AddTeamMember, RemoveTeamMember, DirectoryTypes
  <2> QED  BY <2>1, <1>4, DirectoryStep DEF AddTeamMember, RemoveTeamMember
<1>5. ASSUME NEW b \in Board, NEW policy \in Policies, SetBenchAccessPolicy(b, policy) PROVE Types'
  <2>1. DirectoryTypes'
    BY <1>a, <1>5, ChangeCounted, AccessAssumption DEF SetBenchAccessPolicy, DirectoryTypes
  <2> QED  BY <2>1, <1>5, DirectoryStep DEF SetBenchAccessPolicy
<1>6. ASSUME NEW w \in Plan, NEW v \in {"ORGANISATION", "RESTRICTED", "ADMIN_ONLY"},
             SetWorkflowAccessPolicy(w, v)
      PROVE  Types'
  <2>1. DirectoryTypes'
    BY <1>a, <1>6, ChangeCounted DEF SetWorkflowAccessPolicy, DirectoryTypes
  <2> QED  BY <2>1, <1>6, DirectoryStep DEF SetWorkflowAccessPolicy
<1>7. ASSUME NEW p \in Principal, LoseLogin(p) PROVE Types'
  <2>1. DirectoryTypes'
    BY <1>a, <1>7, ChangeCounted DEF LoseLogin, DirectoryTypes
  <2> QED  BY <2>1, <1>7, DirectoryStep DEF LoseLogin
<1>8. ASSUME NEW p \in Principal, NEW b \in Board,
             \E state \in {"SCHEDULED", "ACTIVATING"} : CreateReservation(p, b, state)
      PROVE  Types'
  <2>1. PICK state \in {"SCHEDULED", "ACTIVATING"} : CreateReservation(p, b, state)
    BY <1>8
  <2>2. WorkloadTypes'
    BY <1>a, <2>1 DEF CreateReservation, WorkloadTypes, LeaseRow
  <2> QED  BY <2>1, <2>2, WorkloadStep DEF CreateReservation, AskFor
<1>9. ASSUME NEW b \in Board, NEW state \in {"ACTIVATING", "ACTIVE", "UNKNOWN"},
             leased[b].state # "none", leased' = [leased EXCEPT ![b].state = state],
             UNCHANGED <<waiting, works, ciBy>>
      PROVE  WorkloadTypes'
  <2>1. leased[b] \in LeaseRow
    BY <1>a, <1>9 DEF WorkloadTypes, NoLease
  <2>2. [leased[b] EXCEPT !.state = state] \in LeaseRow
    BY <2>1 DEF LeaseRow
  <2> QED  BY <1>a, <1>9, <2>2 DEF WorkloadTypes
<1>10. ASSUME NEW p \in Principal, NEW b \in Board, RenewReservation(p, b) PROVE Types'
  <2>1. WorkloadTypes'
    BY <1>9, <1>10 DEF RenewReservation, RenewAccepts
  <2> QED  BY <2>1, <1>10, WorkloadStep DEF RenewReservation, AskFor
<1>11. ASSUME NEW b \in Board, NEW state \in {"ACTIVATING", "ACTIVE", "UNKNOWN"}, LeaseMoves(b, state)
       PROVE  Types'
  <2>1. WorkloadTypes'
    BY <1>9, <1>11 DEF LeaseMoves
  <2> QED  BY <2>1, <1>11, WorkloadStep DEF LeaseMoves
<1>12. ASSUME NEW p \in Principal, NEW b \in Board,
              EndReservation(p, b) \/ JoinQueue(p, b) \/ (\E q \in Principal : LeaveQueue(p, q, b))
                \/ PromoteQueued(p, b)
       PROVE  Types'
  <2>1. CASE EndReservation(p, b)
    <3>1. WorkloadTypes'
      BY <1>a, <2>1 DEF EndReservation, WorkloadTypes
    <3> QED  BY <2>1, <3>1, WorkloadStep DEF EndReservation, AskFor
  <2>2. CASE JoinQueue(p, b)
    <3>1. WorkloadTypes'
      BY <1>a, <2>2 DEF JoinQueue, WorkloadTypes
    <3> QED  BY <2>2, <3>1, WorkloadStep DEF JoinQueue, AskFor
  <2>3. ASSUME NEW q \in Principal, LeaveQueue(p, q, b) PROVE Types'
    <3>1. WorkloadTypes'
      BY <1>a, <2>3 DEF LeaveQueue, WorkloadTypes
    <3> QED  BY <2>3, <3>1, WorkloadStep DEF LeaveQueue, AskFor
  <2>4. CASE PromoteQueued(p, b)
    <3>1. WorkloadTypes'
      BY <1>a, <2>4 DEF PromoteQueued, WorkloadTypes, LeaseRow
    <3> QED  BY <2>4, <3>1, WorkloadStep DEF PromoteQueued
  <2> QED  BY <1>12, <2>1, <2>2, <2>3, <2>4
<1>13. ASSUME NEW p \in Principal, NEW b \in Board,
              ProbeBench(p, b) \/ ResetBench(p, b) \/ ReadBenchSerial(p, b)
       PROVE  Types'
  <2>1. WorkloadTypes'
    BY <1>a, <1>13 DEF ProbeBench, ResetBench, ReadBenchSerial, Begin, Work, WorkloadTypes
  <2> QED  BY <2>1, <1>13, WorkloadStep DEF ProbeBench, ResetBench, ReadBenchSerial, AskFor
<1>14. ASSUME NEW p \in Principal, NEW w, NEW b \in Board, RunWorkflow(p, w, b) PROVE Types'
  <2>1. WorkloadTypes'
    BY <1>a, <1>14 DEF RunWorkflow, Begin, Work, WorkloadTypes, LeaseRow
  <2> QED  BY <2>1, <1>14, WorkloadStep DEF RunWorkflow, AskFor
<1>15. ASSUME NEW p \in Principal, NEW b \in Board, FlashBegins(p, b) PROVE Types'
  <2>1. upload' \in UploadRow
    BY <1>15 DEF FlashBegins, UploadRow
  <2>2. ScopeTypes'
    BY <1>a, <1>15, <2>1 DEF FlashBegins, ScopeTypes
  <2> QED  BY <1>a, <1>15, <2>2, DirectoryKept, WorkloadKept, StreamsKept DEF FlashBegins, Types
<1>16. ASSUME NEW p, NEW o, CancelAsked(p, o) \/ WorkEnds(o) PROVE Types'
  <2>1. WorkloadTypes'
    BY <1>a, <1>16 DEF CancelAsked, WorkEnds, WorkloadTypes
  <2> QED  BY <2>1, <1>16, WorkloadStep DEF CancelAsked, WorkEnds, AskFor
<1>17. ASSUME NEW p \in Principal, CreateCiSession(p) \/ (\E by : EndCiSession(p, by)) PROVE Types'
  <2>1. WorkloadTypes'
    BY <1>a, <1>17 DEF CreateCiSession, EndCiSession, WorkloadTypes
  <2> QED  BY <2>1, <1>17, WorkloadStep DEF CreateCiSession, EndCiSession, AskFor
<1>18. CASE FlashDispatches
  <2>1. upload \in UploadRow
    BY <1>a, <1>18 DEF FlashDispatches, ScopeTypes
  <2>2. WorkloadTypes'
    BY <1>a, <1>18, <2>1 DEF FlashDispatches, Work, WorkloadTypes, UploadRow
  <2>3. ScopeTypes'
    BY <1>a, <1>18 DEF FlashDispatches, EndScope, ScopeTypes
  <2> QED  BY <1>a, <1>18, <2>2, <2>3, DirectoryKept, StreamsKept DEF FlashDispatches, Types
<1>19. CASE FlashAborts
  <2>1. ScopeTypes'
    BY <1>a, <1>19 DEF FlashAborts, EndScope, ScopeTypes
  <2> QED  BY <1>a, <1>19, <2>1, DirectoryKept, WorkloadKept, StreamsKept DEF FlashAborts, Types
<1>20. ASSUME NEW s \in Subscriber, NEW p \in Principal, OpenStream(s, p) PROVE Types'
  <2>1. streams' = [streams EXCEPT ![s] = [by |-> p]] /\ streams[s] = Closed
    BY <1>20 DEF OpenStream
  <2>2. [by |-> p] # Closed
    BY AccessAssumption DEF Closed
  <2>3. Streaming' = Streaming \cup {s} /\ s \notin Streaming
    BY <1>a, <2>1, <2>2 DEF Streaming, StreamTypes
  <2>4. Cardinality(Streaming') = Cardinality(Streaming) + 1
    BY <2>3, StreamingFinite, FS_AddElement
  <2>5. StreamTypes'
    BY <1>a, <1>20, <2>1, <2>4, AccessAssumption DEF OpenStream, StreamTypes
  <2>6. ScopeTypes'
    BY <1>a, <1>20 DEF OpenStream, ScopeTypes
  <2> QED  BY <1>a, <1>20, <2>5, <2>6, DirectoryKept, WorkloadKept DEF OpenStream, Types
<1>21. ASSUME NEW s \in Subscriber, CloseStream(s) PROVE Types'
  <2>1. streams' = [streams EXCEPT ![s] = Closed] /\ streams[s] # Closed
    BY <1>21 DEF CloseStream
  <2>2. Streaming' = Streaming \ {s} /\ s \in Streaming
    BY <1>a, <2>1 DEF Streaming, StreamTypes
  <2>3. Cardinality(Streaming') = Cardinality(Streaming) - 1
    BY <2>2, StreamingFinite, FS_RemoveElement
  <2>4. Cardinality(Streaming) # 0
    BY <2>2, StreamingFinite, FS_EmptySet
  <2>5. slots' = Slots
    BY <1>21 DEF CloseStream
  <2>6. slots' = Cardinality(Streaming') /\ slots' \in 0..StreamLimit
    BY <1>a, <2>3, <2>4, <2>5, AccessAssumption DEF Slots, StreamTypes
  <2>7. StreamTypes'
    BY <1>a, <2>1, <2>6 DEF StreamTypes
  <2>8. ScopeTypes'
    BY <1>a, <1>21 DEF CloseStream, ScopeTypes
  <2> QED  BY <1>a, <1>21, <2>7, <2>8, DirectoryKept, WorkloadKept DEF CloseStream, Types
<1> QED
  BY <1>1, <1>2, <1>3, <1>4, <1>5, <1>6, <1>7, <1>8, <1>10, <1>11, <1>12, <1>13, <1>14, <1>15,
     <1>16, <1>17, <1>18, <1>19, <1>20, <1>21 DEF AccessNext, Poll

\* Every variable holds what its table does, and the counter of event streams is
\* the number of open streams, within its limit.
THEOREM AccessTypeCorrect == AccessSpec => []AccessTypeOK
<1>1. AccessInit => Types
  BY TypesInit
<1>2. Types /\ [AccessNext]_accessVars => Types'
  BY TypesNext
<1>3. Types => AccessTypeOK
  BY DEF Types, DirectoryTypes, WorkloadTypes, ScopeTypes, StreamTypes, AccessTypeOK, LeaseRow, UploadRow
<1> QED  BY <1>1, <1>2, <1>3, PTL DEF AccessSpec

-----------------------------------------------------------------------------
(* Remote work on an Agent.  First the rows and fields of each command.     *)

ExecStates == {"none", "await_lock", "verify", "download", "start", "operate", "waiting", "over"}

TaskStates == {"none", "new", "ready", "gate", "execute", "store", "salvage",
               "interrupted", "finished"}

StepStates == {"running", "succeeded", "failed", "cancelled"}

RunRow == [status : {"none"} \cup ActiveRun \cup TerminalRun, reservation : 0..MaxLease]

TaskField == [pc : TaskStates, index : 0..NumSteps, marked : BOOLEAN, requested : BOOLEAN]

CommandRows ==
    /\ wanted \in [Command -> [kind : {"workflow", "direct"}, bench : WorkBench, digest : Digest]]
    /\ exec \in [Command -> ExecStates]
    /\ run \in [Command -> RunRow]
    /\ steps \in [Command -> Seq(StepStates)]
    /\ task \in [Command -> TaskField]

BenchRows ==
    /\ benchLock \in [WorkBench -> Command \cup {Nobody}]
    /\ lease \in [WorkBench -> 0..MaxLease]
    /\ granted \in [WorkBench -> 0..MaxLease]
    /\ stopping \in BOOLEAN
    /\ boots \in 0..MaxBoots

WorkRows == CommandRows /\ BenchRows

LEMMA WorkBounds ==
    /\ NumSteps \in Nat /\ NumSteps > 0
    /\ MaxLease \in Nat /\ MaxLease > 0
    /\ MaxBoots \in Nat /\ CacheSize \in Nat
  BY WorkAssumption

LEMMA WorkRowsInit == WorkInit => WorkRows
<1> SUFFICES ASSUME WorkInit PROVE CommandRows /\ BenchRows
  BY DEF WorkRows
<1> USE WorkBounds DEF WorkInit
<1>1. CommandRows
  BY DEF CommandRows, ExecStates, RunRow, TaskField, TaskStates, NoRun, NoTask, ActiveRun, TerminalRun
<1>2. BenchRows
  <2>1. 0 \in 0..MaxBoots /\ 1 \in 0..MaxLease
    OBVIOUS
  <2> QED  BY <2>1 DEF BenchRows
<1> QED  BY <1>1, <1>2

LEMMA LockTyped ==
    ASSUME BenchRows, NEW c \in Command, CommandRows
    PROVE  /\ FreeBench(c) => benchLock' \in [WorkBench -> Command \cup {Nobody}]
           /\ LockBench(c) => benchLock' \in [WorkBench -> Command \cup {Nobody}]
  BY DEF BenchRows, CommandRows, FreeBench, LockBench

\* The rows of one command change, each to a value of its kind.
LEMMA RunTyped ==
    ASSUME CommandRows, NEW c \in Command, NEW st \in {"none"} \cup ActiveRun \cup TerminalRun,
           run' = [run EXCEPT ![c].status = st]
    PROVE  /\ run' \in [Command -> RunRow]
           /\ run'[c].status = st
           /\ \A k \in Command \ {c} : run'[k] = run[k]
<1>1. run[c] \in RunRow
  BY DEF CommandRows
<1>2. [run[c] EXCEPT !.status = st] \in RunRow
  BY <1>1 DEF RunRow
<1>3. run' = [run EXCEPT ![c] = [run[c] EXCEPT !.status = st]]
  OBVIOUS
<1>4. [run[c] EXCEPT !.status = st].status = st
  BY <1>1 DEF RunRow
<1> QED  BY <1>2, <1>3, <1>4 DEF CommandRows

\* A task that moves keeps its marks.
LEMMA PcTyped ==
    ASSUME CommandRows, NEW c \in Command, NEW pc \in TaskStates, SetPc(c, pc)
    PROVE  /\ task' \in [Command -> TaskField]
           /\ task'[c].pc = pc /\ task'[c].index = task[c].index
           /\ task'[c].marked = task[c].marked /\ task'[c].requested = task[c].requested
           /\ \A k \in Command \ {c} : task'[k] = task[k]
<1> DEFINE moved == [task[c] EXCEPT !.pc = pc]
<1>1. task[c] \in TaskField
  BY DEF CommandRows
<1>2. /\ moved \in TaskField /\ moved.pc = pc /\ moved.index = task[c].index
      /\ moved.marked = task[c].marked /\ moved.requested = task[c].requested
  BY <1>1 DEF TaskField
<1>3. task' = [task EXCEPT ![c] = moved]
  BY DEF SetPc
<1> HIDE DEF moved
<1> QED  BY <1>2, <1>3 DEF CommandRows

LEMMA TaskEnds ==
    ASSUME CommandRows, NEW c \in Command, NEW last \in TaskField, task' = [task EXCEPT ![c] = last]
    PROVE  /\ task' \in [Command -> TaskField]
           /\ task'[c] = last
           /\ \A k \in Command \ {c} : task'[k] = task[k]
  BY DEF CommandRows

LEMMA FieldChanged ==
    ASSUME NEW t \in TaskField, NEW pc \in TaskStates
    PROVE  /\ [t EXCEPT !.pc = pc] \in TaskField /\ [t EXCEPT !.pc = pc].pc = pc
           /\ [t EXCEPT !.pc = pc].requested = t.requested
  BY DEF TaskField

LEMMA NoTaskTyped ==
    /\ NoTask \in TaskField /\ NoTask.pc = "none"
    /\ [NoTask EXCEPT !.pc = "finished"] \in TaskField
    /\ [NoTask EXCEPT !.pc = "finished"].pc = "finished"
<1>1. NoTask \in TaskField /\ NoTask.pc = "none"
  BY WorkBounds DEF NoTask, TaskField, TaskStates
<1>2. "finished" \in TaskStates
  BY DEF TaskStates
<1> QED  BY <1>1, <1>2, FieldChanged

\* The last lines of _run.
LEMMA EndRunTyped ==
    ASSUME WorkRows, NEW c \in Command, NEW st \in TerminalRun, EndRun(c, st)
    PROVE  /\ run' \in [Command -> RunRow] /\ run'[c].status = st
           /\ task' \in [Command -> TaskField] /\ task'[c].pc = "finished"
           /\ benchLock' \in [WorkBench -> Command \cup {Nobody}]
           /\ \A k \in Command \ {c} : run'[k] = run[k] /\ task'[k] = task[k]
  BY RunTyped, NoTaskTyped, TaskEnds, LockTyped DEF WorkRows, EndRun

LEMMA StepSet ==
    ASSUME CommandRows, NEW c \in Command, NEW st \in StepStates, SetStep(c, st),
           task[c].index \in 1..Len(steps[c])
    PROVE  /\ steps' \in [Command -> Seq(StepStates)]
           /\ steps'[c] = [steps[c] EXCEPT ![task[c].index] = st]
           /\ Len(steps'[c]) = Len(steps[c])
           /\ steps'[c][task[c].index] = st
           /\ \A i \in 1..Len(steps[c]) : i # task[c].index => steps'[c][i] = steps[c][i]
           /\ \A k \in Command \ {c} : steps'[k] = steps[k]
<1> DEFINE i == task[c].index
<1> DEFINE changed == [steps[c] EXCEPT ![i] = st]
<1>1. steps[c] \in Seq(StepStates)
  BY DEF CommandRows
<1>2. changed \in Seq(StepStates) /\ Len(changed) = Len(steps[c])
  BY <1>1, ExceptSeq
<1>3. changed[i] = st /\ \A j \in 1..Len(steps[c]) : j # i => changed[j] = steps[c][j]
  BY <1>1
<1>4. steps' = [steps EXCEPT ![c] = changed]
  BY DEF SetStep
<1> HIDE DEF changed
<1> QED  BY <1>2, <1>3, <1>4 DEF CommandRows, changed

LEMMA StepAdded ==
    ASSUME CommandRows, NEW c \in Command, steps' = [steps EXCEPT ![c] = Append(@, "running")]
    PROVE  /\ steps' \in [Command -> Seq(StepStates)]
           /\ Len(steps'[c]) = Len(steps[c]) + 1
           /\ steps'[c][Len(steps[c]) + 1] = "running"
           /\ \A i \in 1..Len(steps[c]) : steps'[c][i] = steps[c][i]
           /\ \A k \in Command \ {c} : steps'[k] = steps[k]
<1>1. steps[c] \in Seq(StepStates)
  BY DEF CommandRows
<1>2. Append(steps[c], "running") \in Seq(StepStates)
  BY <1>1 DEF StepStates
<1>3. /\ Len(Append(steps[c], "running")) = Len(steps[c]) + 1
      /\ Append(steps[c], "running")[Len(steps[c]) + 1] = "running"
      /\ \A i \in 1..Len(steps[c]) : Append(steps[c], "running")[i] = steps[c][i]
  BY <1>1
<1> QED  BY <1>2, <1>3 DEF CommandRows

-----------------------------------------------------------------------------
(* The runner takes a run through its steps in order: the steps behind the  *)
(* task have succeeded, the one it is in is running, and a run that is over  *)
(* has a record that says how it ended.                                      *)

InStep == {"execute", "store", "salvage", "interrupted"}

Passed(s, n) == Len(s) = n /\ \A i \in 1..n : s[i] = "succeeded"

Entered(s, n) ==
    /\ Len(s) = n /\ s[n] = "running"
    /\ \A i \in 1..(n - 1) : s[i] = "succeeded"

RunClosed(s, status) ==
    /\ \A i \in DOMAIN s : s[i] # "running"
    /\ \A i, j \in DOMAIN s : i < j => s[i] = "succeeded"
    /\ status = "succeeded" <=> s = [i \in 1..NumSteps |-> "succeeded"]

RunOrder(c) ==
    /\ exec[c] \notin {"waiting", "over"} => run[c].status = "none"
    /\ run[c].status = "none" => steps[c] = <<>> /\ task[c].pc = "none"
    /\ LiveTask(c) <=> run[c].status \in ActiveRun
    /\ task[c].pc \in {"new", "ready"} => steps[c] = <<>>
    /\ task[c].pc = "gate" =>
          task[c].index \in 1..NumSteps /\ Passed(steps[c], task[c].index - 1)
    /\ task[c].pc \in InStep =>
          task[c].index \in 1..NumSteps /\ Entered(steps[c], task[c].index)
    /\ run[c].status \in TerminalRun => RunClosed(steps[c], run[c].status)

RunsInOrder == WorkRows /\ \A c \in Command : RunOrder(c)

\* How records close: with every step, short of the last, or at a bad step.
LEMMA ClosedShort ==
    ASSUME NEW s \in Seq(StepStates), NEW n \in Nat, n < NumSteps, Passed(s, n), NEW st, st # "succeeded"
    PROVE  RunClosed(s, st)
<1>1. Len([i \in 1..NumSteps |-> "succeeded"]) = NumSteps
  BY WorkBounds
<1> QED  BY <1>1, WorkBounds DEF Passed, RunClosed

LEMMA ClosedEmpty == ASSUME NEW st, st # "succeeded" PROVE RunClosed(<<>>, st)
<1>1. <<>> \in Seq(StepStates) /\ Passed(<<>>, 0)
  BY DEF Passed
<1> QED  BY <1>1, ClosedShort, WorkBounds

LEMMA ClosedFull ==
    ASSUME NEW s \in Seq(StepStates), Passed(s, NumSteps) PROVE RunClosed(s, "succeeded")
<1>1. s = [i \in 1..NumSteps |-> "succeeded"]
  BY WorkBounds DEF Passed
<1> QED  BY <1>1, WorkBounds DEF Passed, RunClosed

LEMMA ClosedAt ==
    ASSUME NEW s \in Seq(StepStates), NEW n \in 1..NumSteps, Len(s) = n,
           \A i \in 1..(n - 1) : s[i] = "succeeded", s[n] \in {"failed", "cancelled"},
           NEW st, st # "succeeded"
    PROVE  RunClosed(s, st)
<1>1. [i \in 1..NumSteps |-> "succeeded"][n] = "succeeded"
  BY WorkBounds
<1>2. s # [i \in 1..NumSteps |-> "succeeded"]
  BY <1>1
<1> QED  BY <1>2, WorkBounds DEF RunClosed

LEMMA OrderInit == WorkInit => RunsInOrder
<1> SUFFICES ASSUME WorkInit PROVE \A c \in Command : RunOrder(c)
  BY WorkRowsInit DEF RunsInOrder
<1> QED
  BY DEF WorkInit, RunOrder, NoRun, NoTask, LiveTask, ActiveRun, TerminalRun, InStep

LEMMA OrderKept ==
    ASSUME NEW k \in Command, RunOrder(k), exec'[k] = exec[k] \/ exec'[k] \in {"waiting", "over"},
           run'[k].status = run[k].status, steps'[k] = steps[k], task'[k] = task[k]
    PROVE  RunOrder(k)'
  BY DEF RunOrder, LiveTask

LEMMA OrderStep ==
    ASSUME RunsInOrder, WorkRows', NEW c \in Command, RunOrder(c)',
           \A k \in Command \ {c} :
              exec'[k] = exec[k] /\ run'[k] = run[k] /\ steps'[k] = steps[k] /\ task'[k] = task[k]
    PROVE  RunsInOrder'
<1>1. \A k \in Command \ {c} : RunOrder(k)'
  BY OrderKept DEF RunsInOrder
<1> QED  BY <1>1 DEF RunsInOrder

\* The executor moves on before or after the run.
LEMMA ExecutorMoves ==
    ASSUME RunsInOrder, NEW c \in Command, NEW st \in ExecStates, exec' = [exec EXCEPT ![c] = st],
           st \in {"waiting", "over"} \/ run[c].status = "none",
           run' = run \/ (\E r \in 0..MaxLease : run' = [run EXCEPT ![c].reservation = r]),
           benchLock' = benchLock \/ FreeBench(c) \/ LockBench(c),
           UNCHANGED <<wanted, steps, task, lease, granted, stopping, boots>>
    PROVE  RunsInOrder'
<1>1. CommandRows /\ BenchRows /\ RunOrder(c)
  BY DEF RunsInOrder, WorkRows
<1>2. /\ run' \in [Command -> RunRow] /\ run'[c].status = run[c].status
      /\ \A k \in Command \ {c} : run'[k] = run[k]
  <2>1. CASE run' = run
    BY <1>1, <2>1 DEF CommandRows
  <2>2. ASSUME NEW r \in 0..MaxLease, run' = [run EXCEPT ![c].reservation = r]
        PROVE  <1>2
    <3>1. run[c] \in RunRow
      BY <1>1 DEF CommandRows
    <3>2. /\ [run[c] EXCEPT !.reservation = r] \in RunRow
          /\ [run[c] EXCEPT !.reservation = r].status = run[c].status
      BY <3>1 DEF RunRow
    <3> QED  BY <1>1, <2>2, <3>2 DEF CommandRows
  <2> QED  BY <2>1, <2>2
<1>3. exec' \in [Command -> ExecStates] /\ exec'[c] = st
      /\ \A k \in Command \ {c} : exec'[k] = exec[k]
  BY <1>1 DEF CommandRows
<1>4. CommandRows'
  BY <1>1, <1>2, <1>3 DEF CommandRows
<1>5. BenchRows'
  BY <1>1, LockTyped DEF BenchRows
<1>6. RunOrder(c)'
  BY <1>1, <1>2, <1>3 DEF RunOrder, LiveTask
<1> QED  BY <1>2, <1>3, <1>4, <1>5, <1>6, OrderStep DEF WorkRows

\* A run ends with a closed record.
LEMMA OrderEnds ==
    ASSUME RunsInOrder, NEW c \in Command, NEW st \in TerminalRun, EndRun(c, st),
           steps' \in [Command -> Seq(StepStates)], \A k \in Command \ {c} : steps'[k] = steps[k],
           RunClosed(steps'[c], st), LiveTask(c),
           UNCHANGED <<wanted, exec, lease, granted, stopping, boots>>
    PROVE  RunsInOrder'
<1>1. CommandRows /\ BenchRows /\ RunOrder(c)
  BY DEF RunsInOrder, WorkRows
<1>2. /\ run' \in [Command -> RunRow] /\ run'[c].status = st
      /\ task' \in [Command -> TaskField] /\ task'[c].pc = "finished"
      /\ benchLock' \in [WorkBench -> Command \cup {Nobody}]
      /\ \A k \in Command \ {c} : run'[k] = run[k] /\ task'[k] = task[k]
  BY EndRunTyped DEF RunsInOrder
<1>3. CommandRows' /\ BenchRows'
  BY <1>1, <1>2 DEF CommandRows, BenchRows
<1>4. exec[c] \in {"waiting", "over"}
  BY <1>1 DEF RunOrder, LiveTask
<1>5. RunOrder(c)'
  BY <1>2, <1>4 DEF RunOrder, LiveTask, ActiveRun, TerminalRun, InStep
<1> QED  BY <1>2, <1>3, <1>5, OrderStep DEF WorkRows

\* A task moves on without an end.
LEMMA OrderMoves ==
    ASSUME RunsInOrder, NEW c \in Command, LiveTask(c),
           task' \in [Command -> TaskField], \A k \in Command \ {c} : task'[k] = task[k],
           steps' \in [Command -> Seq(StepStates)], \A k \in Command \ {c} : steps'[k] = steps[k],
           run' \in [Command -> RunRow], \A k \in Command \ {c} : run'[k] = run[k],
           run'[c].status \in ActiveRun,
           task'[c].pc \notin {"none", "finished"},
           task'[c].pc \in {"new", "ready"} => steps'[c] = <<>>,
           task'[c].pc = "gate" =>
              task'[c].index \in 1..NumSteps /\ Passed(steps'[c], task'[c].index - 1),
           task'[c].pc \in InStep =>
              task'[c].index \in 1..NumSteps /\ Entered(steps'[c], task'[c].index),
           benchLock' = benchLock \/ FreeBench(c),
           UNCHANGED <<wanted, exec, lease, granted, stopping, boots>>
    PROVE  RunsInOrder'
<1>1. CommandRows /\ BenchRows /\ RunOrder(c)
  BY DEF RunsInOrder, WorkRows
<1>2. CommandRows' /\ BenchRows'
  BY <1>1, LockTyped DEF CommandRows, BenchRows
<1>3. exec[c] \in {"waiting", "over"}
  BY <1>1 DEF RunOrder, LiveTask
<1>4. RunOrder(c)'
  BY <1>3 DEF RunOrder, LiveTask, ActiveRun, TerminalRun
<1> QED  BY <1>2, <1>4, OrderStep DEF WorkRows

\* The executor's steps.
LEMMA OrderExecutor ==
    ASSUME RunsInOrder, NEW c \in Command,
           \/ Execute(c) \/ Fetch(c) \/ Verified(c) \/ Corrupt(c) \/ Downloaded(c)
           \/ DownloadFails(c) \/ VerifyFails(c) \/ OperationEnds(c) \/ StartFails(c)
           \/ RunWatched(c) \/ CancelEarly(c)
    PROVE  RunsInOrder'
<1>0. /\ RunOrder(c) /\ BenchRows /\ CommandRows
      /\ {"await_lock", "verify", "download", "operate", "start", "over"} \subseteq ExecStates
  BY DEF RunsInOrder, WorkRows, ExecStates
<1>1. CASE Execute(c)
  BY <1>0, <1>1, ExecutorMoves DEF Execute, RunOrder
<1>2. CASE Fetch(c)
  <2>1. PICK st \in {"verify", "download", "over"} :
            exec' = [exec EXCEPT ![c] = st] /\ (benchLock' = benchLock \/ FreeBench(c))
    BY <1>2 DEF Fetch, FetchStep
  <2>2. run[c].status = "none"
    BY <1>0, <1>2 DEF Fetch, RunOrder
  <2>3. UNCHANGED <<wanted, run, steps, task, lease, granted, stopping, boots>>
    BY <1>2 DEF Fetch
  <2> QED  BY <1>0, <2>1, <2>2, <2>3, ExecutorMoves
<1>3. CASE Verified(c) \/ Downloaded(c)
  <2>1. PICK st \in {"operate", "start", "over"} : exec' = [exec EXCEPT ![c] = st]
    BY <1>3 DEF Verified, Downloaded, FetchedBy
  <2>2. run' = run \/ \E r \in 0..MaxLease : run' = [run EXCEPT ![c].reservation = r]
    <3>1. RequireActive(c) \in 0..MaxLease
      BY <1>0 DEF RequireActive, BenchOf, BenchRows, CommandRows
    <3> QED  BY <1>3, <3>1 DEF Verified, Downloaded, FetchedBy
  <2>3. run[c].status = "none"
    BY <1>0, <1>3 DEF Verified, Downloaded, RunOrder
  <2>4. UNCHANGED <<wanted, steps, task, benchLock, lease, granted, stopping, boots>>
    BY <1>3 DEF Verified, Downloaded
  <2> QED  BY <1>0, <2>1, <2>2, <2>3, <2>4, ExecutorMoves
<1>4. CASE Corrupt(c)
  BY <1>0, <1>4, ExecutorMoves DEF Corrupt, RunOrder
<1>5. CASE Leave(c)
  BY <1>0, <1>5, ExecutorMoves DEF Leave
<1>6. CASE RunWatched(c)
  BY <1>0, <1>6, ExecutorMoves DEF RunWatched
<1>7. CASE CancelEarly(c)
  BY <1>0, <1>7, ExecutorMoves DEF CancelEarly
<1> QED
  BY <1>1, <1>2, <1>3, <1>4, <1>5, <1>6, <1>7 DEF DownloadFails, VerifyFails, OperationEnds, StartFails

\* WorkflowService.start and cancel.
LEMMA OrderService ==
    ASSUME RunsInOrder, NEW c \in Command, Start(c) \/ CancelWatched(c)
    PROVE  RunsInOrder'
<1>0. /\ RunOrder(c) /\ BenchRows /\ CommandRows /\ WorkRows
      /\ {"pending", "cancel_requested"} \subseteq ActiveRun
      /\ {"waiting", "over"} \subseteq ExecStates
  BY DEF RunsInOrder, WorkRows, ExecStates, ActiveRun
<1>1. CASE Start(c)
  <2>1. run[c].status = "none" /\ steps[c] = <<>> /\ task[c].pc = "none"
    BY <1>0, <1>1 DEF Start, RunOrder
  <2>2. /\ run' \in [Command -> RunRow] /\ run'[c].status = "pending"
        /\ \A k \in Command \ {c} : run'[k] = run[k]
    BY <1>0, <1>1, RunTyped DEF Start
  <2>3. SetPc(c, "new") /\ "new" \in TaskStates
    BY <1>1 DEF Start, SetPc, TaskStates
  <2>4. /\ task' \in [Command -> TaskField] /\ task'[c].pc = "new"
        /\ \A k \in Command \ {c} : task'[k] = task[k]
    BY <1>0, <2>3, PcTyped
  <2>5. /\ exec' \in [Command -> ExecStates] /\ exec'[c] = "waiting"
        /\ \A k \in Command \ {c} : exec'[k] = exec[k]
    BY <1>0, <1>1 DEF Start, CommandRows
  <2>6. WorkRows'
    BY <1>0, <1>1, <2>2, <2>4, <2>5, LockTyped DEF Start, WorkRows, CommandRows, BenchRows
  <2>7. RunOrder(c)'
    BY <1>1, <2>1, <2>2, <2>4, <2>5 DEF Start, RunOrder, LiveTask, ActiveRun, TerminalRun, InStep
  <2> QED  BY <1>1, <2>2, <2>4, <2>5, <2>6, <2>7, OrderStep DEF Start
<1>2. CASE CancelWatched(c) /\ run[c].status \in {"pending", "running"}
  <2>1. RequestCancel(c)
    BY <1>2 DEF CancelWatched
  <2>2. /\ run' \in [Command -> RunRow] /\ run'[c].status = "cancel_requested"
        /\ \A k \in Command \ {c} : run'[k] = run[k]
    BY <1>0, <2>1, RunTyped DEF RequestCancel
  <2>3. /\ task' \in [Command -> TaskField] /\ task'[c].pc = task[c].pc
        /\ task'[c].index = task[c].index
        /\ \A k \in Command \ {c} : task'[k] = task[k]
    <3> DEFINE asked == [task[c] EXCEPT !.requested = TRUE, !.marked = TRUE]
    <3>1. task[c] \in TaskField
      BY <1>0 DEF CommandRows
    <3>2. asked \in TaskField /\ asked.pc = task[c].pc /\ asked.index = task[c].index
      BY <3>1 DEF TaskField
    <3>3. task' = [task EXCEPT ![c] = asked]
      BY <1>0, <2>1 DEF RequestCancel, CommandRows
    <3> HIDE DEF asked
    <3> QED  BY <3>2, <3>3, <1>0, TaskEnds
  <2>4. /\ exec' \in [Command -> ExecStates] /\ exec'[c] = "over"
        /\ \A k \in Command \ {c} : exec'[k] = exec[k]
    BY <1>0, <1>2 DEF CancelWatched, CommandRows
  <2>5. WorkRows'
    BY <1>0, <1>2, <2>2, <2>3, <2>4 DEF CancelWatched, WorkRows, CommandRows, BenchRows
  <2>6. steps' = steps
    BY <1>2 DEF CancelWatched
  <2>7. RunOrder(c)'
    BY <1>0, <1>2, <2>2, <2>3, <2>4, <2>6 DEF RunOrder, LiveTask, ActiveRun, TerminalRun, InStep
  <2> QED  BY <2>2, <2>3, <2>4, <2>5, <2>6, <2>7, OrderStep
<1>3. CASE CancelWatched(c) /\ run[c].status \notin {"pending", "running"}
  BY <1>0, <1>3, ExecutorMoves DEF CancelWatched
<1> QED  BY <1>1, <1>2, <1>3

LEMMA EnterNext ==
    ASSUME RunsInOrder, NEW c \in Command, NEW index \in 1..(NumSteps + 1), EnterStep(c, index),
           steps' \in [Command -> Seq(StepStates)], \A k \in Command \ {c} : steps'[k] = steps[k],
           Passed(steps'[c], index - 1), LiveTask(c),
           UNCHANGED <<wanted, exec, lease, granted, stopping, boots>>
    PROVE  RunsInOrder'
<1>0. WorkRows /\ CommandRows /\ RunOrder(c)
  BY DEF RunsInOrder, WorkRows
<1>1. steps'[c] \in Seq(StepStates)
  OBVIOUS
<1>2. CASE index > NumSteps
  <2>1. index - 1 = NumSteps
    BY <1>2, WorkBounds
  <2>2. RunClosed(steps'[c], "succeeded")
    BY <1>1, <2>1, ClosedFull
  <2>3. EndRun(c, "succeeded") /\ "succeeded" \in TerminalRun
    BY <1>2 DEF EnterStep, TerminalRun
  <2> QED  BY <2>2, <2>3, OrderEnds
<1>3. CASE ~(index > NumSteps) /\ ~StillReserved(c)
  <2>1. index - 1 \in Nat /\ index - 1 < NumSteps
    BY <1>3, WorkBounds
  <2>2. RunClosed(steps'[c], "failed")
    BY <1>1, <2>1, ClosedShort
  <2>3. EndRun(c, "failed") /\ "failed" \in TerminalRun
    BY <1>3 DEF EnterStep, TerminalRun
  <2> QED  BY <2>2, <2>3, OrderEnds
<1>4. CASE ~(index > NumSteps) /\ StillReserved(c)
  <2> DEFINE at == [task[c] EXCEPT !.pc = "gate", !.index = index]
  <2>1. index \in 1..NumSteps /\ index \in 0..NumSteps /\ "gate" \in TaskStates
    BY <1>4, WorkBounds DEF TaskStates
  <2>2. at \in TaskField /\ at.pc = "gate" /\ at.index = index
    BY <1>0, <2>1 DEF CommandRows, TaskField
  <2>3. task' = [task EXCEPT ![c] = at] /\ UNCHANGED <<run, benchLock>>
    BY <1>0, <1>4 DEF EnterStep, CommandRows
  <2> HIDE DEF at
  <2>4. /\ task' \in [Command -> TaskField] /\ task'[c] = at
        /\ \A k \in Command \ {c} : task'[k] = task[k]
    BY <1>0, <2>2, <2>3, TaskEnds
  <2>5. run' \in [Command -> RunRow] /\ run'[c].status \in ActiveRun
    BY <1>0, <2>3 DEF CommandRows, RunOrder
  <2>6. "gate" \notin InStep \cup {"new", "ready", "none", "finished"}
    BY DEF InStep
  <2> QED  BY <2>1, <2>2, <2>3, <2>4, <2>5, <2>6, OrderMoves
<1> QED  BY <1>2, <1>3, <1>4

\* The step a task is in gets its outcome.
LEMMA StepOutcome ==
    ASSUME RunsInOrder, NEW c \in Command, task[c].pc \in InStep, NEW st \in StepStates, SetStep(c, st)
    PROVE  /\ steps' \in [Command -> Seq(StepStates)]
           /\ \A k \in Command \ {c} : steps'[k] = steps[k]
           /\ task[c].index \in 1..NumSteps /\ Len(steps'[c]) = task[c].index
           /\ steps'[c][task[c].index] = st
           /\ \A i \in 1..(task[c].index - 1) : steps'[c][i] = "succeeded"
           /\ st = "succeeded" => Passed(steps'[c], task[c].index)
           /\ st \in {"failed", "cancelled"} =>
                 \A ending \in TerminalRun \ {"succeeded"} : RunClosed(steps'[c], ending)
<1> DEFINE n == task[c].index
<1>1. /\ CommandRows /\ n \in 1..NumSteps /\ Len(steps[c]) = n
      /\ \A i \in 1..(n - 1) : steps[c][i] = "succeeded"
  BY DEF RunsInOrder, WorkRows, RunOrder, Entered
<1>2. n \in 1..Len(steps[c])
  BY <1>1, WorkBounds
<1>3. /\ steps' \in [Command -> Seq(StepStates)]
      /\ \A k \in Command \ {c} : steps'[k] = steps[k]
      /\ Len(steps'[c]) = n /\ steps'[c][n] = st
      /\ \A i \in 1..n : i # n => steps'[c][i] = steps[c][i]
  BY <1>1, <1>2, StepSet
<1>4. \A i \in 1..(n - 1) : steps'[c][i] = "succeeded"
  BY <1>1, <1>3, WorkBounds
<1>5. st = "succeeded" => Passed(steps'[c], n)
  BY <1>1, <1>3, <1>4, WorkBounds DEF Passed
<1>6. ASSUME st \in {"failed", "cancelled"}, NEW ending \in TerminalRun \ {"succeeded"}
      PROVE  RunClosed(steps'[c], ending)
  BY <1>1, <1>3, <1>4, <1>6, ClosedAt
<1> QED  BY <1>1, <1>3, <1>4, <1>5, <1>6

\* The runner's steps.
LEMMA OrderRunner == ASSUME RunsInOrder, NEW c \in Command, RunnerStep(c) PROVE RunsInOrder'
<1>0. WorkRows /\ CommandRows /\ RunOrder(c) /\ steps[c] \in Seq(StepStates)
  BY DEF RunsInOrder, WorkRows, CommandRows
<1>a. /\ run \in [Command -> RunRow] /\ steps \in [Command -> Seq(StepStates)]
      /\ {"failed", "cancelled"} \subseteq TerminalRun \ {"succeeded"}
      /\ {"succeeded", "failed", "cancelled"} \subseteq StepStates
      /\ {"ready", "execute", "store", "salvage", "interrupted"} \subseteq TaskStates
      /\ LiveTask(c) => run[c].status \in ActiveRun
      /\ Interruption(c) \in {"failed", "cancelled"}
  BY <1>0 DEF CommandRows, TerminalRun, StepStates, TaskStates, RunOrder, Interruption
<1>1. CASE RunTask(c)
  <2>1. task[c].pc = "new" /\ LiveTask(c) /\ steps[c] = <<>> /\ steps' = steps
    BY <1>0, <1>1 DEF RunTask, AtPc, LiveTask, RunOrder
  <2>2. CASE StillReserved(c)
    <3>1. /\ run' \in [Command -> RunRow] /\ run'[c].status = "running"
          /\ \A k \in Command \ {c} : run'[k] = run[k]
      BY <1>0, <1>1, <2>2, RunTyped DEF RunTask, ActiveRun
    <3>2. SetPc(c, "ready")
      BY <1>1, <2>2 DEF RunTask
    <3>3. /\ task' \in [Command -> TaskField] /\ task'[c].pc = "ready"
          /\ \A k \in Command \ {c} : task'[k] = task[k]
      BY <1>0, <1>a, <3>2, PcTyped
    <3>4. "running" \in ActiveRun /\ "ready" \notin InStep
      BY DEF ActiveRun, InStep
    <3>5. UNCHANGED <<wanted, exec, benchLock, lease, granted, stopping, boots>>
      BY <1>1, <2>2 DEF RunTask
    <3> QED  BY <1>a, <2>1, <3>1, <3>3, <3>4, <3>5, OrderMoves
  <2>3. CASE ~StillReserved(c)
    <3>1. EndRun(c, "failed") /\ UNCHANGED <<wanted, exec, lease, granted, stopping, boots>>
      BY <1>1, <2>3 DEF RunTask
    <3> QED  BY <1>a, <2>1, <3>1, ClosedEmpty, OrderEnds
  <2> QED  BY <2>2, <2>3
<1>2. CASE BenchReady(c)
  <2>1. LiveTask(c) /\ steps' = steps /\ steps'[c] = <<>>
    BY <1>0, <1>2 DEF BenchReady, AtPc, LiveTask, RunOrder
  <2>2. 1 \in 1..(NumSteps + 1) /\ Passed(steps'[c], 1 - 1)
    BY <2>1, WorkBounds DEF Passed
  <2>3. EnterStep(c, 1) /\ UNCHANGED <<wanted, exec, lease, granted, stopping, boots>>
    BY <1>2 DEF BenchReady
  <2> QED  BY <1>a, <2>1, <2>2, <2>3, EnterNext
<1>3. CASE BeginStep(c)
  <2> DEFINE n == task[c].index
  <2>1. LiveTask(c) /\ n \in 1..NumSteps /\ Passed(steps[c], n - 1)
    BY <1>0, <1>3 DEF BeginStep, AtPc, LiveTask, RunOrder
  <2>2. /\ steps' \in [Command -> Seq(StepStates)]
        /\ Len(steps'[c]) = Len(steps[c]) + 1
        /\ steps'[c][Len(steps[c]) + 1] = "running"
        /\ \A i \in 1..Len(steps[c]) : steps'[c][i] = steps[c][i]
        /\ \A k \in Command \ {c} : steps'[k] = steps[k]
    BY <1>0, <1>3, StepAdded DEF BeginStep
  <2>3. Entered(steps'[c], n)
    <3>1. /\ Len(steps[c]) = n - 1 /\ (n - 1) + 1 = n
          /\ \A i \in 1..(n - 1) : steps[c][i] = "succeeded"
      BY <2>1, WorkBounds DEF Passed
    <3>2. Len(steps'[c]) = n /\ steps'[c][n] = "running"
      BY <2>2, <3>1
    <3>3. \A i \in 1..(n - 1) : steps'[c][i] = "succeeded"
      BY <2>2, <3>1
    <3> QED  BY <3>2, <3>3 DEF Entered
  <2>4. /\ task' \in [Command -> TaskField] /\ task'[c].pc = "execute" /\ task'[c].index = n
        /\ \A k \in Command \ {c} : task'[k] = task[k]
    BY <1>0, <1>3, <1>a, PcTyped DEF BeginStep
  <2>5. UNCHANGED <<wanted, exec, run, benchLock, lease, granted, stopping, boots>>
    BY <1>3 DEF BeginStep
  <2> QED  BY <1>a, <2>1, <2>2, <2>3, <2>4, <2>5, OrderMoves
<1>4. CASE BenchUnavailable(c)
  <2>1. LiveTask(c) /\ steps' = steps /\ EndRun(c, "failed")
    BY <1>4 DEF BenchUnavailable, AtPc, LiveTask
  <2>2. RunClosed(steps'[c], "failed")
    <3>1. CASE task[c].pc = "ready"
      BY <1>0, <2>1, <3>1, ClosedEmpty DEF RunOrder
    <3>2. CASE task[c].pc = "gate"
      <4>1. task[c].index \in 1..NumSteps /\ Passed(steps[c], task[c].index - 1)
        BY <1>0, <3>2 DEF RunOrder
      <4>2. task[c].index - 1 \in Nat /\ task[c].index - 1 < NumSteps
        BY <4>1, WorkBounds
      <4> QED  BY <1>0, <2>1, <4>1, <4>2, ClosedShort
    <3> QED  BY <1>4, <3>1, <3>2 DEF BenchUnavailable, AtPc
  <2>3. UNCHANGED <<wanted, exec, lease, granted, stopping, boots>>
    BY <1>4 DEF BenchUnavailable
  <2> QED  BY <1>a, <2>1, <2>2, <2>3, OrderEnds
<1>5. ASSUME NEW pc \in {"store", "salvage"}, task[c].pc \in {"execute", "store"}, SetPc(c, pc),
             UNCHANGED <<wanted, exec, run, steps, benchLock, lease, granted, stopping, boots>>
      PROVE  RunsInOrder'
  <2>1. /\ LiveTask(c) /\ task[c].pc \in InStep /\ pc \in TaskStates
        /\ pc \in InStep /\ pc \notin {"new", "ready", "gate", "none", "finished"}
    BY <1>5 DEF LiveTask, InStep, TaskStates
  <2>2. task[c].index \in 1..NumSteps /\ Entered(steps[c], task[c].index)
    BY <1>0, <2>1 DEF RunOrder
  <2>3. /\ task' \in [Command -> TaskField] /\ task'[c].pc = pc /\ task'[c].index = task[c].index
        /\ \A k \in Command \ {c} : task'[k] = task[k]
    BY <1>0, <1>5, <2>1, PcTyped
  <2> QED  BY <1>5, <1>a, <2>1, <2>2, <2>3, OrderMoves
<1>6. CASE StepDone(c) \/ StepFails(c)
  BY <1>5, <1>6 DEF StepDone, StepFails, AtPc
<1>7. CASE StepStored(c)
  <2> DEFINE n == task[c].index
  <2>1. task[c].pc \in InStep /\ LiveTask(c) /\ SetStep(c, "succeeded")
    BY <1>7 DEF StepStored, AtPc, InStep, LiveTask
  <2>2. /\ steps' \in [Command -> Seq(StepStates)]
        /\ \A k \in Command \ {c} : steps'[k] = steps[k]
        /\ n \in 1..NumSteps /\ Passed(steps'[c], n)
    BY <1>a, <2>1, StepOutcome
  <2>3. n + 1 \in 1..(NumSteps + 1) /\ (n + 1) - 1 = n
    BY <2>2, WorkBounds
  <2>4. EnterStep(c, n + 1) /\ UNCHANGED <<wanted, exec, lease, granted, stopping, boots>>
    BY <1>7 DEF StepStored
  <2> QED  BY <2>1, <2>2, <2>3, <2>4, EnterNext
<1>8. ASSUME task[c].pc \in InStep, NEW st \in {"failed", "cancelled"}, SetStep(c, st), EndRun(c, st),
             UNCHANGED <<wanted, exec, lease, granted, stopping, boots>>
      PROVE  RunsInOrder'
  <2>1. LiveTask(c)
    BY <1>8 DEF LiveTask, InStep
  <2>2. /\ steps' \in [Command -> Seq(StepStates)]
        /\ \A k \in Command \ {c} : steps'[k] = steps[k]
        /\ RunClosed(steps'[c], st)
    BY <1>8, <1>a, StepOutcome
  <2> QED  BY <1>8, <1>a, <2>1, <2>2, OrderEnds
<1>9. CASE StepSalvaged(c)
  BY <1>8, <1>9 DEF StepSalvaged, AtPc, InStep
<1>10. CASE InterruptStep(c)
  <2> DEFINE cut == [task[c] EXCEPT !.pc = "interrupted", !.marked = FALSE]
  <2>1. LiveTask(c) /\ task[c].pc \in InStep
    BY <1>10 DEF InterruptStep, InStep, LiveTask
  <2>2. task[c].index \in 1..NumSteps /\ Entered(steps[c], task[c].index)
    BY <1>0, <2>1 DEF RunOrder
  <2>3. cut \in TaskField /\ cut.pc = "interrupted" /\ cut.index = task[c].index
    BY <1>0, <1>a DEF CommandRows, TaskField
  <2>4. task' = [task EXCEPT ![c] = cut]
    BY <1>0, <1>10 DEF InterruptStep, CommandRows
  <2> HIDE DEF cut
  <2>5. /\ task' \in [Command -> TaskField] /\ task'[c] = cut
        /\ \A k \in Command \ {c} : task'[k] = task[k]
    BY <1>0, <2>3, <2>4, TaskEnds
  <2>6. UNCHANGED <<wanted, exec, run, steps, benchLock, lease, granted, stopping, boots>>
    BY <1>10 DEF InterruptStep
  <2> QED  BY <1>a, <2>1, <2>2, <2>3, <2>5, <2>6, OrderMoves
<1>11. CASE Interrupt(c)
  <2>1. /\ EndRun(c, Interruption(c)) /\ FinishInterruptedStep(c)
        /\ UNCHANGED <<wanted, exec, lease, granted, stopping, boots>>
        /\ task[c].pc \in {"ready", "gate", "salvage", "interrupted"}
    BY <1>11 DEF Interrupt
  <2>2. CASE task[c].pc \in {"salvage", "interrupted"}
    BY <1>8, <1>a, <2>1, <2>2 DEF FinishInterruptedStep, InStep
  <2>3. CASE task[c].pc \in {"ready", "gate"}
    <3>1. LiveTask(c) /\ steps' = steps
      BY <2>1, <2>3 DEF LiveTask, FinishInterruptedStep
    <3>2. RunClosed(steps'[c], Interruption(c))
      <4>1. CASE task[c].pc = "ready"
        BY <1>0, <1>a, <3>1, <4>1, ClosedEmpty DEF RunOrder
      <4>2. CASE task[c].pc = "gate"
        <5>1. task[c].index \in 1..NumSteps /\ Passed(steps[c], task[c].index - 1)
          BY <1>0, <4>2 DEF RunOrder
        <5>2. task[c].index - 1 \in Nat /\ task[c].index - 1 < NumSteps
          BY <5>1, WorkBounds
        <5> QED  BY <1>0, <1>a, <3>1, <5>1, <5>2, ClosedShort
      <4> QED  BY <2>3, <4>1, <4>2
    <3> QED  BY <1>a, <2>1, <3>1, <3>2, OrderEnds
  <2> QED  BY <2>1, <2>2, <2>3
<1>12. CASE Cleanup(c)
  <2>1. /\ task' \in [Command -> TaskField] /\ task'[c].pc = "none"
        /\ \A k \in Command \ {c} : task'[k] = task[k]
    BY <1>0, <1>12, NoTaskTyped, TaskEnds DEF Cleanup
  <2>2. UNCHANGED <<wanted, exec, steps, lease, granted, stopping, boots>>
    BY <1>12 DEF Cleanup
  <2>3. CASE task[c].pc = "finished" /\ UNCHANGED <<run, benchLock>>
    <3>1. WorkRows'
      BY <1>0, <2>1, <2>2, <2>3 DEF WorkRows, CommandRows, BenchRows
    <3>2. RunOrder(c)'
      BY <1>0, <2>1, <2>2, <2>3 DEF RunOrder, LiveTask, InStep, ActiveRun, TerminalRun
    <3> QED  BY <2>1, <2>2, <2>3, <3>1, <3>2, OrderStep
  <2>4. CASE /\ task[c].pc = "new"
             /\ run' = [run EXCEPT ![c].status = Interruption(c)] /\ FreeBench(c)
    <3>1. /\ run' \in [Command -> RunRow] /\ run'[c].status \in TerminalRun \ {"succeeded"}
          /\ \A k \in Command \ {c} : run'[k] = run[k]
      <4>1. Interruption(c) \in TerminalRun \ {"succeeded"}
        BY <1>a
      <4> QED  BY <1>0, <2>4, <4>1, RunTyped
    <3>2. steps[c] = <<>> /\ exec[c] \in {"waiting", "over"}
      BY <1>0, <2>4 DEF RunOrder, LiveTask, ActiveRun
    <3>3. WorkRows'
      BY <1>0, <2>1, <2>2, <2>4, <3>1, LockTyped DEF WorkRows, CommandRows, BenchRows
    <3>4. RunClosed(steps'[c], run'[c].status)
      BY <2>2, <3>1, <3>2, ClosedEmpty
    <3>5. RunOrder(c)'
      BY <2>1, <2>2, <3>1, <3>2, <3>4 DEF RunOrder, LiveTask, InStep, ActiveRun, TerminalRun
    <3> QED  BY <2>1, <2>2, <3>1, <3>3, <3>5, OrderStep
  <2> QED  BY <1>12, <2>3, <2>4 DEF Cleanup
<1> QED
  BY <1>1, <1>2, <1>3, <1>4, <1>6, <1>7, <1>9, <1>10, <1>11, <1>12 DEF RunnerStep

\* A crash or a restart closes what it finds open.
LEMMA OrderReboot == ASSUME RunsInOrder, Reboot PROVE RunsInOrder'
<1>1. CommandRows /\ BenchRows
  BY DEF RunsInOrder, WorkRows
<1>2. ASSUME NEW c \in Command PROVE RecoveredRun(c) \in RunRow /\ RecoveredSteps(c) \in Seq(StepStates)
  <2>1. run[c] \in RunRow /\ steps[c] \in Seq(StepStates)
    BY <1>1 DEF CommandRows
  <2>2. [run[c] EXCEPT !.status = "failed"] \in RunRow
    BY <2>1 DEF RunRow, TerminalRun
  <2>3. [i \in DOMAIN steps[c] |-> IF steps[c][i] = "running" THEN "failed" ELSE steps[c][i]]
            \in Seq(StepStates)
    BY <2>1 DEF StepStates
  <2> QED  BY <2>1, <2>2, <2>3 DEF RecoveredRun, RecoveredSteps
<1>3. CommandRows'
  BY <1>1, <1>2, NoTaskTyped DEF Reboot, CommandRows, ExecStates
<1>4. BenchRows'
  <2>1. boots' \in 0..MaxBoots
    BY <1>1, WorkBounds DEF Reboot, BenchRows
  <2> QED  BY <1>1, <2>1 DEF Reboot, BenchRows
<1>5. ASSUME NEW c \in Command PROVE RunOrder(c)'
  <2>1. /\ run'[c] = RecoveredRun(c) /\ steps'[c] = RecoveredSteps(c) /\ task'[c] = NoTask
        /\ exec'[c] \in {"none", "over"} /\ (exec[c] # "none" => exec'[c] = "over")
        /\ RunOrder(c) /\ run[c] \in RunRow /\ steps[c] \in Seq(StepStates)
    BY <1>1 DEF Reboot, RunsInOrder, CommandRows
  <2>2. CASE run[c].status \notin ActiveRun
    <3>1. run'[c] = run[c] /\ steps'[c] = steps[c]
      BY <2>1, <2>2 DEF RecoveredRun, RecoveredSteps
    <3> QED
      BY <2>1, <2>2, <3>1, NoTaskTyped DEF RunOrder, LiveTask, InStep
  <2>3. CASE run[c].status \in ActiveRun
    <3>1. run'[c].status = "failed" /\ LiveTask(c) /\ exec'[c] = "over"
      BY <2>1, <2>3 DEF RecoveredRun, RunRow, RunOrder, ActiveRun
    <3>2. steps'[c] = [i \in DOMAIN steps[c] |->
                          IF steps[c][i] = "running" THEN "failed" ELSE steps[c][i]]
      BY <2>1, <2>3 DEF RecoveredSteps
    <3>3. /\ steps'[c] \in Seq(StepStates) /\ Len(steps'[c]) = Len(steps[c])
          /\ \A i \in 1..Len(steps[c]) : steps'[c][i] =
                IF steps[c][i] = "running" THEN "failed" ELSE steps[c][i]
      BY <2>1, <3>2 DEF StepStates
    <3>4. RunClosed(steps'[c], "failed")
      <4>1. CASE task[c].pc \in {"new", "ready"}
        <5>1. steps'[c] = <<>>
          BY <2>1, <3>2, <4>1 DEF RunOrder
        <5> QED  BY <5>1, ClosedEmpty
      <4>2. CASE task[c].pc = "gate"
        <5>1. task[c].index \in 1..NumSteps /\ Passed(steps[c], task[c].index - 1)
          BY <2>1, <4>2 DEF RunOrder
        <5>2. Passed(steps'[c], task[c].index - 1)
          BY <3>3, <5>1 DEF Passed
        <5>3. task[c].index - 1 \in Nat /\ task[c].index - 1 < NumSteps
          BY <5>1, WorkBounds
        <5> QED  BY <3>3, <5>2, <5>3, ClosedShort
      <4>3. CASE task[c].pc \in InStep
        <5>1. task[c].index \in 1..NumSteps /\ Entered(steps[c], task[c].index)
          BY <2>1, <4>3 DEF RunOrder
        <5>2. /\ Len(steps'[c]) = task[c].index /\ steps'[c][task[c].index] = "failed"
              /\ \A i \in 1..(task[c].index - 1) : steps'[c][i] = "succeeded"
          <6>1. /\ Len(steps[c]) = task[c].index /\ steps[c][task[c].index] = "running"
                /\ \A i \in 1..(task[c].index - 1) : steps[c][i] = "succeeded"
            BY <5>1 DEF Entered
          <6>2. task[c].index \in 1..Len(steps[c])
            BY <5>1, <6>1, WorkBounds
          <6>3. ASSUME NEW i \in 1..(task[c].index - 1) PROVE steps'[c][i] = "succeeded"
            <7>1. i \in 1..Len(steps[c]) /\ steps[c][i] = "succeeded"
              BY <5>1, <6>1, WorkBounds
            <7> QED  BY <3>3, <7>1
          <6> QED  BY <3>3, <6>1, <6>2, <6>3
        <5> QED  BY <3>3, <5>1, <5>2, ClosedAt
      <4> QED
        BY <1>1, <3>1, <4>1, <4>2, <4>3 DEF LiveTask, CommandRows, TaskField, TaskStates, InStep
    <3> QED
      BY <2>1, <3>1, <3>4, NoTaskTyped DEF RunOrder, LiveTask, ActiveRun, TerminalRun, InStep
  <2> QED  BY <2>2, <2>3
<1> QED  BY <1>3, <1>4, <1>5 DEF RunsInOrder, WorkRows

LEMMA OrderShutdown == ASSUME RunsInOrder, Shutdown PROVE RunsInOrder'
<1>1. CommandRows /\ BenchRows
  BY DEF RunsInOrder, WorkRows
<1>2. ASSUME NEW c \in Command
      PROVE  task'[c] \in TaskField /\ task'[c].pc = task[c].pc /\ task'[c].index = task[c].index
  <2>1. task[c] \in TaskField
    BY <1>1 DEF CommandRows
  <2>2. /\ [task[c] EXCEPT !.marked = TRUE] \in TaskField
        /\ [task[c] EXCEPT !.marked = TRUE].pc = task[c].pc
        /\ [task[c] EXCEPT !.marked = TRUE].index = task[c].index
    BY <2>1 DEF TaskField
  <2> QED  BY <2>1, <2>2 DEF Shutdown
<1>3. CommandRows'
  BY <1>1, <1>2 DEF Shutdown, CommandRows
<1>4. BenchRows'
  BY <1>1 DEF Shutdown, BenchRows
<1>5. ASSUME NEW c \in Command PROVE RunOrder(c)'
  <2>1. UNCHANGED <<exec, run, steps>> /\ RunOrder(c)
    BY DEF Shutdown, RunsInOrder
  <2> QED  BY <1>2, <2>1 DEF RunOrder, LiveTask
<1> QED  BY <1>3, <1>4, <1>5 DEF RunsInOrder, WorkRows

LEMMA OrderLease ==
    ASSUME RunsInOrder, NEW b \in WorkBench, LeaseEnds(b) \/ LeaseArrives(b) PROVE RunsInOrder'
<1>1. CommandRows /\ BenchRows /\ UNCHANGED <<wanted, exec, run, steps, task>>
  BY DEF RunsInOrder, WorkRows, LeaseEnds, LeaseArrives
<1>2. BenchRows'
  BY <1>1, WorkBounds DEF LeaseEnds, LeaseArrives, BenchRows
<1>3. CommandRows' /\ \A c \in Command : RunOrder(c)'
  BY <1>1 DEF CommandRows, RunsInOrder, RunOrder, LiveTask
<1> QED  BY <1>2, <1>3 DEF RunsInOrder, WorkRows

LEMMA OrderNext == RunsInOrder /\ [WorkNext]_workVars => RunsInOrder'
<1> SUFFICES ASSUME RunsInOrder, [WorkNext]_workVars PROVE RunsInOrder'
  OBVIOUS
<1>1. CASE UNCHANGED workVars
  BY <1>1 DEF workVars, RunsInOrder, WorkRows, CommandRows, BenchRows, RunOrder, LiveTask
<1>2. ASSUME NEW c \in Command,
             Execute(c) \/ ExecutorStep(c) \/ RunnerStep(c) \/ CancelEarly(c) \/ CancelWatched(c)
      PROVE  RunsInOrder'
  BY <1>2, OrderExecutor, OrderService, OrderRunner DEF ExecutorStep
<1> QED
  BY <1>1, <1>2, OrderLease, OrderShutdown, OrderReboot DEF WorkNext

LEMMA OrderAlways == WorkSpec => []RunsInOrder
  BY OrderInit, OrderNext, PTL DEF WorkSpec

\* The record of a finished run is closed and true, whatever cancellation,
\* shutdown and crashes it met (workflows.py, recover_interrupted).
THEOREM RunRecordTrueAlways == WorkSpec => []RunRecordTrue
<1>1. RunsInOrder => RunRecordTrue
  BY DEF RunsInOrder, RunOrder, RunClosed, RunRecordTrue
<1> QED  BY <1>1, OrderAlways, PTL

-----------------------------------------------------------------------------
(* Locks, pins and files.  A command that uses an artifact pins it, and the *)
(* count of pins is never below the number of these commands (it may be     *)
(* above: a fetch cancelled while it waited leaves one behind).             *)

Fetching == {"await_lock", "verify", "download"}

Holding == Fetching \cup {"start", "operate", "waiting"}

Holders(d) == {c \in Command : DigestOf(c) = d /\ exec[c] \in Holding}

Asked(d) == {c \in Command : DigestOf(c) = d /\ exec[c] # "none"}

PinsCount ==
    /\ pins \in [Digest -> Nat]
    /\ \A d \in Digest : Cardinality(Holders(d)) <= pins[d] /\ pins[d] <= Cardinality(Asked(d))

HasFile(c) == exec[c] \in {"verify", "start", "operate", "waiting"}

FilesKept == \A c \in Command : HasFile(c) => DigestOf(c) \in cached

NeedsLock(c) ==
    \/ wanted[c].kind = "direct" /\ exec[c] \in Fetching \cup {"operate"}
    \/ LiveTask(c)

LocksHeld == \A c \in Command : NeedsLock(c) => benchLock[BenchOf(c)] = c

\* Which kind of command is where, and who is watched.
RolesClear ==
    \A c \in Command :
        /\ exec[c] = "operate" => wanted[c].kind = "direct"
        /\ exec[c] \in {"start", "waiting"} => wanted[c].kind = "workflow"
        /\ LiveTask(c) => task[c].requested \/ exec[c] = "waiting"
        /\ run[c].status = "cancel_requested" => task[c].requested

HardwareSafe == RunsInOrder /\ PinsCount /\ FilesKept /\ LocksHeld /\ RolesClear

LEMMA HoldersFinite ==
    \A d : /\ IsFiniteSet(Holders(d)) /\ IsFiniteSet(Holders(d)')
           /\ IsFiniteSet(Asked(d)) /\ IsFiniteSet(Asked(d)')
<1>1. IsFiniteSet(Command)
  BY WorkAssumption
<1> QED  BY <1>1, FS_Subset DEF Holders, Asked

LEMMA DigestTyped == ASSUME RunsInOrder, NEW c \in Command PROVE DigestOf(c) \in Digest
  BY DEF RunsInOrder, WorkRows, CommandRows, DigestOf

\* A command is pinned as it begins ...
LEMMA PinTaken ==
    ASSUME RunsInOrder, PinsCount, NEW c \in Command, Execute(c) PROVE PinsCount'
<1> PICK d \in Digest : d = DigestOf(c)
  BY DigestTyped
<1>0. /\ exec[c] = "none" /\ exec' = [exec EXCEPT ![c] = "await_lock"]
      /\ pins' = [pins EXCEPT ![d] = @ + 1] /\ wanted' = wanted
      /\ exec \in [Command -> ExecStates]
  BY DEF Execute, RunsInOrder, WorkRows, CommandRows
<1>1. Holders(d)' = Holders(d) \cup {c} /\ c \notin Holders(d)
  BY <1>0 DEF Holders, DigestOf, Holding, Fetching
<1>2. Asked(d)' = Asked(d) \cup {c} /\ c \notin Asked(d)
  BY <1>0 DEF Asked, DigestOf
<1>3. \A e \in Digest \ {d} : Holders(e)' = Holders(e) /\ Asked(e)' = Asked(e)
  BY <1>0 DEF Asked, Holders, DigestOf
<1>4. /\ Cardinality(Holders(d)') = Cardinality(Holders(d)) + 1
      /\ Cardinality(Asked(d)') = Cardinality(Asked(d)) + 1
  BY <1>1, <1>2, HoldersFinite, FS_AddElement
<1>5. Cardinality(Holders(d)) \in Nat /\ Cardinality(Asked(d)) \in Nat
  BY HoldersFinite, FS_CardinalityType
<1> QED  BY <1>0, <1>3, <1>4, <1>5 DEF PinsCount

\* ... keeps its pin while it holds ...
LEMMA PinKept ==
    ASSUME RunsInOrder, PinsCount, NEW c \in Command, UNCHANGED <<pins, wanted>>,
           \A k \in Command \ {c} : exec'[k] = exec[k],
           exec'[c] \in Holding => exec[c] \in Holding, exec[c] # "none", exec'[c] # "none"
    PROVE  PinsCount'
<1>1. ASSUME NEW d \in Digest PROVE Holders(d)' \subseteq Holders(d) /\ Asked(d)' = Asked(d)
  BY DEF Holders, Asked, DigestOf
<1>2. ASSUME NEW d \in Digest PROVE Cardinality(Holders(d)') <= Cardinality(Holders(d))
  BY <1>1, HoldersFinite, FS_Subset
<1>3. ASSUME NEW d \in Digest
      PROVE  Cardinality(Holders(d)) \in Nat /\ Cardinality(Holders(d)') \in Nat
  BY HoldersFinite, FS_CardinalityType
<1>4. ASSUME NEW d \in Digest PROVE Cardinality(Holders(d)') <= pins[d]
  BY <1>2, <1>3 DEF PinsCount
<1>5. ASSUME NEW d \in Digest PROVE pins[d] <= Cardinality(Asked(d)')
  BY <1>1 DEF PinsCount
<1> QED  BY <1>4, <1>5 DEF PinsCount

\* ... and gives it up as it leaves.
LEMMA PinGiven ==
    ASSUME RunsInOrder, PinsCount, NEW c \in Command, Unpin(DigestOf(c)), wanted' = wanted,
           exec[c] \in Holding, exec' = [exec EXCEPT ![c] = "over"]
    PROVE  PinsCount'
<1> PICK d \in Digest : d = DigestOf(c)
  BY DigestTyped
<1>0. exec \in [Command -> ExecStates]
  BY DEF RunsInOrder, WorkRows, CommandRows
<1>1. Holders(d)' = Holders(d) \ {c} /\ c \in Holders(d)
  BY <1>0 DEF Holders, DigestOf, Holding, Fetching
<1>2. \A e \in Digest : (e # d => Holders(e)' = Holders(e)) /\ Asked(e)' = Asked(e)
  BY <1>0 DEF Asked, Holders, DigestOf, Holding, Fetching
<1>3. Cardinality(Holders(d)') = Cardinality(Holders(d)) - 1
  BY <1>1, HoldersFinite, FS_RemoveElement
<1>4. Cardinality(Holders(d)) \in Nat /\ Cardinality(Asked(d)) \in Nat /\ Cardinality(Holders(d)') \in Nat
  BY HoldersFinite, FS_CardinalityType
<1>5. pins' = [pins EXCEPT ![d] = IF pins[d] <= 1 THEN 0 ELSE pins[d] - 1]
  BY <1>0 DEF Unpin, PinsCount
<1>6. /\ pins' \in [Digest -> Nat] /\ pins'[d] <= pins[d] /\ Cardinality(Holders(d)') <= pins'[d]
      /\ \A e \in Digest : e # d => pins'[e] = pins[e]
  BY <1>0, <1>3, <1>4, <1>5 DEF PinsCount
<1>7. ASSUME NEW e \in Digest
      PROVE  Cardinality(Holders(e)') <= pins'[e] /\ pins'[e] <= Cardinality(Asked(e)')
  <2>1. CASE e = d
    BY <1>0, <1>2, <1>4, <1>6, <2>1 DEF PinsCount
  <2>2. CASE e # d
    BY <1>2, <1>6, <2>2 DEF PinsCount
  <2> QED  BY <2>1, <2>2
<1> QED  BY <1>6, <1>7 DEF PinsCount

\* A file somebody holds is pinned, and stays when room is made.
LEMMA HeldIsPinned ==
    ASSUME RunsInOrder, PinsCount, NEW c \in Command, exec[c] \in Holding
    PROVE  /\ Pinned(DigestOf(c)) /\ pins[DigestOf(c)] \in Nat
           /\ \A k \in Command : k # c /\ DigestOf(k) = DigestOf(c) /\ exec[k] \in Holding =>
                    pins[DigestOf(c)] > 1
<1> DEFINE d == DigestOf(c)
<1>1. c \in Holders(d) /\ d \in Digest
  BY DigestTyped DEF Holders
<1>2. Cardinality(Holders(d)) \in Nat /\ Cardinality(Holders(d)) # 0
  BY <1>1, HoldersFinite, FS_CardinalityType, FS_EmptySet
<1>3. ASSUME NEW k \in Command, k # c, DigestOf(k) = d, exec[k] \in Holding
      PROVE  pins[d] > 1
  <2>1. {k} \cup {c} \subseteq Holders(d) /\ c \notin {k}
    BY <1>1, <1>3 DEF Holders
  <2>2. Cardinality({k} \cup {c}) = 2
    <3>1. IsFiniteSet({k}) /\ Cardinality({k}) = 1
      BY FS_Singleton
    <3> QED  BY <2>1, <3>1, FS_AddElement
  <2>3. 2 <= Cardinality(Holders(d))
    BY <2>1, <2>2, HoldersFinite, FS_Subset
  <2> QED  BY <1>1, <1>2, <2>3 DEF PinsCount
<1> QED  BY <1>1, <1>2, <1>3 DEF PinsCount, Pinned

LEMMA RoomKeepsHeld ==
    ASSUME RunsInOrder, PinsCount, NEW c \in Command, exec[c] \in Holding, NEW d, NEW needed,
           DigestOf(c) \in cached
    PROVE  DigestOf(c) \in MakeSpace(d, needed)
  BY HeldIsPinned DEF MakeSpace, Evicted, Evictable

\* What a step of one command asks of each part.
LEMMA LocksStep ==
    ASSUME RunsInOrder, LocksHeld, NEW c \in Command, wanted' = wanted,
           \A k \in Command \ {c} : exec'[k] = exec[k] /\ task'[k] = task[k],
           benchLock' = benchLock \/ FreeBench(c) \/ (Lockable(c) /\ LockBench(c)),
           NeedsLock(c)' => (NeedsLock(c) /\ benchLock' = benchLock) \/ LockBench(c)
    PROVE  LocksHeld'
<1>1. /\ benchLock \in [WorkBench -> Command \cup {Nobody}]
      /\ \A k \in Command : BenchOf(k) \in WorkBench /\ BenchOf(k)' = BenchOf(k) /\ k # Nobody
  BY WorkAssumption DEF RunsInOrder, WorkRows, BenchRows, CommandRows, BenchOf
<1>2. ASSUME NEW k \in Command \ {c}, NeedsLock(k)' PROVE benchLock'[BenchOf(k)] = k
  <2>1. benchLock[BenchOf(k)] = k
    BY <1>2 DEF LocksHeld, NeedsLock, LiveTask
  <2>2. CASE benchLock' = benchLock
    BY <2>1, <2>2
  <2>3. CASE FreeBench(c)
    BY <1>1, <2>1, <2>3 DEF FreeBench
  <2>4. CASE Lockable(c) /\ LockBench(c)
    BY <1>1, <2>1, <2>4 DEF Lockable, LockBench
  <2> QED  BY <2>2, <2>3, <2>4
<1>3. NeedsLock(c)' => benchLock'[BenchOf(c)] = c
  <2>1. LockBench(c) => benchLock'[BenchOf(c)] = c
    BY <1>1 DEF LockBench
  <2> QED  BY <2>1 DEF LocksHeld
<1> QED  BY <1>1, <1>2, <1>3 DEF LocksHeld

LEMMA FilesStep ==
    ASSUME RunsInOrder, FilesKept, NEW c \in Command, wanted' = wanted,
           \A k \in Command \ {c} : exec'[k] = exec[k],
           HasFile(c)' => DigestOf(c) \in cached',
           \A k \in Command \ {c} : HasFile(k) => DigestOf(k) \in cached'
    PROVE  FilesKept'
  BY DEF FilesKept, HasFile, DigestOf

RoleClear(c) ==
    /\ exec[c] = "operate" => wanted[c].kind = "direct"
    /\ exec[c] \in {"start", "waiting"} => wanted[c].kind = "workflow"
    /\ LiveTask(c) => task[c].requested \/ exec[c] = "waiting"
    /\ run[c].status = "cancel_requested" => task[c].requested

LEMMA RolesStep ==
    ASSUME RolesClear, NEW c \in Command, wanted' = wanted, RoleClear(c)',
           \A k \in Command \ {c} :
              exec'[k] = exec[k] /\ task'[k] = task[k] /\ run'[k].status = run[k].status
    PROVE  RolesClear'
<1>1. ASSUME NEW k \in Command \ {c} PROVE RoleClear(k)'
  BY DEF RolesClear, RoleClear, LiveTask
<1> QED  BY <1>1 DEF RolesClear, RoleClear

\* Making room takes no file that somebody holds.
LEMMA RoomKeepsFiles ==
    ASSUME RunsInOrder, PinsCount, FilesKept, NEW c \in Command, NEW d, NEW needed
    PROVE  HasFile(c) => DigestOf(c) \in MakeSpace(d, needed)
  BY RoomKeepsHeld DEF FilesKept, HasFile, Holding, Fetching

\* Before it is watched, a command has no task.
LEMMA NotLiveYet ==
    ASSUME RunsInOrder, NEW c \in Command, exec[c] \notin {"waiting", "over"}
    PROVE  ~LiveTask(c) /\ run[c].status = "none" /\ task[c].pc = "none"
  BY DEF RunsInOrder, RunOrder, LiveTask

\* A command that leaves gives up its pin and its lock.
LEMMA LeavesSafe ==
    ASSUME HardwareSafe, RunsInOrder', NEW c \in Command, Leave(c),
           exec[c] \in Holding \ {"waiting"},
           \A k \in Command \ {c} : HasFile(k) => DigestOf(k) \in cached'
    PROVE  HardwareSafe'
<1> USE DEF HardwareSafe
<1>0. /\ exec \in [Command -> ExecStates] /\ exec'[c] = "over"
      /\ \A k \in Command \ {c} : exec'[k] = exec[k]
  BY DEF Leave, RunsInOrder, WorkRows, CommandRows
<1>1. ~LiveTask(c) /\ UNCHANGED <<wanted, run, steps, task>> /\ run[c].status = "none"
  BY NotLiveYet DEF Leave, Holding, Fetching
<1>2. PinsCount'
  BY <1>0, PinGiven DEF Leave
<1>3. FilesKept'
  BY <1>0, <1>1, FilesStep DEF HasFile
<1>4. LocksHeld'
  BY <1>0, <1>1, LocksStep DEF Leave, NeedsLock, LiveTask, Fetching
<1>5. RolesClear'
  BY <1>0, <1>1, RolesStep DEF RoleClear, LiveTask
<1> QED  BY <1>2, <1>3, <1>4, <1>5

LEMMA ExecuteSafe == ASSUME HardwareSafe, NEW c \in Command, Execute(c) PROVE HardwareSafe'
<1> USE DEF HardwareSafe
<1>0. /\ exec \in [Command -> ExecStates] /\ exec[c] = "none" /\ exec'[c] = "await_lock"
      /\ \A k \in Command \ {c} : exec'[k] = exec[k]
      /\ UNCHANGED <<wanted, run, task, cached>>
  BY DEF Execute, RunsInOrder, WorkRows, CommandRows
<1>1. ~LiveTask(c) /\ run[c].status = "none"
  BY <1>0, NotLiveYet
<1>2. RunsInOrder' /\ PinsCount'
  BY OrderExecutor, PinTaken
<1>3. FilesKept'
  BY <1>0, FilesStep DEF HasFile, FilesKept
<1>4. LocksHeld'
  BY <1>0, <1>1, LocksStep DEF Execute, NeedsLock, LiveTask
<1>5. RolesClear'
  BY <1>0, <1>1, RolesStep DEF RoleClear, LiveTask
<1> QED  BY <1>2, <1>3, <1>4, <1>5

LEMMA FetchSafe == ASSUME HardwareSafe, NEW c \in Command, Fetch(c) PROVE HardwareSafe'
<1> USE DEF HardwareSafe
<1>0. /\ exec \in [Command -> ExecStates] /\ exec[c] = "await_lock"
      /\ UNCHANGED <<wanted, run, steps, task, lease, granted, stopping, boots>>
      /\ RunsInOrder'
  BY OrderExecutor DEF Fetch, RunsInOrder, WorkRows, CommandRows
<1>1. ~LiveTask(c) /\ run[c].status = "none"
  BY <1>0, NotLiveYet
<1>2. cached' = cached \/ cached' = MakeSpace(DigestOf(c), 1)
  BY DEF Fetch, FetchStep, KeepFiles
<1>3. \A k \in Command \ {c} : HasFile(k) => DigestOf(k) \in cached'
  BY <1>2, RoomKeepsFiles DEF FilesKept
<1>4. ASSUME NEW st \in {"verify", "download"}, exec' = [exec EXCEPT ![c] = st],
             UNCHANGED <<pins, benchLock>>, st = "verify" => DigestOf(c) \in cached'
      PROVE  HardwareSafe'
  <2>1. exec'[c] = st /\ \A k \in Command \ {c} : exec'[k] = exec[k]
    BY <1>0, <1>4
  <2>2. PinsCount'
    BY <1>0, <1>4, <2>1, PinKept DEF Holding, Fetching
  <2>3. FilesKept'
    BY <1>0, <1>3, <1>4, <2>1, FilesStep DEF HasFile
  <2>4. LocksHeld'
    BY <1>0, <1>4, <2>1, LocksStep DEF NeedsLock, LiveTask, Fetching
  <2>5. RolesClear'
    BY <1>0, <1>1, <1>4, <2>1, RolesStep DEF RoleClear, LiveTask
  <2> QED  BY <1>0, <2>2, <2>3, <2>4, <2>5
<1>5. CASE DigestOf(c) \in cached
  BY <1>4, <1>5 DEF Fetch, FetchStep
<1>6. CASE DigestOf(c) \notin cached /\ SpaceFor(DigestOf(c), 1)
  BY <1>4, <1>6 DEF Fetch, FetchStep
<1>7. CASE DigestOf(c) \notin cached /\ ~SpaceFor(DigestOf(c), 1)
  <2>1. Leave(c)
    BY <1>0, <1>7 DEF Fetch, FetchStep, Leave
  <2> QED  BY <1>0, <1>3, <2>1, LeavesSafe DEF Holding, Fetching
<1> QED  BY <1>5, <1>6, <1>7

\* The file is there, or has just come.
LEMMA FetchedSafe ==
    ASSUME HardwareSafe, RunsInOrder', NEW c \in Command, exec[c] \in {"verify", "download"},
           FetchedBy(c), DigestOf(c) \in cached',
           \A k \in Command \ {c} : HasFile(k) => DigestOf(k) \in cached',
           UNCHANGED <<wanted, steps, task, benchLock, lease, granted, stopping, boots>>
    PROVE  HardwareSafe'
<1> USE DEF HardwareSafe
<1>0. /\ exec \in [Command -> ExecStates] /\ run \in [Command -> RunRow]
      /\ wanted[c].kind \in {"workflow", "direct"}
  BY DEF RunsInOrder, WorkRows, CommandRows
<1>1. ~LiveTask(c) /\ run[c].status = "none"
  BY NotLiveYet
<1>2. PICK st \in {"operate", "start", "over"} :
        /\ exec' = [exec EXCEPT ![c] = st]
        /\ st = "operate" => wanted[c].kind = "direct"
        /\ st # "operate" => wanted[c].kind = "workflow"
        /\ IF st = "over" THEN Unpin(DigestOf(c)) ELSE UNCHANGED pins
  BY <1>0 DEF FetchedBy
<1>3. exec'[c] = st /\ \A k \in Command \ {c} : exec'[k] = exec[k]
  BY <1>0, <1>2
<1>4. PinsCount'
  BY <1>2, <1>3, PinKept, PinGiven DEF Holding, Fetching
<1>5. FilesKept'
  BY <1>3, FilesStep
<1>6. LocksHeld'
  BY <1>1, <1>2, <1>3, LocksStep DEF NeedsLock, LiveTask, Fetching
<1>7. \A k \in Command : run'[k].status = run[k].status
  BY <1>0 DEF FetchedBy, RunRow
<1>8. RolesClear'
  BY <1>1, <1>2, <1>3, <1>7, RolesStep DEF RoleClear, LiveTask
<1> QED  BY <1>4, <1>5, <1>6, <1>8

LEMMA FilesSafe ==
    ASSUME HardwareSafe, NEW c \in Command, Verified(c) \/ Corrupt(c) \/ Downloaded(c)
    PROVE  HardwareSafe'
<1> USE DEF HardwareSafe
<1>0. RunsInOrder'
  BY OrderExecutor
<1>1. CASE Verified(c)
  <2>1. cached' = MakeSpace(DigestOf(c), 0) \cup {DigestOf(c)}
    BY <1>1 DEF Verified, UseLast
  <2>2. \A k \in Command \ {c} : HasFile(k) => DigestOf(k) \in cached'
    BY <2>1, RoomKeepsFiles
  <2> QED  BY <1>0, <1>1, <2>1, <2>2, FetchedSafe DEF Verified
<1>2. CASE Downloaded(c)
  <2>1. cached' = cached \cup {DigestOf(c)}
    BY <1>2 DEF Downloaded, UseLast
  <2>2. \A k \in Command \ {c} : HasFile(k) => DigestOf(k) \in cached'
    BY <2>1 DEF FilesKept
  <2> QED  BY <1>0, <1>2, <2>1, <2>2, FetchedSafe DEF Downloaded
<1>3. CASE Corrupt(c)
  <2>0. /\ exec \in [Command -> ExecStates] /\ exec[c] = "verify" /\ exec'[c] = "download"
        /\ \A k \in Command \ {c} : exec'[k] = exec[k]
        /\ UNCHANGED <<wanted, run, task, pins, benchLock>> /\ pins[DigestOf(c)] = 1
        /\ cached' = MakeSpace(DigestOf(c), 0) \ {DigestOf(c)}
    BY <1>3 DEF Corrupt, KeepFiles, RunsInOrder, WorkRows, CommandRows
  <2>1. ~LiveTask(c) /\ run[c].status = "none"
    BY <2>0, NotLiveYet
  <2>2. ASSUME NEW k \in Command \ {c}, HasFile(k) PROVE DigestOf(k) \in cached'
    <3>1. exec[c] \in Holding /\ exec[k] \in Holding
      BY <2>0, <2>2 DEF HasFile, Holding, Fetching
    <3>2. DigestOf(k) # DigestOf(c)
      BY <2>0, <3>1, HeldIsPinned
    <3> QED  BY <2>0, <2>2, <3>2, RoomKeepsFiles
  <2>3. PinsCount'
    BY <2>0, PinKept DEF Holding, Fetching
  <2>4. FilesKept'
    BY <2>0, <2>2, FilesStep DEF HasFile
  <2>5. LocksHeld'
    BY <2>0, LocksStep DEF NeedsLock, LiveTask, Fetching
  <2>6. RolesClear'
    BY <2>0, <2>1, RolesStep DEF RoleClear, LiveTask
  <2> QED  BY <1>0, <2>3, <2>4, <2>5, <2>6
<1> QED  BY <1>1, <1>2, <1>3

LEMMA LeavingSafe ==
    ASSUME HardwareSafe, NEW c \in Command,
           VerifyFails(c) \/ DownloadFails(c) \/ OperationEnds(c) \/ StartFails(c)
    PROVE  HardwareSafe'
<1>1. RunsInOrder'
  BY OrderExecutor DEF HardwareSafe
<1>2. Leave(c) /\ exec[c] \in Holding \ {"waiting"}
  BY DEF VerifyFails, DownloadFails, OperationEnds, StartFails, Holding, Fetching
<1>3. cached' = cached \/ cached' = MakeSpace(DigestOf(c), 0)
  BY DEF VerifyFails, DownloadFails, OperationEnds, StartFails, KeepFiles
<1>4. \A k \in Command \ {c} : HasFile(k) => DigestOf(k) \in cached'
  BY <1>3, RoomKeepsFiles DEF HardwareSafe, FilesKept
<1> QED  BY <1>1, <1>2, <1>4, LeavesSafe

LEMMA StartSafe == ASSUME HardwareSafe, NEW c \in Command, Start(c) PROVE HardwareSafe'
<1> USE DEF HardwareSafe
<1>0. /\ exec \in [Command -> ExecStates] /\ exec[c] = "start" /\ exec'[c] = "waiting"
      /\ \A k \in Command \ {c} : exec'[k] = exec[k] /\ task'[k] = task[k] /\ run'[k] = run[k]
      /\ UNCHANGED <<wanted, cached, pins>> /\ Lockable(c) /\ LockBench(c)
      /\ RunsInOrder'
  BY OrderService DEF Start, RunsInOrder, WorkRows, CommandRows
<1>1. run'[c].status = "pending"
  BY RunTyped DEF Start, ActiveRun, RunsInOrder, WorkRows
<1>2. PinsCount'
  BY <1>0, PinKept DEF Holding
<1>3. FilesKept'
  BY <1>0, FilesStep DEF FilesKept, HasFile
<1>4. LocksHeld'
  BY <1>0, LocksStep
<1>5. RolesClear'
  BY <1>0, <1>1, RolesStep DEF RoleClear, RolesClear
<1> QED  BY <1>0, <1>2, <1>3, <1>4, <1>5

LEMMA WatchSafe ==
    ASSUME HardwareSafe, NEW c \in Command, RunWatched(c) \/ CancelWatched(c) \/ CancelEarly(c)
    PROVE  HardwareSafe'
<1> USE DEF HardwareSafe
<1>0. /\ exec \in [Command -> ExecStates] /\ exec' = [exec EXCEPT ![c] = "over"] /\ exec'[c] = "over"
      /\ exec[c] \in Holding
      /\ \A k \in Command \ {c} : exec'[k] = exec[k]
      /\ UNCHANGED <<wanted, cached>>
      /\ benchLock' = benchLock \/ FreeBench(c)
      /\ RunsInOrder'
  BY OrderExecutor, OrderService
     DEF RunWatched, CancelWatched, CancelEarly, RunsInOrder, WorkRows, CommandRows, Holding, Fetching
<1>1. PinsCount'
  <2>1. CASE Unpin(DigestOf(c))
    BY <1>0, <2>1, PinGiven
  <2>2. CASE UNCHANGED pins
    BY <1>0, <2>2, PinKept DEF Holding, Fetching
  <2> QED  BY <2>1, <2>2 DEF RunWatched, CancelWatched, CancelEarly
<1>2. FilesKept'
  BY <1>0, FilesStep DEF FilesKept, HasFile
<1>3. CASE RunWatched(c) \/ CancelEarly(c)
  <2>1. UNCHANGED <<run, task>> /\ ~LiveTask(c) /\ run[c].status # "cancel_requested"
    <3>1. CASE RunWatched(c)
      BY <3>1 DEF RunWatched, LiveTask, RunsInOrder, RunOrder, ActiveRun
    <3>2. CASE CancelEarly(c)
      BY <3>2, NotLiveYet DEF CancelEarly
    <3> QED  BY <1>3, <3>1, <3>2
  <2>2. LocksHeld'
    BY <1>0, <2>1, LocksStep DEF NeedsLock, LiveTask, Fetching
  <2>3. RolesClear'
    BY <1>0, <2>1, RolesStep DEF RoleClear, LiveTask
  <2> QED  BY <1>0, <1>1, <1>2, <2>2, <2>3
<1>4. CASE CancelWatched(c) /\ run[c].status \in {"pending", "running"}
  <2>1. /\ \A k \in Command \ {c} : run'[k] = run[k] /\ task'[k] = task[k]
        /\ task'[c].requested = TRUE /\ LiveTask(c) /\ benchLock' = benchLock
    BY <1>4 DEF CancelWatched, RequestCancel, RunsInOrder, WorkRows, CommandRows, TaskField,
                RunOrder, ActiveRun
  <2>2. LocksHeld'
    BY <1>0, <2>1, LocksStep DEF NeedsLock, LiveTask
  <2>3. RolesClear'
    BY <1>0, <2>1, RolesStep DEF RoleClear, LiveTask
  <2> QED  BY <1>0, <1>1, <1>2, <2>2, <2>3
<1>5. CASE CancelWatched(c) /\ run[c].status \notin {"pending", "running"}
  <2>1. UNCHANGED <<run, task, benchLock>> /\ (LiveTask(c) => task[c].requested)
    BY <1>5 DEF CancelWatched, RunsInOrder, RunOrder, ActiveRun, RolesClear
  <2>2. LocksHeld'
    BY <1>0, <2>1, LocksStep DEF NeedsLock, LiveTask, Fetching
  <2>3. RolesClear'
    BY <1>0, <2>1, RolesStep DEF RoleClear, RolesClear, LiveTask
  <2> QED  BY <1>0, <1>1, <1>2, <2>2, <2>3
<1> QED  BY <1>3, <1>4, <1>5

\* The runner leaves pins and files alone, and lets go of the bench only with
\* the end of the run.
LEMMA RunnerTouches ==
    ASSUME RunsInOrder, NEW c \in Command, RunnerStep(c)
    PROVE  /\ UNCHANGED <<wanted, exec, cached, pins>>
           /\ \A k \in Command \ {c} : run'[k] = run[k] /\ task'[k] = task[k]
           /\ \/ /\ LiveTask(c) /\ task'[c].requested = task[c].requested /\ benchLock' = benchLock
                 /\ run'[c].status \in {run[c].status, "running"}
              \/ /\ ~LiveTask(c)' /\ run'[c].status # "cancel_requested"
                 /\ benchLock' = benchLock \/ FreeBench(c)
<1>0. WorkRows /\ CommandRows /\ task[c] \in TaskField
  BY DEF RunsInOrder, WorkRows, CommandRows
<1>1. /\ UNCHANGED <<wanted, exec, cached, pins>>
      /\ \A k \in Command \ {c} : run'[k] = run[k] /\ task'[k] = task[k]
  BY <1>0 DEF RunnerStep, RunTask, BenchReady, BeginStep, BenchUnavailable, StepDone, StepFails,
     StepStored, StepSalvaged, InterruptStep, Interrupt, Cleanup, EnterStep, EndRun, SetPc, CommandRows
<1>2. ASSUME NEW st \in TerminalRun, EndRun(c, st)
      PROVE  /\ ~LiveTask(c)' /\ run'[c].status # "cancel_requested"
             /\ benchLock' = benchLock \/ FreeBench(c)
  BY <1>0, <1>2, EndRunTyped DEF LiveTask, EndRun, TerminalRun
<1>3. ASSUME NEW pc \in TaskStates, SetPc(c, pc)
      PROVE  task'[c].requested = task[c].requested
  BY <1>0, <1>3, PcTyped
<1>4. ASSUME NEW index, EnterStep(c, index), LiveTask(c)
      PROVE  \/ /\ LiveTask(c) /\ task'[c].requested = task[c].requested /\ benchLock' = benchLock
                /\ run'[c].status \in {run[c].status, "running"}
             \/ /\ ~LiveTask(c)' /\ run'[c].status # "cancel_requested"
                /\ benchLock' = benchLock \/ FreeBench(c)
  <2>1. CASE EndRun(c, "succeeded") \/ EndRun(c, "failed")
    BY <1>2, <2>1 DEF TerminalRun
  <2>2. CASE /\ task' = [task EXCEPT ![c].pc = "gate", ![c].index = index]
             /\ UNCHANGED <<run, benchLock>>
    BY <1>0, <1>4, <2>2 DEF CommandRows, TaskField
  <2> QED  BY <1>4, <2>1, <2>2 DEF EnterStep
<1>5. CASE RunTask(c)
  <2>1. CASE StillReserved(c)
    <3>1. run'[c].status = "running"
      BY <1>0, <1>5, <2>1, RunTyped DEF RunTask, ActiveRun
    <3> QED  BY <1>1, <1>3, <1>5, <2>1, <3>1 DEF RunTask, AtPc, LiveTask, TaskStates
  <2>2. CASE ~StillReserved(c)
    BY <1>1, <1>2, <1>5, <2>2 DEF RunTask, TerminalRun
  <2> QED  BY <2>1, <2>2
<1>6. CASE BenchReady(c) \/ StepStored(c)
  BY <1>1, <1>4, <1>6 DEF BenchReady, StepStored, AtPc, LiveTask
<1>7. CASE BeginStep(c) \/ StepDone(c) \/ StepFails(c)
  BY <1>1, <1>3, <1>7 DEF BeginStep, StepDone, StepFails, AtPc, LiveTask, TaskStates
<1>8. CASE BenchUnavailable(c) \/ StepSalvaged(c) \/ Interrupt(c)
  <2>1. Interruption(c) \in TerminalRun /\ "failed" \in TerminalRun
    BY DEF Interruption, TerminalRun
  <2> QED  BY <1>1, <1>2, <1>8, <2>1 DEF BenchUnavailable, StepSalvaged, Interrupt
<1>9. CASE InterruptStep(c)
  BY <1>0, <1>1, <1>9 DEF InterruptStep, LiveTask, CommandRows, TaskField
<1>10. CASE Cleanup(c)
  <2>1. ~LiveTask(c)'
    BY <1>0, <1>10, NoTaskTyped DEF Cleanup, LiveTask, CommandRows
  <2>2. run'[c].status # "cancel_requested"
    <3>1. CASE task[c].pc = "finished" /\ UNCHANGED run
      BY <3>1 DEF RunsInOrder, RunOrder, LiveTask, ActiveRun
    <3>2. CASE run' = [run EXCEPT ![c].status = Interruption(c)]
      <4>1. Interruption(c) \in TerminalRun /\ Interruption(c) # "cancel_requested"
        BY DEF Interruption, TerminalRun
      <4> QED  BY <1>0, <3>2, <4>1, RunTyped
    <3> QED  BY <1>10, <3>1, <3>2 DEF Cleanup
  <2> QED  BY <1>1, <1>10, <2>1, <2>2 DEF Cleanup
<1> QED
  BY <1>5, <1>6, <1>7, <1>8, <1>9, <1>10 DEF RunnerStep

LEMMA RunnerSafe == ASSUME HardwareSafe, NEW c \in Command, RunnerStep(c) PROVE HardwareSafe'
<1> USE DEF HardwareSafe
<1>1. /\ UNCHANGED <<wanted, exec, cached, pins>> /\ RunsInOrder'
      /\ \A k \in Command \ {c} : run'[k] = run[k] /\ task'[k] = task[k]
      /\ \/ /\ LiveTask(c) /\ task'[c].requested = task[c].requested /\ benchLock' = benchLock
            /\ run'[c].status \in {run[c].status, "running"}
         \/ /\ ~LiveTask(c)' /\ run'[c].status # "cancel_requested"
            /\ benchLock' = benchLock \/ FreeBench(c)
  BY RunnerTouches, OrderRunner
<1>2. PinsCount' /\ FilesKept'
  BY <1>1 DEF PinsCount, FilesKept, Holders, Asked, HasFile, DigestOf
<1>3. /\ LiveTask(c)' => LiveTask(c) /\ benchLock' = benchLock
      /\ task[c].pc # "none" => exec[c] \in {"waiting", "over"}
  BY <1>1 DEF RunsInOrder, RunOrder, LiveTask
<1>4. task[c].pc # "none"
  BY DEF RunnerStep, RunTask, BenchReady, BeginStep, BenchUnavailable, StepDone, StepFails,
     StepStored, StepSalvaged, InterruptStep, Interrupt, Cleanup, AtPc
<1>5. LocksHeld'
  BY <1>1, <1>3, <1>4, LocksStep DEF NeedsLock, Fetching
<1>6. RolesClear'
  BY <1>1, <1>3, RolesStep DEF RoleClear, RolesClear
<1> QED  BY <1>1, <1>2, <1>5, <1>6

LEMMA RebootSafe == ASSUME HardwareSafe, Reboot PROVE HardwareSafe'
<1> USE DEF HardwareSafe
<1>0. /\ RunsInOrder' /\ CommandRows
      /\ \A c \in Command : /\ exec'[c] \in {"none", "over"} /\ (exec'[c] = "none" <=> exec[c] = "none")
                            /\ ~LiveTask(c)' /\ run'[c] = RecoveredRun(c)
      /\ UNCHANGED <<wanted, cached>> /\ pins' = [d \in Digest |-> 0]
  BY OrderReboot, NoTaskTyped DEF Reboot, LiveTask, RunsInOrder, WorkRows
<1>1. PinsCount'
  <2>1. ASSUME NEW d \in Digest PROVE Holders(d)' = {} /\ Asked(d)' = Asked(d)
    BY <1>0 DEF Holders, Asked, DigestOf, Holding, Fetching
  <2>2. ASSUME NEW d \in Digest PROVE Cardinality(Asked(d)) \in Nat
    BY HoldersFinite, FS_CardinalityType
  <2>3. Cardinality({}) = 0
    BY FS_EmptySet
  <2>4. ASSUME NEW d \in Digest
        PROVE  Cardinality(Holders(d)') <= pins'[d] /\ pins'[d] <= Cardinality(Asked(d)')
    BY <1>0, <2>1, <2>2, <2>3
  <2> QED  BY <1>0, <2>4 DEF PinsCount
<1>2. FilesKept' /\ LocksHeld'
  BY <1>0 DEF FilesKept, LocksHeld, HasFile, NeedsLock, Fetching
<1>3. \A c \in Command : run'[c].status # "cancel_requested"
  BY <1>0 DEF RecoveredRun, CommandRows, RunRow, ActiveRun
<1>4. RolesClear'
  BY <1>0, <1>3 DEF RolesClear
<1> QED  BY <1>0, <1>1, <1>2, <1>4

LEMMA HardwareInit == WorkInit => HardwareSafe
<1> SUFFICES ASSUME WorkInit PROVE PinsCount /\ FilesKept /\ LocksHeld /\ RolesClear
  BY OrderInit DEF HardwareSafe
<1>1. \A d \in Digest : Holders(d) = {} /\ Asked(d) = {}
  BY DEF WorkInit, Holders, Asked, Holding, Fetching
<1>2. PinsCount
  <2>1. Cardinality({}) = 0
    BY FS_EmptySet
  <2>2. ASSUME NEW d \in Digest
        PROVE  Cardinality(Holders(d)) <= pins[d] /\ pins[d] <= Cardinality(Asked(d))
    <3>1. pins[d] = 0 /\ Holders(d) = {} /\ Asked(d) = {}
      BY <1>1 DEF WorkInit
    <3> QED  BY <2>1, <3>1
  <2> QED  BY <2>2 DEF WorkInit, PinsCount
<1> QED
  BY <1>2 DEF WorkInit, FilesKept, HasFile, LocksHeld, NeedsLock, Fetching, LiveTask, RolesClear,
              NoTask, NoRun

LEMMA HardwareNext == HardwareSafe /\ [WorkNext]_workVars => HardwareSafe'
<1> SUFFICES ASSUME HardwareSafe, [WorkNext]_workVars PROVE HardwareSafe'
  OBVIOUS
<1> USE DEF HardwareSafe
<1>0. RunsInOrder'
  BY OrderNext
<1>1. ASSUME UNCHANGED <<wanted, exec, run, cached, pins, benchLock>>,
             \A c \in Command : LiveTask(c)' = LiveTask(c) /\ task'[c].requested = task[c].requested
      PROVE  HardwareSafe'
  <2>1. PinsCount' /\ FilesKept'
    BY <1>1 DEF PinsCount, Holders, Asked, FilesKept, HasFile, DigestOf
  <2>2. LocksHeld' /\ RolesClear'
    BY <1>1 DEF LocksHeld, NeedsLock, BenchOf, RolesClear
  <2> QED  BY <1>0, <2>1, <2>2
<1>2. CASE UNCHANGED workVars
  BY <1>1, <1>2 DEF workVars, LiveTask
<1>3. ASSUME NEW b \in WorkBench, LeaseEnds(b) \/ LeaseArrives(b) PROVE HardwareSafe'
  BY <1>1, <1>3 DEF LeaseEnds, LeaseArrives, LiveTask
<1>4. CASE Shutdown
  <2>1. ASSUME NEW c \in Command
        PROVE  LiveTask(c)' = LiveTask(c) /\ task'[c].requested = task[c].requested
    BY <1>4 DEF Shutdown, LiveTask, RunsInOrder, WorkRows, CommandRows, TaskField
  <2> QED  BY <1>1, <1>4, <2>1 DEF Shutdown
<1>5. ASSUME NEW c \in Command, ExecutorStep(c) PROVE HardwareSafe'
  BY <1>5, FetchSafe, FilesSafe, LeavingSafe, StartSafe, WatchSafe DEF ExecutorStep
<1> QED
  BY <1>2, <1>3, <1>4, <1>5, ExecuteSafe, RunnerSafe, WatchSafe, RebootSafe DEF WorkNext

\* Whoever drives a bench holds its lock, and its artifact is in the cache
\* (LocalAgentCommandExecutor, AgentArtifactCache, WorkflowRunner).
THEOREM HardwareUseAlways == WorkSpec => []HardwareUse
<1>1. HardwareSafe => HardwareUse
  <2> SUFFICES ASSUME HardwareSafe, NEW c \in Command, Driving(c)
               PROVE  benchLock[BenchOf(c)] = c /\ (task[c].requested \/ DigestOf(c) \in cached)
    BY DEF HardwareUse
  <2>1. NeedsLock(c)
    BY DEF Driving, NeedsLock, HardwareSafe, RolesClear
  <2>2. task[c].requested \/ HasFile(c)
    BY DEF Driving, HasFile, HardwareSafe, RolesClear
  <2> QED  BY <2>1, <2>2 DEF HardwareSafe, LocksHeld, FilesKept
<1> QED  BY <1>1, HardwareInit, HardwareNext, PTL DEF WorkSpec

-----------------------------------------------------------------------------
(* Maintenance and alerts. *)

AgentStatus == {"ONLINE", "OFFLINE", "INCOMPATIBLE"}

AlertRow == [type : AlertType, status : {"OPEN", "ACKNOWLEDGED"}, late : BOOLEAN]

PassRow == {NoPass}
    \cup [stage : {"listed"}, row : BenchRow, agent : AgentStatus]
    \cup [stage : {"loaded"}, row : BenchRow, agent : AgentStatus, again : BenchRow, flaky : BOOLEAN]
    \cup [stage : {"ready"}, seen : SUBSET AlertType]

OperationsTypes ==
    /\ board \in BenchRow
    /\ journal \in BenchMaintenanceStatus \cup {NoState}
    /\ worked \in BOOLEAN
    /\ reports \in Seq(GlobalBenchStatus \cup {"MISSING"})
    /\ newest \in 1..Len(reports)
    /\ fleet \in [agent : AgentStatus, flaky : BOOLEAN]
    /\ planned \in {"none", "scheduled", "cancelled", "used", "inverted"}
    /\ alarms \in Seq(AlertRow)
    /\ pass \in PassRow
    /\ opRequests \in 0..MaxOpRequests
    /\ opCrashes \in 0..MaxOpCrashes

\* The row of the inventory is the truth: an operator took the bench out of
\* service exactly when it is labelled, and then no write makes it ONLINE; the
\* journal never runs ahead of it.
LabelTrue ==
    /\ board.label # "false"
    /\ worked = (board.label = "true")
    /\ board.label = "true" => board.status # "ONLINE"
    /\ journal = "MAINTENANCE" => board.label = "true"

OperationsInv == OperationsTypes /\ LabelTrue /\ OneActiveAlert

LEMMA LabelTruth == ASSUME OperationsTypes, LabelTrue PROVE MaintenanceHolds
  BY DEF OperationsTypes, LabelTrue, MaintenanceHolds, MaintenanceState, JournalState, DefaultStatus,
         BenchRow, BenchMaintenanceStatus, NoState, GlobalBenchStatus, NoStatus

LEMMA OperationsInvInit == OperationsInit => OperationsInv
<1> SUFFICES ASSUME OperationsInit PROVE OperationsTypes /\ LabelTrue /\ OneActiveAlert
  BY DEF OperationsInv
<1> USE OperationsAssumption DEF OperationsInit
<1>1. board \in BenchRow /\ board.label = "absent"
  BY DEF GlobalBench, BenchRow, GlobalBenchStatus, NoStatus
<1>2. OperationsTypes
  <2>1. reports \in Seq(GlobalBenchStatus \cup {"MISSING"}) /\ newest \in 1..Len(reports)
    BY DEF GlobalBenchStatus
  <2>2. pass \in PassRow /\ alarms \in Seq(AlertRow)
    BY DEF PassRow
  <2>3. opRequests \in 0..MaxOpRequests /\ opCrashes \in 0..MaxOpCrashes
    OBVIOUS
  <2>4. fleet \in [agent : AgentStatus, flaky : BOOLEAN]
    BY DEF AgentStatus
  <2> QED  BY <1>1, <2>1, <2>2, <2>3, <2>4 DEF OperationsTypes
<1>3. LabelTrue
  BY <1>1 DEF LabelTrue, NoState
<1>4. OneActiveAlert
  BY DEF OneActiveAlert
<1> QED  BY <1>2, <1>3, <1>4

LEMMA UpsertTyped ==
    ASSUME NEW rec \in BenchRow, NEW new \in BenchRow
    PROVE  /\ UpsertBench(rec, new) \in BenchRow
           /\ UpsertBench(rec, new).label =
                 IF new.label = "false" THEN "absent"
                 ELSE IF rec.label = "true" THEN "true" ELSE new.label
           /\ rec.label = "true" /\ new.label # "false" => UpsertBench(rec, new).status # "ONLINE"
           /\ rec.label # "true" /\ new.label # "false" => UpsertBench(rec, new) = new
  BY DEF UpsertBench, BenchRow, GlobalBenchStatus, NoStatus

LEMMA LabelledTyped ==
    ASSUME NEW rec \in BenchRow
    PROVE  /\ Labelled(rec) \in BenchRow
           /\ Labelled(rec).label = "true" /\ Labelled(rec).status # "ONLINE"
  BY DEF Labelled, BenchRow, GlobalBenchStatus, NoStatus

\* An alarm taken out, or changed in place, leaves at most one of each type.
LEMMA AlertsRemain ==
    ASSUME alarms \in Seq(AlertRow), OneActiveAlert, alarms' \in Seq(AlertRow),
           Len(alarms') = Len(alarms),
           \A i \in 1..Len(alarms) : alarms'[i].type = alarms[i].type
    PROVE  OneActiveAlert'
  BY DEF OneActiveAlert

LEMMA AlertRemoved ==
    ASSUME alarms \in Seq(AlertRow), OneActiveAlert, NEW i \in 1..Len(alarms),
           alarms' = RemoveAt(alarms, i)
    PROVE  alarms' \in Seq(AlertRow) /\ OneActiveAlert'
<1>1. /\ SubSeq(alarms, 1, i - 1) \in Seq(AlertRow) /\ Len(SubSeq(alarms, 1, i - 1)) = i - 1
      /\ SubSeq(alarms, i + 1, Len(alarms)) \in Seq(AlertRow)
      /\ Len(SubSeq(alarms, i + 1, Len(alarms))) = Len(alarms) - i
      /\ \A n \in 1..(i - 1) : SubSeq(alarms, 1, i - 1)[n] = alarms[n]
      /\ \A n \in 1..(Len(alarms) - i) : SubSeq(alarms, i + 1, Len(alarms))[n] = alarms[i + n]
  OBVIOUS
<1> DEFINE before == SubSeq(alarms, 1, i - 1)
           after == SubSeq(alarms, i + 1, Len(alarms))
<1> HIDE DEF before, after
<1>2. /\ before \in Seq(AlertRow) /\ Len(before) = i - 1
      /\ after \in Seq(AlertRow) /\ Len(after) = Len(alarms) - i
      /\ \A n \in 1..(i - 1) : before[n] = alarms[n]
      /\ \A n \in 1..(Len(alarms) - i) : after[n] = alarms[i + n]
  BY <1>1 DEF before, after
<1>3. alarms' = before \o after
  BY DEF RemoveAt, before, after
<1>4. /\ alarms' \in Seq(AlertRow) /\ Len(alarms') = Len(before) + Len(after)
      /\ \A n \in 1..(Len(before) + Len(after)) :
            alarms'[n] = IF n <= Len(before) THEN before[n] ELSE after[n - Len(before)]
  <2>1. /\ before \o after \in Seq(AlertRow) /\ Len(before \o after) = Len(before) + Len(after)
        /\ \A n \in 1..(Len(before) + Len(after)) :
              (before \o after)[n] = IF n <= Len(before) THEN before[n] ELSE after[n - Len(before)]
    BY <1>2, ConcatProperties
  <2> QED  BY <1>3, <2>1
<1>a. i - 1 \in Nat /\ Len(alarms) \in Nat /\ Len(before) + Len(after) = Len(alarms) - 1
  BY <1>2
<1>5. ASSUME NEW n \in 1..(Len(alarms) - 1)
      PROVE  alarms'[n] = IF n < i THEN alarms[n] ELSE alarms[n + 1]
  <2>1. CASE n < i
    BY <1>2, <1>4, <2>1
  <2>2. CASE ~(n < i)
    <3>1. n - (i - 1) \in 1..(Len(alarms) - i)
      BY <2>2
    <3>2. alarms'[n] = after[n - (i - 1)]
      <4>1. n \in 1..(Len(before) + Len(after)) /\ ~(n <= Len(before)) /\ Len(before) = i - 1
        BY <1>2, <1>a, <2>2
      <4> QED  BY <1>4, <4>1
    <3>3. after[n - (i - 1)] = alarms[i + (n - (i - 1))]
      BY <1>2, <3>1
    <3> QED  BY <2>2, <3>2, <3>3
  <2> QED  BY <2>1, <2>2
<1>6. Len(alarms') = Len(alarms) - 1
  BY <1>2, <1>4
<1>7. ASSUME NEW n \in 1..(Len(alarms) - 1), NEW m \in 1..(Len(alarms) - 1),
             alarms'[n].type = alarms'[m].type
      PROVE  n = m
  <2> DEFINE at(k) == IF k < i THEN k ELSE k + 1
  <2>1. at(n) \in 1..Len(alarms) /\ at(m) \in 1..Len(alarms) /\ (at(n) = at(m) => n = m)
    BY <1>a
  <2>2. alarms'[n] = alarms[at(n)] /\ alarms'[m] = alarms[at(m)]
    BY <1>5
  <2> HIDE DEF at
  <2> QED  BY <1>7, <2>1, <2>2 DEF OneActiveAlert
<1>8. DOMAIN alarms' = 1..(Len(alarms) - 1) /\ alarms' \in Seq(AlertRow)
  BY <1>4, <1>6
<1> QED  BY <1>7, <1>8 DEF OneActiveAlert

\* Every place of the order of a finite set of numbers is taken by one of them.
LEMMA PlaceTaken ==
    ASSUME NEW L \in Nat, NEW kept \in SUBSET (1..L), NEW n \in 1..Cardinality(kept)
    PROVE  \E i \in kept : Cardinality({j \in kept : j < i}) = n - 1
<1> DEFINE K == Cardinality(kept)
           below(i) == {j \in kept : j < i}
           f == [i \in kept |-> Cardinality(below(i))]
<1>1. IsFiniteSet(kept) /\ K \in Nat /\ kept \subseteq Int
  <2>1. IsFiniteSet(1..L)
    BY FS_Interval
  <2>2. IsFiniteSet(kept)
    BY <2>1, FS_Subset
  <2> QED  BY <2>2, FS_CardinalityType
<1>2. ASSUME NEW i \in kept
      PROVE  IsFiniteSet(below(i)) /\ Cardinality(below(i)) \in Nat /\ Cardinality(below(i)) <= K - 1
  <2>1. below(i) \subseteq kept \ {i}
    OBVIOUS
  <2>2. IsFiniteSet(kept \ {i}) /\ Cardinality(kept \ {i}) = K - 1
    BY <1>1, FS_RemoveElement
  <2> QED  BY <2>1, <2>2, FS_Subset, FS_CardinalityType
<1>3. ASSUME NEW i \in kept, NEW j \in kept, i < j
      PROVE  Cardinality(below(i)) < Cardinality(below(j))
  <2>0. ASSUME NEW k \in kept, k < i PROVE k < j /\ k # i
    <3>1. k \in Int /\ i \in Int /\ j \in Int
      BY <1>1
    <3> QED  BY <1>3, <2>0, <3>1
  <2>1. below(i) \cup {i} \subseteq below(j) /\ i \notin below(i)
    BY <1>3, <2>0
  <2>2. Cardinality(below(i) \cup {i}) = Cardinality(below(i)) + 1
    BY <1>2, <2>1, FS_AddElement
  <2>3. Cardinality(below(i) \cup {i}) <= Cardinality(below(j))
    BY <1>2, <2>1, FS_Subset
  <2>4. Cardinality(below(i)) \in Nat /\ Cardinality(below(j)) \in Nat
    BY <1>2
  <2> HIDE DEF below
  <2> QED  BY <2>2, <2>3, <2>4
<1> HIDE DEF below
<1>4. f \in [kept -> 0..(K - 1)]
  BY <1>1, <1>2
<1>5. \A i, j \in kept : f[i] = f[j] => i = j
  BY <1>2, <1>3
<1>6. f \in Injection(kept, 0..(K - 1))
  BY <1>4, <1>5 DEF Injection, IsInjective
<1>7. IsFiniteSet(0..(K - 1)) /\ Cardinality(0..(K - 1)) = K
  <2>1. 0 \in Int /\ K - 1 \in Int
    BY <1>1
  <2>2. IsFiniteSet(0..(K - 1)) /\ Cardinality(0..(K - 1)) = IF 0 > K - 1 THEN 0 ELSE (K - 1) - 0 + 1
    BY <2>1, FS_Interval
  <2> QED  BY <1>1, <2>2
<1>8. f \in Surjection(kept, 0..(K - 1))
  BY <1>6, <1>7, FS_Injection
<1>9. n - 1 \in 0..(K - 1)
  BY <1>1
<1>10. PICK i \in kept : f[i] = n - 1
  BY <1>8, <1>9 DEF Surjection
<1> QED  BY <1>10 DEF below

\* A finite set as a sequence.
LEMMA SetAsSequence ==
    ASSUME NEW S, IsFiniteSet(S)
    PROVE  /\ SetToSeq(S) \in Seq(S)
           /\ \A i, j \in 1..Len(SetToSeq(S)) : SetToSeq(S)[i] = SetToSeq(S)[j] => i = j
<1>1. Cardinality(S) \in Nat /\ \E f : f \in Bijection(1..Cardinality(S), S)
  BY FS_CardinalityType DEF ExistsBijection
<1>2. \E f \in [1..Cardinality(S) -> S] : IsInjective(f)
  BY <1>1 DEF Bijection, Injection, IsInjective
<1>3. SetToSeq(S) \in [1..Cardinality(S) -> S] /\ IsInjective(SetToSeq(S))
  BY <1>2 DEF SetToSeq
<1> QED  BY <1>1, <1>3 DEF IsInjective

\* What a pass does to the alerts: the ones it keeps, and one for each condition
\* that has none.
LEMMA ReconciledAlerts ==
    ASSUME OperationsTypes, OneActiveAlert, ReconcileAlerts
    PROVE  alarms' \in Seq(AlertRow) /\ OneActiveAlert'
<1> DEFINE failing == {i \in Cleared : alarms[i].late}
           resolved == {i \in Cleared : \A j \in failing : j < i}
           kept == {i \in DOMAIN alarms : i \notin resolved}
           at(n) == CHOOSE i \in kept : Cardinality({j \in kept : j < i}) = n - 1
           left == [n \in 1..Cardinality(kept) |-> alarms[at(n)]]
           fresh == {[type |-> type, status |-> "OPEN", late |-> FALSE] : type \in Created}
           new == SetToSeq(fresh)
<1>1. alarms' = left \o new
  BY DEF ReconcileAlerts
<1>2. /\ alarms \in Seq(AlertRow) /\ Len(alarms) \in Nat /\ kept \subseteq 1..Len(alarms)
      /\ pass.seen \subseteq AlertType
  <2>1. pass.stage = "ready" /\ pass \in PassRow
    BY DEF ReconcileAlerts, OperationsTypes
  <2>2. pass.seen \subseteq AlertType
    BY <2>1 DEF PassRow, NoPass
  <2> QED  BY <2>2 DEF OperationsTypes
<1>3. IsFiniteSet(kept) /\ Cardinality(kept) \in Nat
  <2> HIDE DEF kept
  <2>1. IsFiniteSet(1..Len(alarms))
    <3>1. 1 \in Int /\ Len(alarms) \in Int
      BY <1>2
    <3> QED  BY <3>1, FS_Interval
  <2>2. IsFiniteSet(kept)
    BY <1>2, <2>1, FS_Subset
  <2> QED  BY <2>2, FS_CardinalityType
<1> HIDE DEF kept
<1>4. ASSUME NEW n \in 1..Cardinality(kept)
      PROVE  at(n) \in kept /\ Cardinality({j \in kept : j < at(n)}) = n - 1
  <2>1. PICK length \in Nat : length = Len(alarms)
    BY <1>2
  <2>2. kept \in SUBSET (1..length)
    BY <1>2, <2>1
  <2> QED  BY <2>2, PlaceTaken
<1> HIDE DEF at
<1>5. /\ left \in Seq(AlertRow) /\ Len(left) = Cardinality(kept)
      /\ \A n \in 1..Len(left) : left[n] = alarms[at(n)]
  <2>1. ASSUME NEW n \in 1..Cardinality(kept) PROVE alarms[at(n)] \in AlertRow
    <3>1. at(n) \in 1..Len(alarms)
      BY <1>2, <1>4
    <3> QED  BY <1>2, <3>1, ElementOfSeq
  <2> QED  BY <1>3, <2>1
<1>6. \A n, m \in 1..Len(left) : left[n].type = left[m].type => n = m
  <2> SUFFICES ASSUME NEW n \in 1..Len(left), NEW m \in 1..Len(left), left[n].type = left[m].type
               PROVE  n = m
    OBVIOUS
  <2>1. at(n) \in 1..Len(alarms) /\ at(m) \in 1..Len(alarms)
    BY <1>2, <1>4, <1>5
  <2>2. at(n) = at(m)
    <3>1. alarms[at(n)].type = alarms[at(m)].type
      BY <1>5
    <3> QED  BY <1>2, <2>1, <3>1 DEF OneActiveAlert
  <2>3. n - 1 = m - 1
    BY <1>4, <1>5, <2>2
  <2> QED  BY <1>3, <1>5, <2>3
<1>7. IsFiniteSet(fresh) /\ fresh \subseteq AlertRow
  <2>0. Created \subseteq AlertType
    BY <1>2 DEF Created
  <2>1. ASSUME NEW type \in Created
        PROVE  [type |-> type, status |-> "OPEN", late |-> FALSE] \in AlertRow
    BY <2>0 DEF AlertRow
  <2>2. fresh \subseteq
            {[type |-> "AGENT_OFFLINE", status |-> "OPEN", late |-> FALSE]}
            \cup {[type |-> "INCOMPATIBLE_VERSION", status |-> "OPEN", late |-> FALSE]}
            \cup {[type |-> "BENCH_DEGRADED", status |-> "OPEN", late |-> FALSE]}
            \cup {[type |-> "REPEATED_FAILURES", status |-> "OPEN", late |-> FALSE]}
    BY <2>0 DEF AlertType
  <2>3. IsFiniteSet(fresh)
    <3>1. ASSUME NEW a, NEW b, NEW c, NEW d PROVE IsFiniteSet({a} \cup {b} \cup {c} \cup {d})
      BY FS_Singleton, FS_Union
    <3> HIDE DEF fresh
    <3>2. PICK all : IsFiniteSet(all) /\ fresh \subseteq all
      BY <2>2, <3>1
    <3> QED  BY <3>2, FS_Subset
  <2> QED  BY <2>1, <2>3
<1>8. ASSUME NEW a \in fresh, NEW b \in fresh, a.type = b.type PROVE a = b
  <2>1. PICK ta \in Created : a = [type |-> ta, status |-> "OPEN", late |-> FALSE]
    OBVIOUS
  <2>2. PICK tb \in Created : b = [type |-> tb, status |-> "OPEN", late |-> FALSE]
    OBVIOUS
  <2> QED  BY <1>8, <2>1, <2>2
<1>9. \A a \in fresh : a.type \in Created
  OBVIOUS
<1> HIDE DEF fresh
<1>10. /\ new \in Seq(fresh)
       /\ \A n, m \in 1..Len(new) : new[n] = new[m] => n = m
  BY <1>7, SetAsSequence
<1> HIDE DEF left, new
<1>11. /\ new \in Seq(AlertRow) /\ Len(new) \in Nat /\ Len(left) \in Nat
       /\ \A n \in 1..Len(new) : new[n] \in fresh
  BY <1>5, <1>7, <1>10
<1>12. \A n, m \in 1..Len(new) : new[n].type = new[m].type => n = m
  BY <1>8, <1>10, <1>11
<1>13. \A n \in 1..Len(left), m \in 1..Len(new) : left[n].type # new[m].type
  <2> SUFFICES ASSUME NEW n \in 1..Len(left), NEW m \in 1..Len(new), left[n].type = new[m].type
               PROVE  FALSE
    OBVIOUS
  <2>1. at(n) \in DOMAIN alarms /\ alarms[at(n)].type = new[m].type
    <3>1. at(n) \in 1..Len(alarms) /\ left[n] = alarms[at(n)]
      BY <1>2, <1>4, <1>5
    <3> QED  BY <1>2, <3>1
  <2>2. new[m].type \in Created
    BY <1>9, <1>11
  <2> QED  BY <2>1, <2>2 DEF Created, FindActive
<1>14. /\ left \o new \in Seq(AlertRow) /\ Len(left \o new) = Len(left) + Len(new)
       /\ \A n \in 1..(Len(left) + Len(new)) :
             (left \o new)[n] = IF n <= Len(left) THEN left[n] ELSE new[n - Len(left)]
  BY <1>5, <1>11, ConcatProperties
<1>15. ASSUME NEW n \in 1..(Len(left) + Len(new)), NEW m \in 1..(Len(left) + Len(new)),
              (left \o new)[n].type = (left \o new)[m].type
       PROVE  n = m
  <2>1. CASE n <= Len(left) /\ m <= Len(left)
    <3>1. n \in 1..Len(left) /\ m \in 1..Len(left)
      BY <1>11, <2>1
    <3> QED  BY <1>6, <1>14, <1>15, <2>1, <3>1
  <2>2. CASE n <= Len(left) /\ ~(m <= Len(left))
    <3>1. n \in 1..Len(left) /\ m - Len(left) \in 1..Len(new)
      BY <1>11, <2>2
    <3> QED  BY <1>13, <1>14, <1>15, <2>2, <3>1
  <2>3. CASE ~(n <= Len(left)) /\ m <= Len(left)
    <3>1. m \in 1..Len(left) /\ n - Len(left) \in 1..Len(new)
      BY <1>11, <2>3
    <3> QED  BY <1>13, <1>14, <1>15, <2>3, <3>1
  <2>4. CASE ~(n <= Len(left)) /\ ~(m <= Len(left))
    <3>1. m - Len(left) \in 1..Len(new) /\ n - Len(left) \in 1..Len(new)
      BY <1>11, <2>4
    <3>2. n - Len(left) = m - Len(left)
      BY <1>12, <1>14, <1>15, <2>4, <3>1
    <3> QED  BY <1>11, <3>2
  <2> QED  BY <1>11, <2>1, <2>2, <2>3, <2>4
<1>16. DOMAIN alarms' = 1..(Len(left) + Len(new))
  BY <1>1, <1>14
<1> QED  BY <1>1, <1>14, <1>15, <1>16 DEF OneActiveAlert

LEMMA PassesTyped ==
    ASSUME OperationsTypes, PassStep PROVE pass' \in PassRow
<1>1. /\ pass \in PassRow /\ board \in BenchRow
      /\ fleet \in [agent : AgentStatus, flaky : BOOLEAN]
  BY DEF OperationsTypes
<1>2. CASE PassBegins
  <2>1. [stage |-> "listed", row |-> board, agent |-> fleet.agent]
            \in [stage : {"listed"}, row : BenchRow, agent : AgentStatus]
    BY <1>1
  <2> QED  BY <1>2, <2>1 DEF PassBegins, PassRow
<1>3. CASE PassLoads
  <2>1. pass \in [stage : {"listed"}, row : BenchRow, agent : AgentStatus]
    BY <1>1, <1>3 DEF PassLoads, PassRow, NoPass
  <2>2. [stage |-> "loaded", row |-> pass.row, agent |-> pass.agent, again |-> board, flaky |-> fleet.flaky]
            \in [stage : {"loaded"}, row : BenchRow, agent : AgentStatus, again : BenchRow, flaky : BOOLEAN]
    BY <1>1, <2>1
  <2> QED  BY <1>3, <2>2 DEF PassLoads, PassRow
<1>4. CASE PassReadsStates
  <2>1. \A rec, agent, flaky, state : AlertCandidates(rec, agent, flaky, state) \in SUBSET AlertType
    BY DEF AlertCandidates
  <2>2. \A seen \in SUBSET AlertType :
            [stage |-> "ready", seen |-> seen] \in [stage : {"ready"}, seen : SUBSET AlertType]
    OBVIOUS
  <2> QED  BY <1>4, <2>1, <2>2 DEF PassReadsStates, PassRow
<1>5. CASE ReconcileAlerts
  BY <1>5 DEF ReconcileAlerts, PassRow
<1> QED  BY <1>2, <1>3, <1>4, <1>5 DEF PassStep

\* A write of the bench row by somebody else than the operator.
LEMMA RowWritten ==
    ASSUME OperationsTypes, LabelTrue, NEW n \in 1..Len(reports), ReconcileSnapshot(n)
    PROVE  board' \in BenchRow /\ LabelTrue'
<1>1. board \in BenchRow /\ reports[n] \in GlobalBenchStatus \cup {"MISSING"}
  BY DEF OperationsTypes
<1>2. CASE reports[n] = "MISSING"
  BY <1>1, <1>2 DEF ReconcileSnapshot, AfterSnapshot, LabelTrue, BenchRow, GlobalBenchStatus
<1>3. CASE reports[n] # "MISSING"
  <2>1. /\ GlobalBench(reports[n]) \in BenchRow
        /\ GlobalBench(reports[n]).label = "absent"
    BY <1>1, <1>3 DEF GlobalBench, BenchRow, NoStatus
  <2>2. board' = UpsertBench(board, GlobalBench(reports[n])) /\ UNCHANGED <<journal, worked>>
    BY <1>3 DEF ReconcileSnapshot, AfterSnapshot
  <2>3. /\ board' \in BenchRow
        /\ board'.label = IF board.label = "true" THEN "true" ELSE "absent"
        /\ board.label = "true" => board'.status # "ONLINE"
    BY <1>1, <2>1, <2>2, UpsertTyped
  <2> QED  BY <2>2, <2>3 DEF LabelTrue
<1> QED  BY <1>2, <1>3

LEMMA CountersStep ==
    ASSUME OperationsTypes
    PROVE  /\ opRequests < MaxOpRequests /\ opRequests' = opRequests + 1 =>
                  opRequests' \in 0..MaxOpRequests
           /\ opCrashes < MaxOpCrashes /\ opCrashes' = opCrashes + 1 =>
                  opCrashes' \in 0..MaxOpCrashes
  BY OperationsAssumption DEF OperationsTypes

LEMMA StartTrue ==
    ASSUME OperationsTypes, LabelTrue, NEW crashes \in BOOLEAN, StartMaintenance(crashes)
    PROVE  board' \in BenchRow /\ journal' \in BenchMaintenanceStatus \cup {NoState} /\ LabelTrue'
<1>1. board \in BenchRow /\ journal \in BenchMaintenanceStatus \cup {NoState}
  BY DEF OperationsTypes
<1>2. Labelled(board) \in BenchRow /\ Labelled(board).label = "true" /\ Labelled(board).status # "ONLINE"
  BY <1>1, LabelledTyped
<1>3. board' = UpsertBench(board, Labelled(board)) /\ worked' = TRUE
      /\ journal' \in {journal, "MAINTENANCE"}
  BY DEF StartMaintenance, MaintenanceWrites
<1>4. board' \in BenchRow /\ board'.label = "true" /\ board'.status # "ONLINE"
  <2>1. CASE board.label = "true"
    BY <1>1, <1>2, <1>3, <2>1, UpsertTyped
  <2>2. CASE board.label # "true"
    BY <1>1, <1>2, <1>3, <2>2, UpsertTyped
  <2> QED  BY <2>1, <2>2
<1> QED  BY <1>1, <1>3, <1>4 DEF LabelTrue, BenchMaintenanceStatus

LEMMA EndTrue ==
    ASSUME OperationsTypes, LabelTrue, NEW crashes \in BOOLEAN, EndMaintenance(crashes)
    PROVE  board' \in BenchRow /\ journal' \in BenchMaintenanceStatus \cup {NoState} /\ LabelTrue'
<1>1. board \in BenchRow
  BY DEF OperationsTypes
<1>2. journal' \in {"OFFLINE", "DEGRADED", "HEALTHY"}
  BY DEF EndMaintenance, DefaultStatus
<1>3. CASE crashes
  BY <1>1, <1>2, <1>3 DEF EndMaintenance, LabelTrue, BenchMaintenanceStatus
<1>4. CASE ~crashes
  <2> DEFINE cleared == [status |-> Restored(board), label |-> "false", previous |-> NoStatus]
  <2>1. Restored(board) \in GlobalBenchStatus
    BY <1>1 DEF Restored, BenchRow, GlobalBenchStatus
  <2>2. cleared \in BenchRow /\ cleared.label = "false"
    BY <2>1 DEF BenchRow
  <2>3. board' = UpsertBench(board, cleared) /\ worked' = FALSE
    BY <1>4 DEF EndMaintenance
  <2> HIDE DEF cleared
  <2>4. board' \in BenchRow /\ board'.label = "absent"
    BY <1>1, <2>2, <2>3, UpsertTyped
  <2> QED  BY <1>2, <2>3, <2>4 DEF LabelTrue, BenchMaintenanceStatus
<1> QED  BY <1>3, <1>4

LEMMA AlertMarked ==
    ASSUME NEW a \in AlertRow
    PROVE  [a EXCEPT !.late = FALSE] \in AlertRow /\ [a EXCEPT !.late = FALSE].type = a.type
  BY DEF AlertRow

LEMMA AlertSeen ==
    ASSUME NEW a \in AlertRow
    PROVE  /\ [a EXCEPT !.status = "ACKNOWLEDGED", !.late = pass # NoPass] \in AlertRow
           /\ [a EXCEPT !.status = "ACKNOWLEDGED", !.late = pass # NoPass].type = a.type
<1>1. ASSUME NEW late \in BOOLEAN
      PROVE  /\ [a EXCEPT !.status = "ACKNOWLEDGED", !.late = late] \in AlertRow
             /\ [a EXCEPT !.status = "ACKNOWLEDGED", !.late = late].type = a.type
  BY DEF AlertRow
<1>2. (pass # NoPass) \in BOOLEAN
  OBVIOUS
<1> QED  BY <1>1, <1>2

LEMMA OperationsInvNext == OperationsInv /\ [OperationsNext]_operationsVars => OperationsInv'
<1> SUFFICES ASSUME OperationsTypes, LabelTrue, OneActiveAlert, [OperationsNext]_operationsVars
             PROVE  OperationsTypes' /\ LabelTrue' /\ OneActiveAlert'
  BY DEF OperationsInv
<1> USE CountersStep
<1>1. CASE UNCHANGED operationsVars
  BY <1>1 DEF operationsVars, OperationsTypes, LabelTrue, OneActiveAlert
<1>2. ASSUME NEW status \in GlobalBenchStatus \cup {"MISSING"}, AgentReports(status)
      PROVE  OperationsTypes' /\ LabelTrue' /\ OneActiveAlert'
  <2>1. reports' \in Seq(GlobalBenchStatus \cup {"MISSING"}) /\ newest \in 1..Len(reports')
    BY <1>2 DEF AgentReports, OperationsTypes
  <2> QED  BY <1>2, <2>1 DEF AgentReports, OperationsTypes, LabelTrue, OneActiveAlert
<1>3. ASSUME NEW n \in DOMAIN reports, ReconcileSnapshot(n)
      PROVE  OperationsTypes' /\ LabelTrue' /\ OneActiveAlert'
  <2>1. n \in 1..Len(reports)
    BY DEF OperationsTypes
  <2>2. board' \in BenchRow /\ LabelTrue'
    BY <1>3, <2>1, RowWritten
  <2>3. fleet' \in [agent : AgentStatus, flaky : BOOLEAN]
    BY <1>3 DEF ReconcileSnapshot, OperationsTypes, AgentStatus
  <2> QED  BY <1>3, <2>1, <2>2, <2>3 DEF ReconcileSnapshot, OperationsTypes, OneActiveAlert
<1>4. CASE MarkAgentOffline
  <2>1. fleet' \in [agent : AgentStatus, flaky : BOOLEAN]
    BY <1>4 DEF MarkAgentOffline, OperationsTypes, AgentStatus
  <2>2. board' \in BenchRow /\ LabelTrue'
    BY <1>4 DEF MarkAgentOffline, OperationsTypes, LabelTrue, BenchRow, GlobalBenchStatus
  <2> QED  BY <1>4, <2>1, <2>2 DEF MarkAgentOffline, OperationsTypes, OneActiveAlert
<1>5. CASE FleetChanges
  <2>1. fleet' \in [agent : AgentStatus, flaky : BOOLEAN]
    BY <1>5 DEF FleetChanges, OperationsTypes, AgentStatus
  <2> QED  BY <1>5, <2>1 DEF FleetChanges, OperationsTypes, LabelTrue, OneActiveAlert
<1>6. ASSUME NEW crashes \in BOOLEAN, StartMaintenance(crashes) \/ EndMaintenance(crashes)
      PROVE  OperationsTypes' /\ LabelTrue' /\ OneActiveAlert'
  <2>1. board' \in BenchRow /\ journal' \in BenchMaintenanceStatus \cup {NoState} /\ LabelTrue'
    BY <1>6, StartTrue, EndTrue
  <2>2. PassInterrupted(crashes) /\ UNCHANGED <<reports, newest, fleet, planned, alarms>>
        /\ worked' \in BOOLEAN
    BY <1>6 DEF StartMaintenance, EndMaintenance, OperationsTypes
  <2>3. /\ pass' \in PassRow /\ opRequests' \in 0..MaxOpRequests /\ opCrashes' \in 0..MaxOpCrashes
    BY <2>2 DEF PassInterrupted, PassRow, OperationsTypes
  <2> QED  BY <2>1, <2>2, <2>3 DEF OperationsTypes, OneActiveAlert
<1>7. CASE PlanChanges \/ WindowMoves
  <2>1. /\ planned' \in {"none", "scheduled", "cancelled", "used", "inverted"}
        /\ UNCHANGED <<board, journal, worked, reports, newest, fleet, alarms, pass, opCrashes>>
    BY <1>7 DEF PlanChanges, WindowMoves
  <2>2. opRequests' \in 0..MaxOpRequests
    <3>1. opRequests \in 0..MaxOpRequests
      BY DEF OperationsTypes
    <3> QED  BY <1>7, <3>1, OperationsAssumption DEF PlanChanges, WindowMoves
  <2> QED  BY <2>1, <2>2 DEF OperationsTypes, LabelTrue, OneActiveAlert
<1>8. CASE PassStep
  <2>1. pass' \in PassRow
    BY <1>8, PassesTyped
  <2>2. /\ UNCHANGED <<board, journal, worked, reports, newest, fleet, planned, opRequests, opCrashes>>
    BY <1>8 DEF PassStep, PassBegins, PassLoads, PassReadsStates, ReconcileAlerts
  <2>3. alarms' \in Seq(AlertRow) /\ OneActiveAlert'
    <3>1. CASE PassBegins
      <4>1. alarms \in Seq(AlertRow) /\ alarms' = [i \in DOMAIN alarms |-> [alarms[i] EXCEPT !.late = FALSE]]
        BY <3>1 DEF PassBegins, OperationsTypes
      <4>2. ASSUME NEW i \in 1..Len(alarms)
            PROVE  /\ [alarms[i] EXCEPT !.late = FALSE] \in AlertRow
                   /\ [alarms[i] EXCEPT !.late = FALSE].type = alarms[i].type
        <5>1. alarms[i] \in AlertRow
          BY <4>1, ElementOfSeq
        <5> QED  BY <5>1, AlertMarked
      <4> DEFINE n == Len(alarms)
                 marked == [i \in 1..n |-> [alarms[i] EXCEPT !.late = FALSE]]
      <4>3. n \in Nat /\ DOMAIN alarms = 1..n
        BY <4>1
      <4>4. alarms' = marked
        BY <4>1, <4>3
      <4> HIDE DEF n
      <4>5. \A i \in 1..n : marked[i] \in AlertRow /\ marked[i].type = alarms[i].type
        BY <4>2 DEF n
      <4>6. marked \in Seq(AlertRow) /\ Len(marked) = n
        <5> HIDE DEF marked
        <5>1. marked = [i \in 1..n |-> marked[i]]
          BY DEF marked
        <5> QED  BY <4>3, <4>5, <5>1
      <4>7. /\ alarms' \in Seq(AlertRow) /\ Len(alarms') = Len(alarms)
            /\ \A i \in 1..Len(alarms) : alarms'[i].type = alarms[i].type
        BY <4>4, <4>5, <4>6 DEF n
      <4> QED  BY <4>1, <4>7, AlertsRemain
    <3>2. CASE PassLoads \/ PassReadsStates
      BY <3>2 DEF PassLoads, PassReadsStates, OperationsTypes, OneActiveAlert
    <3>3. CASE ReconcileAlerts
      BY <3>3, ReconciledAlerts
    <3> QED  BY <1>8, <3>1, <3>2, <3>3 DEF PassStep
  <2> QED  BY <2>1, <2>2, <2>3 DEF OperationsTypes, LabelTrue
<1>9. ASSUME NEW i \in DOMAIN alarms, AcknowledgeAlert(i)
      PROVE  OperationsTypes' /\ LabelTrue' /\ OneActiveAlert'
  <2>1. alarms \in Seq(AlertRow) /\ i \in 1..Len(alarms)
    BY DEF OperationsTypes
  <2> DEFINE seen == [alarms[i] EXCEPT !.status = "ACKNOWLEDGED", !.late = pass # NoPass]
  <2>2. seen \in AlertRow /\ seen.type = alarms[i].type
    <3>1. alarms[i] \in AlertRow
      BY <2>1, ElementOfSeq
    <3> QED  BY <3>1, AlertSeen
  <2>3. alarms' = [alarms EXCEPT ![i] = seen]
    BY <1>9, <2>1 DEF AcknowledgeAlert
  <2> HIDE DEF seen
  <2>4. /\ alarms' \in Seq(AlertRow) /\ Len(alarms') = Len(alarms)
        /\ \A j \in 1..Len(alarms) : alarms'[j] = IF j = i THEN seen ELSE alarms[j]
    BY <2>1, <2>2, <2>3, ExceptSeq
  <2>5. OneActiveAlert'
    BY <2>1, <2>2, <2>4, AlertsRemain
  <2> QED  BY <1>9, <2>4, <2>5 DEF AcknowledgeAlert, OperationsTypes, LabelTrue
<1>10. ASSUME NEW i \in DOMAIN alarms, ResolveAlert(i)
       PROVE  OperationsTypes' /\ LabelTrue' /\ OneActiveAlert'
  <2>1. alarms \in Seq(AlertRow) /\ i \in 1..Len(alarms)
    BY DEF OperationsTypes
  <2>2. alarms' \in Seq(AlertRow) /\ OneActiveAlert'
    BY <1>10, <2>1, AlertRemoved DEF ResolveAlert
  <2> QED  BY <1>10, <2>2 DEF ResolveAlert, OperationsTypes, LabelTrue
<1> QED
  BY <1>1, <1>2, <1>3, <1>4, <1>5, <1>6, <1>7, <1>8, <1>9, <1>10 DEF OperationsNext

\* A bench an operator took out of service stays out, and no condition has two
\* active alerts (operational_api.py, _upsert_bench, reconcile_alerts).
THEOREM OperationsSoundAlways == OperationsSpec => []OperationsSound
<1>1. OperationsInv => OperationsSound
  BY LabelTruth DEF OperationsInv, OperationsSound
<1> QED  BY <1>1, OperationsInvInit, OperationsInvNext, PTL DEF OperationsSpec

\* Types of the bench row, the journal, the reports, the alerts and the pass.
THEOREM OperationsTypeCorrect == OperationsSpec => []OperationsTypeOK
<1>1. OperationsInv => OperationsTypeOK
  <2> SUFFICES ASSUME OperationsTypes PROVE OperationsTypeOK
    BY DEF OperationsInv
  <2>1. newest \in DOMAIN reports
    BY DEF OperationsTypes
  <2>2. \A i \in DOMAIN alarms :
          alarms[i] \in [type: AlertType, status: {"OPEN", "ACKNOWLEDGED"}, late: BOOLEAN]
    <3> TAKE i \in DOMAIN alarms
    <3>1. alarms \in Seq(AlertRow) /\ i \in 1..Len(alarms)
      BY DEF OperationsTypes
    <3>2. alarms[i] \in AlertRow
      BY <3>1, ElementOfSeq
    <3> QED  BY <3>2 DEF AlertRow
  <2>3. pass.stage \in {"idle", "listed", "loaded", "ready"}
    BY DEF OperationsTypes, PassRow, NoPass
  <2> QED  BY <2>1, <2>2, <2>3 DEF OperationsTypes, OperationsTypeOK, AgentStatus
<1> QED  BY <1>1, OperationsInvInit, OperationsInvNext, PTL DEF OperationsSpec

-----------------------------------------------------------------------------
(* Artifact transfers. *)

TransferMessage == [kind : {"request"}, transfer : Nat] \cup [kind : {"ack"}, artifact : Artifact]

PutRow == [id : Nat, transfer : Nat, number : Nat, stage : {"sent", "writing", "ok", "error"}]

Known(box, n) ==
    /\ box \in Seq(TransferMessage)
    /\ \A i \in 1..Len(box) : box[i].kind = "request" => box[i].transfer \in 1..n

\* The capabilities, the requests under way and the uploads name issued rows.
NamesIssued(n) ==
    /\ capability \in [Artifact -> 0..n]
    /\ Known(outbox, n)
    /\ puts \subseteq PutRow /\ \A p \in puts : p.transfer \in 1..n
    /\ putCount \in Nat

\* What is fetched from the store is in it.
DownloadsHaveContent ==
    \A t \in 1..Len(transfers) : transfers[t].direction = "download" => transfers[t].artifact \in stored

TransfersTrue ==
    /\ transfers \in Seq(TransferRows)
    /\ remote \in [Artifact -> {"none", "registered", "uploaded"}]
    /\ stored \subseteq Artifact
    /\ DownloadsHaveContent /\ UploadedIsStored /\ OneOpenUpload

TransferInv == TransfersTrue /\ NamesIssued(Len(transfers))

\* The rows keep what they are about, a closed one is not opened again, and one
\* is completed only with its content in the store.
Aged(rows, new, content) ==
    /\ new \in Seq(TransferRows) /\ Len(new) = Len(rows)
    /\ \A t \in 1..Len(rows) :
        /\ new[t].artifact = rows[t].artifact /\ new[t].direction = rows[t].direction
        /\ new[t].status \in Open => rows[t].status \in Open
        /\ new[t].status = "COMPLETED" =>
              rows[t].status = "COMPLETED" \/ rows[t].artifact \in content

LEMMA RowTaken ==
    ASSUME NEW rows \in Seq(TransferRows), NEW t \in 1..Len(rows)
    PROVE  rows[t] \in TransferRows
  BY ElementOfSeq

\* One row replaced by another of the same artifact.
LEMMA OneRowAges ==
    ASSUME NEW rows \in Seq(TransferRows), NEW t \in 1..Len(rows), NEW rec \in TransferRows,
           NEW content,
           rec.artifact = rows[t].artifact, rec.direction = rows[t].direction,
           rec.status \in Open => rows[t].status \in Open,
           rec.status = "COMPLETED" => rows[t].status = "COMPLETED" \/ rows[t].artifact \in content
    PROVE  Aged(rows, [rows EXCEPT ![t] = rec], content)
<1>1. /\ [rows EXCEPT ![t] = rec] \in Seq(TransferRows)
      /\ Len([rows EXCEPT ![t] = rec]) = Len(rows)
      /\ \A u \in 1..Len(rows) : [rows EXCEPT ![t] = rec][u] = IF u = t THEN rec ELSE rows[u]
  BY ExceptSeq
<1> QED  BY <1>1 DEF Aged

LEMMA NoRowAges ==
    ASSUME NEW rows \in Seq(TransferRows), NEW content
    PROVE  Aged(rows, rows, content)
  BY DEF Aged

LEMMA AgedTwice ==
    ASSUME NEW rows \in Seq(TransferRows), NEW between, NEW new, NEW content,
           Aged(rows, between, content), Aged(between, new, content)
    PROVE  Aged(rows, new, content)
  BY DEF Aged

\* update_transfer from an open status.
LEMMA MovedAges ==
    ASSUME NEW rows \in Seq(TransferRows), NEW t \in 1..Len(rows), NEW expected \in SUBSET Open,
           NEW status \in TransferStatus, NEW content,
           status = "COMPLETED" => rows[t].artifact \in content
    PROVE  Aged(rows, Moved(rows, t, expected, status), content)
<1>1. PICK rec \in TransferRows : rec = rows[t]
  BY RowTaken
<1>2. CASE rows[t].status \in expected /\ status \in Transitions(rows[t].status) \cup {rows[t].status}
  <2> DEFINE new == [rec EXCEPT !.status = status]
  <2>1. /\ new \in TransferRows /\ new.status = status
        /\ new.artifact = rec.artifact /\ new.direction = rec.direction
    BY DEF TransferRows
  <2>2. Moved(rows, t, expected, status) = [rows EXCEPT ![t] = new]
    BY <1>1, <1>2 DEF Moved
  <2> HIDE DEF new
  <2>3. rows[t].status \in Open
    BY <1>2
  <2>4. Aged(rows, [rows EXCEPT ![t] = new], content)
    BY <1>1, <2>1, <2>3, OneRowAges
  <2> QED  BY <2>2, <2>4
<1>3. CASE ~(rows[t].status \in expected /\ status \in Transitions(rows[t].status) \cup {rows[t].status})
  <2>1. Moved(rows, t, expected, status) = rows
    BY <1>3 DEF Moved
  <2> QED  BY <2>1, NoRowAges
<1> QED  BY <1>2, <1>3

LEMMA CountedAges ==
    ASSUME NEW rows \in Seq(TransferRows), NEW t \in 1..Len(rows), NEW content
    PROVE  Aged(rows, Counted(rows, t), content)
<1>1. PICK rec \in TransferRows : rec = rows[t]
  BY RowTaken
<1> DEFINE new == [rec EXCEPT !.count = @ + 1]
<1>2. /\ new \in TransferRows /\ new.status = rec.status
      /\ new.artifact = rec.artifact /\ new.direction = rec.direction
  <2>1. rec.count + 1 \in Nat
    BY DEF TransferRows
  <2> QED  BY <2>1 DEF TransferRows
<1>3. Counted(rows, t) = [rows EXCEPT ![t] = new]
  BY <1>1 DEF Counted
<1> HIDE DEF new
<1> QED  BY <1>1, <1>2, <1>3, OneRowAges

\* add_attempt and the move it allows.
LEMMA AttemptAges ==
    ASSUME NEW rows \in Seq(TransferRows), NEW t \in 1..Len(rows), NEW expected \in SUBSET Open,
           NEW status \in TransferStatus, NEW content,
           status = "COMPLETED" => rows[t].artifact \in content
    PROVE  Aged(rows, Moved(Counted(rows, t), t, expected, status), content)
<1>1. PICK counted : counted = Counted(rows, t)
  OBVIOUS
<1>2. Aged(rows, counted, content)
  BY <1>1, CountedAges
<1>3. /\ counted \in Seq(TransferRows) /\ t \in 1..Len(counted)
      /\ counted[t].artifact = rows[t].artifact
  BY <1>2 DEF Aged
<1>4. Aged(counted, Moved(counted, t, expected, status), content)
  BY <1>3, MovedAges
<1> QED  BY <1>1, <1>2, <1>4, AgedTwice

\* What holds of the rows survives every change of that kind.
LEMMA RowsAge ==
    ASSUME TransfersTrue, Aged(transfers, transfers', stored'), stored \subseteq stored',
           stored' \subseteq Artifact,
           remote' \in [Artifact -> {"none", "registered", "uploaded"}],
           \A a \in Artifact : remote'[a] = "uploaded" => remote[a] = "uploaded" \/ a \in stored'
    PROVE  TransfersTrue' /\ Len(transfers') = Len(transfers)
<1> USE DEF TransfersTrue
<1>1. /\ transfers' \in Seq(TransferRows) /\ Len(transfers') = Len(transfers)
      /\ DOMAIN transfers' = 1..Len(transfers) /\ DOMAIN transfers = 1..Len(transfers)
  BY DEF Aged
<1>2. ASSUME NEW t \in 1..Len(transfers)
      PROVE  /\ transfers'[t].artifact = transfers[t].artifact
             /\ transfers'[t].direction = transfers[t].direction
             /\ transfers'[t].status \in Open => transfers[t].status \in Open
             /\ transfers'[t].status = "COMPLETED" =>
                  transfers[t].status = "COMPLETED" \/ transfers[t].artifact \in stored'
  BY DEF Aged
<1>3. DownloadsHaveContent'
  BY <1>1, <1>2 DEF DownloadsHaveContent
<1>4. UploadedIsStored'
  BY <1>1, <1>2 DEF UploadedIsStored
<1>5. OneOpenUpload'
  BY <1>1, <1>2 DEF OneOpenUpload
<1> QED  BY <1>1, <1>3, <1>4, <1>5

LEMMA RowsSame ==
    ASSUME TransfersTrue, transfers' = transfers, stored' = stored,
           remote' \in [Artifact -> {"none", "registered", "uploaded"}],
           \A a \in Artifact : remote'[a] = "uploaded" => remote[a] = "uploaded"
    PROVE  TransfersTrue' /\ Len(transfers') = Len(transfers)
  BY DEF TransfersTrue, DownloadsHaveContent, UploadedIsStored, OneOpenUpload

\* A new capability: the rows of an earlier one are closed first.
LEMMA SupersededAges ==
    ASSUME NEW a \in Artifact, transfers \in Seq(TransferRows), NEW content
    PROVE  /\ Aged(transfers, Supersede(a), content)
           /\ \A t \in 1..Len(transfers) :
                 transfers[t].artifact = a /\ transfers[t].direction = "upload"
                 => Supersede(a)[t].status \notin Open
<1> DEFINE n == Len(transfers)
           Superseded(rec) == rec.artifact = a /\ rec.direction = "upload" /\ rec.status \in Open
           After(rec) == IF Superseded(rec) THEN [rec EXCEPT !.status = "EXPIRED"] ELSE rec
<1>1. n \in Nat /\ DOMAIN transfers = 1..n
  OBVIOUS
<1>2. ASSUME NEW rec \in TransferRows
      PROVE  /\ After(rec) \in TransferRows
             /\ After(rec).artifact = rec.artifact /\ After(rec).direction = rec.direction
             /\ After(rec).status \in Open => rec.status \in Open /\ ~Superseded(rec)
             /\ After(rec).status = "COMPLETED" => rec.status = "COMPLETED"
  BY DEF TransferRows, TransferStatus, Open
<1>3. Supersede(a) = [t \in 1..n |-> After(transfers[t])]
  BY <1>1 DEF Supersede
<1>4. ASSUME NEW t \in 1..n PROVE transfers[t] \in TransferRows
  BY <1>1, RowTaken
<1>5. ASSUME NEW t \in 1..n
      PROVE  /\ Supersede(a)[t] = After(transfers[t]) /\ After(transfers[t]) \in TransferRows
  BY <1>2, <1>3, <1>4
<1>6. Supersede(a) \in Seq(TransferRows) /\ Len(Supersede(a)) = n
  <2> HIDE DEF After, n
  <2>1. Supersede(a) \in [1..n -> TransferRows]
    BY <1>1, <1>3, <1>5
  <2> QED  BY <1>1, <2>1
<1>7. Aged(transfers, Supersede(a), content)
  <2> HIDE DEF After
  <2> QED  BY <1>2, <1>4, <1>5, <1>6 DEF Aged
<1> QED  BY <1>2, <1>4, <1>5, <1>7

\* A row is appended: an upload's, when no other of its artifact is open, or a
\* download's.
LEMMA RowAdded ==
    ASSUME TransfersTrue, NEW rows, NEW a \in Artifact, NEW direction \in Direction,
           Aged(transfers, rows, stored), transfers' = Append(rows, NewTransfer(a, direction)),
           stored' = stored,
           remote' \in [Artifact -> {"none", "registered", "uploaded"}],
           \A x \in Artifact : remote'[x] = "uploaded" => remote[x] = "uploaded",
           direction = "download" => a \in stored,
           direction = "upload" => \A t \in 1..Len(transfers) :
               transfers[t].artifact = a /\ transfers[t].direction = "upload" => rows[t].status \notin Open
    PROVE  TransfersTrue' /\ Len(transfers') = Len(transfers) + 1
<1>0. PICK n : n = Len(transfers)
  OBVIOUS
<1>1. n \in Nat /\ DOMAIN transfers = 1..n
  BY <1>0 DEF TransfersTrue
<1>11. ASSUME NEW t \in 1..(n + 1) PROVE t = n + 1 \/ t \in 1..n
  <2>1. n \in Nat
    BY <1>1
  <2> QED  BY <2>1
<1>2. rows \in Seq(TransferRows) /\ Len(rows) = n
  BY <1>0 DEF Aged
<1>3. NewTransfer(a, direction) \in TransferRows
  BY DEF NewTransfer, TransferRows, TransferStatus
<1>4. /\ transfers' \in Seq(TransferRows) /\ Len(transfers') = n + 1
      /\ \A t \in 1..n : transfers'[t] = rows[t]
      /\ transfers'[n + 1] = NewTransfer(a, direction)
  BY <1>1, <1>2, <1>3, AppendProperties
<1>5. ASSUME NEW t \in 1..n
      PROVE  /\ transfers'[t].artifact = transfers[t].artifact
             /\ transfers'[t].direction = transfers[t].direction
             /\ transfers'[t].status \in Open => transfers[t].status \in Open
             /\ transfers'[t].status = "COMPLETED" =>
                  transfers[t].status = "COMPLETED" \/ transfers[t].artifact \in stored
             /\ direction = "upload" /\ transfers[t].artifact = a /\ transfers[t].direction = "upload"
                  => transfers'[t].status \notin Open
  BY <1>0, <1>4 DEF Aged
<1>6. /\ transfers'[n + 1].artifact = a /\ transfers'[n + 1].direction = direction
      /\ transfers'[n + 1].status = "PENDING"
  BY <1>4 DEF NewTransfer
<1>7. DOMAIN transfers' = 1..(n + 1)
  BY <1>4
<1>8. DownloadsHaveContent'
  <2> SUFFICES ASSUME NEW t \in 1..(n + 1), transfers'[t].direction = "download"
               PROVE  transfers'[t].artifact \in stored
    BY <1>4 DEF DownloadsHaveContent
  <2>1. CASE t = n + 1
    BY <1>6, <2>1
  <2>2. CASE t \in 1..n
    BY <1>0, <1>5, <2>2 DEF TransfersTrue, DownloadsHaveContent
  <2> QED  BY <1>11, <2>1, <2>2
<1>9. UploadedIsStored'
  <2>1. ASSUME NEW t \in 1..(n + 1), transfers'[t].status = "COMPLETED"
        PROVE  transfers'[t].artifact \in stored
    <3>1. t \in 1..n
      BY <1>6, <1>11, <2>1
    <3> QED  BY <1>1, <1>5, <2>1, <3>1 DEF TransfersTrue, UploadedIsStored
  <2>2. ASSUME NEW x \in Artifact, remote'[x] = "uploaded" PROVE x \in stored
    BY <2>2 DEF TransfersTrue, UploadedIsStored
  <2> QED  BY <1>7, <2>1, <2>2 DEF UploadedIsStored
<1>10. OneOpenUpload'
  <2> SUFFICES ASSUME NEW t \in 1..(n + 1), NEW u \in 1..(n + 1),
                      transfers'[t].artifact = transfers'[u].artifact,
                      transfers'[t].direction = "upload", transfers'[u].direction = "upload", t < u
               PROVE  transfers'[t].status \notin Open
    BY <1>7 DEF OneOpenUpload
  <2>1. t \in 1..n
    BY <1>1
  <2>2. CASE u = n + 1
    BY <1>5, <1>6, <2>1, <2>2
  <2>3. CASE u \in 1..n
    BY <1>1, <1>5, <2>1, <2>3 DEF TransfersTrue, OneOpenUpload
  <2> QED  BY <1>11, <2>2, <2>3
<1> QED  BY <1>0, <1>4, <1>8, <1>9, <1>10 DEF TransfersTrue

\* request_artifact_upload, up to the push.
LEMMA IssueTrue ==
    ASSUME TransferInv, NEW a \in Artifact, Issue(a), stored' = stored,
           remote' \in [Artifact -> {"none", "registered", "uploaded"}],
           \A x \in Artifact : remote'[x] = "uploaded" => remote[x] = "uploaded"
    PROVE  /\ TransfersTrue' /\ Len(transfers') >= Len(transfers)
           /\ capability' \in [Artifact -> 0..Len(transfers')] /\ capability'[a] \in 1..Len(transfers')
<1>1. /\ transfers \in Seq(TransferRows) /\ Len(transfers) \in Nat
      /\ capability \in [Artifact -> 0..Len(transfers)]
  BY DEF TransferInv, TransfersTrue, NamesIssued
<1>2. CASE Live(a)
  <2>1. transfers' = transfers /\ capability' = capability /\ capability[a] # 0
    BY <1>2 DEF Issue, Live
  <2>2. TransfersTrue' /\ Len(transfers') = Len(transfers)
    BY <2>1, RowsSame DEF TransferInv
  <2> QED  BY <1>1, <2>1, <2>2
<1>3. CASE ~Live(a)
  <2>1. /\ transfers' = Append(Supersede(a), NewTransfer(a, "upload"))
        /\ capability' = [capability EXCEPT ![a] = Len(transfers) + 1]
    BY <1>3 DEF Issue
  <2>2. PICK rows : rows = Supersede(a)
    OBVIOUS
  <2>3. /\ Aged(transfers, rows, stored)
        /\ \A t \in 1..Len(transfers) :
              transfers[t].artifact = a /\ transfers[t].direction = "upload" => rows[t].status \notin Open
    BY <1>1, <2>2, SupersededAges
  <2>4. "upload" \in Direction /\ TransfersTrue
    BY DEF Direction, TransferInv
  <2>5. TransfersTrue' /\ Len(transfers') = Len(transfers) + 1
    BY <2>1, <2>2, <2>3, <2>4, RowAdded
  <2> QED  BY <1>1, <2>1, <2>5
<1> QED  BY <1>2, <1>3

LEMMA KnownEmpty == ASSUME NEW n PROVE Known(<<>>, n)
  BY DEF Known

LEMMA KnownTail ==
    ASSUME NEW n \in Nat, NEW box, Known(box, n), box # <<>>
    PROVE  /\ Known(Tail(box), n) /\ Head(box) \in TransferMessage
           /\ Head(box).kind = "request" => Head(box).transfer \in 1..n
<1>1. box \in Seq(TransferMessage) /\ Len(box) \in Nat /\ Len(box) # 0
  BY EmptySeq DEF Known
<1>2. /\ Head(box) = box[1] /\ Head(box) \in TransferMessage
      /\ Tail(box) \in Seq(TransferMessage) /\ Len(Tail(box)) = Len(box) - 1
      /\ \A i \in 1..Len(Tail(box)) : Tail(box)[i] = box[i + 1]
  BY <1>1, HeadTailProperties
<1>3. \A i \in 1..Len(Tail(box)) : i + 1 \in 1..Len(box)
  BY <1>1, <1>2
<1>4. 1 \in 1..Len(box)
  BY <1>1
<1> QED  BY <1>2, <1>3, <1>4 DEF Known

LEMMA KnownAppend ==
    ASSUME NEW n \in Nat, NEW box, Known(box, n), NEW message \in TransferMessage,
           message.kind = "request" => message.transfer \in 1..n
    PROVE  Known(Append(box, message), n)
<1>1. /\ Append(box, message) \in Seq(TransferMessage) /\ Len(Append(box, message)) = Len(box) + 1
      /\ \A i \in 1..Len(box) : Append(box, message)[i] = box[i]
      /\ Append(box, message)[Len(box) + 1] = message /\ Len(box) \in Nat
  BY AppendProperties DEF Known
<1>2. ASSUME NEW i \in 1..(Len(box) + 1) PROVE i \in 1..Len(box) \/ i = Len(box) + 1
  BY <1>1
<1> QED  BY <1>1, <1>2 DEF Known

LEMMA AppendTwo ==
    ASSUME NEW S, NEW s \in Seq(S), NEW x \in S, NEW y \in S
    PROVE  s \o <<x, y>> = Append(Append(s, x), y)
<1> DEFINE left == s \o <<x, y>>
           right == Append(Append(s, x), y)
<1>1. <<x, y>> \in Seq(S) /\ Len(<<x, y>>) = 2 /\ <<x, y>>[1] = x /\ <<x, y>>[2] = y
  OBVIOUS
<1>2. PICK n \in Nat : n = Len(s)
  OBVIOUS
<1>3. /\ left \in Seq(S) /\ Len(left) = n + 2
      /\ \A i \in 1..(n + 2) : left[i] = IF i <= n THEN s[i] ELSE <<x, y>>[i - n]
  BY <1>1, <1>2, ConcatProperties
<1>4. /\ Append(s, x) \in Seq(S) /\ Len(Append(s, x)) = n + 1
      /\ \A i \in 1..n : Append(s, x)[i] = s[i]
      /\ Append(s, x)[n + 1] = x
  BY <1>2, AppendProperties
<1>5. /\ right \in Seq(S) /\ Len(right) = n + 2
      /\ \A i \in 1..(n + 1) : right[i] = Append(s, x)[i]
      /\ right[n + 2] = y
  <2>1. PICK r \in Seq(S) : r = Append(s, x)
    BY <1>4
  <2>2. /\ Append(r, y) \in Seq(S) /\ Len(Append(r, y)) = Len(r) + 1
        /\ \A i \in 1..Len(r) : Append(r, y)[i] = r[i]
        /\ Append(r, y)[Len(r) + 1] = y
    BY <2>1, AppendProperties
  <2> QED  BY <1>4, <2>1, <2>2
<1> HIDE DEF left, right
<1>6. \A i \in 1..(n + 2) : left[i] = right[i]
  <2> SUFFICES ASSUME NEW i \in 1..(n + 2) PROVE left[i] = right[i]
    OBVIOUS
  <2>1. CASE i \in 1..n
    <3>1. i \in 1..(n + 1) /\ i <= n
      BY <2>1
    <3>2. left[i] = s[i]
      BY <1>3, <3>1
    <3>3. right[i] = s[i]
      BY <1>4, <1>5, <2>1, <3>1
    <3> QED  BY <3>2, <3>3
  <2>2. CASE i = n + 1
    BY <1>1, <1>3, <1>4, <1>5, <2>2
  <2>3. CASE i = n + 2
    BY <1>1, <1>3, <1>5, <2>3
  <2> QED  BY <2>1, <2>2, <2>3
<1>7. left = right
  BY <1>3, <1>5, <1>6, SeqEqual
<1> QED  BY <1>7 DEF left, right

LEMMA KnownGrows ==
    ASSUME NEW n \in Nat, NEW m \in Nat, n <= m, NEW box, Known(box, n)
    PROVE  Known(box, m)
  BY DEF Known

LEMMA MessagesTyped ==
    /\ \A t \in Nat : PutMessage(t) \in TransferMessage /\ PutMessage(t).kind = "request"
                      /\ PutMessage(t).transfer = t
    /\ \A a \in Artifact : AckMessage(a) \in TransferMessage /\ AckMessage(a).kind = "ack"
  BY DEF PutMessage, AckMessage, TransferMessage

\* What names an issued row still does when more rows are issued.
LEMMA NamesGrow ==
    ASSUME TransferInv, Len(transfers') \in Nat, Len(transfers') >= Len(transfers)
    PROVE  NamesIssued(Len(transfers'))
<1>1. PICK n \in Nat : n = Len(transfers)
  BY DEF TransferInv, TransfersTrue
<1>2. PICK m \in Nat : m = Len(transfers')
  OBVIOUS
<1>3. n <= m /\ NamesIssued(n)
  BY <1>1, <1>2 DEF TransferInv
<1>4. NamesIssued(m)
  BY <1>3, KnownGrows DEF NamesIssued
<1> QED  BY <1>2, <1>4

LEMMA PutsStep ==
    ASSUME NEW n \in Nat, NamesIssued(n), NEW p \in puts
    PROVE  p \in PutRow /\ p.transfer \in 1..n
  BY DEF NamesIssued

\* A step that leaves the rows and the messages alone, but for one upload.
LEMMA BecomesNamed ==
    ASSUME NEW n \in Nat, NamesIssued(n), NEW p \in puts, NEW q \in PutRow, q.transfer = p.transfer,
           Becomes(p, q), UNCHANGED <<outbox, capability, putCount>>
    PROVE  NamesIssued(n)'
<1>1. p.transfer \in 1..n
  BY PutsStep
<1> QED  BY <1>1 DEF NamesIssued, Becomes, Known

LEMMA DisconnectNamed ==
    ASSUME NEW n \in Nat, NamesIssued(n), Disconnect, putCount' = putCount,
           puts' \subseteq puts, capability' \in [Artifact -> 0..n]
    PROVE  NamesIssued(n)'
  BY KnownEmpty DEF NamesIssued, Disconnect, Known

LEMMA TransferInvInit == TransferInit => TransferInv
<1> SUFFICES ASSUME TransferInit PROVE TransferInv
  OBVIOUS
<1>1. Len(transfers) = 0 /\ transfers = <<>>
  BY DEF TransferInit
<1>2. NamesIssued(0)
  BY KnownEmpty DEF TransferInit, NamesIssued
<1>3. TransfersTrue
  BY <1>1 DEF TransferInit, TransfersTrue, DownloadsHaveContent, UploadedIsStored, OneOpenUpload
<1> QED  BY <1>1, <1>2, <1>3 DEF TransferInv

LEMMA NamesNext ==
    ASSUME NEW m, m = Len(transfers'), NamesIssued(m)', TransfersTrue'
    PROVE  TransferInv'
  BY DEF TransferInv, NamesIssued, Known

LEMMA TransferCounts ==
    ASSUME TransferInv
    PROVE  /\ Len(transfers) \in Nat /\ DOMAIN transfers = 1..Len(transfers)
           /\ transfers \in Seq(TransferRows) /\ TransfersTrue
           /\ remote \in [Artifact -> {"none", "registered", "uploaded"}]
  BY DEF TransferInv, TransfersTrue

\* Steps that touch none of it.
LEMMA QuietTransfers ==
    ASSUME TransferInv,
           UNCHANGED <<transfers, remote, stored, capability, outbox, puts, putCount>>
    PROVE  TransferInv'
<1>1. TransfersTrue'
  BY TransferCounts, RowsSame
<1>2. PICK m : m = Len(transfers')
  OBVIOUS
<1>3. NamesIssued(m)'
  BY <1>2 DEF TransferInv, NamesIssued, Known
<1> QED  BY <1>1, <1>2, <1>3, NamesNext

\* The link is lost, by whatever cause, and memory may be.
LEMMA LinkLost ==
    ASSUME TransferInv, Disconnect, puts' \subseteq puts, putCount' = putCount,
           capability' = capability \/ capability' = [a \in Artifact |-> 0],
           UNCHANGED <<transfers, remote, stored>>
    PROVE  TransferInv'
<1>1. TransfersTrue'
  BY TransferCounts, RowsSame
<1>2. PICK n \in Nat : n = Len(transfers)
  BY TransferCounts
<1>3. NamesIssued(n)
  BY <1>2 DEF TransferInv
<1>4. capability' \in [Artifact -> 0..n]
  BY <1>2, <1>3 DEF NamesIssued
<1>5. NamesIssued(n)'
  BY <1>3, <1>4, DisconnectNamed
<1> QED  BY <1>1, <1>2, <1>5, NamesNext

\* An upload's step that changes rows of its own capability only.
LEMMA PutChanged ==
    ASSUME TransferInv, NEW p \in puts, NEW q \in PutRow, q.transfer = p.transfer, Becomes(p, q),
           UNCHANGED <<outbox, capability, putCount>>,
           TransfersTrue', Len(transfers') = Len(transfers)
    PROVE  TransferInv'
<1>1. PICK n \in Nat : n = Len(transfers)
  BY TransferCounts
<1>2. NamesIssued(n)
  BY <1>1 DEF TransferInv
<1>3. NamesIssued(n)'
  BY <1>2, BecomesNamed
<1> QED  BY <1>1, <1>3, NamesNext

\* The Agent's reader takes a message.
LEMMA ReaderStep == TransferInv /\ (StartPut \/ ReadAck) => TransferInv'
<1> SUFFICES ASSUME TransferInv, StartPut \/ ReadAck PROVE TransferInv'
  OBVIOUS
<1>1. PICK n \in Nat : n = Len(transfers)
  BY TransferCounts
<1>2. NamesIssued(n) /\ Known(outbox, n) /\ outbox # <<>>
  BY <1>1 DEF TransferInv, NamesIssued, StartPut, ReadAck, Reading
<1>3. /\ Known(Tail(outbox), n)
      /\ Head(outbox).kind = "request" => Head(outbox).transfer \in 1..n
  BY <1>2, KnownTail
<1>4. outbox' = Tail(outbox) /\ UNCHANGED <<transfers, remote, stored, capability>>
  BY DEF StartPut, ReadAck
<1>5. Known(outbox', n)
  BY <1>3, <1>4
<1>6. puts' \subseteq PutRow /\ (\A p \in puts' : p.transfer \in 1..n) /\ putCount' \in Nat
  <2>1. CASE ReadAck
    BY <1>2, <2>1 DEF ReadAck, NamesIssued
  <2>2. CASE StartPut
    <3> DEFINE sent == [id |-> putCount + 1, transfer |-> Head(outbox).transfer, number |-> 0,
                        stage |-> "sent"]
    <3>1. Head(outbox).transfer \in 1..n /\ putCount \in Nat
      BY <1>2, <1>3, <2>2 DEF StartPut, Reading, Next1, NamesIssued
    <3>2. sent \in PutRow /\ sent.transfer \in 1..n
      BY <3>1 DEF PutRow
    <3>3. puts' = puts \cup {sent} /\ putCount' = putCount + 1
      BY <2>2 DEF StartPut, Next1
    <3> HIDE DEF sent
    <3> QED  BY <1>2, <3>1, <3>2, <3>3 DEF NamesIssued
  <2> QED  BY <2>1, <2>2
<1>7. NamesIssued(n)'
  BY <1>2, <1>4, <1>5, <1>6 DEF NamesIssued, Known
<1>8. TransfersTrue'
  BY <1>4, TransferCounts, RowsSame
<1> QED  BY <1>1, <1>4, <1>7, <1>8, NamesNext

\* An upload is asked for, or found to be asked for already.
LEMMA AskStep ==
    ASSUME TransferInv, NEW a \in Artifact,
           HandleArtifactCreated(a) \/ RejectArtifactCreated(a) \/ AskAgain(a)
    PROVE  TransferInv'
<1>1. /\ remote' \in [Artifact -> {"none", "registered", "uploaded"}]
      /\ \A x \in Artifact : remote'[x] = "uploaded" => remote[x] = "uploaded"
      /\ stored' = stored /\ puts' = puts /\ putCount' = putCount
  BY TransferCounts DEF HandleArtifactCreated, RejectArtifactCreated, AskAgain
<1>2. /\ TransfersTrue' /\ Len(transfers') >= Len(transfers)
      /\ capability' \in [Artifact -> 0..Len(transfers')]
      /\ capability'[a] \in 1..Len(transfers') \/ RejectArtifactCreated(a)
  <2>1. CASE Issue(a)
    BY <1>1, <2>1, IssueTrue
  <2>2. CASE ~Issue(a)
    <3>1. RejectArtifactCreated(a) /\ UNCHANGED <<remote, transfers, capability>>
      BY <2>2 DEF HandleArtifactCreated, RejectArtifactCreated, AskAgain
    <3>2. TransfersTrue'
      BY <1>1, <3>1, TransferCounts, RowsSame
    <3> QED  BY <3>1, <3>2, TransferCounts DEF TransferInv, NamesIssued
  <2> QED  BY <2>1, <2>2
<1>3. Len(transfers') \in Nat
  BY <1>2 DEF TransfersTrue
<1>4. PICK m \in Nat : m = Len(transfers')
  BY <1>3
<1>5. NamesIssued(m)
  BY <1>2, <1>3, <1>4, NamesGrow
<1>6. Known(outbox, m)
  BY <1>5 DEF NamesIssued
<1>7. Known(outbox', m)
  <2>1. CASE RejectArtifactCreated(a)
    <3>1. outbox' = <<>>
      BY <2>1 DEF RejectArtifactCreated, Disconnect
    <3> QED  BY <3>1, KnownEmpty
  <2>2. CASE ~RejectArtifactCreated(a)
    <3>1. PICK c : c = capability'[a]
      OBVIOUS
    <3>2. c \in 1..m
      BY <1>2, <1>4, <2>2, <3>1
    <3>3. /\ PutMessage(c) \in TransferMessage /\ PutMessage(c).transfer = c
          /\ AckMessage(a) \in TransferMessage /\ AckMessage(a).kind # "request"
      BY <3>2, MessagesTyped
    <3>4. Known(Append(outbox, AckMessage(a)), m)
      BY <1>6, <3>3, KnownAppend
    <3>5. Known(Append(outbox, PutMessage(c)), m)
      BY <1>6, <3>2, <3>3, KnownAppend
    <3>6. Known(Append(Append(outbox, PutMessage(c)), AckMessage(a)), m)
      BY <3>3, <3>5, KnownAppend
    <3>7. outbox \o <<PutMessage(c), AckMessage(a)>> = Append(Append(outbox, PutMessage(c)), AckMessage(a))
      BY <1>6, <3>3, AppendTwo DEF Known
    <3>8. outbox' \in {outbox, Append(outbox, AckMessage(a)), Append(outbox, PutMessage(c)),
                       outbox \o <<PutMessage(c), AckMessage(a)>>}
      BY <2>2, <3>1 DEF HandleArtifactCreated, AskAgain
    <3> QED  BY <1>6, <3>4, <3>5, <3>6, <3>7, <3>8
  <2> QED  BY <2>1, <2>2
<1>8. NamesIssued(m)'
  BY <1>1, <1>2, <1>4, <1>5, <1>7 DEF NamesIssued, Known
<1> QED  BY <1>2, <1>4, <1>8, NamesNext

\* A row changes, and with it at most the record of an upload.
LEMMA RowStep ==
    ASSUME TransferInv, NEW t \in 1..Len(transfers), TokenExpires(t) \/ Download(t)
    PROVE  TransferInv'
<1>1. /\ UNCHANGED <<remote, stored, capability, outbox, puts, putCount>>
      /\ stored \subseteq stored' /\ stored' \subseteq Artifact
  BY TransferCounts DEF TokenExpires, Download, agentVars, TransfersTrue
<1>2. Aged(transfers, transfers', stored)
  <2>1. CASE TokenExpires(t)
    <3>1. PICK rec \in TransferRows : rec = transfers[t]
      BY TransferCounts, RowTaken
    <3>2. /\ [rec EXCEPT !.late = TRUE] \in TransferRows
          /\ [rec EXCEPT !.late = TRUE].status = rec.status
          /\ [rec EXCEPT !.late = TRUE].artifact = rec.artifact
          /\ [rec EXCEPT !.late = TRUE].direction = rec.direction
      BY DEF TransferRows
    <3>3. transfers' = [transfers EXCEPT ![t] = [rec EXCEPT !.late = TRUE]]
      BY <2>1, <3>1 DEF TokenExpires
    <3> QED  BY <3>1, <3>2, <3>3, TransferCounts, OneRowAges
  <2>2. CASE Download(t) /\ ~Usable(t)
    <3>1. transfers' = Moved(transfers, t, Open, "EXPIRED")
      BY <2>2 DEF Download, Expire
    <3> QED  BY <3>1, TransferCounts, MovedAges DEF TransferStatus
  <2>3. CASE Download(t) /\ Usable(t)
    <3>1. PICK rows : rows = Moved(Counted(transfers, t), t, Open, "IN_PROGRESS")
      OBVIOUS
    <3>2. transfers' = Moved(rows, t, {"IN_PROGRESS"}, "COMPLETED") /\ transfers[t].artifact \in stored
      BY <2>3, <3>1, TransferCounts DEF Download, TransfersTrue, DownloadsHaveContent
    <3>3. Aged(transfers, rows, stored)
      BY <3>1, TransferCounts, AttemptAges DEF TransferStatus
    <3>4. rows \in Seq(TransferRows) /\ t \in 1..Len(rows) /\ rows[t].artifact = transfers[t].artifact
      BY <3>3 DEF Aged
    <3>5. Aged(rows, Moved(rows, t, {"IN_PROGRESS"}, "COMPLETED"), stored)
      BY <3>2, <3>4, MovedAges DEF TransferStatus, Open
    <3> QED  BY <3>2, <3>3, <3>5, TransferCounts, AgedTwice
  <2> QED  BY <2>1, <2>2, <2>3
<1>3. TransfersTrue' /\ Len(transfers') = Len(transfers)
  BY <1>1, <1>2, TransferCounts, RowsAge
<1>4. PICK n \in Nat : n = Len(transfers)
  BY TransferCounts
<1>5. NamesIssued(n)'
  BY <1>1, <1>4 DEF TransferInv, NamesIssued, Known
<1> QED  BY <1>3, <1>4, <1>5, NamesNext

LEMMA DownloadIssued ==
    ASSUME TransferInv, NEW a \in Artifact, IssueDownload(a)
    PROVE  TransferInv'
<1>1. UNCHANGED <<remote, stored, capability, outbox, puts, putCount>> /\ a \in stored
  BY DEF IssueDownload, agentVars
<1>2. Aged(transfers, transfers, stored)
  BY TransferCounts, NoRowAges
<1>3. PICK rows : rows = transfers
  OBVIOUS
<1>4. Aged(transfers, rows, stored) /\ transfers' = Append(rows, NewTransfer(a, "download"))
  BY <1>2, <1>3 DEF IssueDownload
<1>5. TransfersTrue' /\ Len(transfers') = Len(transfers) + 1
  BY <1>1, <1>4, TransferCounts, RowAdded DEF Direction
<1>6. PICK m \in Nat : m = Len(transfers')
  BY <1>5, TransferCounts
<1>7. NamesIssued(m)
  BY <1>5, <1>6, TransferCounts, NamesGrow
<1>8. NamesIssued(m)'
  BY <1>1, <1>7 DEF NamesIssued, Known
<1> QED  BY <1>5, <1>6, <1>8, NamesNext

\* The handler of an upload.
LEMMA UploadStep ==
    ASSUME TransferInv, NEW p \in puts,
           RefusePut(p) \/ RepeatPut(p) \/ BeginPut(p) \/ FinishPut(p) \/ FailPut(p)
    PROVE  TransferInv'
<1>1. PICK n \in Nat : n = Len(transfers)
  BY TransferCounts
<1>2. NamesIssued(n)
  BY <1>1 DEF TransferInv
<1>3. PICK t \in 1..n : t = p.transfer
  BY <1>2, PutsStep
<1>4. /\ transfers \in Seq(TransferRows) /\ t \in 1..Len(transfers) /\ TransfersTrue
      /\ transfers[t].artifact \in Artifact /\ transfers[t].count \in Nat
  <2>1. transfers \in Seq(TransferRows) /\ t \in 1..Len(transfers) /\ TransfersTrue
    BY <1>1, <1>3, TransferCounts
  <2>2. transfers[t] \in TransferRows
    BY <2>1, RowTaken
  <2> QED  BY <2>1, <2>2 DEF TransferRows
<1>5. UNCHANGED <<outbox, capability, putCount>>
  BY DEF RefusePut, RepeatPut, BeginPut, FinishPut, FailPut, agentVars
<1>6. PICK q \in PutRow : q.transfer = p.transfer /\ Becomes(p, q)
  <2>1. PICK stage \in {"sent", "writing", "ok", "error"}, number \in Nat :
           \/ Becomes(p, [p EXCEPT !.stage = stage])
           \/ Becomes(p, [p EXCEPT !.stage = stage, !.number = number])
    <3>1. CASE RefusePut(p) \/ RepeatPut(p) \/ FinishPut(p) \/ FailPut(p)
      BY <3>1 DEF RefusePut, RepeatPut, FinishPut, FailPut
    <3>2. CASE BeginPut(p)
      <4>1. transfers[t].count + 1 \in Nat
        BY <1>4
      <4> QED  BY <1>3, <3>2, <4>1 DEF BeginPut
    <3> QED  BY <3>1, <3>2
  <2>2. PICK q : (q = [p EXCEPT !.stage = stage] \/ q = [p EXCEPT !.stage = stage, !.number = number])
               /\ Becomes(p, q)
    BY <2>1
  <2>3. /\ [p EXCEPT !.stage = stage] \in PutRow /\ [p EXCEPT !.stage = stage].transfer = p.transfer
        /\ [p EXCEPT !.stage = stage, !.number = number] \in PutRow
        /\ [p EXCEPT !.stage = stage, !.number = number].transfer = p.transfer
    <3>1. p \in PutRow
      BY <1>2, PutsStep
    <3> QED  BY <3>1 DEF PutRow
  <2>4. q \in PutRow /\ q.transfer = p.transfer
    BY <2>2, <2>3
  <2> QED  BY <2>2, <2>4
<1>7. /\ Aged(transfers, transfers', stored') /\ stored \subseteq stored' /\ stored' \subseteq Artifact
      /\ remote' \in [Artifact -> {"none", "registered", "uploaded"}]
      /\ \A a \in Artifact : remote'[a] = "uploaded" => remote[a] = "uploaded" \/ a \in stored'
  <2>1. stored \subseteq Artifact /\ remote \in [Artifact -> {"none", "registered", "uploaded"}]
    BY <1>4 DEF TransfersTrue
  <2>2. CASE RefusePut(p)
    <3>1. transfers' = Moved(transfers, t, Open, "EXPIRED") /\ UNCHANGED <<stored, remote>>
      BY <1>3, <2>2 DEF RefusePut, Expire
    <3>2. Aged(transfers, transfers', stored')
      BY <1>4, <3>1, MovedAges DEF TransferStatus
    <3> QED  BY <2>1, <3>1, <3>2
  <2>3. CASE RepeatPut(p)
    <3>1. UNCHANGED <<transfers, stored, remote>>
      BY <2>3 DEF RepeatPut
    <3>2. Aged(transfers, transfers', stored')
      BY <1>4, <3>1, NoRowAges
    <3> QED  BY <2>1, <3>1, <3>2
  <2>4. CASE BeginPut(p)
    <3>1. transfers' = Moved(transfers, t, Open, "IN_PROGRESS") /\ UNCHANGED <<stored, remote>>
      BY <1>3, <2>4 DEF BeginPut
    <3>2. Aged(transfers, transfers', stored')
      BY <1>4, <3>1, MovedAges DEF TransferStatus
    <3> QED  BY <2>1, <3>1, <3>2
  <2>5. CASE FinishPut(p)
    <3>1. /\ stored' = stored \cup {transfers[t].artifact}
          /\ transfers' \in {transfers, Moved(Counted(transfers, t), t, {"IN_PROGRESS"}, "COMPLETED")}
          /\ remote' \in {remote, [remote EXCEPT ![transfers[t].artifact] = "uploaded"]}
      BY <1>3, <2>5 DEF FinishPut, Completed
    <3>2. transfers[t].artifact \in stored'
      BY <3>1
    <3>3. Aged(transfers, Moved(Counted(transfers, t), t, {"IN_PROGRESS"}, "COMPLETED"), stored')
      BY <1>4, <3>2, AttemptAges DEF TransferStatus, Open
    <3>4. Aged(transfers, transfers, stored')
      BY <1>4, NoRowAges
    <3>5. Aged(transfers, transfers', stored')
      BY <3>1, <3>3, <3>4
    <3>6. \A a \in Artifact : remote'[a] = "uploaded" => remote[a] = "uploaded" \/ a \in stored'
      BY <1>4, <2>1, <3>1
    <3>7. remote' \in [Artifact -> {"none", "registered", "uploaded"}] /\ stored' \subseteq Artifact
      BY <1>4, <2>1, <3>1
    <3> QED  BY <3>1, <3>5, <3>6, <3>7
  <2>6. CASE FailPut(p)
    <3>1. /\ transfers' \in {transfers, Moved(Counted(transfers, t), t, {"IN_PROGRESS"}, "FAILED")}
          /\ UNCHANGED <<stored, remote>>
      BY <1>3, <2>6 DEF FailPut
    <3>2. Aged(transfers, Moved(Counted(transfers, t), t, {"IN_PROGRESS"}, "FAILED"), stored')
      BY <1>4, AttemptAges DEF TransferStatus, Open
    <3>3. Aged(transfers, transfers, stored')
      BY <1>4, NoRowAges
    <3>4. Aged(transfers, transfers', stored')
      BY <3>1, <3>2, <3>3
    <3> QED  BY <2>1, <3>1, <3>4
  <2> QED  BY <2>2, <2>3, <2>4, <2>5, <2>6
<1>8. TransfersTrue' /\ Len(transfers') = Len(transfers)
  BY <1>4, <1>7, RowsAge
<1> QED  BY <1>5, <1>6, <1>8, PutChanged

LEMMA CompletedThenDied ==
    ASSUME TransferInv, NEW p \in puts, CrashBeforeMark(p)
    PROVE  TransferInv'
<1>1. PICK n \in Nat : n = Len(transfers)
  BY TransferCounts
<1>2. NamesIssued(n)
  BY <1>1 DEF TransferInv
<1>3. PICK t \in 1..n : t = p.transfer
  BY <1>2, PutsStep
<1>4. /\ transfers \in Seq(TransferRows) /\ t \in 1..Len(transfers) /\ TransfersTrue
      /\ transfers[t] \in TransferRows
  BY <1>1, <1>3, TransferCounts, RowTaken
<1>5. /\ stored' = stored \cup {transfers[t].artifact} /\ remote' = remote
      /\ transfers' = Moved(Counted(transfers, t), t, {"IN_PROGRESS"}, "COMPLETED")
      /\ Forgets /\ putCount' = putCount
  BY <1>3 DEF CrashBeforeMark, Completed
<1>6. transfers[t].artifact \in stored' /\ stored' \subseteq Artifact
  BY <1>4, <1>5 DEF TransfersTrue, TransferRows
<1>7. Aged(transfers, transfers', stored')
  BY <1>4, <1>5, <1>6, AttemptAges DEF TransferStatus, Open
<1>8. TransfersTrue' /\ Len(transfers') = Len(transfers)
  BY <1>4, <1>5, <1>6, <1>7, RowsAge DEF TransfersTrue, UploadedIsStored
<1>9. NamesIssued(n)'
  BY <1>2, <1>5, DisconnectNamed DEF Forgets
<1> QED  BY <1>1, <1>8, <1>9, NamesNext

LEMMA TransferInvNext == TransferInv /\ [TransferNext]_transferVars => TransferInv'
<1> SUFFICES ASSUME TransferInv, [TransferNext]_transferVars PROVE TransferInv'
  OBVIOUS
<1>1. CASE UNCHANGED transferVars
  BY <1>1, QuietTransfers DEF transferVars
<1>2. CASE Connect
  BY <1>2, QuietTransfers DEF Connect
<1>3. CASE DropLink \/ RefuseRequest \/ CrashControlPlane
  BY <1>3, LinkLost DEF DropLink, RefuseRequest, CrashControlPlane, Forgets
<1>4. CASE StartPut \/ ReadAck
  BY <1>4, ReaderStep
<1>5. ASSUME NEW a \in Artifact, Publish(a) \/ GiveUp(a) \/ CoolDown(a) PROVE TransferInv'
  BY <1>5, QuietTransfers DEF Publish, GiveUp, CoolDown
<1>6. ASSUME NEW a \in Artifact, HandleArtifactCreated(a) \/ RejectArtifactCreated(a) \/ AskAgain(a)
      PROVE  TransferInv'
  BY <1>6, AskStep
<1>7. ASSUME NEW a \in Artifact, IssueDownload(a) PROVE TransferInv'
  BY <1>7, DownloadIssued
<1>8. ASSUME NEW t \in 1..MaxTransfers, TokenExpires(t) \/ Download(t) PROVE TransferInv'
  <2>1. t \in 1..Len(transfers)
    BY <1>8, TransferCounts DEF TokenExpires, Download
  <2> QED  BY <1>8, <2>1, RowStep
<1>9. ASSUME NEW p \in puts, HearAnswer(p) \/ LoseAnswer(p) PROVE TransferInv'
  <2>1. /\ puts' \subseteq puts /\ UNCHANGED <<transfers, remote, stored, capability, putCount>>
        /\ Disconnect \/ outbox' = outbox
    BY <1>9 DEF HearAnswer, LoseAnswer, Answered
  <2>2. CASE Disconnect
    BY <2>1, <2>2, LinkLost
  <2>3. CASE outbox' = outbox
    <3>1. TransfersTrue'
      BY <2>1, TransferCounts, RowsSame
    <3>2. PICK n \in Nat : n = Len(transfers)
      BY TransferCounts
    <3>3. NamesIssued(n)'
      BY <2>1, <2>3, <3>2 DEF TransferInv, NamesIssued, Known
    <3> QED  BY <2>1, <3>1, <3>2, <3>3, NamesNext
  <2> QED  BY <2>1, <2>2, <2>3
<1>10. ASSUME NEW p \in puts,
              RefusePut(p) \/ RepeatPut(p) \/ BeginPut(p) \/ FinishPut(p) \/ FailPut(p)
       PROVE  TransferInv'
  BY <1>10, UploadStep
<1>11. ASSUME NEW p \in puts, CrashBeforeMark(p) PROVE TransferInv'
  BY <1>11, CompletedThenDied
<1> QED
  BY <1>1, <1>2, <1>3, <1>4, <1>5, <1>6, <1>7, <1>8, <1>9, <1>10, <1>11 DEF TransferNext

LEMMA TransfersSoundAlways == TransferSpec => [](UploadedIsStored /\ OneOpenUpload)
<1>1. TransferInv => UploadedIsStored /\ OneOpenUpload
  BY DEF TransferInv, TransfersTrue
<1> QED  BY <1>1, TransferInvInit, TransferInvNext, PTL DEF TransferSpec

-----------------------------------------------------------------------------
(* Artifacts and retention. *)

BusyRow == [stage : {"deleting", "marking"}, artifact : Upload, token : Nat]

RetentionTypes ==
    /\ site \in {"control_plane", "agent"}
    /\ request \in [Upload -> {"new", "storing", "copying", "done", "failed"}]
    /\ answer \in [Upload -> Upload \cup {None}]
    /\ row \in [Upload -> RowState]
    /\ object \subseteq Upload /\ removed \subseteq Upload /\ removing \subseteq removed
    /\ ownerActive \in BOOLEAN
    /\ claims \in [Upload -> Nat]
    /\ worker \in [Worker -> {Idle} \cup BusyRow]
    /\ tombstones \in [Upload -> Nat]

\* A request that has not stored anything has no row; the key has one row.
OneRowPerKey ==
    /\ \A u \in Upload : request[u] \in {"new", "storing"} => row[u] = None
    /\ \A u, v \in Upload : row[u] # None /\ row[v] # None => u = v

\* Whatever a worker deletes was claimed, and never becomes active again; what
\* it marks is gone.  Nothing is claimed while the owner is active.
ClaimsHold ==
    /\ \A w \in Worker : worker[w] # Idle =>
          /\ row[worker[w].artifact] \in {"pending_deletion", "tombstoned"}
          /\ worker[w].stage = "marking" => worker[w].artifact \notin object
    /\ ownerActive => /\ \A w \in Worker : worker[w] = Idle
                      /\ \A u \in Upload : row[u] \in {None, "active"}

\* An answer names an artifact whose row is still there, or was removed.
AnswersListed ==
    \A u \in Upload : request[u] \in {"copying", "done"} =>
        /\ answer[u] \in Upload
        /\ row[answer[u]] # None \/ answer[u] \in removed

RetentionInv == RetentionTypes /\ OneRowPerKey /\ ClaimsHold /\ AnswersListed
                /\ ListedHasContent /\ TombstonedOnce

LEMMA RetentionInvInit == RetentionInit => RetentionInv
<1> SUFFICES ASSUME RetentionInit PROVE RetentionInv
  OBVIOUS
<1> USE DEF RetentionInit
<1>1. RetentionTypes
  BY DEF RetentionTypes, RowState
<1>2. OneRowPerKey /\ ClaimsHold /\ AnswersListed
  BY DEF OneRowPerKey, ClaimsHold, AnswersListed
<1>3. ListedHasContent /\ TombstonedOnce
  BY DEF ListedHasContent, TombstonedOnce, None
<1> QED  BY <1>1, <1>2, <1>3 DEF RetentionInv

LEMMA WorkersTyped ==
    ASSUME RetentionTypes, NEW w \in Worker
    PROVE  /\ worker[w] \in {Idle} \cup BusyRow
           /\ worker[w] = Idle <=> worker[w].stage = "idle"
           /\ worker[w].stage \in {"deleting", "marking"} => worker[w] \in BusyRow /\ worker[w] # Idle
  BY DEF RetentionTypes, Idle, BusyRow

\* An upload begins, ends or dies.
LEMMA UploadsStep ==
    ASSUME RetentionInv, NEW u \in Upload,
           StartUpload(u) \/ StoreUpload(u) \/ FailUpload(u) \/ CrashUpload(u) \/ CopyUpload(u)
    PROVE  RetentionInv'
<1> USE DEF RetentionInv
<1>1. /\ UNCHANGED <<site, ownerActive, claims, worker, removing, tombstones>>
      /\ request[u] \in {"new", "storing", "copying"} /\ request' \in [Upload -> {"new", "storing", "copying", "done", "failed"}]
      /\ \A v \in Upload : v # u => request'[v] = request[v] /\ answer'[v] = answer[v]
      /\ request'[u] = "storing" => request[u] = "new" /\ row' = row
      /\ request'[u] # "new"
  BY DEF StartUpload, StoreUpload, FailUpload, CrashUpload, CopyUpload, Stored, RetentionTypes
<1>2. row[u] = None \/ UNCHANGED <<row, object, removed>>
  <2>1. CASE request[u] = "storing"
    BY <2>1 DEF OneRowPerKey
  <2>2. CASE StartUpload(u) \/ CopyUpload(u)
    BY <2>2 DEF StartUpload, CopyUpload
  <2> QED  BY <2>1, <2>2 DEF StoreUpload, FailUpload, CrashUpload
<1>3. \/ UNCHANGED <<row, object, removed>>
      \/ /\ row[u] = None /\ row' = row
         /\ object' = object \cup {u} /\ removed' = removed \cup {u}
      \/ /\ \A v \in Upload : row[v] = None
         /\ row' = [row EXCEPT ![u] = "active"] /\ object' = object \cup {u} /\ removed' = removed
  BY <1>2 DEF StartUpload, StoreUpload, FailUpload, CrashUpload, CopyUpload, Saved, Kept, KeyTaken,
              RetentionTypes, None
<1>4. /\ row' \in [Upload -> RowState] /\ object' \subseteq Upload
      /\ removed' \subseteq Upload /\ removed \subseteq removed'
      /\ \A v \in Upload : row'[v] = row[v] \/ (row[v] = None /\ v = u /\ row'[v] = "active")
  BY <1>3 DEF RetentionTypes, RowState
<1>5. /\ answer' \in [Upload -> Upload \cup {None}]
      /\ request'[u] \in {"copying", "done"} =>
            answer'[u] \in Upload /\ (row'[answer'[u]] # None \/ answer'[u] \in removed')
  <2>1. CASE CopyUpload(u)
    BY <2>1 DEF CopyUpload, AnswersListed, RetentionTypes
  <2>2. CASE FailUpload(u) \/ CrashUpload(u)
    BY <2>2 DEF FailUpload, CrashUpload, RetentionTypes
  <2>3. CASE StartUpload(u)
    BY <2>3 DEF StartUpload, Active, RetentionTypes, None
  <2>4. CASE StoreUpload(u)
    <3>1. CASE Saved(u)[u] = "active"
      BY <2>4, <3>1 DEF StoreUpload, RetentionTypes, None
    <3>2. CASE Saved(u)[u] # "active" /\ Active # {}
      BY <2>4, <3>2, <1>4 DEF StoreUpload, Active, RetentionTypes, None
    <3>3. CASE Saved(u)[u] # "active" /\ Active = {}
      BY <2>4, <3>3 DEF StoreUpload, RetentionTypes
    <3> QED  BY <3>1, <3>2, <3>3
  <2> QED  BY <2>1, <2>2, <2>3, <2>4
<1>6. RetentionTypes'
  BY <1>1, <1>4, <1>5 DEF RetentionTypes
<1>7. OneRowPerKey'
  BY <1>1, <1>3 DEF OneRowPerKey, RetentionTypes
<1>8. ClaimsHold'
  <2>1. \A w \in Worker : worker[w] # Idle =>
          /\ row'[worker[w].artifact] \in {"pending_deletion", "tombstoned"}
          /\ worker[w].stage = "marking" => worker[w].artifact \notin object'
    <3> SUFFICES ASSUME NEW w \in Worker, worker[w] # Idle
                 PROVE  /\ row'[worker[w].artifact] \in {"pending_deletion", "tombstoned"}
                        /\ worker[w].stage = "marking" => worker[w].artifact \notin object'
      OBVIOUS
    <3>1. /\ worker[w].artifact \in Upload
          /\ row[worker[w].artifact] \in {"pending_deletion", "tombstoned"}
          /\ worker[w].stage = "marking" => worker[w].artifact \notin object
      BY WorkersTyped DEF ClaimsHold, BusyRow
    <3> QED  BY <1>3, <1>4, <3>1 DEF None
  <2>2. ownerActive => \A v \in Upload : row'[v] \in {None, "active"}
    BY <1>4 DEF ClaimsHold
  <2> QED  BY <1>1, <2>1, <2>2 DEF ClaimsHold
<1>9. AnswersListed'
  BY <1>1, <1>4, <1>5 DEF AnswersListed, None
<1>10. ListedHasContent' /\ TombstonedOnce'
  BY <1>1, <1>3, <1>4 DEF ListedHasContent, TombstonedOnce, None, RetentionTypes
<1> QED  BY <1>6, <1>7, <1>8, <1>9, <1>10

\* A claim.
LEMMA ClaimStep ==
    ASSUME RetentionInv, NEW w \in Worker, NEW u \in Upload, ClaimDue(w, u)
    PROVE  RetentionInv'
<1> USE DEF RetentionInv
<1>1. /\ row' = [row EXCEPT ![u] = "pending_deletion"] /\ row[u] \in {"active", "pending_deletion"}
      /\ ownerActive = FALSE /\ ownerActive' = FALSE
      /\ UNCHANGED <<site, request, answer, object, removing, removed, tombstones>>
  BY DEF ClaimDue, ArtifactDue, RetentionTypes
<1> DEFINE busy == Busy("deleting", u, claims[u] + 1)
<1>2. busy \in BusyRow /\ busy # Idle /\ busy.artifact = u /\ busy.stage = "deleting"
  BY DEF Busy, BusyRow, Idle, RetentionTypes
<1>3. worker' = [worker EXCEPT ![w] = busy] /\ claims' = [claims EXCEPT ![u] = claims[u] + 1]
  BY DEF ClaimDue
<1> HIDE DEF busy
<1>4. RetentionTypes'
  <2>1. claims' \in [Upload -> Nat] /\ worker' \in [Worker -> {Idle} \cup BusyRow]
    BY <1>2, <1>3 DEF RetentionTypes
  <2>2. row' \in [Upload -> RowState]
    BY <1>1 DEF RetentionTypes, RowState
  <2> QED  BY <1>1, <2>1, <2>2 DEF RetentionTypes
<1>5. OneRowPerKey' /\ AnswersListed'
  BY <1>1 DEF OneRowPerKey, AnswersListed, RetentionTypes, None
<1>6. ClaimsHold'
  BY <1>1, <1>2, <1>3, WorkersTyped DEF ClaimsHold, RetentionTypes, BusyRow
<1>7. ListedHasContent' /\ TombstonedOnce'
  BY <1>1 DEF ListedHasContent, TombstonedOnce, RetentionTypes, None
<1> QED  BY <1>4, <1>5, <1>6, <1>7

\* A worker deletes the content, marks the row, fails or dies.
LEMMA WorkerStep ==
    ASSUME RetentionInv, NEW w \in Worker,
           DeleteObject(w) \/ MarkTombstoned(w) \/ MarkFailed(w) \/ CrashWorker(w)
    PROVE  RetentionInv'
<1> USE DEF RetentionInv
<1>1. PICK x : x = worker[w].artifact
  OBVIOUS
<1>2. /\ worker[w] \in BusyRow /\ x \in Upload
      /\ row[x] \in {"pending_deletion", "tombstoned"}
      /\ worker[w].stage = "marking" => x \notin object
      /\ ~ownerActive
  <2>1. worker[w] # Idle
    BY WorkersTyped DEF DeleteObject, MarkTombstoned, MarkFailed, CrashWorker
  <2> QED  BY <1>1, <2>1, WorkersTyped DEF ClaimsHold, BusyRow
<1>3. /\ UNCHANGED <<site, request, answer, ownerActive, claims, removing, removed>>
      /\ object' \subseteq object /\ \A v \in Upload : v # x /\ v \in object => v \in object'
  BY <1>1 DEF DeleteObject, MarkTombstoned, MarkFailed, CrashWorker
<1>4. /\ worker' \in [Worker -> {Idle} \cup BusyRow]
      /\ \A v \in Worker : v # w => worker'[v] = worker[v]
      /\ worker'[w] = Idle \/ /\ worker'[w].artifact = x /\ x \notin object'
  <2>1. CASE DeleteObject(w)
    <3>1. [worker[w] EXCEPT !.stage = "marking"] \in BusyRow
          /\ [worker[w] EXCEPT !.stage = "marking"].artifact = x
      BY <1>1, <1>2 DEF BusyRow
    <3>2. worker' = [worker EXCEPT ![w] = [worker[w] EXCEPT !.stage = "marking"]] /\ object' = object \ {x}
      BY <1>1, <2>1 DEF DeleteObject
    <3> QED  BY <3>1, <3>2 DEF RetentionTypes
  <2>2. CASE MarkTombstoned(w) \/ MarkFailed(w) \/ CrashWorker(w)
    BY <2>2 DEF MarkTombstoned, MarkFailed, CrashWorker, RetentionTypes
  <2> QED  BY <2>1, <2>2
<1>5. \/ UNCHANGED <<row, tombstones>>
      \/ /\ row[x] = "pending_deletion" /\ x \notin object'
         /\ row' = [row EXCEPT ![x] = "tombstoned"]
         /\ tombstones' = [tombstones EXCEPT ![x] = tombstones[x] + 1]
  BY <1>1, <1>2 DEF DeleteObject, MarkTombstoned, MarkFailed, CrashWorker, Holds
<1>6. RetentionTypes'
  BY <1>2, <1>3, <1>4, <1>5 DEF RetentionTypes, RowState
<1>7. OneRowPerKey' /\ AnswersListed'
  BY <1>2, <1>3, <1>5 DEF OneRowPerKey, AnswersListed, RetentionTypes, None
<1>8. ClaimsHold'
  BY <1>2, <1>3, <1>4, <1>5, WorkersTyped DEF ClaimsHold, RetentionTypes, BusyRow
<1>9. ListedHasContent' /\ TombstonedOnce'
  BY <1>2, <1>3, <1>5 DEF ListedHasContent, TombstonedOnce, RetentionTypes, None
<1> QED  BY <1>6, <1>7, <1>8, <1>9

\* The removal by a user, and the sweep of an Agent.
LEMMA RemovalStep ==
    ASSUME RetentionInv, NEW u \in Upload,
           DeleteArtifact(u) \/ ExpireDue(u) \/ DeleteRow(u) \/ CrashRemoval(u)
    PROVE  RetentionInv'
<1> USE DEF RetentionInv
<1>1. /\ UNCHANGED <<site, request, answer, ownerActive, claims, worker, tombstones>>
      /\ object' \subseteq object /\ removed \subseteq removed' /\ removed' \subseteq Upload
      /\ removing' \subseteq removed' /\ \A v \in object : v \in object' \/ v \in removed'
  BY DEF DeleteArtifact, ExpireDue, RemoveContent, DeleteRow, CrashRemoval, RetentionTypes
<1>2. row' = row \/ (u \in removed /\ row[u] = "active" /\ row' = [row EXCEPT ![u] = None])
  BY DEF DeleteArtifact, ExpireDue, RemoveContent, DeleteRow, CrashRemoval, RetentionTypes
<1>3. RetentionTypes'
  BY <1>1, <1>2 DEF RetentionTypes, RowState
<1>4. OneRowPerKey' /\ AnswersListed'
  BY <1>1, <1>2 DEF OneRowPerKey, AnswersListed, RetentionTypes
<1>5. ClaimsHold'
  BY <1>1, <1>2, WorkersTyped DEF ClaimsHold, RetentionTypes, BusyRow
<1>6. ListedHasContent' /\ TombstonedOnce'
  BY <1>1, <1>2 DEF ListedHasContent, TombstonedOnce, RetentionTypes, None
<1> QED  BY <1>3, <1>4, <1>5, <1>6

LEMMA RetentionInvNext == RetentionInv /\ [RetentionNext]_retentionVars => RetentionInv'
<1> SUFFICES ASSUME RetentionInv, [RetentionNext]_retentionVars PROVE RetentionInv'
  OBVIOUS
<1>1. ASSUME /\ UNCHANGED <<site, request, answer, row, object, claims, worker, removing, removed, tombstones>>
             /\ ownerActive' \in {FALSE, ownerActive}
      PROVE  RetentionInv'
  <2> USE <1>1 DEF RetentionInv
  <2>1. RetentionTypes'
    BY DEF RetentionTypes
  <2>2. OneRowPerKey' /\ AnswersListed'
    BY DEF OneRowPerKey, AnswersListed
  <2>3. ClaimsHold'
    <3>1. ownerActive' => ownerActive
      BY DEF RetentionTypes
    <3> QED  BY <3>1 DEF ClaimsHold
  <2>4. ListedHasContent' /\ TombstonedOnce'
    BY DEF ListedHasContent, TombstonedOnce
  <2> QED  BY <2>1, <2>2, <2>3, <2>4
<1>2. CASE UNCHANGED retentionVars
  BY <1>1, <1>2 DEF retentionVars
<1>3. CASE OwnerEnds \/ \E u \in Upload : Expires(u) \/ ClaimAges(u)
  BY <1>1, <1>3 DEF OwnerEnds, Expires, ClaimAges
<1>4. CASE \E u \in Upload : StartUpload(u) \/ StoreUpload(u) \/ FailUpload(u) \/ CrashUpload(u)
                             \/ CopyUpload(u)
  BY <1>4, UploadsStep
<1>5. CASE \E u \in Upload : DeleteArtifact(u) \/ ExpireDue(u) \/ DeleteRow(u) \/ CrashRemoval(u)
  BY <1>5, RemovalStep
<1>6. CASE \E w \in Worker : DeleteObject(w) \/ MarkTombstoned(w) \/ MarkFailed(w) \/ CrashWorker(w)
  BY <1>6, WorkerStep
<1>7. CASE \E w \in Worker, u \in Upload : ClaimDue(w, u)
  BY <1>7, ClaimStep
<1> QED  BY <1>2, <1>3, <1>4, <1>5, <1>6, <1>7 DEF RetentionNext

\* The three promises of the artifact service, and the tombstones.
LEMMA RetentionSoundAlways == RetentionSpec => [](ArtifactsKept /\ TombstonedOnce)
<1>1. RetentionInv => ArtifactsKept /\ TombstonedOnce
  <2> SUFFICES ASSUME RetentionInv PROVE ArtifactsKept /\ TombstonedOnce
    OBVIOUS
  <2>1. OwnerKeepsContent
    BY DEF OwnerKeepsContent, RetentionInv, ClaimsHold, ListedHasContent, None
  <2>2. OneArtifactPerKey
    BY DEF OneArtifactPerKey, RetentionInv, AnswersListed, OneRowPerKey
  <2> QED  BY <2>1, <2>2 DEF ArtifactsKept, RetentionInv
<1> QED  BY <1>1, RetentionInvInit, RetentionInvNext, PTL DEF RetentionSpec

\* Every row an Agent or the store marks uploaded has its content, an artifact
\* has one open upload, nothing active work refers to is deleted, and an object
\* that goes is tombstoned once, whatever the retries and the workers' order.
THEOREM ArtifactsSoundAlways == TransferSpec /\ RetentionSpec => []ArtifactsSound
<1>1. UploadedIsStored /\ OneOpenUpload /\ ArtifactsKept /\ TombstonedOnce => ArtifactsSound
  BY DEF ArtifactsSound
<1> QED  BY <1>1, TransfersSoundAlways, RetentionSoundAlways, PTL

-----------------------------------------------------------------------------
\* A set of numbers has a least one.
LEMMA LeastNumber ==
    ASSUME NEW T \in SUBSET Nat, T # {}
    PROVE  \E x \in T : \A y \in T : x <= y
<1> DEFINE R == OpToRel(<, Nat)
<1>1. IsWellFoundedOn(R, Nat)
  BY Zenon, NatLessThanWellFounded
<1>2. \A x, y \in Nat : x < y => <<x, y>> \in R
  BY DEF OpToRel
<1> HIDE DEF R
<1>3. PICK x \in T : \A y \in T : <<y, x>> \notin R
  BY <1>1, WFMin
<1>4. \A y \in T : ~(y < x) /\ y \in Nat /\ x \in Nat
  BY <1>2, <1>3
<1> QED  BY <1>4

-----------------------------------------------------------------------------
(* Timed reservations. *)

BookRow == [status : {"none", "over"} \cup LiveStatus, starts : Nat, ends : Nat]

EntryRow == [status : {"none", "waiting", "promoted", "cancelled"}, duration : 0..MaxDuration]

Apart(a, b) == a.starts >= b.ends \/ a.ends <= b.starts

\* One owner, and live intervals that are proper and disjoint.
BookSound(rows) ==
    /\ rows \in [Request -> BookRow]
    /\ \A id \in Request : rows[id].status \in LiveStatus => rows[id].ends > rows[id].starts
    /\ \A a, b \in Request : rows[a].status \in OwnerStatus /\ rows[b].status \in OwnerStatus => a = b
    /\ \A a, b \in Request : rows[a].status \in LiveStatus /\ rows[b].status \in LiveStatus /\ a # b
          => Apart(rows[a], rows[b])

\* What follows a table without adding to it.
Shrunk(rows, new) ==
    /\ new \in [Request -> BookRow]
    /\ \A id \in Request :
          /\ new[id].status \in LiveStatus => /\ rows[id].status \in LiveStatus
                                              /\ new[id].starts = rows[id].starts
                                              /\ new[id].ends = rows[id].ends
          /\ new[id].status \in OwnerStatus => rows[id].status \in OwnerStatus

LEMMA ShrunkSound ==
    ASSUME NEW rows, BookSound(rows), NEW new, Shrunk(rows, new)
    PROVE  BookSound(new)
  BY DEF BookSound, Shrunk, Apart

LEMMA ShrunkTwice ==
    ASSUME NEW rows, NEW between, NEW new, Shrunk(rows, between), Shrunk(between, new)
    PROVE  Shrunk(rows, new)
  BY DEF Shrunk

\* One row is written, apart from all live ones.
LEMMA RowWrittenSound ==
    ASSUME NEW rows, BookSound(rows), NEW q \in Request, NEW rec \in BookRow,
           rec.status \in LiveStatus => rec.ends > rec.starts,
           rec.status \in OwnerStatus => \A id \in Request : id # q => rows[id].status \notin OwnerStatus,
           rec.status \in LiveStatus => \A id \in Request :
               id # q /\ rows[id].status \in LiveStatus => Apart(rec, rows[id])
    PROVE  BookSound([rows EXCEPT ![q] = rec])
<1> DEFINE new == [rows EXCEPT ![q] = rec]
<1>1. /\ new \in [Request -> BookRow] /\ new[q] = rec
      /\ \A id \in Request : id # q => new[id] = rows[id]
  BY DEF BookSound
<1> HIDE DEF new
<1>2. \A id \in Request : new[id].status \in LiveStatus => new[id].ends > new[id].starts
  BY <1>1 DEF BookSound
<1>3. \A a, b \in Request : new[a].status \in OwnerStatus /\ new[b].status \in OwnerStatus => a = b
  BY <1>1 DEF BookSound
<1>4. ASSUME NEW a \in Request, NEW b \in Request, new[a].status \in LiveStatus,
             new[b].status \in LiveStatus, a # b
      PROVE  Apart(new[a], new[b])
  <2>1. rec \in BookRow /\ rows[a] \in BookRow /\ rows[b] \in BookRow
    BY DEF BookSound
  <2>2. CASE a = q
    BY <1>1, <1>4, <2>2
  <2>3. CASE b = q
    <3>1. Apart(rec, rows[a])
      BY <1>1, <1>4, <2>3
    <3> QED  BY <1>1, <1>4, <2>1, <2>3, <3>1 DEF Apart, BookRow
  <2>4. CASE a # q /\ b # q
    BY <1>1, <1>4, <2>4 DEF BookSound
  <2> QED  BY <2>2, <2>3, <2>4
<1>5. BookSound(new)
  BY <1>1, <1>2, <1>3, <1>4 DEF BookSound
<1> QED  BY <1>5 DEF new

\* Nothing of the table overlaps an interval.
LEMMA ApartFrom ==
    ASSUME BookSound(book), NEW starts \in Nat, NEW ends \in Nat, NEW without,
           Overlapping(starts, ends, without) = {}, NEW rec \in BookRow,
           rec.starts = starts, rec.ends = ends
    PROVE  \A id \in Request : id \notin without /\ book[id].status \in LiveStatus => Apart(rec, book[id])
<1> SUFFICES ASSUME NEW id \in Request, id \notin without, book[id].status \in LiveStatus
             PROVE  Apart(rec, book[id])
  OBVIOUS
<1>1. book[id].starts \in Nat /\ book[id].ends \in Nat
  BY DEF BookSound, BookRow
<1>2. ~(book[id].starts < ends /\ book[id].ends > starts)
  BY DEF Overlapping
<1> QED  BY <1>1, <1>2 DEF Apart

-----------------------------------------------------------------------------
(* The queue. *)

\* Every row of the queue is one entry's, in the order of arrival.
QueueSound ==
    /\ queue \in Seq(Request)
    /\ entry \in [Request -> EntryRow]
    /\ \A q \in Request : entry[q].status = "waiting" => entry[q].duration > 0
    /\ \A i \in 1..Len(queue) : entry[queue[i]].status # "none"
    /\ \A i, j \in 1..Len(queue) : queue[i] = queue[j] => i = j
    /\ FirstComeFirstServed

\* enqueue of a key that has no entry yet.
LEMMA EnqueueSound ==
    ASSUME QueueSound, NEW q \in Request, NEW d \in Duration, Unused(q), EnqueueRow(q, d)
    PROVE  QueueSound'
<1>0. PICK n : n = Len(queue)
  OBVIOUS
<1>1. n \in Nat /\ entry[q].status = "none"
  BY <1>0 DEF QueueSound, Unused, NoEntry
<1>2. /\ queue' \in Seq(Request) /\ Len(queue') = n + 1
      /\ \A i \in 1..n : queue'[i] = queue[i] /\ queue'[n + 1] = q
  BY <1>0, AppendProperties DEF QueueSound, EnqueueRow
<1>3. [status |-> "waiting", duration |-> d] \in EntryRow /\ d > 0
  BY SchedulerAssumption DEF EntryRow
<1>4. /\ entry' \in [Request -> EntryRow]
      /\ entry'[q] = [status |-> "waiting", duration |-> d]
      /\ \A r \in Request : r # q => entry'[r] = entry[r]
  BY <1>3 DEF QueueSound, EnqueueRow
<1>5. ASSUME NEW i \in 1..(n + 1) PROVE i \in 1..n \/ i = n + 1
  BY <1>1
<1>6. ASSUME NEW i \in 1..n PROVE queue[i] \in Request /\ queue[i] # q /\ i < n + 1 /\ i # n + 1
  BY <1>0, <1>1, ElementOfSeq DEF QueueSound
<1>7. queue'[n + 1] = q
  BY <1>2, AppendProperties, <1>0 DEF QueueSound, EnqueueRow
<1>8. \A i \in 1..(n + 1) : entry'[queue'[i]].status # "none"
  BY <1>0, <1>2, <1>4, <1>5, <1>6, <1>7 DEF QueueSound
<1>9. \A i, j \in 1..(n + 1) : queue'[i] = queue'[j] => i = j
  BY <1>0, <1>2, <1>5, <1>6, <1>7 DEF QueueSound
<1>10. FirstComeFirstServed'
  <2> SUFFICES ASSUME NEW i \in 1..(n + 1), NEW j \in 1..(n + 1), i < j,
                      entry'[queue'[j]].status = "promoted"
               PROVE  entry'[queue'[i]].status # "waiting"
    BY <1>2 DEF FirstComeFirstServed
  <2>1. j \in 1..n
    BY <1>4, <1>5, <1>7
  <2>2. i \in 1..n
    BY <1>1, <2>1
  <2>3. /\ queue'[i] = queue[i] /\ queue'[j] = queue[j]
        /\ entry'[queue[i]] = entry[queue[i]] /\ entry'[queue[j]] = entry[queue[j]]
    BY <1>2, <1>4, <1>6, <2>1, <2>2
  <2> QED  BY <1>0, <2>1, <2>2, <2>3 DEF QueueSound, FirstComeFirstServed
<1>11. \A r \in Request : entry'[r].status = "waiting" => entry'[r].duration > 0
  BY <1>3, <1>4 DEF QueueSound
<1> QED  BY <1>2, <1>4, <1>8, <1>9, <1>10, <1>11 DEF QueueSound

\* A waiting entry is cancelled.
LEMMA CancelSound ==
    ASSUME QueueSound, NEW q \in Request, CancelWaiting(q), queue' = queue
    PROVE  QueueSound'
<1>1. PICK rec \in EntryRow : rec = entry[q]
  BY DEF QueueSound
<1>2. /\ [rec EXCEPT !.status = "cancelled"] \in EntryRow
      /\ [rec EXCEPT !.status = "cancelled"].status = "cancelled"
  BY DEF EntryRow
<1>3. /\ entry' \in [Request -> EntryRow] /\ entry'[q].status = "cancelled"
      /\ \A r \in Request : r # q => entry'[r] = entry[r]
  BY <1>1, <1>2 DEF QueueSound, CancelWaiting
<1>4. \A i \in 1..Len(queue) : queue[i] \in Request
  BY ElementOfSeq DEF QueueSound
<1>5. FirstComeFirstServed'
  BY <1>3, <1>4 DEF QueueSound, FirstComeFirstServed
<1> QED  BY <1>3, <1>4, <1>5 DEF QueueSound

\* select_next takes the first waiting entry.
LEMMA SelectNextFirst ==
    ASSUME QueueSound, Waiting # {}
    PROVE  /\ SelectNext \in Request /\ entry[SelectNext].status = "waiting"
           /\ entry[SelectNext].duration \in Nat /\ entry[SelectNext].duration > 0
           /\ \A i, j \in 1..Len(queue) :
                 queue[j] = SelectNext /\ i < j => entry[queue[i]].status # "waiting"
<1>1. Waiting \in SUBSET Nat /\ \A i \in Waiting : i \in 1..Len(queue)
  BY DEF Waiting, QueueSound
<1>2. PICK i : /\ i \in Waiting /\ SelectNext = queue[i]
               /\ \A j \in Waiting : i <= j
  <2>1. \E i \in Waiting : \A j \in Waiting : i <= j
    BY <1>1, LeastNumber
  <2> QED  BY <2>1 DEF SelectNext
<1>3. queue[i] \in Request /\ entry[queue[i]].status = "waiting"
  BY <1>1, <1>2, ElementOfSeq DEF Waiting, QueueSound
<1>4. entry[queue[i]].duration \in Nat
  BY <1>3, SchedulerAssumption DEF QueueSound, EntryRow
<1>5. ASSUME NEW h \in 1..Len(queue), NEW j \in 1..Len(queue), queue[j] = SelectNext, h < j
      PROVE  entry[queue[h]].status # "waiting"
  <2>1. j = i
    BY <1>1, <1>2, <1>5 DEF QueueSound
  <2>2. i \in Nat /\ h \in Nat /\ h < i
    BY <1>1, <1>2, <1>5, <2>1
  <2>3. h \notin Waiting
    BY <1>2, <2>2
  <2> QED  BY <2>3 DEF Waiting, QueueSound
<1> QED  BY <1>2, <1>3, <1>4, <1>5 DEF QueueSound

\* The promoted entry leaves no earlier one waiting.
LEMMA PromotedSound ==
    ASSUME QueueSound, Waiting # {}, queue' = queue,
           entry' = [entry EXCEPT ![SelectNext].status = "promoted"]
    PROVE  QueueSound'
<1>1. PICK q \in Request : q = SelectNext
  BY SelectNextFirst
<1>2. PICK rec \in EntryRow : rec = entry[q]
  BY DEF QueueSound
<1>3. /\ [rec EXCEPT !.status = "promoted"] \in EntryRow
      /\ [rec EXCEPT !.status = "promoted"].status = "promoted"
  BY DEF EntryRow
<1>4. /\ entry' \in [Request -> EntryRow] /\ entry'[q].status = "promoted"
      /\ \A r \in Request : r # q => entry'[r] = entry[r]
  BY <1>1, <1>2, <1>3 DEF QueueSound
<1>5. \A i \in 1..Len(queue) : queue[i] \in Request
  BY ElementOfSeq DEF QueueSound
<1>6. FirstComeFirstServed'
  <2> SUFFICES ASSUME NEW i \in 1..Len(queue), NEW j \in 1..Len(queue), i < j,
                      entry'[queue[j]].status = "promoted"
               PROVE  entry'[queue[i]].status # "waiting"
    BY DEF FirstComeFirstServed
  <2>1. CASE queue[j] = q
    <3>1. entry[queue[i]].status # "waiting" \/ queue[i] = q
      BY <1>1, <1>5, <2>1, SelectNextFirst
    <3> QED  BY <1>4, <1>5, <3>1
  <2>2. CASE queue[j] # q
    BY <1>4, <1>5, <2>2 DEF QueueSound, FirstComeFirstServed
  <2> QED  BY <2>1, <2>2
<1> QED  BY <1>4, <1>5, <1>6 DEF QueueSound

-----------------------------------------------------------------------------
(* The loop. *)

LEMMA OverTyped == Over \in BookRow /\ Over.status = "over" /\ NoRow \in BookRow /\ NoRow.status = "none"
  BY DEF Over, NoRow, BookRow

LEMMA ExpiredShrinks ==
    ASSUME BookSound(book)
    PROVE  /\ Shrunk(book, Expired)
           /\ Locked => \A id \in Holder : Expired[id].status \in OwnerStatus
           /\ ~Locked => \A id \in Request : Expired[id].status \in OwnerStatus => book[id].status \in OwnerStatus
<1>1. ASSUME NEW rec \in BookRow
      PROVE  /\ ExpireRow(rec) \in BookRow
             /\ ExpireRow(rec).status \in LiveStatus =>
                   /\ rec.status \in OwnerStatus /\ ExpireRow(rec).status \in OwnerStatus
                   /\ ExpireRow(rec).starts = rec.starts /\ ExpireRow(rec).ends = rec.ends
             /\ Locked /\ rec.status \in OwnerStatus => ExpireRow(rec).status \in OwnerStatus
  <2>1. /\ [rec EXCEPT !.status = "expired_pending_operation"] \in BookRow
        /\ [rec EXCEPT !.status = "expired_pending_operation"].status = "expired_pending_operation"
        /\ [rec EXCEPT !.status = "expired_pending_operation"].starts = rec.starts
        /\ [rec EXCEPT !.status = "expired_pending_operation"].ends = rec.ends
    BY DEF BookRow, LiveStatus, OwnerStatus
  <2> QED  BY <2>1, OverTyped DEF ExpireRow, LiveStatus, OwnerStatus
<1>2. ASSUME NEW id \in Request
      PROVE  book[id] \in BookRow /\ Expired[id] \in {book[id], ExpireRow(book[id])}
  BY DEF BookSound, Expired
<1>3. Expired \in [Request -> BookRow]
  <2>1. Expired = [id \in Request |-> Expired[id]]
    BY DEF Expired
  <2> QED  BY <1>1, <1>2, <2>1
<1>4. Shrunk(book, Expired)
  <2> SUFFICES ASSUME NEW id \in Request
               PROVE  /\ Expired[id].status \in LiveStatus => /\ book[id].status \in LiveStatus
                                                              /\ Expired[id].starts = book[id].starts
                                                              /\ Expired[id].ends = book[id].ends
                      /\ Expired[id].status \in OwnerStatus => book[id].status \in OwnerStatus
    BY <1>3 DEF Shrunk
  <2>1. CASE Expired[id] = book[id]
    BY <2>1
  <2>2. CASE Expired[id] = ExpireRow(book[id])
    BY <1>1, <1>2, <2>2 DEF LiveStatus
  <2> QED  BY <1>2, <2>1, <2>2
<1>5. ASSUME Locked, NEW id \in Holder PROVE Expired[id].status \in OwnerStatus
  <2>1. id \in Request /\ book[id].status \in OwnerStatus
    BY DEF Holder
  <2> QED  BY <1>1, <1>2, <1>5, <2>1
<1> QED  BY <1>4, <1>5 DEF Shrunk

LEMMA PendingShrinks ==
    ASSUME BookSound(book) PROVE Shrunk(book, PendingFinalized)
  BY OverTyped DEF Shrunk, PendingFinalized, BookSound, LiveStatus, OwnerStatus

\* process_due_reservations activates one candidate, and only on a free bench.
LEMMA ActivatedSound ==
    ASSUME NEW rows, BookSound(rows), NEW up \in BOOLEAN, NEW locked \in BOOLEAN
    PROVE  /\ BookSound(Activated(rows, up, locked))
           /\ locked => Activated(rows, up, locked) = rows
<1> DEFINE starts == {rows[id].starts : id \in Due(rows)}
           first == CHOOSE id \in Due(rows) : \A other \in Due(rows) : rows[id].starts <= rows[other].starts
<1>1. CASE ~(up /\ ~locked /\ Due(rows) # {} /\ \A id \in Request : rows[id].status \notin OwnerStatus)
  BY <1>1 DEF Activated
<1>2. CASE up /\ ~locked /\ Due(rows) # {} /\ \A id \in Request : rows[id].status \notin OwnerStatus
  <2>1. first \in Due(rows)
    <3>1. starts \in SUBSET Nat /\ starts # {}
      BY <1>2 DEF Due, BookSound, BookRow
    <3>2. PICK least \in starts : \A s \in starts : least <= s
      BY <3>1, LeastNumber
    <3>3. \E id \in Due(rows) : \A other \in Due(rows) : rows[id].starts <= rows[other].starts
      BY <3>2
    <3> QED  BY <3>3
  <2>2. PICK q \in Request : q = first /\ rows[q].status = "scheduled"
    BY <2>1 DEF Due
  <2>3. PICK rec \in BookRow : rec = rows[q]
    BY DEF BookSound
  <2> DEFINE active == [rec EXCEPT !.status = "active"]
  <2>4. /\ active \in BookRow /\ active.status = "active"
        /\ active.starts = rec.starts /\ active.ends = rec.ends
    BY DEF BookRow, LiveStatus, OwnerStatus
  <2>5. Activated(rows, up, locked) = [rows EXCEPT ![q] = active]
    BY <1>2, <2>2, <2>3 DEF Activated
  <2> HIDE DEF active, first
  <2>6. rows[q].status \in LiveStatus
    BY <2>2 DEF LiveStatus
  <2>7. active.ends > active.starts
    BY <2>3, <2>4, <2>6 DEF BookSound
  <2>8. \A id \in Request : id # q /\ rows[id].status \in LiveStatus => Apart(active, rows[id])
    BY <2>3, <2>4, <2>6 DEF BookSound, Apart
  <2>9. BookSound([rows EXCEPT ![q] = active])
    BY <1>2, <2>4, <2>7, <2>8, RowWrittenSound
  <2> QED  BY <1>2, <2>5, <2>9
<1> QED  BY <1>1, <1>2

\* What the assignment leaves.
LEMMA AssignSound ==
    ASSUME NEW rows, BookSound(rows), NEW up \in BOOLEAN, NEW locked \in BOOLEAN, now \in Nat,
           QueueSound, Assign(rows, up, locked), queue' = queue
    PROVE  BookSound(book') /\ QueueSound' /\ (locked => book' = rows)
<1>1. PICK activated : activated = Activated(rows, up, locked)
  OBVIOUS
<1>2. BookSound(activated) /\ (locked => activated = rows)
  BY <1>1, ActivatedSound
<1>3. CASE ~Promotable(activated, up, locked)
  BY <1>1, <1>2, <1>3 DEF Assign, QueueSound, FirstComeFirstServed
<1>4. CASE Promotable(activated, up, locked)
  <2>1. PICK q \in Request : q = SelectNext
    BY <1>4, SelectNextFirst DEF Promotable
  <2>2. PICK ends \in Nat : ends = now + entry[q].duration /\ ends > now
    BY <1>4, <2>1, SelectNextFirst DEF Promotable
  <2> DEFINE rec == [status |-> "active", starts |-> now, ends |-> ends]
  <2>3. /\ rec \in BookRow /\ rec.status = "active" /\ rec.starts = now /\ rec.ends = ends
    BY <2>2 DEF BookRow, LiveStatus, OwnerStatus
  <2>4. book' = [activated EXCEPT ![q] = rec] /\ entry' = [entry EXCEPT ![SelectNext].status = "promoted"]
    BY <1>1, <1>4, <2>1, <2>2 DEF Assign, Promote
  <2>5. /\ \A id \in Request : activated[id].status \notin OwnerStatus
        /\ \A id \in Request : activated[id].status \in LiveStatus =>
               activated[id].starts >= ends \/ activated[id].ends <= now
        /\ Waiting # {} /\ ~locked
    BY <1>4, <2>1, <2>2 DEF Promotable, NoConflict
  <2> HIDE DEF rec
  <2>6. ASSUME NEW id \in Request, activated[id].status \in LiveStatus
        PROVE  Apart(rec, activated[id])
    <3>1. activated[id].starts \in Nat /\ activated[id].ends \in Nat
      BY <1>2 DEF BookSound, BookRow
    <3> QED  BY <2>2, <2>3, <2>5, <2>6, <3>1 DEF Apart
  <2>7. BookSound([activated EXCEPT ![q] = rec])
    BY <1>2, <2>2, <2>3, <2>5, <2>6, RowWrittenSound
  <2>8. QueueSound'
    BY <2>4, <2>5, PromotedSound
  <2> QED  BY <2>4, <2>5, <2>7, <2>8
<1> QED  BY <1>3, <1>4

-----------------------------------------------------------------------------
(* The invariant. *)

SchedulerInv ==
    /\ now \in Nat /\ online \in BOOLEAN /\ probeRequired \in BOOLEAN
    /\ phase \in {"down", "recovering", "expire", "refresh", "assign"}
    /\ BookSound(book)
    /\ QueueSound
    /\ LockMatchesHolder
    /\ phase = "recovering" => ~Locked

LEMMA SchedulerInvInit == SchedulerInit => SchedulerInv
<1> SUFFICES ASSUME SchedulerInit PROVE SchedulerInv
  OBVIOUS
<1> USE DEF SchedulerInit
<1>1. BookSound(book)
  BY OverTyped DEF BookSound, LiveStatus, OwnerStatus
<1>2. NoEntry \in EntryRow /\ NoEntry.status = "none"
  BY SchedulerAssumption DEF NoEntry, EntryRow
<1>3. QueueSound
  BY <1>2 DEF QueueSound, FirstComeFirstServed
<1>4. LockMatchesHolder
  BY DEF LockMatchesHolder, NoLock
<1> QED  BY <1>1, <1>3, <1>4 DEF SchedulerInv

\* The table shrinks and an owner is lost only with the lock free.
LEMMA LockKept ==
    ASSUME LockMatchesHolder,
           \/ ~Locked'
           \/ /\ lock' = lock /\ Holder' \subseteq Holder
              /\ \A id \in Holder : id \in Holder'
    PROVE  LockMatchesHolder'
  BY DEF LockMatchesHolder, Locked

\* A request for the bench, now or later, or for a place in the queue.
LEMMA RequestStep == SchedulerInv /\ ClientRequest => SchedulerInv'
<1> SUFFICES ASSUME SchedulerInv, NEW q \in Request, NEW d \in Duration,
                    \/ CreateImmediate(q, d)
                    \/ \E starts \in 1..MaxStart : CreateScheduled(q, starts, d)
                    \/ CreateQueued(q, d)
                    \/ Enqueue(q, d)
                    \/ CancelQueueEntry(q)
             PROVE  SchedulerInv'
  BY DEF ClientRequest
<1> USE DEF SchedulerInv
<1>1. d \in Nat /\ d > 0
  BY SchedulerAssumption
<1>2. CASE CreateImmediate(q, d)
  <2> DEFINE rec == [status |-> "active", starts |-> now, ends |-> now + d]
  <2>1. rec \in BookRow /\ rec.status = "active" /\ rec.starts = now /\ rec.ends = now + d
    BY <1>1 DEF BookRow, LiveStatus, OwnerStatus
  <2>2. book' = [book EXCEPT ![q] = rec] /\ UNCHANGED <<now, queue, entry, lock, online, probeRequired, phase>>
    BY <1>2 DEF CreateImmediate, InsertRow
  <2>3. ~Locked /\ (\A id \in Request : book[id].status \notin OwnerStatus)
        /\ Overlapping(now, now + d, {}) = {}
    BY <1>2 DEF CreateImmediate, FreeNow, NobodyOwns, Holder
  <2> HIDE DEF rec
  <2>4. \A id \in Request : id \notin {} /\ book[id].status \in LiveStatus => Apart(rec, book[id])
    <3>1. now + d \in Nat
      BY <1>1
    <3> QED  BY <2>1, <2>3, <3>1, ApartFrom
  <2>5. rec.ends > rec.starts
    BY <1>1, <2>1
  <2>6. BookSound(book')
    BY <2>1, <2>2, <2>3, <2>4, <2>5, RowWrittenSound
  <2>7. LockMatchesHolder' /\ QueueSound' /\ ~Locked'
    BY <2>2, <2>3, LockKept DEF QueueSound, FirstComeFirstServed, Locked
  <2> QED  BY <2>2, <2>6, <2>7
<1>3. ASSUME NEW starts \in 1..MaxStart, CreateScheduled(q, starts, d) PROVE SchedulerInv'
  <2> DEFINE rec == [status |-> "scheduled", starts |-> starts, ends |-> starts + d]
  <2>1. starts \in Nat /\ starts + d \in Nat /\ starts + d > starts
    BY <1>1, SchedulerAssumption
  <2>2. rec \in BookRow /\ rec.status = "scheduled" /\ rec.starts = starts /\ rec.ends = starts + d
    BY <2>1 DEF BookRow, LiveStatus, OwnerStatus
  <2>3. book' = [book EXCEPT ![q] = rec] /\ UNCHANGED <<now, queue, entry, lock, online, probeRequired, phase>>
    BY <1>3 DEF CreateScheduled, InsertRow
  <2>4. Overlapping(starts, starts + d, {}) = {} /\ book[q] = NoRow
    BY <1>3 DEF CreateScheduled, Unused
  <2> HIDE DEF rec
  <2>5. \A id \in Request : id \notin {} /\ book[id].status \in LiveStatus => Apart(rec, book[id])
    BY <2>1, <2>2, <2>4, ApartFrom
  <2>6. BookSound(book')
    <3>1. rec.status \notin OwnerStatus
      BY <2>2 DEF OwnerStatus
    <3> QED  BY <2>1, <2>2, <2>3, <2>5, <3>1, RowWrittenSound
  <2>7. Holder' = Holder
    BY <2>2, <2>3, <2>4, OverTyped DEF Holder, OwnerStatus, BookSound
  <2>8. LockMatchesHolder' /\ QueueSound' /\ Locked' = Locked
    BY <2>3, <2>7, LockKept DEF QueueSound, FirstComeFirstServed, Locked
  <2> QED  BY <2>3, <2>6, <2>8
<1>4. CASE CreateQueued(q, d) \/ Enqueue(q, d)
  <2>1. QueueSound'
    BY <1>4, EnqueueSound DEF CreateQueued, Enqueue
  <2>2. UNCHANGED <<now, book, lock, online, probeRequired, phase>>
    BY <1>4 DEF CreateQueued, Enqueue
  <2> QED  BY <2>1, <2>2 DEF LockMatchesHolder, Holder, Locked
<1>5. CASE CancelQueueEntry(q)
  <2>1. QueueSound' /\ UNCHANGED <<now, book, lock, online, probeRequired, phase>>
    BY <1>5, CancelSound DEF CancelQueueEntry
  <2> QED  BY <2>1 DEF LockMatchesHolder, Holder, Locked
<1> QED  BY <1>2, <1>3, <1>4, <1>5

\* A row is over, and no lock is held on it.
LEMMA RowEnds ==
    ASSUME SchedulerInv, NEW id \in Request, book' = [book EXCEPT ![id] = Over],
           ~Locked \/ book[id].status = "scheduled",
           UNCHANGED <<now, queue, entry, lock, online, probeRequired, phase>>
    PROVE  SchedulerInv'
<1> USE DEF SchedulerInv
<1>1. BookSound(book')
  BY OverTyped, RowWrittenSound DEF LiveStatus, OwnerStatus
<1>2. ~Locked' \/ Holder' = Holder
  <2>1. CASE book[id].status = "scheduled"
    BY <2>1, OverTyped DEF Holder, OwnerStatus, BookSound
  <2> QED  BY <2>1 DEF Locked
<1>3. LockMatchesHolder'
  BY <1>2, LockKept
<1> QED  BY <1>1, <1>3 DEF QueueSound, FirstComeFirstServed, Locked

LEMMA OwnerStep == SchedulerInv /\ OwnerRequest => SchedulerInv'
<1> SUFFICES ASSUME SchedulerInv, NEW id \in Request,
                    \/ Release(id) \/ CancelReservation(id)
                    \/ \E d \in Duration : Extend(id, d)
                    \/ \E o \in Operation : Submit(o, id) \/ SubmitLocked(o, id)
                    \/ ProbeStart(id)
             PROVE  SchedulerInv'
  BY DEF OwnerRequest
<1>1. CASE Release(id) \/ CancelReservation(id)
  BY <1>1, RowEnds DEF Release, CancelReservation, Update
<1> USE DEF SchedulerInv
<1>2. ASSUME NEW d \in Duration, Extend(id, d) PROVE SchedulerInv'
  <2>1. PICK rec \in BookRow : rec = book[id]
    BY DEF BookSound
  <2>2. rec.status = "active" /\ rec.ends > rec.starts /\ d \in Nat
    BY <1>2, <2>1, SchedulerAssumption DEF Extend, Update, BookSound, LiveStatus, OwnerStatus
  <2> DEFINE new == [rec EXCEPT !.ends = @ + d]
  <2>3. new \in BookRow /\ new.status = "active" /\ new.starts = rec.starts /\ new.ends = rec.ends + d
    BY <2>2 DEF BookRow
  <2>4. /\ book' = [book EXCEPT ![id] = new]
        /\ Overlapping(rec.starts, rec.ends + d, {id}) = {}
        /\ UNCHANGED <<now, queue, entry, lock, online, probeRequired, phase>>
    BY <1>2, <2>1 DEF Extend, Update
  <2> HIDE DEF new
  <2>5. rec.starts \in Nat /\ rec.ends + d \in Nat /\ rec.ends + d > rec.starts
    BY <2>2 DEF BookRow
  <2>6. \A x \in Request : x \notin {id} /\ book[x].status \in LiveStatus => Apart(new, book[x])
    BY <2>3, <2>4, <2>5, ApartFrom
  <2>7. \A x \in Request : x # id => book[x].status \notin OwnerStatus
    BY <2>1, <2>2 DEF BookSound, OwnerStatus
  <2>8. BookSound(book')
    BY <2>3, <2>4, <2>5, <2>6, <2>7, RowWrittenSound
  <2>9. Holder' = Holder
    BY <2>1, <2>2, <2>3, <2>4 DEF Holder, OwnerStatus, BookSound
  <2>10. LockMatchesHolder'
    BY <2>4, <2>9, LockKept
  <2> QED  BY <2>4, <2>8, <2>10 DEF QueueSound, FirstComeFirstServed, Locked
<1>3. ASSUME NEW kind \in {"operation", "probe"}, NEW op, AcquireForActive(kind, op, id), Serving,
             UNCHANGED <<now, book, queue, entry, online, probeRequired, phase>>
      PROVE  SchedulerInv'
  <2>1. book[id].status = "active" /\ lock' = [kind |-> kind, operation |-> op, owner |-> id]
    BY <1>3 DEF AcquireForActive, ActiveOwner
  <2>2. id \in Holder'
    BY <1>3, <2>1 DEF Holder, OwnerStatus
  <2>3. LockMatchesHolder'
    BY <2>1, <2>2 DEF LockMatchesHolder
  <2>4. phase # "recovering"
    BY <1>3 DEF Serving
  <2> QED  BY <1>3, <2>3, <2>4 DEF QueueSound, FirstComeFirstServed
<1>4. CASE ProbeStart(id)
  BY <1>3, <1>4 DEF ProbeStart
<1>5. ASSUME NEW o \in Operation, Submit(o, id) PROVE SchedulerInv'
  BY <1>3, <1>5 DEF Submit
<1>6. ASSUME NEW o \in Operation, SubmitLocked(o, id) PROVE SchedulerInv'
  BY <1>6 DEF SubmitLocked, QueueSound, FirstComeFirstServed, LockMatchesHolder, Holder, Locked
<1> QED  BY <1>1, <1>2, <1>4, <1>5, <1>6

\* The lock is released, with what was kept for it.
LEMMA ReleaseStep ==
    ASSUME SchedulerInv, ReleaseLock, UNCHANGED <<now, queue, entry, phase>>,
           online' \in BOOLEAN, probeRequired' \in BOOLEAN
    PROVE  SchedulerInv'
<1> USE DEF SchedulerInv
<1>1. BookSound(book')
  BY PendingShrinks, ShrunkSound DEF ReleaseLock
<1>2. ~Locked' /\ LockMatchesHolder'
  BY LockKept DEF ReleaseLock, Locked, NoLock
<1> QED  BY <1>1, <1>2 DEF QueueSound, FirstComeFirstServed

\* Steps that touch neither the table, the queue nor the lock.
LEMMA QuietScheduler ==
    ASSUME SchedulerInv, UNCHANGED <<book, queue, entry, lock>>, now' \in Nat,
           online' \in BOOLEAN, probeRequired' \in BOOLEAN,
           phase' \in {"down", "expire", "refresh", "assign"} \/ phase' = phase
    PROVE  SchedulerInv'
  BY DEF SchedulerInv, QueueSound, FirstComeFirstServed, LockMatchesHolder, Holder, Locked

LEMMA ExpireStep == SchedulerInv /\ SchedulerExpire => SchedulerInv'
<1> SUFFICES ASSUME SchedulerInv, SchedulerExpire PROVE SchedulerInv'
  OBVIOUS
<1> USE DEF SchedulerInv
<1>1. /\ UNCHANGED <<now, queue, entry>> /\ phase' = "refresh"
      /\ online' \in BOOLEAN /\ probeRequired' \in BOOLEAN
  BY DEF SchedulerExpire
<1>2. PICK ended : ended = Expired
  OBVIOUS
<1>3. BookSound(ended) /\ Shrunk(book, ended)
  BY <1>2, ExpiredShrinks, ShrunkSound
<1>4. CASE OverrunReleases
  <2>1. /\ lock' = NoLock
        /\ book' = [id \in Request |-> IF ended[id].status = "expired_pending_operation" THEN Over
                                       ELSE ended[id]]
    BY <1>2, <1>4 DEF SchedulerExpire
  <2>2. Shrunk(ended, book')
    BY <1>3, <2>1, OverTyped DEF Shrunk, BookSound, LiveStatus, OwnerStatus
  <2>3. BookSound(book')
    BY <1>3, <2>2, ShrunkSound
  <2>4. LockMatchesHolder'
    BY <2>1, LockKept DEF Locked, NoLock
  <2> QED  BY <1>1, <2>3, <2>4 DEF QueueSound, FirstComeFirstServed
<1>5. CASE ~OverrunReleases
  <2>1. lock' = lock /\ book' = ended
    BY <1>2, <1>5 DEF SchedulerExpire
  <2>2. Holder' \subseteq Holder
    BY <1>3, <2>1 DEF Shrunk, Holder
  <2>3. ~Locked' \/ \A id \in Holder : id \in Holder'
    BY <1>2, <2>1, ExpiredShrinks DEF Holder, Locked
  <2>4. LockMatchesHolder'
    BY <2>1, <2>2, <2>3, LockKept
  <2> QED  BY <1>1, <1>3, <2>1, <2>4 DEF QueueSound, FirstComeFirstServed
<1> QED  BY <1>4, <1>5

LEMMA AssignStep == SchedulerInv /\ (SchedulerAssign \/ RecoverSchedule) => SchedulerInv'
<1> SUFFICES ASSUME SchedulerInv, SchedulerAssign \/ RecoverSchedule PROVE SchedulerInv'
  OBVIOUS
<1> USE DEF SchedulerInv
<1>1. phase' = "expire" /\ UNCHANGED <<now, queue, lock, online, probeRequired>>
  BY DEF SchedulerAssign, RecoverSchedule
<1>2. CASE SchedulerAssign
  <2>1. PICK locked \in BOOLEAN : locked = Locked
    BY DEF Locked
  <2>2. Assign(book, online, locked)
    BY <1>2, <2>1 DEF SchedulerAssign
  <2>3. BookSound(book') /\ QueueSound' /\ (locked => book' = book)
    BY <1>1, <2>2, AssignSound
  <2>4. ~Locked' \/ (lock' = lock /\ Holder' = Holder)
    BY <1>1, <2>1, <2>3 DEF Locked, Holder
  <2>5. LockMatchesHolder'
    BY <2>4, LockKept
  <2> QED  BY <1>1, <2>3, <2>5
<1>3. CASE RecoverSchedule
  <2>1. PICK ended : ended = Expired
    OBVIOUS
  <2>2. BookSound(ended)
    BY <2>1, ExpiredShrinks, ShrunkSound
  <2>3. Assign(ended, online, FALSE) /\ phase = "recovering"
    BY <1>3, <2>1 DEF RecoverSchedule
  <2>4. BookSound(book') /\ QueueSound'
    BY <1>1, <2>2, <2>3, AssignSound
  <2>5. LockMatchesHolder'
    BY <1>1, <2>3, LockKept DEF Locked
  <2> QED  BY <1>1, <2>4, <2>5
<1> QED  BY <1>2, <1>3

LEMMA SchedulerInvNext == SchedulerInv /\ [SchedulerNext]_schedulerVars => SchedulerInv'
<1> SUFFICES ASSUME SchedulerInv, [SchedulerNext]_schedulerVars PROVE SchedulerInv'
  OBVIOUS
<1>0. /\ now \in Nat /\ online \in BOOLEAN /\ probeRequired \in BOOLEAN
      /\ phase \in {"down", "recovering", "expire", "refresh", "assign"}
  BY DEF SchedulerInv
<1>1. CASE UNCHANGED schedulerVars
  BY <1>0, <1>1, QuietScheduler DEF schedulerVars
<1>2. CASE ClientRequest \/ OwnerRequest
  BY <1>2, RequestStep, OwnerStep
<1>3. ASSUME NEW o \in Operation, CancelOperation(o) PROVE SchedulerInv'
  <2>1. CASE operations[o].status = "pending"
    BY <1>0, <1>3, <2>1, ReleaseStep DEF CancelOperation
  <2>2. CASE operations[o].status # "pending"
    BY <1>0, <1>3, <2>2, QuietScheduler DEF CancelOperation
  <2> QED  BY <2>1, <2>2
<1>4. ASSUME NEW o \in Operation, StartTask(o) PROVE SchedulerInv'
  BY <1>0, <1>4, QuietScheduler DEF StartTask
<1>5. ASSUME NEW o \in Operation, FinishTask(o) PROVE SchedulerInv'
  BY <1>0, <1>5, ReleaseStep DEF FinishTask
<1>6. CASE MaintenanceProbeStart
  <2>1. /\ lock' = [kind |-> "maintenance", expires |-> now + ProbeHorizon]
        /\ UNCHANGED <<now, book, queue, entry, online, probeRequired, phase>>
        /\ phase # "recovering" /\ Holder = {}
    BY <1>6 DEF MaintenanceProbeStart, AcquireForMaintenance, Serving, Holder
  <2>2. Holder' = {} /\ lock'.kind = "maintenance"
    BY <2>1 DEF Holder
  <2>3. LockMatchesHolder'
    BY <2>2 DEF LockMatchesHolder
  <2> QED  BY <2>1, <2>3 DEF SchedulerInv, QueueSound, FirstComeFirstServed
<1>7. ASSUME NEW healthy \in BOOLEAN, ProbeEnd(healthy) PROVE SchedulerInv'
  BY <1>7, ReleaseStep DEF ProbeEnd, RecordProbeResult
<1>8. CASE SchedulerExpire
  BY <1>8, ExpireStep
<1>9. ASSUME NEW reported \in BOOLEAN, SchedulerRefresh(reported) PROVE SchedulerInv'
  BY <1>0, <1>9, QuietScheduler DEF SchedulerRefresh, Refreshed
<1>10. CASE SchedulerAssign \/ RecoverSchedule
  BY <1>10, AssignStep
<1>11. CASE AgentCrash
  BY <1>0, <1>11, QuietScheduler DEF AgentCrash
<1>12. ASSUME NEW reported \in BOOLEAN, RecoverLocks(reported) PROVE SchedulerInv'
  <2>1. lock' = NoLock /\ phase' = "recovering" /\ online' \in BOOLEAN
        /\ UNCHANGED <<now, book, queue, entry, probeRequired>>
    BY <1>12 DEF RecoverLocks, RecoverStale
  <2>2. ~Locked'
    BY <2>1 DEF Locked, NoLock
  <2>3. LockMatchesHolder'
    BY <2>2, LockKept DEF SchedulerInv
  <2> QED  BY <2>1, <2>2, <2>3 DEF SchedulerInv, QueueSound, FirstComeFirstServed
<1>13. CASE SchedulerTick
  BY <1>0, <1>13, QuietScheduler DEF SchedulerTick
<1> QED  BY <1>1, <1>2, <1>3, <1>4, <1>5, <1>6, <1>7, <1>8, <1>9, <1>10, <1>11, <1>12, <1>13 DEF SchedulerNext

\* One owner, disjoint reservations, the lock with its holder, and the queue in
\* order, at every moment of the scheduler (core/reservations.py,
\* persistence/reservations.py, core/queueing.py).
THEOREM BookingsSoundAlways == SchedulerSpec => []BookingsSound
<1>1. SchedulerInv => BookingsSound
  <2> SUFFICES ASSUME SchedulerInv PROVE BookingsSound
    OBVIOUS
  <2>1. Cardinality(Holder) <= 1
    <3>1. CASE Holder = {}
      BY <3>1, FS_EmptySet
    <3>2. CASE Holder # {}
      <4>1. PICK id \in Holder : TRUE
        BY <3>2
      <4>2. Holder = {id}
        BY <4>1 DEF Holder, SchedulerInv, BookSound
      <4>3. Cardinality({id}) = 1
        BY FS_Singleton
      <4> QED  BY <4>2, <4>3
    <3> QED  BY <3>1, <3>2
  <2>2. ASSUME NEW id \in Request, book[id].status \in LiveStatus
        PROVE  Overlapping(book[id].starts, book[id].ends, {id}) = {}
    <3> SUFFICES ASSUME NEW x \in Request, x # id, book[x].status \in LiveStatus,
                        book[x].starts < book[id].ends, book[x].ends > book[id].starts
                 PROVE  FALSE
      BY DEF Overlapping
    <3>1. book[x] \in BookRow /\ book[id] \in BookRow /\ Apart(book[id], book[x])
      BY <2>2 DEF SchedulerInv, BookSound
    <3> QED  BY <3>1 DEF Apart, BookRow
  <2>3. NoDoubleBooking
    BY <2>1, <2>2 DEF NoDoubleBooking
  <2> QED  BY <2>3 DEF BookingsSound, SchedulerInv, QueueSound
<1> QED  BY <1>1, SchedulerInvInit, SchedulerInvNext, PTL DEF SchedulerSpec

\* Types of the clock, the table, the queue and the catalog's flags.
THEOREM SchedulerTypeCorrect == SchedulerSpec => []SchedulerTypeOK
<1>1. SchedulerInv => SchedulerTypeOK
  BY DEF SchedulerInv, BookSound, QueueSound, BookRow, EntryRow, SchedulerTypeOK
<1> QED  BY <1>1, SchedulerInvInit, SchedulerInvNext, PTL DEF SchedulerSpec
=============================================================================

------------------------------- MODULE Access -------------------------------
(***************************************************************************)
(* Who may see and do what: core/authorisation.py, the protected services  *)
(* over it (operational_access.py, artifact_access.py), the routes of      *)
(* api.py and dashboard_api.py that act on a bench, and the live stream.   *)
(*                                                                         *)
(* A request of the server runs without suspending, so a route is one      *)
(* action; two outlive an await.  A firmware upload is checked when it     *)
(* begins and dispatched when its last chunk is in, under one request      *)
(* scope whose decisions are reused; the event stream polls in a scope of  *)
(* its own each time.  In between the directory changes.                   *)
(*                                                                         *)
(* One organisation.  Permissions no modelled route asks for, legacy API   *)
(* tokens, and the audit trail (written last, never read) are left out.    *)
(***************************************************************************)
EXTENDS SideBySide, Naturals, FiniteSets

CONSTANTS
    User, Service,    \* principals: users and service accounts
    Owner,            \* the user who owns the organisation
    Team,
    Host, Board,      \* Agents and their benches
    HostOf,           \* the Agent of each bench
    Plan,             \* registered workflows
    RoleName,         \* the roles that are assigned
    Narrowed,         \* the permissions each principal's credential is narrowed to
    Subscriber,       \* event-stream requests
    StreamLimit,      \* resource_limits.maximum_sse_streams
    Policies,         \* the bench policies administrators choose from
    MaxOpen,          \* operations, queue entries, CI sessions, uploads and streams at one time
    MaxChanges        \* changes to the directory in all

Principal == User \cup Service

VARIABLES
    orgRole,       \* organisation_memberships
    members,       \* team_memberships: pairs of a team and a user
    grants,        \* role_assignments that have not expired
    boardPolicy,   \* bench_access_policies
    planPolicy,    \* workflow_access_policies
    live,          \* principals whose session or credential is accepted
    leased,        \* each bench's current reservation
    waiting,       \* queue entries: pairs of a principal and a bench
    works,         \* operations under way
    ciBy,          \* principals with an open CI session
    upload,        \* the firmware upload under way
    remembered,    \* the decisions its request scope holds
    streams,       \* each subscriber's stream
    slots,         \* _active_sse_streams
    changes

accessVars == <<orgRole, members, grants, boardPolicy, planPolicy, live, leased, waiting,
                works, ciBy, upload, remembered, streams, slots, changes>>

-----------------------------------------------------------------------------
\* core/authorisation.py

Organisation == "organisation"
Resource == {Organisation} \cup Host \cup Board \cup Plan

BenchUse == {"benches:operate", "benches:flash", "benches:reset", "benches:serial"}
CiUse == {"ci:sessions:create", "ci:sessions:read", "ci:sessions:cancel"}
Permission == BenchUse \cup CiUse \cup
    {"organisation:manage", "roles:manage", "teams:manage", "agents:read", "benches:read", "benches:manage",
     "benches:reserve", "workflows:read", "workflows:run", "workflows:manage",
     "operations:read", "operations:cancel", "artifacts:read", "artifacts:write"}

RolePermissions(role) ==
    CASE role = "ORGANISATION_ADMIN" -> Permission \ {"organisation:manage"}
      [] role = "LAB_ADMIN" -> Permission \ {"organisation:manage", "roles:manage", "teams:manage"}
      [] role = "OPERATOR" -> BenchUse \cup
            {"agents:read", "benches:read", "benches:reserve", "workflows:read", "workflows:run",
             "operations:read", "artifacts:read", "artifacts:write"}
      [] role = "WORKFLOW_RUNNER" -> CiUse \cup
            {"benches:read", "benches:operate", "workflows:read", "workflows:run",
             "operations:read", "artifacts:read", "artifacts:write"}
      [] role = "RESERVER" -> {"benches:read", "benches:reserve"}
      [] role = "VIEWER" -> {"benches:read", "operations:read"}
      [] role = "AUDITOR" -> {"agents:read", "benches:read", "workflows:read", "operations:read"}

OrgRolePermissions(role) ==
    CASE role = "OWNER" -> Permission
      [] role = "ADMIN" -> RolePermissions("ORGANISATION_ADMIN")
      [] role = "VIEWER" -> RolePermissions("VIEWER")
      [] role \in {"MEMBER", "NONE"} -> {}

Visibility == {"ORGANISATION", "RESTRICTED", "PRIVATE"}
BoardPolicy == [visibility : Visibility, reserve : RoleName \cup {"any"},
                operate : RoleName \cup {"any"}, teams : SUBSET Team]
NoPolicy == [visibility |-> "ORGANISATION", reserve |-> "any", operate |-> "any", teams |-> {}]

ASSUME AccessAssumption ==
    /\ Owner \in User
    /\ "none" \notin Principal /\ IsFiniteSet(Subscriber) /\ "OPERATOR" \in RoleName
    /\ HostOf \in [Board -> Host]
    /\ Narrowed \in [Principal -> SUBSET Permission] /\ Policies \subseteq BoardPolicy
    /\ StreamLimit \in Nat \ {0} /\ MaxOpen \in Nat /\ MaxChanges \in Nat

OrgAdministrator(p) == p \in User /\ orgRole[p] \in {"OWNER", "ADMIN"}

TeamsOf(p) == {t \in Team : <<t, p>> \in members}

Subjects(p) == {p} \cup TeamsOf(p)

\* An assignment covers its resource; the organisation's cover everything and
\* an Agent's its benches.
Applies(g, r) ==
    \/ g.on \in {Organisation, r}
    \/ r \in Board /\ g.on = HostOf[r]

GrantsOf(p) == {g \in grants : g.subject \in Subjects(p)}

BoardGrants(p, b) ==
    LET mine == {g \in GrantsOf(p) : Applies(g, b)}
    IN  IF OrgAdministrator(p) \/ boardPolicy[b].visibility = "ORGANISATION" THEN mine
        ELSE IF boardPolicy[b].visibility = "RESTRICTED"
             THEN {g \in mine : g.on \in Host \cup Board}
             ELSE {g \in mine : g.subject = p /\ g.on = b}

PlanGrants(p, w) ==
    LET mine == {g \in GrantsOf(p) : Applies(g, w)}
    IN  IF OrgAdministrator(p) \/ planPolicy[w] = "ORGANISATION" THEN mine
        ELSE {g \in mine : planPolicy[w] = "RESTRICTED" /\ g.on = w}

\* The role a bench's policy asks for beside the permission.
RequiredRole(b, perm) ==
    CASE perm = "benches:reserve" -> boardPolicy[b].reserve
      [] perm \in BenchUse -> boardPolicy[b].operate
      [] OTHER -> "any"

RolePresent(p, b, role) ==
    \/ role = "any"
    \/ OrgAdministrator(p)
    \/ \E g \in BoardGrants(p, b) : g.role = role

\* The organisation role counts where no policy sets it aside.
OrgRoleCounts(p, r) ==
    \/ OrgAdministrator(p)
    \/ r \in Board /\ boardPolicy[r].visibility = "ORGANISATION"
    \/ r \in Plan /\ planPolicy[r] = "ORGANISATION"
    \/ r \in Host \cup {Organisation}

FromOrgRole(p) == IF p \in User THEN OrgRolePermissions(orgRole[p]) ELSE {}

\* The assignments that count on a resource.
Considered(p, r) ==
    IF r \in Board THEN BoardGrants(p, r)
    ELSE IF r \in Plan THEN PlanGrants(p, r)
    ELSE {g \in GrantsOf(p) : Applies(g, r)}

\* evaluate: the decision for one permission on one resource.
Allowed(p, perm, r) ==
    /\ perm \in Narrowed[p]
    /\ r \in Board => RolePresent(p, r, RequiredRole(r, perm))
    /\ \/ \E g \in Considered(p, r) : perm \in RolePermissions(g.role)
       \/ OrgRoleCounts(p, r) /\ perm \in FromOrgRole(p)
       \/ r \in Board /\ perm = "benches:read" /\ boardPolicy[r].teams \cap TeamsOf(p) # {}

\* evaluate_anywhere looks at assignments alone, not at policies.
AllowedAnywhere(p, perm) ==
    /\ perm \in Narrowed[p]
    /\ perm \in FromOrgRole(p) \/ \E g \in GrantsOf(p) : perm \in RolePermissions(g.role)

-----------------------------------------------------------------------------
\* Reading: a collection is admitted as a whole, then filtered.

Named(p, perm, rs) == {r \in rs : Allowed(p, perm, r)}

\* Mutant: the collection is admitted by assignments alone.
BenchListAdmittedByGrant(p) == AllowedAnywhere(p, "benches:read")

\* A team named by a policy grants reading without an assignment, so the
\* benches are tried one by one when no assignment does.
BenchListAdmitted(p) ==
    \/ AllowedAnywhere(p, "benches:read")
    \/ Named(p, "benches:read", Board) # {}

ListBenches(p) == IF BenchListAdmitted(p) THEN Named(p, "benches:read", Board) ELSE {}
GetBench(p, b) == Allowed(p, "benches:read", b)

ListAgents(p) == IF AllowedAnywhere(p, "agents:read") THEN Named(p, "agents:read", Host) ELSE {}
GetAgent(p, a) == Allowed(p, "agents:read", a)

ListWorkflows(p) ==
    IF AllowedAnywhere(p, "workflows:read") THEN Named(p, "workflows:read", Plan) ELSE {}
GetWorkflow(p, w) == Allowed(p, "workflows:read", w)

\* An operation is read through its bench.
ListOperations(p) ==
    IF AllowedAnywhere(p, "operations:read")
    THEN {o \in works : Allowed(p, "operations:read", o.on)} ELSE {}
GetOperation(p, o) == Allowed(p, "operations:read", o.on)

\* A CI session: its owner needs the permission somewhere, anybody else on the
\* organisation.
CiAllowed(p, by, perm) ==
    IF p = by THEN AllowedAnywhere(p, perm) ELSE Allowed(p, perm, Organisation)

ListCiSessions(p) ==
    IF AllowedAnywhere(p, "ci:sessions:read")
    THEN {by \in ciBy : CiAllowed(p, by, "ci:sessions:read")} ELSE {}
GetCiSession(p, by) == CiAllowed(p, by, "ci:sessions:read")

\* An artifact of an operation belongs to its bench, and to its CI session
\* when the operation was started by one.
ArtifactAllowed(p, o, perm) ==
    /\ Allowed(p, perm, o.on)
    /\ o.kind = "ci_workflow" =>
         CiAllowed(p, o.by, IF perm = "artifacts:read" THEN "ci:sessions:read" ELSE "ci:sessions:create")

ListArtifacts(p) == {o \in works : ArtifactAllowed(p, o, "artifacts:read")}

\* The dashboard: what an overview shows of benches, reservations, operations.
Overview(p) ==
    LET seen == ListBenches(p)
    IN  [benches |-> seen,
         reservations |-> {b \in seen : leased[b].state # "none"},
         operations |-> {o \in ListOperations(p) : o.on \in seen}]

-----------------------------------------------------------------------------
\* Reservations as the dashboard offers them, and as the routes accept them.

NoLease == [by |-> "none", state |-> "none"]
Taken(b) == leased[b].state # "none"
OwnedBy(p, b) == leased[b].by = p

\* Mutant: ownership alone offers the action.
OfferedToOwner(p, b) ==
    LET acts == OwnedBy(p, b) \/ Allowed(p, "benches:manage", b)
    IN  [release |-> acts /\ leased[b].state \in {"ACTIVATING", "ACTIVE", "UNKNOWN"},
         extend |-> leased[b].state = "ACTIVE" /\ OwnedBy(p, b),
         cancel |-> acts /\ leased[b].state = "SCHEDULED"]

\* reservation_action_permissions
Offered(p, b) ==
    LET mine == OwnedBy(p, b) /\ Allowed(p, "benches:reserve", b)
        acts == mine \/ Allowed(p, "benches:manage", b)
    IN  [release |-> acts /\ leased[b].state \in {"ACTIVATING", "ACTIVE", "UNKNOWN"},
         extend |-> leased[b].state = "ACTIVE" /\ mine,
         cancel |-> acts /\ leased[b].state = "SCHEDULED"]

ReleaseAccepts(p, b) == Taken(b) /\ Allowed(p, "benches:reserve", b) /\ OwnedBy(p, b)
RevokeAccepts(p, b) == Taken(b) /\ Allowed(p, "benches:manage", b)
RenewAccepts(p, b) ==
    leased[b].state = "ACTIVE" /\ Allowed(p, "benches:reserve", b) /\ OwnedBy(p, b)

-----------------------------------------------------------------------------

NoUpload == [by |-> "none"]
Closed == [by |-> "none"]
Streaming == {s \in Subscriber : streams[s] # Closed}

Room == Cardinality(works) + Cardinality(waiting) + Cardinality(ciBy) + Cardinality(Streaming)
            + (IF upload = NoUpload THEN 0 ELSE 1) < MaxOpen

\* Teams and an operator may be there already; policies come later.
AccessInit ==
    /\ orgRole \in {f \in [User -> {"OWNER", "MEMBER", "VIEWER"}] :
                        \A u \in User : f[u] = "OWNER" <=> u = Owner}
    /\ members \in SUBSET (Team \X (User \ {Owner}))
    /\ grants \in {{}} \cup {{[subject |-> u, role |-> "OPERATOR", on |-> Organisation]} :
                                u \in User \ {Owner}}
    /\ boardPolicy = [b \in Board |-> NoPolicy]
    /\ planPolicy = [w \in Plan |-> "ORGANISATION"]
    /\ live = Principal
    /\ leased = [b \in Board |-> NoLease]
    /\ waiting = {} /\ works = {} /\ ciBy = {}
    /\ upload = NoUpload /\ remembered = {}
    /\ streams = [s \in Subscriber |-> Closed]
    /\ slots = 0
    /\ changes = 0

Directory == <<orgRole, members, grants, boardPolicy, planPolicy, live>>
Workload == <<leased, waiting, works, ciBy>>
Scopes == <<upload, remembered, streams, slots>>

-----------------------------------------------------------------------------
\* The directory changes.

Changed == changes < MaxChanges /\ changes' = changes + 1

Caller(perm, r) == \E a \in live : Allowed(a, perm, r)

AssignRole(s, role, r) ==
    /\ Changed /\ Caller("roles:manage", Organisation)
    /\ role # "ORGANISATION_OWNER"
    /\ [subject |-> s, role |-> role, on |-> r] \notin grants
    /\ grants' = grants \cup {[subject |-> s, role |-> role, on |-> r]}
    /\ UNCHANGED <<orgRole, members, boardPolicy, planPolicy, live, Workload, Scopes>>

\* revoke_role, or the assignment's expiry.
RevokeRole(g) ==
    /\ Changed
    /\ grants' = grants \ {g}
    /\ UNCHANGED <<orgRole, members, boardPolicy, planPolicy, live, Workload, Scopes>>

AddTeamMember(t, u) ==
    /\ Changed /\ Caller("teams:manage", Organisation)
    /\ <<t, u>> \notin members
    /\ members' = members \cup {<<t, u>>}
    /\ UNCHANGED <<orgRole, grants, boardPolicy, planPolicy, live, Workload, Scopes>>

\* remove_team_member; deleting the team does it for every member.
RemoveTeamMember(t, u) ==
    /\ Changed /\ Caller("teams:manage", Organisation)
    /\ <<t, u>> \in members
    /\ members' = members \ {<<t, u>>}
    /\ UNCHANGED <<orgRole, grants, boardPolicy, planPolicy, live, Workload, Scopes>>

SetBenchAccessPolicy(b, policy) ==
    /\ Changed /\ Caller("benches:manage", b)
    /\ policy # boardPolicy[b]
    /\ boardPolicy' = [boardPolicy EXCEPT ![b] = policy]
    /\ UNCHANGED <<orgRole, members, grants, planPolicy, live, Workload, Scopes>>

SetWorkflowAccessPolicy(w, visibility) ==
    /\ Changed /\ Caller("workflows:manage", w)
    /\ visibility # planPolicy[w]
    /\ planPolicy' = [planPolicy EXCEPT ![w] = visibility]
    /\ UNCHANGED <<orgRole, members, grants, boardPolicy, live, Workload, Scopes>>

\* A session is revoked or runs out, or a credential is revoked.
LoseLogin(p) ==
    /\ Changed /\ p \in live /\ p # Owner
    /\ live' = live \ {p}
    /\ UNCHANGED <<orgRole, members, grants, boardPolicy, planPolicy, Workload, Scopes>>

-----------------------------------------------------------------------------
\* Routes that act on a bench.

AskFor(p) == p \in live /\ UNCHANGED <<Directory, Scopes, changes>>

CreateReservation(p, b, state) ==
    /\ AskFor(p)
    /\ Allowed(p, "benches:reserve", b)
    /\ ~Taken(b)
    /\ leased' = [leased EXCEPT ![b] = [by |-> p, state |-> state]]
    /\ UNCHANGED <<waiting, works, ciBy>>

\* What the coordinator and the Agent make of a reservation meanwhile.
LeaseMoves(b, state) ==
    /\ <<leased[b].state, state>> \in {<<"SCHEDULED", "ACTIVATING">>, <<"ACTIVATING", "ACTIVE">>,
            <<"ACTIVATING", "UNKNOWN">>, <<"ACTIVE", "UNKNOWN">>}
    /\ leased' = [leased EXCEPT ![b].state = state]
    /\ UNCHANGED <<Directory, Scopes, changes, waiting, works, ciBy>>

RenewReservation(p, b) ==
    /\ AskFor(p)
    /\ RenewAccepts(p, b)
    /\ \E state \in {"ACTIVE", "UNKNOWN"} : leased' = [leased EXCEPT ![b].state = state]
    /\ UNCHANGED <<waiting, works, ciBy>>

EndReservation(p, b) ==
    /\ AskFor(p)
    /\ ReleaseAccepts(p, b) \/ RevokeAccepts(p, b)
    /\ leased' = [leased EXCEPT ![b] = NoLease]
    /\ UNCHANGED <<waiting, works, ciBy>>

JoinQueue(p, b) ==
    /\ Room /\ AskFor(p)
    /\ GetBench(p, b) /\ Allowed(p, "benches:reserve", b)
    /\ waiting' = waiting \cup {<<p, b>>}
    /\ UNCHANGED <<leased, works, ciBy>>

\* The owner, or a bench administrator, whatever else the owner has lost.
LeaveQueue(p, q, b) ==
    /\ AskFor(p)
    /\ <<q, b>> \in waiting
    /\ p = q \/ Allowed(p, "benches:manage", b)
    /\ waiting' = waiting \ {<<q, b>>}
    /\ UNCHANGED <<leased, works, ciBy>>

\* The queue worker grants with its own authority.
PromoteQueued(p, b) ==
    /\ <<p, b>> \in waiting /\ ~Taken(b)
    /\ leased' = [leased EXCEPT ![b] = [by |-> p, state |-> "ACTIVATING"]]
    /\ waiting' = waiting \ {<<p, b>>}
    /\ UNCHANGED <<Directory, Scopes, changes, works, ciBy>>

Work(p, b, kind, ok) == [by |-> p, on |-> b, kind |-> kind, justified |-> ok]

HoldsLease(p, b) == leased[b] = [by |-> p, state |-> "ACTIVE"]

Begin(work) == works' = works \cup {work}

\* A probe needs no reservation; a reset or a serial read needs one's own.
ProbeBench(p, b) ==
    /\ Room /\ AskFor(p) /\ Allowed(p, "benches:operate", b)
    /\ Begin(Work(p, b, "probe", TRUE))
    /\ UNCHANGED <<leased, waiting, ciBy>>

ResetBench(p, b) ==
    /\ Room /\ AskFor(p) /\ Allowed(p, "benches:reset", b) /\ HoldsLease(p, b)
    /\ Begin(Work(p, b, "reset", TRUE))
    /\ UNCHANGED <<leased, waiting, ciBy>>

ReadBenchSerial(p, b) ==
    /\ Room /\ AskFor(p) /\ Allowed(p, "benches:serial", b) /\ HoldsLease(p, b)
    /\ Begin(Work(p, b, "serial", TRUE))
    /\ UNCHANGED <<leased, waiting, ciBy>>

\* A workflow is allowed on the workflow and on the bench it is placed on.
RunWorkflow(p, w, b) ==
    /\ Room /\ AskFor(p)
    /\ Allowed(p, "workflows:run", w) /\ Allowed(p, "benches:operate", b)
    /\ HoldsLease(p, b) \/ (~Taken(b) /\ Allowed(p, "benches:reserve", b))
    /\ leased' = [leased EXCEPT ![b] = [by |-> p, state |-> "ACTIVE"]]
    /\ \E kind \in {"workflow"} \cup (IF p \in ciBy THEN {"ci_workflow"} ELSE {}) :
            Begin(Work(p, b, kind, TRUE))
    /\ UNCHANGED <<waiting, ciBy>>

CancelAsked(p, o) ==
    /\ AskFor(p) /\ Allowed(p, "operations:cancel", o.on) /\ o.by = p
    /\ works' = works \ {o}
    /\ UNCHANGED <<leased, waiting, ciBy>>

WorkEnds(o) ==
    /\ works' = works \ {o}
    /\ UNCHANGED <<Directory, Scopes, changes, leased, waiting, ciBy>>

CreateCiSession(p) ==
    /\ Room /\ AskFor(p) /\ AllowedAnywhere(p, "ci:sessions:create")
    /\ ciBy' = ciBy \cup {p}
    /\ UNCHANGED <<leased, waiting, works>>

\* cancel or finalize, by the owner or by an administrator
EndCiSession(p, by) ==
    /\ AskFor(p) /\ CiAllowed(p, by, "ci:sessions:cancel")
    /\ ciBy' = ciBy \ {by}
    /\ UNCHANGED <<leased, waiting, works>>

-----------------------------------------------------------------------------
\* A firmware upload: checked, stored chunk by chunk, dispatched.

\* Mutant: the scope outlives its request.
EndScopeKept == remembered' = remembered

\* request_scope forgets what the request decided.
EndScope == remembered' = {}

FlashNeeds == {"artifacts:write", "benches:flash"}

\* A decision of the scope is taken from it, else made and kept.
Decided(p, perm, b) == <<p, perm, b>> \in remembered \/ Allowed(p, perm, b)

FlashBegins(p, b) ==
    /\ p \in live /\ upload = NoUpload /\ Room
    /\ \A perm \in FlashNeeds : Decided(p, perm, b)
    /\ HoldsLease(p, b)
    /\ remembered' = remembered \cup {<<p, perm, b>> : perm \in FlashNeeds}
    /\ upload' = [by |-> p, on |-> b,
                  justified |-> \A perm \in FlashNeeds : Allowed(p, perm, b)]
    /\ UNCHANGED <<Directory, Workload, streams, slots, changes>>

\* The last chunk is in: the same decisions are asked again, of the scope, and
\* the command is created under the lease read at the start.
FlashDispatches ==
    /\ upload # NoUpload
    /\ \A perm \in FlashNeeds : Decided(upload.by, perm, upload.on)
    /\ works' = works \cup {Work(upload.by, upload.on, "flash", upload.justified)}
    /\ upload' = NoUpload /\ EndScope
    /\ UNCHANGED <<Directory, leased, waiting, ciBy, streams, slots, changes>>

\* Too large, or the client goes away.
FlashAborts ==
    /\ upload # NoUpload
    /\ upload' = NoUpload /\ EndScope
    /\ UNCHANGED <<Directory, Workload, streams, slots, changes>>

-----------------------------------------------------------------------------
\* The event stream.

\* acquire_sse_stream, before the response starts.
OpenStream(s, p) ==
    /\ p \in live /\ streams[s] = Closed /\ slots < StreamLimit /\ Room
    /\ slots' = slots + 1
    /\ streams' = [streams EXCEPT ![s] = [by |-> p]]
    /\ UNCHANGED <<Directory, Workload, upload, remembered, changes>>

\* Mutant: the stream keeps the actor it was opened by.
StreamActorKept(s) == TRUE

\* _refresh_sse_actor
StreamActor(s) == streams[s].by \in live

\* Mutant: the end of a stream gives its slot back only on a revoked login.
SlotsKept == slots

\* release_sse_stream
Slots == IF slots > 0 THEN slots - 1 ELSE 0

CloseStream(s) ==
    /\ streams[s] # Closed
    /\ streams' = [streams EXCEPT ![s] = Closed]
    /\ slots' = Slots
    /\ UNCHANGED <<Directory, Workload, upload, remembered, changes>>

\* A poll refreshes the actor in a scope of its own; it shows an overview and
\* sleeps, or ends the stream.  The loop also ends when the client has gone or
\* the stream is old.
Poll(s) == streams[s] # Closed /\ ~StreamActor(s) /\ CloseStream(s)

AccessNext ==
    \/ \E s \in (Principal \cup Team) \ {Owner}, role \in RoleName, r \in Resource : AssignRole(s, role, r)
    \/ \E g \in grants : RevokeRole(g)
    \/ \E t \in Team, u \in User \ {Owner} : AddTeamMember(t, u) \/ RemoveTeamMember(t, u)
    \/ \E b \in Board, policy \in Policies : SetBenchAccessPolicy(b, policy)
    \/ \E w \in Plan, v \in {"ORGANISATION", "RESTRICTED", "ADMIN_ONLY"} : SetWorkflowAccessPolicy(w, v)
    \/ \E p \in Principal : LoseLogin(p)
    \/ \E p \in Principal, b \in Board :
        \/ \E state \in {"SCHEDULED", "ACTIVATING"} : CreateReservation(p, b, state)
        \/ RenewReservation(p, b)
        \/ EndReservation(p, b)
        \/ JoinQueue(p, b)
        \/ \E q \in Principal : LeaveQueue(p, q, b)
        \/ PromoteQueued(p, b)
        \/ ProbeBench(p, b)
        \/ ResetBench(p, b)
        \/ ReadBenchSerial(p, b)
        \/ \E w \in Plan : RunWorkflow(p, w, b)
        \/ FlashBegins(p, b)
    \/ \E b \in Board, state \in {"ACTIVATING", "ACTIVE", "UNKNOWN"} : LeaseMoves(b, state)
    \/ \E p \in Principal, o \in works : CancelAsked(p, o)
    \/ \E o \in works : WorkEnds(o)
    \/ \E p \in Principal : CreateCiSession(p)
    \/ \E p \in Principal, by \in ciBy : EndCiSession(p, by)
    \/ FlashDispatches
    \/ FlashAborts
    \/ \E s \in Subscriber, p \in Principal : OpenStream(s, p)
    \/ \E s \in Subscriber : Poll(s)
    \/ \E s \in Subscriber : CloseStream(s)

AccessSpec == AccessInit /\ [][AccessNext]_accessVars

AccessTurn == focus = "access"

\* The stream's loop sleeps and polls again for as long as the stream is open.
AccessFairness == \A s \in Subscriber : WF_accessVars(AccessTurn /\ Poll(s))

-----------------------------------------------------------------------------

\* Every variable holds what its table or field does, and the stream counter
\* counts the open streams, within its limit (acquire_sse_stream).
AccessTypeOK ==
    /\ orgRole \in [User -> {"OWNER", "ADMIN", "MEMBER", "VIEWER", "NONE"}]
    /\ members \subseteq Team \X User
    /\ grants \subseteq [subject : Principal \cup Team, role : RoleName, on : Resource]
    /\ boardPolicy \in [Board -> BoardPolicy]
    /\ planPolicy \in [Plan -> {"ORGANISATION", "RESTRICTED", "ADMIN_ONLY"}]
    /\ live \subseteq Principal
    /\ \A b \in Board : leased[b] = NoLease
          \/ leased[b] \in [by : Principal, state : {"SCHEDULED", "ACTIVATING", "ACTIVE", "UNKNOWN"}]
    /\ waiting \subseteq Principal \X Board
    /\ \A o \in works : o.by \in Principal /\ o.on \in Board
    /\ ciBy \subseteq Principal
    /\ upload = NoUpload \/ upload \in [by : Principal, on : Board, justified : BOOLEAN]
    /\ remembered \subseteq Principal \X FlashNeeds \X Board
    /\ slots = Cardinality(Streaming)
    /\ slots \in 0..StreamLimit
    /\ changes \in 0..MaxChanges

\* A collection lists exactly what can be fetched by name, whatever assignments,
\* teams and policies say: what a list hides a get denies, and what a get
\* returns a list shows (operational_access.py).
ListAgreesWithGet ==
    \A p \in Principal :
        /\ ListBenches(p) = {b \in Board : GetBench(p, b)}
        /\ ListAgents(p) = {a \in Host : GetAgent(p, a)}
        /\ ListWorkflows(p) = {w \in Plan : GetWorkflow(p, w)}
        /\ ListOperations(p) = {o \in works : GetOperation(p, o)}
        /\ ListCiSessions(p) = {by \in ciBy : GetCiSession(p, by)}
        /\ \A o \in Overview(p).operations : GetOperation(p, o) /\ GetBench(p, o.on)

\* What the dashboard offers on a reservation, a route accepts
\* (reservation_action_permissions against release, revoke and renew).
OfferedActionsWork ==
    \A p \in Principal, b \in Board :
        /\ Offered(p, b).release \/ Offered(p, b).cancel => ReleaseAccepts(p, b) \/ RevokeAccepts(p, b)
        /\ Offered(p, b).extend => RenewAccepts(p, b)

\* Work on a bench is begun by a principal who was allowed it when the request
\* came in: a revoked role is gone from the next request on (request_scope).
AuthorisedWhenBegun == \A o \in works : o.justified

\* The three together.
AccessSound == ListAgreesWithGet /\ OfferedActionsWork /\ AuthorisedWhenBegun

\* No stream outlives its login: once the session is revoked the stream ends,
\* and its slot is free (_refresh_sse_actor).
StreamsHaveLogins == \A s \in Subscriber : streams[s] # Closed => streams[s].by \in live
=============================================================================

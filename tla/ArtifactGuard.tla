---------------------------- MODULE ArtifactGuard ---------------------------
(***************************************************************************)
(* Who may see, change and hand on an artifact: ProtectedArtifactService.  *)
(* An artifact has no grants of its own; access is decided on its trusted  *)
(* parent, resolved at every call through the owning operation, workflow   *)
(* run or CI session.  The chain grows and breaks under the artifact: work *)
(* starts after its input is present, its CI binding follows, benches move, *)
(* definitions are replaced.  One operation, one session.                  *)
(***************************************************************************)
EXTENDS Naturals, FiniteSets

CONSTANTS
    Viewer,         \* authenticated principals of the organisation
    Profiles,       \* the sets of grants a principal may hold
    HideDenied,     \* identity.hide_unauthorised_resources
    MaxGuardSteps   \* bound: requests and changes of the chain

Permissions == {"artifacts:read", "artifacts:write", "artifacts:delete",
                "ci:sessions:read", "ci:sessions:create"}

GuardResource == {"bench", "workflow", "organisation"}

ASSUME GuardAssumption ==
    /\ \A p \in Profiles : p \subseteq Permissions \X GuardResource
    /\ HideDenied \in BOOLEAN /\ MaxGuardSteps \in Nat

\* One artifact of each owner type, and one the Agent registered.
OwnerType == {"OPERATION", "WORKFLOW_RUN", "CI_SESSION", "WORKFLOW_STEP"}

Guarded == OwnerType \cup {"REMOTE"}

Unowned == "nobody"

VARIABLES
    profileOf,   \* the grants of each principal
    present,     \* artifacts with a row and content
    work,        \* the operation's command type, NONE before it is created
    benchHere,   \* the bench is in the inventory, of the Agent the command went to
    sameDefinition, \* the catalog's entry is the definition the command carries
    sessionOf,   \* who asked for the CI session; Unowned when there is none
    boundTo,     \* is the session bound to the operation
    outcome,     \* the last request: who, on what, and how it ended
    guardSteps

guardVars == <<profileOf, present, work, benchHere, sameDefinition, sessionOf, boundTo, outcome,
               guardSteps>>

Silent == [who |-> Unowned, item |-> "none", ends |-> "none", permission |-> "none"]

GuardInit ==
    /\ profileOf \in [Viewer -> Profiles] /\ present = {} /\ work = "NONE" /\ benchHere = TRUE
    /\ sameDefinition = TRUE /\ sessionOf = Unowned /\ boundTo = FALSE
    /\ outcome = Silent /\ guardSteps = 0

\* An assignment on the organisation reaches everything in it.
May(v, permission, resource) ==
    <<permission, resource>> \in profileOf[v] \/ <<permission, "organisation">> \in profileOf[v]

MayAnywhere(v, permission) == \E r \in GuardResource : <<permission, r>> \in profileOf[v]

-----------------------------------------------------------------------------
(* The trusted parent: the resources an artifact hangs on and, where a CI  *)
(* session launched the work, the session.                                 *)

NoParent == [found |-> FALSE, resources |-> {}, session |-> FALSE]

Parent(resources, session) == [found |-> TRUE, resources |-> resources, session |-> session]

BenchOperationParent == IF work # "NONE" /\ benchHere THEN Parent({"bench"}, FALSE) ELSE NoParent

\* Mutant: a workflow's artifacts are judged as the bench's.
WorkflowOperationParentBench == IF sameDefinition THEN Parent({"bench"}, FALSE) ELSE NoParent

\* A workflow's operation: its definition, its bench and its session if bound.
WorkflowOperationParent ==
    IF ~sameDefinition \/ (boundTo /\ sessionOf = Unowned) THEN NoParent
    ELSE Parent({"workflow", "bench"}, boundTo)

OperationParent ==
    IF ~BenchOperationParent.found THEN NoParent
    ELSE IF work = "RUN_WORKFLOW" THEN WorkflowOperationParent ELSE BenchOperationParent

\* A run and a session look their definition up by name and version and do not
\* compare it; a run needs its bench in the inventory, of whichever Agent.  Rows
\* of both tables are replaced and never removed.  A workflow step cannot be
\* resolved, and fails closed.
OwnerParent(owner) ==
    CASE owner = "OPERATION" -> OperationParent
      [] owner = "WORKFLOW_RUN" ->
            IF work = "RUN_WORKFLOW" THEN Parent({"workflow", "bench"}, FALSE) ELSE NoParent
      [] owner = "CI_SESSION" ->
            IF sessionOf = Unowned THEN NoParent
            ELSE IF ~boundTo THEN Parent({}, TRUE)
            ELSE IF BenchOperationParent.found
                 THEN Parent({"workflow", "bench"}, TRUE) ELSE NoParent
      [] owner = "WORKFLOW_STEP" -> NoParent

\* The Agent's artifact names its command and operation.
RemoteParent == IF work = "NONE" \/ ~benchHere THEN NoParent ELSE OperationParent

ParentOf(item) == IF item = "REMOTE" THEN RemoteParent ELSE OwnerParent(item)

-----------------------------------------------------------------------------
(* The decision. *)

CiPermission(permission) ==
    IF permission = "artifacts:read" THEN "ci:sessions:read" ELSE "ci:sessions:create"

\* Mutant: a session is open to whoever may read sessions somewhere.
CiSessionAllowedAnywhere(v, permission) == MayAnywhere(v, permission)

\* One's own session needs the permission anywhere, another's on the
\* organisation.
CiSessionAllowed(v, permission) ==
    IF sessionOf = v THEN MayAnywhere(v, permission) ELSE May(v, permission, "organisation")

\* _parent_is_allowed, which filters listings.
ParentAllows(v, parent, permission) ==
    /\ parent.found
    /\ parent.session => CiSessionAllowed(v, CiPermission(permission))
    /\ IF parent.resources # {} THEN \A r \in parent.resources : May(v, permission, r)
       ELSE parent.session /\ MayAnywhere(v, permission)

\* How _require_parent ends: the first refusal, worded as a missing artifact
\* when the deployment hides what is not allowed.
Refusal == IF HideDenied THEN "not found" ELSE "denied"

RequireParent(v, parent, permission) ==
    CASE ~parent.found -> Refusal
      [] parent.found /\ parent.session /\ ~CiSessionAllowed(v, CiPermission(permission)) ->
            Refusal
      [] parent.found /\ (\E r \in parent.resources : ~May(v, permission, r)) -> Refusal
      [] parent.found /\ parent.resources = {} /\ parent.session
            /\ ~MayAnywhere(v, permission) -> Refusal
      [] OTHER -> "allowed"

Visible(v) == {i \in present : ParentAllows(v, ParentOf(i), "artifacts:read")}

-----------------------------------------------------------------------------
(* Requests. *)

Ends(v, item, permission, ends) ==
    /\ guardSteps < MaxGuardSteps /\ guardSteps' = guardSteps + 1
    /\ outcome' = [who |-> v, item |-> item, ends |-> ends, permission |-> permission]
    /\ UNCHANGED <<profileOf, work, benchHere, sameDefinition, sessionOf, boundTo>>

\* Metadata of an artifact; its content is opened through the same check.
Get(v, item) ==
    /\ Ends(v, item, "artifacts:read",
              IF item \in present THEN RequireParent(v, ParentOf(item), "artifacts:read")
              ELSE "not found")
    /\ UNCHANGED present

UploadOwned(v, item) ==
    LET ends == RequireParent(v, OwnerParent(item), "artifacts:write")
    IN /\ item \in OwnerType /\ Ends(v, item, "artifacts:write", ends)
       /\ present' = IF ends = "allowed" THEN present \cup {item} ELSE present

\* The input of a flash is present under an operation not yet created: its
\* parent is the route.
UploadForRoute(v) ==
    LET route == IF benchHere THEN Parent({"bench"}, FALSE) ELSE NoParent
        ends == RequireParent(v, route, "artifacts:write")
    IN /\ work = "NONE" /\ Ends(v, "OPERATION", "artifacts:write", ends)
       /\ present' = IF ends = "allowed" THEN present \cup {"OPERATION"} ELSE present

Delete(v, item) ==
    LET ends == IF item \in present THEN RequireParent(v, ParentOf(item), "artifacts:delete")
                ELSE "not found"
    IN /\ item \in OwnerType /\ Ends(v, item, "artifacts:delete", ends)
       /\ present' = IF ends = "allowed" THEN present \ {item} ELSE present

\* A download capability for an Agent of the organisation.
IssueCapability(v, item) ==
    /\ item \in OwnerType
    /\ Ends(v, item, "artifacts:read",
              IF item \in present THEN RequireParent(v, ParentOf(item), "artifacts:read")
              ELSE "not found")
    /\ UNCHANGED present

-----------------------------------------------------------------------------
(* The chain changes. *)

ChainChanges ==
    /\ guardSteps < MaxGuardSteps /\ guardSteps' = guardSteps + 1 /\ outcome' = Silent
    /\ \/ /\ work = "NONE" /\ benchHere
          /\ work' \in {"FLASH", "RUN_WORKFLOW"}
          /\ UNCHANGED <<profileOf, present, benchHere, sameDefinition, sessionOf, boundTo>>
       \/ /\ work # "NONE" /\ "REMOTE" \notin present /\ present' = present \cup {"REMOTE"}
          /\ UNCHANGED <<profileOf, work, benchHere, sameDefinition, sessionOf, boundTo>>
       \/ /\ sessionOf = Unowned
          /\ \E v \in Viewer : sessionOf' = v
          /\ UNCHANGED <<profileOf, present, work, benchHere, sameDefinition, boundTo>>
       \/ /\ sessionOf # Unowned /\ work = "RUN_WORKFLOW" /\ ~boundTo /\ boundTo' = TRUE
          /\ UNCHANGED <<profileOf, present, work, benchHere, sameDefinition, sessionOf>>
       \/ /\ benchHere' = ~benchHere
          /\ UNCHANGED <<profileOf, present, work, sameDefinition, sessionOf, boundTo>>
       \/ /\ sameDefinition' = ~sameDefinition
          /\ UNCHANGED <<profileOf, present, work, benchHere, sessionOf, boundTo>>
       \/ /\ \E v \in Viewer, p \in Profiles \ {{}} : profileOf' = [profileOf EXCEPT ![v] = p]
          /\ UNCHANGED <<present, work, benchHere, sameDefinition, sessionOf, boundTo>>

GuardNext ==
    \/ \E v \in Viewer : UploadForRoute(v)
    \/ \E v \in Viewer, i \in Guarded :
          Get(v, i) \/ UploadOwned(v, i) \/ Delete(v, i) \/ IssueCapability(v, i)
    \/ ChainChanges

GuardSpec == GuardInit /\ [][GuardNext]_guardVars

-----------------------------------------------------------------------------
(* Properties. *)

GuardTypeOK ==
    /\ profileOf \in [Viewer -> SUBSET (Permissions \X GuardResource)] /\ present \subseteq Guarded
    /\ work \in {"NONE", "FLASH", "RUN_WORKFLOW"} /\ sessionOf \in Viewer \cup {Unowned}
    /\ benchHere \in BOOLEAN /\ sameDefinition \in BOOLEAN /\ boundTo \in BOOLEAN
    /\ outcome.ends \in {"none", "allowed", "denied", "not found"}

\* Whichever way an artifact is reached, the answer is the same: what a
\* principal's listing shows is exactly what a read would give; the Agent's
\* copy and the operation's own input have the same readers; and once the work
\* is bound to a CI session, none of the session's or the operation's artifacts
\* is read by a principal who may not read that session.  Where deployments
\* hide what is not allowed, no request can tell a denied artifact from a
\* missing one.
GuardSound ==
    /\ \A v \in Viewer : Visible(v) =
          {i \in present : RequireParent(v, ParentOf(i), "artifacts:read") = "allowed"}
    /\ {"OPERATION", "REMOTE"} \subseteq present => \A v \in Viewer :
          ("OPERATION" \in Visible(v)) <=> ("REMOTE" \in Visible(v))
    /\ boundTo => \A v \in Viewer : Visible(v) \cap {"OPERATION", "REMOTE", "CI_SESSION"} # {} =>
          \/ <<"ci:sessions:read", "organisation">> \in profileOf[v]
          \/ v = sessionOf /\ MayAnywhere(v, "ci:sessions:read")
    /\ outcome.ends = "denied" => ~HideDenied
=============================================================================

-------------------------- MODULE CommandAdmission --------------------------
(***************************************************************************)
(* Who may have a remote command created, replayed, dispatched and         *)
(* cancelled: the authorisation half of RemoteCommandService, and the      *)
(* checks of DistributedWorkflowCoordinator before it.  A route decides,   *)
(* persists the decision as a snapshot and reads the lease; permissions,   *)
(* catalog, lease, Agent and names change before the service is called,    *)
(* which decides again.  Delivery itself is in RemoteCommands.             *)
(***************************************************************************)
EXTENDS Naturals, FiniteSets

CONSTANTS
    Actor,          \* authenticated principals of the organisation
    CommandKey,     \* idempotency keys of commands to one bench of one Agent
    MaxRenewals,    \* bound: lease versions
    LeaseHorizon,   \* bound: the clock runs from 0 to LeaseHorizon
    MaxAltered,     \* bound: changes around the calls
    MaxAsked        \* bound: calls of the service

Unidentified == "nobody"     \* the caller is a legacy API token or the server itself

ASSUME AdmissionAssumption ==
    /\ Unidentified \notin Actor
    /\ MaxRenewals \in Nat \ {0} /\ LeaseHorizon \in Nat
    /\ MaxAltered \in Nat /\ MaxAsked \in Nat

CommandType == {"PROBE", "FLASH", "RUN_WORKFLOW"}

Mutating == {"FLASH", "RUN_WORKFLOW"}

CommandRight == {"benches:operate", "benches:flash", "workflows:run",
               "operations:cancel", "ci:sessions:cancel"}

\* _COMMAND_PERMISSIONS: what the principal needs on the bench.
CommandPermission(t) == IF t = "FLASH" THEN "benches:flash" ELSE "benches:operate"

\* A workflow command's evidence is the decision on the workflow, any other
\* command's the decision on the bench.
EvidencePermission(t) == IF t = "RUN_WORKFLOW" THEN "workflows:run" ELSE CommandPermission(t)

Snapshot == [who : Actor, permission : CommandRight]

NoSnapshot == [who |-> Unidentified, permission |-> "none"]

\* The restrictions of a credential: none, or an API key for bench work only.
Restrictions == {CommandRight, {"benches:operate", "benches:flash"}}

NoLeaseRead == [version |-> 0, until |-> 0, released |-> FALSE]

Call == [who : Actor \cup {Unidentified}, named : BOOLEAN, type : CommandType, key : CommandKey,
         lease : [version : 0..MaxRenewals, until : 0..LeaseHorizon, released : BOOLEAN],
         evidence : Snapshot \cup {NoSnapshot}, limits : Restrictions]

Absent == [status |-> "NONE"]

AdmittedStatus == {"CREATED", "QUEUED", "DISPATCHED", "SUCCEEDED", "CANCELLED"}

VARIABLES
    rights,      \* <<principal, permission>> pairs a role assignment gives now
    renamed,     \* principals whose display name changed
    trusted,     \* is the definition the workflows carry the catalog's entry
    agentIs,     \* the Agent's status; NONE when the bench is no longer its own
    leaseNow,      \* the lease of the bench as the server stores it
    time,
    evidence,    \* authorisation_snapshots
    calls,       \* calls that have passed their route and not reached the service
    commands,    \* remote_commands, by idempotency key
    bound,       \* the command the CI session is bound to, by its key
    shown,       \* what the last step let out: a command answered to a caller,
                 \* sent to the Agent, or cancelled on the Agent
    altered, askedFor

admissionVars == <<rights, renamed, trusted, agentIs, leaseNow, time, evidence, calls, commands,
                   bound, shown, altered, askedFor>>

world == <<rights, renamed, trusted, agentIs, leaseNow, time, altered>>

NotBound == "none"

Quiet == [kind |-> "nothing"]

AdmissionInit ==
    /\ rights = Actor \X CommandRight /\ renamed = {} /\ trusted = TRUE /\ agentIs = "ONLINE"
    /\ leaseNow = [version |-> 1, until |-> 0, released |-> FALSE] /\ time = 0
    /\ evidence = {} /\ calls = {} /\ commands = [k \in CommandKey |-> Absent]
    /\ bound = NotBound /\ shown = Quiet
    /\ altered = 0 /\ askedFor = 0

\* Restrictions restrictions narrow what the principal's assignments give.
Permits(who, permission, limits) == <<who, permission>> \in rights /\ permission \in limits

-----------------------------------------------------------------------------
(* What changes around the calls. *)

WorldChanges ==
    /\ altered < MaxAltered /\ altered' = altered + 1
    /\ \/ /\ \E g \in rights : rights' = rights \ {g}
          /\ UNCHANGED <<renamed, trusted, agentIs>>
       \/ /\ \E a \in Actor \ renamed : renamed' = renamed \cup {a}
          /\ UNCHANGED <<rights, trusted, agentIs>>
       \/ /\ trusted' = ~trusted
          /\ UNCHANGED <<rights, renamed, agentIs>>
       \/ /\ \E s \in {"DRAINING", "REVOKED", "NONE"} : agentIs' = s
          /\ UNCHANGED <<rights, renamed, trusted>>
    /\ shown' = Quiet
    /\ UNCHANGED <<leaseNow, time, evidence, calls, commands, bound, askedFor>>

\* The Agent's connection comes and goes.
PresenceChanges ==
    /\ \/ agentIs = "ONLINE" /\ agentIs' = "OFFLINE"
       \/ agentIs = "OFFLINE" /\ agentIs' = "ONLINE"
    /\ shown' = Quiet
    /\ UNCHANGED <<rights, renamed, trusted, leaseNow, time, evidence, calls, commands, bound,
                   altered, askedFor>>

LeaseChanges ==
    /\ \/ /\ ~leaseNow.released /\ leaseNow.version < MaxRenewals
          /\ leaseNow' = [version |-> leaseNow.version + 1, until |-> LeaseHorizon,
                        released |-> FALSE]
          /\ UNCHANGED time
       \/ /\ ~leaseNow.released /\ leaseNow' = [leaseNow EXCEPT !.released = TRUE]
          /\ UNCHANGED time
       \/ /\ time < LeaseHorizon /\ time' = time + 1
          /\ UNCHANGED leaseNow
    /\ shown' = Quiet
    /\ UNCHANGED <<rights, renamed, trusted, agentIs, evidence, calls, commands, bound,
                   altered, askedFor>>

-----------------------------------------------------------------------------
(* The route: decide, persist the decision, read the lease. *)

\* The principal as loaded for this request, and the actor context made of it.
ActorContext(who) == [who |-> who, named |-> who \in renamed]

\* The catalog's entry is the definition the request carries.
TrustedRequest(type) == type = "RUN_WORKFLOW" => trusted

\* An actor whose principal, name and evidence are those of the request.
RequestContext(c, actor) ==
    /\ c.who = actor.who /\ c.named = actor.named
    /\ c.evidence # NoSnapshot => c.evidence.who = actor.who

\* DistributedWorkflowCoordinator asks for workflows:run before anything else.
AuthoriseWorkflow(c) ==
    c.type = "RUN_WORKFLOW" /\ c.who # Unidentified => Permits(c.who, "workflows:run", c.limits)

\* The bench of a workflow must be one the principal may operate.
AuthoriseBench(c) ==
    c.type = "RUN_WORKFLOW" /\ c.who # Unidentified => Permits(c.who, "benches:operate", c.limits)

\* Two requests under one key are one request when this agrees: everything but
\* the snapshot, which is fresh in every request.
Fingerprint(c) == <<c.who, c.named, c.type, c.limits>>

\* require_for_new_work: the lease handed to the call is active now.
LeaseRead(type) ==
    IF type \in Mutating /\ ~leaseNow.released /\ time <= leaseNow.until
    THEN leaseNow ELSE NoLeaseRead

Ask(who, type, key, limits, fresh) ==
    LET decision == [who |-> who, permission |-> EvidencePermission(type)]
        c == [who |-> who, named |-> ActorContext(who).named, type |-> type, key |-> key,
              lease |-> LeaseRead(type), limits |-> limits,
              evidence |-> IF fresh THEN decision ELSE NoSnapshot]
    IN /\ askedFor < MaxAsked /\ askedFor' = askedFor + 1
       /\ \A d \in calls : d.who # who
       /\ fresh => Permits(who, decision.permission, limits)
       /\ TrustedRequest(type) /\ RequestContext(c, ActorContext(who))
       /\ AuthoriseWorkflow(c) /\ AuthoriseBench(c)
       /\ \A d \in calls : d.type = "RUN_WORKFLOW" /\ type = "RUN_WORKFLOW" /\ d.key = key =>
             Fingerprint(d) = Fingerprint(c)
       /\ calls' = calls \cup {c}
       /\ evidence' = IF fresh THEN evidence \cup {decision} ELSE evidence
       /\ shown' = Quiet /\ UNCHANGED <<world, commands, bound>>

-----------------------------------------------------------------------------
(* RemoteCommandService.create. *)

\* _require_route: the bench is still the Agent's.
Routed == agentIs # "NONE"

\* Mutant: any persisted snapshot will do.
SnapshotEvidenceAny(snapshot, who, permission) == snapshot \in evidence

\* Snapshot evidence: it exists, and names the principal and the permission.
SnapshotEvidence(snapshot, who, permission) ==
    snapshot \in evidence /\ snapshot.who = who /\ snapshot.permission = permission

\* The bench permission, askedFor again of the identity service; a legacy token
\* carries no principal to ask about.
ResourceAuthorised(c) == c.who # Unidentified => Permits(c.who, CommandPermission(c.type), c.limits)

\* Mutant: the service trusts the decision the route took.
IdentityAuthorisedByRoute(c) == TRUE

\* The evidence's permission, askedFor again where it is another one.
IdentityAuthorised(c) ==
    c.who # Unidentified /\ EvidencePermission(c.type) # CommandPermission(c.type) =>
        Permits(c.who, EvidencePermission(c.type), c.limits)

\* The definition in the payload is still the catalog's.
TrustedDefinition(c) == c.who # Unidentified /\ c.type = "RUN_WORKFLOW" => trusted

\* A snapshot handed over must be the right one; without one the service
\* persists its own decision.
CreateAuthorised(c) ==
    /\ ResourceAuthorised(c) /\ TrustedDefinition(c) /\ IdentityAuthorised(c)
    /\ c.who # Unidentified /\ c.evidence # NoSnapshot =>
          SnapshotEvidence(c.evidence, c.who, EvidencePermission(c.type))

EvidenceOf(c) ==
    IF c.who = Unidentified THEN NoSnapshot
    ELSE [who |-> c.who, permission |-> EvidencePermission(c.type)]

\* _validate_agent_accepts_new_work: OFFLINE is good enough to queue.
AcceptsNewWork(queue) == agentIs = "ONLINE" \/ (queue /\ agentIs = "OFFLINE")

ValidAt(lease) == lease.version # 0 /\ ~lease.released /\ time <= lease.until

\* _validate_lease: mutating work needs the lease the route read to be valid.
LeaseAdmits(c) == c.type \in Mutating => ValidAt(c.lease)

\* Mutant: a retry is recognised by its key and content alone.
IdempotentReplayByKey(c, row) == row.type = c.type /\ row.version = c.lease.version

\* The stored command is this principal's, with the same content, and the
\* credential still covers both permissions; the rights are not askedFor again.
IdempotentReplay(c, row) ==
    /\ row.type = c.type /\ row.version = c.lease.version
    /\ row.who = c.who
    /\ c.who # Unidentified =>
          /\ row.named = c.named
          /\ {CommandPermission(c.type), EvidencePermission(c.type)} \subseteq c.limits
          /\ SnapshotEvidence(row.evidence, c.who, EvidencePermission(c.type))

\* Mutant: only the reservation and version are compared.
DispatchLeaseStale(row, lease) == lease.version = row.version

\* _validate_dispatch_lease: the caller's lease is the command's, and valid.
DispatchLease(row, lease) ==
    IF row.version = 0 THEN lease.version = 0 ELSE lease.version = row.version /\ ValidAt(lease)

Dispatched(row, lease) ==
    IF AcceptsNewWork(FALSE) /\ DispatchLease(row, lease)
    THEN [row EXCEPT !.status = "DISPATCHED"] ELSE row

\* What a dispatch lets out: the command, with the lease it goes with.
Sent(key, row) ==
    IF row.status = "DISPATCHED" THEN [kind |-> "sent", key |-> key, version |-> row.version]
    ELSE Quiet

CreateCommand(c) ==
    /\ c \in calls /\ calls' = calls \ {c}
    /\ LET row == commands[c.key]
           offline == agentIs = "OFFLINE"
           fresh == [type |-> c.type, who |-> c.who, named |-> c.named,
                     evidence |-> EvidenceOf(c), version |-> c.lease.version,
                     status |-> IF offline THEN "QUEUED" ELSE "CREATED"]
           made == Dispatched(fresh, c.lease)
       IN \/ /\ Routed /\ row # Absent /\ IdempotentReplay(c, row)
             /\ shown' = [kind |-> "answer", key |-> c.key, who |-> c.who, limits |-> c.limits]
             /\ UNCHANGED <<commands, evidence>>
          \/ /\ Routed /\ row = Absent /\ CreateAuthorised(c) /\ AcceptsNewWork(TRUE)
             /\ LeaseAdmits(c)
             /\ commands' = [commands EXCEPT ![c.key] = made]
             /\ evidence' = IF c.who = Unidentified THEN evidence ELSE evidence \cup {EvidenceOf(c)}
             /\ shown' = Sent(c.key, made)
          \/ /\ ~ \/ Routed /\ row # Absent /\ IdempotentReplay(c, row)
                  \/ /\ Routed /\ row = Absent /\ CreateAuthorised(c)
                     /\ AcceptsNewWork(TRUE) /\ LeaseAdmits(c)
             /\ shown' = Quiet /\ UNCHANGED <<commands, evidence>>
    /\ UNCHANGED <<world, bound, askedFor>>

\* After a reconciliation the queued commands are dispatched, with the lease
\* the server has now.
ReplayQueued(k) ==
    LET row == commands[k]
        lease == IF row.version # 0 /\ leaseNow.version = row.version THEN leaseNow ELSE NoLeaseRead
        made == Dispatched(row, lease)
    IN /\ row.status = "QUEUED" /\ Routed /\ made.status = "DISPATCHED"
       /\ commands' = [commands EXCEPT ![k] = made] /\ shown' = Sent(k, made)
       /\ UNCHANGED <<world, evidence, calls, bound, askedFor>>

AgentFinishes(k) ==
    /\ commands[k].status = "DISPATCHED"
    /\ commands' = [commands EXCEPT ![k].status = "SUCCEEDED"]
    /\ shown' = Quiet /\ UNCHANGED <<world, evidence, calls, bound, askedFor>>

-----------------------------------------------------------------------------
(* Cancellation. *)

\* _request_cancel_authorised: an unsent command is cancelled in the store, a
\* finished one is left, and for any other the Agent is told.
CancelAuthorised(k, who, via) ==
    /\ commands' = IF commands[k].status \in {"CREATED", "QUEUED"}
                   THEN [commands EXCEPT ![k].status = "CANCELLED"] ELSE commands
    /\ shown' = IF commands[k].status = "DISPATCHED"
                THEN [kind |-> "cancel", key |-> k, who |-> who, via |-> via] ELSE Quiet

CancelCommand(k, who, limits, snapshot) ==
    /\ commands[k] # Absent /\ Routed
    /\ who # Unidentified => Permits(who, "operations:cancel", limits)
    /\ commands[k].status = "DISPATCHED" /\ who # Unidentified =>
          SnapshotEvidence(snapshot, who, "operations:cancel")
    /\ CancelAuthorised(k, who, "bench")
    /\ UNCHANGED <<world, evidence, calls, bound, askedFor>>

\* Mutant: the session's evidence is enough, whatever it is bound to.
CiBindingAny(k) == bound # NotBound

\* The trusted binding names this command.
CiBinding(k) == bound = k

RequestCiCancel(k, who, snapshot) ==
    /\ commands[k] # Absent /\ Routed
    /\ SnapshotEvidence(snapshot, who, "ci:sessions:cancel") /\ CiBinding(k)
    /\ CancelAuthorised(k, who, "session")
    /\ UNCHANGED <<world, evidence, calls, bound, askedFor>>

\* The route of a cancellation persists its decision.
DecideCancel(who, permission) ==
    /\ permission \in {"operations:cancel", "ci:sessions:cancel"}
    /\ <<who, permission>> \in rights /\ altered < MaxAltered /\ altered' = altered + 1
    /\ evidence' = evidence \cup {[who |-> who, permission |-> permission]}
    /\ shown' = Quiet
    /\ UNCHANGED <<rights, renamed, trusted, agentIs, leaseNow, time, calls, commands, bound,
                   askedFor>>

\* The CI session service binds its session to the workflow it started.
BindSession(k) ==
    /\ bound = NotBound /\ commands[k] # Absent /\ commands[k].type = "RUN_WORKFLOW"
    /\ bound' = k /\ shown' = Quiet
    /\ UNCHANGED <<world, evidence, calls, commands, askedFor>>

AdmissionNext ==
    \/ WorldChanges \/ PresenceChanges \/ LeaseChanges
    \/ \E a \in Actor, t \in CommandType, k \in CommandKey, l \in Restrictions, f \in BOOLEAN :
          Ask(a, t, k, l, f)
    \/ \E t \in CommandType, k \in CommandKey : Ask(Unidentified, t, k, CommandRight, FALSE)
    \/ \E c \in calls : CreateCommand(c)
    \/ \E k \in CommandKey : ReplayQueued(k) \/ AgentFinishes(k) \/ BindSession(k)
    \/ \E k \in CommandKey, a \in Actor, l \in Restrictions, s \in evidence \cup {NoSnapshot} :
          CancelCommand(k, a, l, s)
    \/ \E k \in CommandKey : CancelCommand(k, Unidentified, CommandRight, NoSnapshot)
    \/ \E k \in CommandKey, a \in Actor, s \in evidence : RequestCiCancel(k, a, s)
    \/ \E a \in Actor, p \in CommandRight : DecideCancel(a, p)

AdmissionSpec == AdmissionInit /\ [][AdmissionNext]_admissionVars

-----------------------------------------------------------------------------
(* Properties. *)

AdmissionTypeOK ==
    /\ rights \subseteq Actor \X CommandRight /\ renamed \subseteq Actor
    /\ evidence \subseteq Snapshot /\ calls \subseteq Call
    /\ bound \in CommandKey \cup {NotBound}
    /\ \A k \in CommandKey : commands[k] # Absent =>
          /\ commands[k].status \in AdmittedStatus /\ commands[k].type \in CommandType
          /\ commands[k].version \in 0..MaxRenewals

\* Every stored command of a principal carries evidence of that principal's own
\* decision; a retry is answered only to the principal who created the command,
\* with a credential that covers it, however keys are shared; a mutating
\* command reaches the Agent only inside the lease it was created under, also
\* when it was queued; and a CI session's cancellation reaches no command but
\* the one it is bound to.
AdmissionSound ==
    /\ \A k \in CommandKey : commands[k] # Absent /\ commands[k].who # Unidentified =>
          /\ commands[k].evidence \in evidence
          /\ commands[k].evidence.who = commands[k].who
          /\ commands[k].evidence.permission = EvidencePermission(commands[k].type)
    /\ shown.kind = "answer" =>
          /\ shown.who = commands[shown.key].who
          /\ EvidencePermission(commands[shown.key].type) \in shown.limits
    /\ shown.kind = "sent" /\ commands[shown.key].type \in Mutating =>
          shown.version # 0 /\ (shown.version = 1 => time = 0)   \* the first version ends at 0
    /\ shown.kind = "cancel" =>
          /\ shown.via = "session" => shown.key = bound
          /\ shown.who # Unidentified => \E e \in evidence :
                /\ e.who = shown.who
                /\ e.permission = IF shown.via = "session" THEN "ci:sessions:cancel"
                                  ELSE "operations:cancel"

\* A command is created for a principal only while its assignments give both
\* permissions and the workflow is the catalog's, whatever the route decided
\* before; and only while the Agent takes new work.
AdmittedNow ==
    [][\A k \in CommandKey : commands[k] = Absent /\ commands'[k] # Absent =>
          /\ agentIs \in {"ONLINE", "OFFLINE"}
          /\ commands'[k].who # Unidentified =>
                /\ <<commands'[k].who, CommandPermission(commands'[k].type)>> \in rights
                /\ <<commands'[k].who, EvidencePermission(commands'[k].type)>> \in rights
                /\ commands'[k].type = "RUN_WORKFLOW" => trusted]_admissionVars
=============================================================================

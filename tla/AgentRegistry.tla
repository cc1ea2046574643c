--------------------------- MODULE AgentRegistry ---------------------------
(***************************************************************************)
(* What the control plane knows of its Agents: enrolment with one-time     *)
(* tokens, credentials, the persisted connection rows and the Agent's      *)
(* status, the benches it offers, drain mode, and the monitor's timeout    *)
(* pass.                                                                   *)
(*                                                                         *)
(* A service call runs to its end without suspending (the repositories are *)
(* synchronous), so it is one step.  The gateway's handler of a connection *)
(* suspends between authentication, registration, each message and its     *)
(* end: those are separate steps, and everything else interleaves there.   *)
(*                                                                         *)
(* PENDING and INCOMPATIBLE are never written by the code and left out.    *)
(***************************************************************************)
EXTENDS SideBySide, Integers, FiniteSets

CONSTANTS
    NumAgents,          \* Agents 1..NumAgents, in the order of their IDs
    Token,              \* enrolment tokens
    Bench,              \* the benches each Agent may offer
    MaxLinks,           \* bound: gateway handlers at once
    MaxVersion,         \* bound: credential versions of one Agent
    MaxRegistryFaults   \* bound: faults of any kind

Agent   == 1..NumAgents
Link    == 1..MaxLinks
NoAgent == 0
NoLink  == 0

ASSUME RegistryAssumption ==
    /\ {NumAgents, MaxLinks, MaxVersion} \subseteq Nat \ {0}
    /\ MaxRegistryFaults \in Nat
    /\ IsFiniteSet(Token) /\ IsFiniteSet(Bench)

VARIABLES
    token,       \* agent_enrollment_tokens
    status,      \* agents.status; NONE before enrolment
    credential,  \* version of the unrevoked credential, 0 if there is none
    held,        \* version of the credential the Agent's disk holds
    openLink,    \* the row of agent_connections with no disconnected_at
    silence,     \* 0 fresh, 1 past heartbeat_timeout, 2 past offline_timeout
    benches,     \* benches the global inventory shows ONLINE
    leases,      \* active reservations and operations on the Agent
    queued,      \* CI sessions waiting for a bench of the Agent
    link,        \* the gateway's handlers
    hubLink,     \* the hub's session of each Agent
    registryFaults

registryVars == <<token, status, credential, held, openLink, silence, benches, leases,
                  queued, link, hubLink, registryFaults>>

presenceRows == <<openLink, silence, benches>>
sockets      == <<link, hubLink>>
workload     == <<leases, queued>>

FreeLink == [agent |-> NoAgent, version |-> 0, phase |-> "FREE"]
NewToken == [issued |-> FALSE, usedBy |-> NoAgent, revoked |-> FALSE, expired |-> FALSE]
Idle(a)  == leases[a] = 0 /\ queued[a] = 0

RegistryFault == registryFaults < MaxRegistryFaults /\ registryFaults' = registryFaults + 1

-----------------------------------------------------------------------------
(* Enrolment tokens. *)

ValidToken(t) ==
    token[t].issued /\ ~token[t].revoked /\ ~token[t].expired /\ token[t].usedBy = NoAgent

IssueToken(t) ==
    /\ ~token[t].issued
    /\ token' = [token EXCEPT ![t].issued = TRUE]
    /\ UNCHANGED <<status, credential, held, presenceRows, sockets, workload, registryFaults>>

RevokeToken(t) ==
    /\ token[t].issued /\ ~token[t].revoked
    /\ token' = [token EXCEPT ![t].revoked = TRUE]
    /\ UNCHANGED <<status, credential, held, presenceRows, sockets, workload, registryFaults>>

\* Environment: expires_at passes; it is read only while the token is unused.
TokenExpires(t) ==
    /\ ValidToken(t)
    /\ token' = [token EXCEPT ![t].expired = TRUE]
    /\ UNCHANGED <<status, credential, held, presenceRows, sockets, workload, registryFaults>>

\* One transaction: the Agent and its credential are inserted, the token used.
ConsumeToken(t, a) ==
    /\ ValidToken(t)
    /\ token' = [token EXCEPT ![t].usedBy = a]
    /\ status' = [status EXCEPT ![a] = "OFFLINE"]
    /\ credential' = [credential EXCEPT ![a] = 1]

\* A lost response cannot be retried: the token is used, the secret is gone.
Enroll(t, a) ==
    /\ status[a] = "NONE"
    /\ ConsumeToken(t, a)
    /\ \/ held' = [held EXCEPT ![a] = 1] /\ UNCHANGED registryFaults
       \/ UNCHANGED held /\ RegistryFault
    /\ UNCHANGED <<presenceRows, sockets, workload>>

-----------------------------------------------------------------------------
(* Sockets.  Closing a session's socket ends its handler's reader. *)

\* websocket.close on the session the hub holds for the Agent.
CloseAgent(a) ==
    link' = [l \in Link |-> IF l = hubLink[a] /\ link[l].phase = "SERVING"
                            THEN [link[l] EXCEPT !.phase = "CLOSING"] ELSE link[l]]

Authenticates(a) ==
    status[a] \notin {"NONE", "REVOKED"} /\ held[a] # 0 /\ held[a] = credential[a]

\* The Agent dials; its bearer credential is checked before the socket is
\* accepted.  A failed check leaves no trace.
DialIn(l, a) ==
    /\ link[l] = FreeLink
    /\ Authenticates(a)
    /\ link' = [link EXCEPT ![l] = [agent |-> a, version |-> held[a], phase |-> "HELLO"]]
    /\ UNCHANGED <<token, status, credential, held, presenceRows, hubLink,
                   workload, registryFaults>>

ConnectedStatus(s) == IF s \in {"DRAINING", "DRAINED"} THEN s ELSE "ONLINE"

\* Mutant: the record read at authentication is trusted.
ConnectableAsRead(a) == TRUE

Connectable(a) == status[a] # "REVOKED"

\* The connection row replaces the open one, with the status, in one transaction.
ActivateRow(l, a) ==
    /\ status' = [status EXCEPT ![a] = ConnectedStatus(@)]
    /\ openLink' = [openLink EXCEPT ![a] = l]
    /\ silence' = [silence EXCEPT ![a] = 0]

\* The hub replaces the Agent's session and closes the socket of the old one.
AttachSession(l, a) ==
    /\ link' = [k \in Link |->
                  CASE k = l -> [link[l] EXCEPT !.phase = "SERVING"]
                    [] k = hubLink[a] /\ k # l /\ link[k].phase = "SERVING" ->
                           [link[k] EXCEPT !.phase = "CLOSING"]
                    [] OTHER -> link[k]]
    /\ hubLink' = [hubLink EXCEPT ![a] = l]

\* The record is read again before the row is written.
Register(l) ==
    LET a == link[l].agent IN
    /\ link[l].phase = "HELLO"
    /\ Connectable(a)
    /\ ActivateRow(l, a)
    /\ AttachSession(l, a)
    /\ UNCHANGED <<token, credential, held, benches, workload, registryFaults>>

\* Refused, timed out or cut before registration: nothing was persisted.
HandshakeFails(l) ==
    /\ link[l].phase = "HELLO"
    /\ IF Connectable(link[l].agent) THEN RegistryFault ELSE UNCHANGED registryFaults
    /\ link' = [link EXCEPT ![l] = FreeLink]
    /\ UNCHANGED <<token, status, credential, held, presenceRows, hubLink,
                   workload>>

SocketDrops(l) ==
    /\ link[l].phase = "SERVING"
    /\ RegistryFault
    /\ link' = [link EXCEPT ![l].phase = "CLOSING"]
    /\ UNCHANGED <<token, status, credential, held, presenceRows, hubLink,
                   workload>>

-----------------------------------------------------------------------------
(* Messages of the Agent.  Every one is recorded as activity first. *)

\* agents CHECK: a row is REVOKED in status, enrolment and revoked_at, or in
\* none of them.  A presence write keeps the enrolment status it read.
PresenceWriteAllowed(a) == status[a] # "REVOKED"

Current(l) == openLink[link[l].agent] = l

SkewedStatus(s) == IF s \in {"DRAINING", "DRAINED"} THEN s ELSE "DEGRADED"

Activity(l, newStatus) ==
    LET a == link[l].agent IN
    /\ link[l].phase = "SERVING"
    /\ Current(l) /\ PresenceWriteAllowed(a)
    /\ status' = [status EXCEPT ![a] = newStatus]
    /\ silence' = [silence EXCEPT ![a] = 0]
    /\ UNCHANGED <<token, credential, held, openLink, link, hubLink,
                   workload, registryFaults>>

Heartbeat(l) == Activity(l, ConnectedStatus(status[link[l].agent])) /\ UNCHANGED benches

\* A heartbeat whose timestamp is outside maximum_clock_skew.
SkewedHeartbeat(l) == Activity(l, SkewedStatus(status[link[l].agent])) /\ UNCHANGED benches

\* A snapshot lists every bench: what it does not list goes OFFLINE.
BenchSnapshot(l, online) ==
    /\ Activity(l, ConnectedStatus(status[link[l].agent]))
    /\ benches' = [benches EXCEPT ![link[l].agent] = online]

BenchAdded(l, b) ==
    /\ Activity(l, ConnectedStatus(status[link[l].agent]))
    /\ benches' = [benches EXCEPT ![link[l].agent] = @ \cup {b}]

BenchRemoved(l, b) ==
    /\ Activity(l, ConnectedStatus(status[link[l].agent]))
    /\ benches' = [benches EXCEPT ![link[l].agent] = @ \ {b}]

\* A known bench becomes ONLINE, or OFFLINE (UNKNOWN counts as OFFLINE).
BenchHealthChanged(l, b, online) ==
    /\ Activity(l, ConnectedStatus(status[link[l].agent]))
    /\ benches' = [benches EXCEPT ![link[l].agent] = IF online THEN @ \cup {b} ELSE @ \ {b}]

\* The row is another connection's, or the write breaks the CHECK: the
\* exception ends the reader.
MessageRefused(l) ==
    /\ link[l].phase = "SERVING"
    /\ ~(Current(l) /\ PresenceWriteAllowed(link[l].agent))
    /\ link' = [link EXCEPT ![l].phase = "CLOSING"]
    /\ UNCHANGED <<token, status, credential, held, presenceRows, hubLink,
                   workload, registryFaults>>

OfflineStatus(s) == IF s \in {"DRAINING", "DRAINED"} THEN s ELSE "OFFLINE"

\* Mutant: the inventory is left to the next snapshot.
MarkBenchesLater(a) == UNCHANGED benches

MarkBenchesOffline(a) == benches' = [benches EXCEPT ![a] = {}]

DetachSession(l, a) ==
    hubLink' = [hubLink EXCEPT ![a] = IF @ = l THEN NoLink ELSE @]

\* The write of disconnect_if_current; breaking the CHECK rolls it back.
CloseRow(a) ==
    IF PresenceWriteAllowed(a)
    THEN /\ status' = [status EXCEPT ![a] = OfflineStatus(@)]
         /\ openLink' = [openLink EXCEPT ![a] = NoLink]
         /\ silence' = [silence EXCEPT ![a] = 0]
    ELSE UNCHANGED <<status, openLink, silence>>

\* If the row is still this connection's, the benches go OFFLINE first.
Disconnect(l, a) ==
    IF openLink[a] = l
    THEN MarkBenchesOffline(a) /\ CloseRow(a)
    ELSE UNCHANGED <<status, presenceRows>>

\* The finally clause; the gateway suppresses what disconnect raises.
HandlerEnds(l) ==
    LET a == link[l].agent IN
    /\ link[l].phase = "CLOSING"
    /\ link' = [link EXCEPT ![l] = FreeLink]
    /\ DetachSession(l, a)
    /\ Disconnect(l, a)
    /\ UNCHANGED <<token, credential, held, workload, registryFaults>>

-----------------------------------------------------------------------------
(* The monitor. *)

Tick(a) ==
    /\ openLink[a] # NoLink /\ silence[a] < 2
    /\ silence' = [silence EXCEPT ![a] = @ + 1]
    /\ UNCHANGED <<token, status, credential, held, openLink, benches, sockets, workload,
                   registryFaults>>

\* Mutant: a silent connection is only ever degraded.
TimeoutNever(a) == FALSE

Overdue(a)  == openLink[a] # NoLink /\ silence[a] > 0
Timeout(a)  == Overdue(a) /\ silence[a] = 2
\* Only a DEGRADED Agent is exempt from being marked DEGRADED.
Degrades(a) == Overdue(a) /\ silence[a] = 1 /\ status[a] # "DEGRADED"

\* The pass raises at the first row whose write breaks the CHECK.
Raises(a)  == (Timeout(a) \/ Degrades(a)) /\ ~PresenceWriteAllowed(a)
Visited(a) == \A b \in 1..(a - 1) : ~Raises(b)

CheckTimeouts ==
    /\ benches' = [a \in Agent |-> IF Visited(a) /\ Timeout(a) THEN {} ELSE benches[a]]
    /\ openLink' = [a \in Agent |-> IF Visited(a) /\ Timeout(a) /\ ~Raises(a)
                                    THEN NoLink ELSE openLink[a]]
    /\ silence' = [a \in Agent |-> IF openLink'[a] = NoLink THEN 0 ELSE silence[a]]

StatusAfterTimeouts(a) ==
    IF ~Visited(a) \/ Raises(a) THEN status[a]
    ELSE CASE Timeout(a)  -> OfflineStatus(status[a])
           [] Degrades(a) -> "DEGRADED"
           [] OTHER       -> status[a]

\* Mutant: the pass does not refresh draining Agents.
DrainNotRefreshed(a, s) == s

\* Mutant: the compare-and-set does not require the Agent to be idle.
DrainFinishesAnyway(a, s) == IF s = "DRAINING" THEN "DRAINED" ELSE s

\* _finish_if_idle and refresh: DRAINING becomes DRAINED when nothing is left.
DrainFinishes(a, s) == IF s = "DRAINING" /\ Idle(a) THEN "DRAINED" ELSE s

\* check_timeouts is the first statement of the pass: if it raises, nothing
\* after it runs, drains are not refreshed and nothing of any Agent expires.
MonitorPass ==
    /\ CheckTimeouts
    /\ status' = [a \in Agent |->
                    IF \E b \in Agent : Raises(b) THEN StatusAfterTimeouts(a)
                    ELSE DrainFinishes(a, StatusAfterTimeouts(a))]
    /\ UNCHANGED <<token, credential, held, sockets, workload, registryFaults>>

-----------------------------------------------------------------------------
(* Work and drain mode. *)

\* Only an ONLINE Agent with the bench ONLINE accepts a reservation.
AcceptsWork(a) == status[a] = "ONLINE" /\ benches[a] # {}

AdmitLease(a) ==
    /\ AcceptsWork(a) /\ leases[a] = 0
    /\ leases' = [leases EXCEPT ![a] = 1]
    /\ UNCHANGED <<token, status, credential, held, presenceRows, sockets, queued, registryFaults>>

QueueSession(a) ==
    /\ AcceptsWork(a) /\ queued[a] = 0
    /\ queued' = [queued EXCEPT ![a] = 1]
    /\ UNCHANGED <<token, status, credential, held, presenceRows, sockets, leases, registryFaults>>

WorkEnds(a) ==
    /\ \/ leases[a] = 1 /\ leases' = [leases EXCEPT ![a] = 0] /\ UNCHANGED queued
       \/ queued[a] = 1 /\ queued' = [queued EXCEPT ![a] = 0] /\ UNCHANGED leases
    /\ UNCHANGED <<token, status, credential, held, presenceRows, sockets, registryFaults>>

\* With cancel_queued_work the waiting CI sessions become cancel_requested.
CancelQueuedWork(a, cancel) == IF cancel THEN 0 ELSE queued[a]

Drain(a, cancel) ==
    LET left == CancelQueuedWork(a, cancel) IN
    /\ status[a] \in {"ONLINE", "DEGRADED", "DRAINING"}
    /\ queued' = [queued EXCEPT ![a] = left]
    /\ status' = [status EXCEPT ![a] = IF leases[a] = 0 /\ left = 0 THEN "DRAINED"
                                       ELSE "DRAINING"]
    /\ UNCHANGED <<token, credential, held, presenceRows, link, hubLink, leases,
                   registryFaults>>

CompareAndSetOnline(a) ==
    /\ status[a] \in {"DRAINING", "DRAINED"} /\ openLink[a] # NoLink
    /\ status' = [status EXCEPT ![a] = "ONLINE"]

Undrain(a) ==
    /\ CompareAndSetOnline(a)
    /\ UNCHANGED <<token, credential, held, presenceRows, link, hubLink, workload,
                   registryFaults>>

-----------------------------------------------------------------------------
(* Credentials. *)

ReplaceCredential(a) ==
    /\ Authenticates(a) /\ credential[a] < MaxVersion
    /\ credential' = [credential EXCEPT ![a] = @ + 1]

\* The replacement is committed before the response and the close.
RotateCredential(a) ==
    /\ ReplaceCredential(a)
    /\ \/ held' = [held EXCEPT ![a] = credential[a] + 1] /\ UNCHANGED registryFaults
       \/ UNCHANGED held /\ RegistryFault
    /\ CloseAgent(a)
    /\ UNCHANGED <<token, status, presenceRows, hubLink, workload>>

RevokeRecord(a) ==
    /\ status[a] \notin {"NONE", "REVOKED"}
    /\ status' = [status EXCEPT ![a] = "REVOKED"]
    /\ credential' = [credential EXCEPT ![a] = 0]

RevokeAgent(a) ==
    /\ RevokeRecord(a)
    /\ CloseAgent(a)
    /\ UNCHANGED <<token, held, presenceRows, hubLink, workload,
                   registryFaults>>

-----------------------------------------------------------------------------
(* Processes. *)

\* Rows survive; the monotonic receipt times do not, so the age of an open row
\* is whatever the new process's clock makes of it.
ControlPlaneRestart ==
    /\ RegistryFault
    /\ link' = [l \in Link |-> FreeLink]
    /\ hubLink' = [a \in Agent |-> NoLink]
    /\ \E age \in 0..2 :
         silence' = [a \in Agent |-> IF openLink[a] = NoLink THEN 0 ELSE age]
    /\ UNCHANGED <<token, status, credential, held, openLink, benches, workload>>

AgentRestart(a) ==
    /\ status[a] # "NONE"
    /\ RegistryFault
    /\ link' = [l \in Link |-> IF link[l].agent = a /\ link[l].phase = "SERVING"
                               THEN [link[l] EXCEPT !.phase = "CLOSING"] ELSE link[l]]
    /\ UNCHANGED <<token, status, credential, held, presenceRows, hubLink, workload>>

RegistryInit ==
    /\ token = [t \in Token |-> NewToken]
    /\ status = [a \in Agent |-> "NONE"]
    /\ credential = [a \in Agent |-> 0] /\ held = [a \in Agent |-> 0]
    /\ openLink = [a \in Agent |-> NoLink] /\ silence = [a \in Agent |-> 0]
    /\ benches = [a \in Agent |-> {}]
    /\ leases = [a \in Agent |-> 0] /\ queued = [a \in Agent |-> 0]
    /\ link = [l \in Link |-> FreeLink] /\ hubLink = [a \in Agent |-> NoLink]
    /\ registryFaults = 0

LinkStep(l) ==
    \/ \E a \in Agent : DialIn(l, a)
    \/ Register(l) \/ HandshakeFails(l) \/ SocketDrops(l)
    \/ Heartbeat(l) \/ SkewedHeartbeat(l) \/ MessageRefused(l) \/ HandlerEnds(l)
    \/ \E online \in SUBSET Bench : BenchSnapshot(l, online)
    \/ \E b \in Bench : \/ BenchAdded(l, b) \/ BenchRemoved(l, b)
                        \/ \E online \in BOOLEAN : BenchHealthChanged(l, b, online)

OperatorStep ==
    \/ \E t \in Token : \/ IssueToken(t) \/ RevokeToken(t) \/ TokenExpires(t)
                        \/ \E a \in Agent : Enroll(t, a)
    \/ \E a \in Agent : \/ \E cancel \in BOOLEAN : Drain(a, cancel)
                        \/ Undrain(a) \/ RotateCredential(a) \/ RevokeAgent(a)
                        \/ AdmitLease(a) \/ QueueSession(a) \/ WorkEnds(a)

RegistryNext ==
    \/ \E l \in Link : LinkStep(l)
    \/ OperatorStep
    \/ MonitorPass
    \/ \E a \in Agent : Tick(a) \/ AgentRestart(a)
    \/ ControlPlaneRestart

RegistrySpec == RegistryInit /\ [][RegistryNext]_registryVars

RegistryTurn == focus = "registry"

\* The monitor loop, the clock and the handlers' finally clauses always run.
RegistryFairness ==
    /\ WF_registryVars(RegistryTurn /\ MonitorPass)
    /\ \A a \in Agent : WF_registryVars(RegistryTurn /\ Tick(a))
    /\ \A l \in Link : WF_registryVars(RegistryTurn /\ HandlerEnds(l))

-----------------------------------------------------------------------------
(* Properties. *)

AgentStatuses == {"NONE", "OFFLINE", "ONLINE", "DEGRADED", "DRAINING", "DRAINED", "REVOKED"}

RegistryTypeOK ==
    /\ token \in [Token -> [issued : BOOLEAN, usedBy : Agent \cup {NoAgent},
                            revoked : BOOLEAN, expired : BOOLEAN]]
    /\ status \in [Agent -> AgentStatuses]
    /\ credential \in [Agent -> 0..MaxVersion] /\ held \in [Agent -> 0..MaxVersion]
    /\ openLink \in [Agent -> Link \cup {NoLink}] /\ silence \in [Agent -> 0..2]
    /\ benches \in [Agent -> SUBSET Bench]
    /\ leases \in [Agent -> 0..1] /\ queued \in [Agent -> 0..1]
    /\ link \in [Link -> [agent : Agent \cup {NoAgent}, version : 0..MaxVersion,
                          phase : {"FREE", "HELLO", "SERVING", "CLOSING"}]]
    /\ hubLink \in [Agent -> Link \cup {NoLink}]
    /\ registryFaults \in 0..MaxRegistryFaults

\* An Agent with no open connection row shows no bench ONLINE ("they are never
\* left falsely online", presence.disconnect), and neither does a row nobody
\* serves once its silence has been acted on.
NeverFalselyOnline == \A a \in Agent : openLink[a] = NoLink => benches[a] = {}

\* A revoked Agent stays revoked and no connection of it is registered any
\* more, whatever handshake was under way when it was revoked.
RevokedStaysOut ==
    [][\A a \in Agent : status[a] = "REVOKED" =>
           status'[a] = "REVOKED" /\ openLink'[a] \in {openLink[a], NoLink}]_registryVars

\* Drained means nothing is left: no reservation, operation or waiting CI
\* session of the Agent, from the moment it is DRAINED until it is undrained.
DrainedIsIdle == \A a \in Agent : status[a] = "DRAINED" => Idle(a)

\* An Agent's status never says more than the control plane can know of it: a
\* bench is not shown available while its Agent is gone, and a drained Agent has
\* no work left (agents.py, runtime.py's monitor).
PresenceHonest == NeverFalselyOnline /\ DrainedIsIdle

Unserved(a) ==
    LET l == openLink[a] IN
    l # NoLink /\ ~(link[l].agent = a /\ link[l].phase = "SERVING")

\* No connection row is left that no handler serves (its process died, its
\* handler is gone), unless its Agent is revoked.
OrphanRowsClosed == \A a \in Agent : Unserved(a) => status[a] = "REVOKED"

\* No Agent that has become idle is still DRAINING.
DrainsCompleted == \A a \in Agent : status[a] = "DRAINING" => ~Idle(a)
=============================================================================

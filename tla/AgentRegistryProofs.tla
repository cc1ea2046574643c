------------------------- MODULE AgentRegistryProofs -------------------------
(***************************************************************************)
(* Proofs about AgentRegistry, for any number of Agents, connections,      *)
(* benches, tokens and credential versions: the rows are well formed, what *)
(* they show of an Agent is honest, and a revoked Agent stays out.         *)
(*                                                                         *)
(* RegistryTypeOK is inductive by itself, PresenceHonest is inductive      *)
(* given it, and RevokedStaysOut follows from it step by step.             *)
(***************************************************************************)
EXTENDS AgentRegistry, TLAPS

Token1 == [issued : BOOLEAN, usedBy : Agent \cup {NoAgent}, revoked : BOOLEAN, expired : BOOLEAN]

LinkRow == [agent : Agent \cup {NoAgent}, version : 0..MaxVersion,
            phase : {"FREE", "HELLO", "SERVING", "CLOSING"}]

-----------------------------------------------------------------------------
(* Handlers *)

LEMMA FreeLinkIs == FreeLink \in LinkRow
  BY RegistryAssumption DEF FreeLink, LinkRow

\* A handler whose socket closes, or that is served, keeps its Agent and version.
LEMMA PhaseWritten ==
    ASSUME NEW k \in LinkRow, NEW p \in {"FREE", "HELLO", "SERVING", "CLOSING"}
    PROVE  [k EXCEPT !.phase = p] \in LinkRow
  BY DEF LinkRow

LEMMA CloseAgentType ==
    ASSUME link \in [Link -> LinkRow], NEW a, CloseAgent(a) PROVE link' \in [Link -> LinkRow]
  BY PhaseWritten DEF CloseAgent

-----------------------------------------------------------------------------
(* Types *)

LEMMA RegistryTypeInit == RegistryInit => RegistryTypeOK
<1> SUFFICES ASSUME RegistryInit PROVE RegistryTypeOK
  OBVIOUS
<1>1. token \in [Token -> Token1]
  BY DEF RegistryInit, NewToken, Token1
<1>2. link \in [Link -> LinkRow]
  BY FreeLinkIs DEF RegistryInit
<1>3. /\ status \in [Agent -> AgentStatuses]
      /\ credential \in [Agent -> 0..MaxVersion] /\ held \in [Agent -> 0..MaxVersion]
      /\ openLink \in [Agent -> Link \cup {NoLink}] /\ silence \in [Agent -> 0..2]
      /\ benches \in [Agent -> SUBSET Bench]
      /\ leases \in [Agent -> 0..1] /\ queued \in [Agent -> 0..1]
      /\ hubLink \in [Agent -> Link \cup {NoLink}]
      /\ registryFaults \in 0..MaxRegistryFaults
  BY RegistryAssumption DEF RegistryInit, AgentStatuses
<1> QED
  BY <1>1, <1>2, <1>3 DEF RegistryTypeOK, Token1, LinkRow

LEMMA FaultCounted ==
    ASSUME registryFaults \in 0..MaxRegistryFaults, RegistryFault
    PROVE  registryFaults' \in 0..MaxRegistryFaults
  BY RegistryAssumption DEF RegistryFault

\* What a step may leave alone is well formed after it.
RowTypes ==
    /\ status \in [Agent -> AgentStatuses]
    /\ openLink \in [Agent -> Link \cup {NoLink}]
    /\ silence \in [Agent -> 0..2]
    /\ benches \in [Agent -> SUBSET Bench]
    /\ leases \in [Agent -> 0..1] /\ queued \in [Agent -> 0..1]

SocketTypes ==
    /\ link \in [Link -> LinkRow]
    /\ hubLink \in [Agent -> Link \cup {NoLink}]

AccountTypes ==
    /\ token \in [Token -> Token1]
    /\ credential \in [Agent -> 0..MaxVersion] /\ held \in [Agent -> 0..MaxVersion]
    /\ registryFaults \in 0..MaxRegistryFaults

LEMMA TypeParts ==
    /\ RegistryTypeOK <=> RowTypes /\ SocketTypes /\ AccountTypes
    /\ RegistryTypeOK' <=> RowTypes' /\ SocketTypes' /\ AccountTypes'
  BY DEF RegistryTypeOK, RowTypes, SocketTypes, AccountTypes, LinkRow, Token1

LEMMA RowTypesStay ==
    ASSUME RowTypes, UNCHANGED <<status, openLink, silence, benches, leases, queued>>
    PROVE  RowTypes'
  BY DEF RowTypes

LEMMA StatusesAre ==
    ASSUME NEW s \in AgentStatuses
    PROVE  /\ ConnectedStatus(s) \in AgentStatuses /\ SkewedStatus(s) \in AgentStatuses
           /\ OfflineStatus(s) \in AgentStatuses
  BY DEF ConnectedStatus, SkewedStatus, OfflineStatus, AgentStatuses

LEMMA SilenceReset ==
    ASSUME silence \in [Agent -> 0..2], NEW a
    PROVE  [silence EXCEPT ![a] = 0] \in [Agent -> 0..2]
<1>1. 0 \in 0..2
  OBVIOUS
<1>2. \A b \in Agent : silence[b] \in 0..2
  OBVIOUS
<1> QED
  BY <1>1, <1>2

\* A message of the Agent, or the registration of its connection.
LEMMA StatusWritten ==
    ASSUME RowTypes, NEW a, NEW s, a \in Agent => s \in AgentStatuses
    PROVE  [status EXCEPT ![a] = s] \in [Agent -> AgentStatuses]
  BY DEF RowTypes

LEMMA ActivityTypes ==
    ASSUME RegistryTypeOK, NEW l, NEW s,
           link[l].agent \in Agent => s \in AgentStatuses,
           Activity(l, s), benches' \in [Agent -> SUBSET Bench]
    PROVE  RegistryTypeOK'
<1> USE TypeParts
<1>1. status' \in [Agent -> AgentStatuses]
  BY StatusWritten DEF Activity
<1>2. silence' \in [Agent -> 0..2]
  BY SilenceReset DEF Activity, RowTypes
<1>3. RowTypes'
  BY <1>1, <1>2 DEF Activity, RowTypes, workload
<1>4. SocketTypes' /\ AccountTypes'
  BY DEF Activity, SocketTypes, AccountTypes
<1> QED
  BY <1>3, <1>4

LEMMA AccountStep ==
    ASSUME RegistryTypeOK, AccountTypes', RowTypes',
           UNCHANGED sockets \/ (UNCHANGED hubLink /\ link' \in [Link -> LinkRow])
    PROVE  RegistryTypeOK'
<1>1. SocketTypes'
  BY TypeParts DEF SocketTypes, sockets
<1> QED
  BY <1>1, TypeParts

LEMMA TokenTypes ==
    ASSUME RegistryTypeOK, NEW t \in Token,
           IssueToken(t) \/ RevokeToken(t) \/ TokenExpires(t)
    PROVE  RegistryTypeOK'
<1> USE TypeParts
<1>1. PICK r \in Token1 : r = token[t]
  BY DEF AccountTypes
<1>2. /\ [r EXCEPT !.issued = TRUE] \in Token1
      /\ [r EXCEPT !.revoked = TRUE] \in Token1
      /\ [r EXCEPT !.expired = TRUE] \in Token1
  BY DEF Token1
<1>3. token' \in [Token -> Token1]
  <2>1. token' \in {[token EXCEPT ![t] = [r EXCEPT !.issued = TRUE]],
                   [token EXCEPT ![t] = [r EXCEPT !.revoked = TRUE]],
                   [token EXCEPT ![t] = [r EXCEPT !.expired = TRUE]]}
    BY <1>1 DEF IssueToken, RevokeToken, TokenExpires
  <2> QED
    BY <1>2, <2>1 DEF AccountTypes
<1>4. UNCHANGED <<status, credential, held, presenceRows, sockets, workload, registryFaults>>
  BY DEF IssueToken, RevokeToken, TokenExpires
<1>5. AccountTypes' /\ RowTypes'
  BY <1>3, <1>4 DEF AccountTypes, RowTypes, presenceRows, workload
<1> QED
  BY <1>4, <1>5, AccountStep

LEMMA EnrollTypes ==
    ASSUME RegistryTypeOK, NEW t \in Token, NEW a \in Agent, Enroll(t, a)
    PROVE  RegistryTypeOK'
<1> USE TypeParts
<1>1. PICK r \in Token1 : r = token[t]
  BY DEF AccountTypes
<1>2. PICK q \in Token1 : q = [r EXCEPT !.usedBy = a]
  BY DEF Token1
<1>3. token' = [token EXCEPT ![t] = q]
  BY <1>1, <1>2 DEF Enroll, ConsumeToken
<1>4. token' \in [Token -> Token1]
  BY <1>2, <1>3 DEF AccountTypes
<1>5. status' \in [Agent -> AgentStatuses]
  BY DEF Enroll, ConsumeToken, RowTypes, AgentStatuses
<1>6. 1 \in 0..MaxVersion
  BY RegistryAssumption
<1>7. credential' \in [Agent -> 0..MaxVersion] /\ held' \in [Agent -> 0..MaxVersion]
  BY <1>6 DEF Enroll, ConsumeToken, AccountTypes
<1>8. registryFaults' \in 0..MaxRegistryFaults
  BY FaultCounted DEF Enroll, AccountTypes
<1>9. RowTypes' /\ AccountTypes'
  BY <1>4, <1>5, <1>7, <1>8 DEF Enroll, RowTypes, AccountTypes, presenceRows, workload
<1> QED
  BY <1>9, AccountStep DEF Enroll

LEMMA RegisterTypes ==
    ASSUME RegistryTypeOK, NEW l \in Link, Register(l) PROVE RegistryTypeOK'
<1> USE TypeParts
<1> DEFINE a == link[l].agent
<1>1. a \in Agent => status[a] \in AgentStatuses
  BY DEF RowTypes
<1>2. status' \in [Agent -> AgentStatuses]
  BY <1>1, StatusesAre, StatusWritten DEF Register, ActivateRow
<1>3. openLink' \in [Agent -> Link \cup {NoLink}] /\ silence' \in [Agent -> 0..2]
  BY SilenceReset DEF Register, ActivateRow, RowTypes
<1>4. hubLink' \in [Agent -> Link \cup {NoLink}]
  BY DEF Register, AttachSession, SocketTypes
<1>5. link' \in [Link -> LinkRow]
  <2>1. \A k \in Link : /\ [link[k] EXCEPT !.phase = "SERVING"] \in LinkRow
                        /\ [link[k] EXCEPT !.phase = "CLOSING"] \in LinkRow
                        /\ link[k] \in LinkRow
    BY PhaseWritten DEF SocketTypes
  <2> QED
    BY <2>1 DEF Register, AttachSession
<1> QED
  BY <1>2, <1>3, <1>4, <1>5 DEF Register, RowTypes, SocketTypes, AccountTypes, workload

\* A handshake that begins or fails and a socket that closes: only a handler changes.
LEMMA SocketStepTypes ==
    ASSUME RegistryTypeOK, NEW l \in Link,
           \/ \E a \in Agent : DialIn(l, a)
           \/ HandshakeFails(l) \/ SocketDrops(l) \/ MessageRefused(l)
    PROVE  RegistryTypeOK'
<1> USE TypeParts
<1>1. link' \in [Link -> LinkRow]
  <2>1. ASSUME NEW a \in Agent, DialIn(l, a) PROVE link' \in [Link -> LinkRow]
    <3>1. [agent |-> a, version |-> held[a], phase |-> "HELLO"] \in LinkRow
      BY DEF AccountTypes, LinkRow
    <3> QED
      BY <2>1, <3>1 DEF DialIn, SocketTypes
  <2>2. CASE HandshakeFails(l)
    BY <2>2, FreeLinkIs DEF HandshakeFails, SocketTypes
  <2>3. CASE SocketDrops(l) \/ MessageRefused(l)
    <3>1. link' = [link EXCEPT ![l] = [link[l] EXCEPT !.phase = "CLOSING"]]
      BY <2>3 DEF SocketDrops, MessageRefused
    <3> QED
      BY <3>1, PhaseWritten DEF SocketTypes
  <2> QED
    BY <2>1, <2>2, <2>3
<1>2. UNCHANGED <<token, status, credential, held, presenceRows, hubLink, workload>>
  BY DEF DialIn, HandshakeFails, SocketDrops, MessageRefused
<1>3. registryFaults' \in 0..MaxRegistryFaults
  <2>1. RegistryFault \/ UNCHANGED registryFaults
    BY DEF DialIn, HandshakeFails, SocketDrops, MessageRefused
  <2> QED
    BY <2>1, FaultCounted DEF AccountTypes
<1>4. AccountTypes' /\ RowTypes'
  BY <1>2, <1>3 DEF AccountTypes, RowTypes, presenceRows, workload
<1> QED
  BY <1>1, <1>2, <1>4, AccountStep

LEMMA MessageTypes ==
    ASSUME RegistryTypeOK, NEW l \in Link,
           \/ Heartbeat(l) \/ SkewedHeartbeat(l)
           \/ \E online \in SUBSET Bench : BenchSnapshot(l, online)
           \/ \E b \in Bench : \/ BenchAdded(l, b) \/ BenchRemoved(l, b)
                               \/ \E online \in BOOLEAN : BenchHealthChanged(l, b, online)
    PROVE  RegistryTypeOK'
<1> USE TypeParts
<1>1. link[l].agent \in Agent =>
        /\ ConnectedStatus(status[link[l].agent]) \in AgentStatuses
        /\ SkewedStatus(status[link[l].agent]) \in AgentStatuses
  BY StatusesAre DEF RowTypes
<1>2. benches \in [Agent -> SUBSET Bench]
  BY DEF RowTypes
<1>3. CASE Heartbeat(l) \/ SkewedHeartbeat(l)
  BY <1>1, <1>2, <1>3, ActivityTypes DEF Heartbeat, SkewedHeartbeat
<1>4. ASSUME NEW online \in SUBSET Bench, BenchSnapshot(l, online) PROVE RegistryTypeOK'
  BY <1>1, <1>2, <1>4, ActivityTypes DEF BenchSnapshot
<1>5. ASSUME NEW b \in Bench, BenchAdded(l, b) PROVE RegistryTypeOK'
  BY <1>1, <1>2, <1>5, ActivityTypes DEF BenchAdded
<1>6. ASSUME NEW b \in Bench, BenchRemoved(l, b) PROVE RegistryTypeOK'
  BY <1>1, <1>2, <1>6, ActivityTypes DEF BenchRemoved
<1>7. ASSUME NEW b \in Bench, NEW online \in BOOLEAN, BenchHealthChanged(l, b, online)
      PROVE  RegistryTypeOK'
  BY <1>1, <1>2, <1>7, ActivityTypes DEF BenchHealthChanged
<1> QED
  BY <1>3, <1>4, <1>5, <1>6, <1>7

LEMMA HandlerEndsTypes ==
    ASSUME RegistryTypeOK, NEW l \in Link, HandlerEnds(l) PROVE RegistryTypeOK'
<1> USE TypeParts
<1> DEFINE a == link[l].agent
<1>1. link' \in [Link -> LinkRow] /\ hubLink' \in [Agent -> Link \cup {NoLink}]
  BY FreeLinkIs DEF HandlerEnds, DetachSession, SocketTypes
<1>2. RowTypes'
  <2>1. a \in Agent => OfflineStatus(status[a]) \in AgentStatuses
    BY StatusesAre DEF RowTypes
  <2>2. status' \in [Agent -> AgentStatuses]
    BY <2>1, StatusWritten DEF HandlerEnds, Disconnect, CloseRow, RowTypes
  <2>3. /\ openLink' \in [Agent -> Link \cup {NoLink}] /\ silence' \in [Agent -> 0..2]
        /\ benches' \in [Agent -> SUBSET Bench]
    BY DEF HandlerEnds, Disconnect, CloseRow, MarkBenchesOffline, RowTypes, presenceRows
  <2> QED
    BY <2>2, <2>3 DEF HandlerEnds, RowTypes, workload
<1>3. AccountTypes'
  BY DEF HandlerEnds, AccountTypes
<1> QED
  BY <1>1, <1>2, <1>3 DEF SocketTypes

LEMMA MonitorTypes ==
    ASSUME RegistryTypeOK, MonitorPass \/ \E a \in Agent : Tick(a) PROVE RegistryTypeOK'
<1> USE TypeParts
<1>1. ASSUME NEW a \in Agent, Tick(a) PROVE RegistryTypeOK'
  <2>1. silence' \in [Agent -> 0..2]
    BY <1>1 DEF Tick, RowTypes
  <2> QED
    BY <1>1, <2>1 DEF Tick, RowTypes, SocketTypes, AccountTypes, sockets, workload
<1>2. CASE MonitorPass
  <2>1. \A a \in Agent : StatusAfterTimeouts(a) \in AgentStatuses
    BY StatusesAre DEF RowTypes, StatusAfterTimeouts, AgentStatuses
  <2>2. \A a \in Agent : DrainFinishes(a, StatusAfterTimeouts(a)) \in AgentStatuses
    BY <2>1 DEF DrainFinishes, AgentStatuses
  <2>3. status' \in [Agent -> AgentStatuses]
    BY <1>2, <2>1, <2>2 DEF MonitorPass
  <2>4. openLink' \in [Agent -> Link \cup {NoLink}] /\ benches' \in [Agent -> SUBSET Bench]
    BY <1>2 DEF MonitorPass, CheckTimeouts, RowTypes
  <2>5. silence' \in [Agent -> 0..2]
    BY <1>2 DEF MonitorPass, CheckTimeouts, RowTypes
  <2>6. SocketTypes' /\ AccountTypes'
    BY <1>2 DEF MonitorPass, SocketTypes, AccountTypes, sockets
  <2> QED
    BY <1>2, <2>3, <2>4, <2>5, <2>6 DEF MonitorPass, RowTypes, workload
<1> QED
  BY <1>1, <1>2

LEMMA WorkTypes ==
    ASSUME RegistryTypeOK, NEW a \in Agent,
           \/ \E cancel \in BOOLEAN : Drain(a, cancel)
           \/ Undrain(a) \/ AdmitLease(a) \/ QueueSession(a) \/ WorkEnds(a)
    PROVE  RegistryTypeOK'
<1> USE TypeParts
<1>1. ASSUME NEW cancel \in BOOLEAN, Drain(a, cancel) PROVE RowTypes' /\ UNCHANGED sockets
  <2>1. CancelQueuedWork(a, cancel) \in 0..1
    BY DEF CancelQueuedWork, RowTypes
  <2>2. queued' \in [Agent -> 0..1] /\ status' \in [Agent -> AgentStatuses]
    BY <1>1, <2>1 DEF Drain, RowTypes, AgentStatuses
  <2> QED
    BY <1>1, <2>2 DEF Drain, RowTypes, presenceRows, sockets
<1>2. ASSUME Undrain(a) PROVE RowTypes' /\ UNCHANGED sockets
  <2>1. status' \in [Agent -> AgentStatuses]
    BY <1>2 DEF Undrain, CompareAndSetOnline, RowTypes, AgentStatuses
  <2> QED
    BY <1>2, <2>1 DEF Undrain, RowTypes, presenceRows, workload, sockets
<1>3. ASSUME AdmitLease(a) \/ QueueSession(a) \/ WorkEnds(a)
      PROVE  RowTypes' /\ UNCHANGED sockets
  <2>1. leases' \in [Agent -> 0..1] /\ queued' \in [Agent -> 0..1]
    BY <1>3 DEF AdmitLease, QueueSession, WorkEnds, RowTypes
  <2>2. UNCHANGED <<status, presenceRows, sockets>>
    BY <1>3 DEF AdmitLease, QueueSession, WorkEnds
  <2> QED
    BY <2>1, <2>2 DEF RowTypes, presenceRows
<1>4. AccountTypes'
  BY DEF Drain, Undrain, AdmitLease, QueueSession, WorkEnds, AccountTypes
<1>5. RowTypes' /\ UNCHANGED sockets
  BY <1>1, <1>2, <1>3
<1> QED
  BY <1>4, <1>5, AccountStep

LEMMA CredentialTypes ==
    ASSUME RegistryTypeOK, NEW a \in Agent, RotateCredential(a) \/ RevokeAgent(a)
    PROVE  RegistryTypeOK'
<1> USE TypeParts
<1>1. link' \in [Link -> LinkRow] /\ UNCHANGED hubLink
  BY CloseAgentType DEF RotateCredential, RevokeAgent, SocketTypes
<1>2. CASE RotateCredential(a)
  <2>1. credential[a] + 1 \in 0..MaxVersion
    BY <1>2, RegistryAssumption DEF RotateCredential, ReplaceCredential, AccountTypes
  <2>2. credential' \in [Agent -> 0..MaxVersion] /\ held' \in [Agent -> 0..MaxVersion]
    BY <1>2, <2>1 DEF RotateCredential, ReplaceCredential, AccountTypes
  <2>3. registryFaults' \in 0..MaxRegistryFaults
    BY <1>2, FaultCounted DEF RotateCredential, AccountTypes
  <2>4. AccountTypes' /\ RowTypes'
    BY <1>2, <2>2, <2>3 DEF RotateCredential, AccountTypes, RowTypes, presenceRows, workload
  <2> QED
    BY <1>1, <2>4, AccountStep
<1>3. CASE RevokeAgent(a)
  <2>1. status' \in [Agent -> AgentStatuses]
    BY <1>3 DEF RevokeAgent, RevokeRecord, RowTypes, AgentStatuses
  <2>2. credential' \in [Agent -> 0..MaxVersion]
    BY <1>3, RegistryAssumption DEF RevokeAgent, RevokeRecord, AccountTypes
  <2>3. AccountTypes' /\ RowTypes'
    BY <1>3, <2>1, <2>2 DEF RevokeAgent, AccountTypes, RowTypes, presenceRows, workload
  <2> QED
    BY <1>1, <2>3, AccountStep
<1> QED
  BY <1>2, <1>3

LEMMA RestartTypes ==
    ASSUME RegistryTypeOK, ControlPlaneRestart \/ \E a \in Agent : AgentRestart(a)
    PROVE  RegistryTypeOK'
<1> USE TypeParts
<1>1. registryFaults' \in 0..MaxRegistryFaults
  BY FaultCounted DEF ControlPlaneRestart, AgentRestart, AccountTypes
<1>2. AccountTypes'
  BY <1>1 DEF ControlPlaneRestart, AgentRestart, AccountTypes
<1>3. CASE ControlPlaneRestart
  <2>1. silence' \in [Agent -> 0..2]
    BY <1>3 DEF ControlPlaneRestart
  <2>2. RowTypes'
    BY <1>3, <2>1 DEF ControlPlaneRestart, RowTypes, workload
  <2>3. SocketTypes'
    BY <1>3, FreeLinkIs DEF ControlPlaneRestart, SocketTypes
  <2> QED
    BY <1>2, <2>2, <2>3
<1>4. ASSUME NEW a \in Agent, AgentRestart(a) PROVE RegistryTypeOK'
  <2>1. link' \in [Link -> LinkRow]
    BY <1>4, PhaseWritten DEF AgentRestart, SocketTypes
  <2>2. RowTypes'
    BY <1>4 DEF AgentRestart, RowTypes, presenceRows, workload
  <2> QED
    BY <1>2, <1>4, <2>1, <2>2, AccountStep DEF AgentRestart
<1> QED
  BY <1>3, <1>4

LEMMA RegistryTypeStep == RegistryTypeOK /\ [RegistryNext]_registryVars => RegistryTypeOK'
<1> SUFFICES ASSUME RegistryTypeOK, [RegistryNext]_registryVars PROVE RegistryTypeOK'
  OBVIOUS
<1>1. ASSUME NEW l \in Link, LinkStep(l) PROVE RegistryTypeOK'
  BY <1>1, RegisterTypes, SocketStepTypes, MessageTypes, HandlerEndsTypes DEF LinkStep
<1>2. CASE OperatorStep
  BY <1>2, TokenTypes, EnrollTypes, WorkTypes, CredentialTypes DEF OperatorStep
<1>3. CASE MonitorPass \/ \E a \in Agent : Tick(a)
  BY <1>3, MonitorTypes
<1>4. CASE ControlPlaneRestart \/ \E a \in Agent : AgentRestart(a)
  BY <1>4, RestartTypes
<1>5. CASE UNCHANGED registryVars
  <2>1. UNCHANGED <<token, status, credential, held, openLink, silence, benches, leases,
                    queued, link, hubLink, registryFaults>>
    BY <1>5 DEF registryVars
  <2> QED
    BY <2>1 DEF RegistryTypeOK
<1> QED
  BY <1>1, <1>2, <1>3, <1>4, <1>5 DEF RegistryNext

\* The parameters, the rows and the handlers are well formed.
THEOREM RegistryTypeCorrect == RegistrySpec => []RegistryTypeOK
<1> QED
  BY RegistryTypeInit, RegistryTypeStep, PTL DEF RegistrySpec

-----------------------------------------------------------------------------
(* What the rows show *)

\* What the properties are about does not change.
RowsStay == UNCHANGED <<status, openLink, benches, leases, queued>>

LEMMA QuietSteps ==
    ASSUME \/ \E t \in Token : IssueToken(t) \/ RevokeToken(t) \/ TokenExpires(t)
           \/ \E l \in Link : \/ \E a \in Agent : DialIn(l, a)
                              \/ HandshakeFails(l) \/ SocketDrops(l) \/ MessageRefused(l)
           \/ \E a \in Agent : RotateCredential(a) \/ Tick(a) \/ AgentRestart(a)
           \/ ControlPlaneRestart
           \/ UNCHANGED registryVars
    PROVE  RowsStay
<1>1. ASSUME NEW t \in Token, IssueToken(t) \/ RevokeToken(t) \/ TokenExpires(t) PROVE RowsStay
  BY <1>1 DEF IssueToken, RevokeToken, TokenExpires, presenceRows, workload, RowsStay
<1>2. ASSUME NEW l \in Link, NEW a \in Agent, DialIn(l, a) PROVE RowsStay
  BY <1>2 DEF DialIn, presenceRows, workload, RowsStay
<1>3. ASSUME NEW l \in Link, HandshakeFails(l) \/ SocketDrops(l) \/ MessageRefused(l)
      PROVE  RowsStay
  BY <1>3 DEF HandshakeFails, SocketDrops, MessageRefused, presenceRows, workload, RowsStay
<1>4. ASSUME NEW a \in Agent, RotateCredential(a) \/ Tick(a) \/ AgentRestart(a) PROVE RowsStay
  BY <1>4 DEF RotateCredential, Tick, AgentRestart, presenceRows, workload, RowsStay
<1>5. CASE ControlPlaneRestart
  BY <1>5 DEF ControlPlaneRestart, workload, RowsStay
<1>6. CASE UNCHANGED registryVars
  BY <1>6 DEF registryVars, RowsStay
<1> QED
  BY <1>1, <1>2, <1>3, <1>4, <1>5, <1>6

\* Every other step writes a row or the work of Agents: what it may do to each.
\* An Agent's row is closed only with its benches offline, and is opened for an
\* Agent that is not revoked.
RowsMove ==
    \A a \in Agent :
        /\ \/ openLink'[a] = openLink[a] /\ (benches'[a] = benches[a] \/ openLink[a] # NoLink)
           \/ openLink'[a] = NoLink /\ benches'[a] = {}
           \/ openLink'[a] # NoLink /\ status[a] # "REVOKED"
        /\ status[a] = "REVOKED" => status'[a] = "REVOKED"
        /\ status'[a] = "DRAINED" =>
             \/ status[a] = "DRAINED" /\ leases'[a] \in {0, leases[a]} /\ queued'[a] \in {0, queued[a]}
             \/ leases'[a] = 0 /\ queued'[a] = 0

LEMMA RowsStayMove == ASSUME RowsStay PROVE RowsMove
  BY DEF RowsStay, RowsMove

\* A benches column that goes offline keeps an Agent without a row without benches.
LEMMA OfflineNoFault ==
    ASSUME RowsMove, PresenceHonest PROVE PresenceHonest'
<1> SUFFICES ASSUME NEW a \in Agent
             PROVE  /\ openLink'[a] = NoLink => benches'[a] = {}
                    /\ status'[a] = "DRAINED" => leases'[a] = 0 /\ queued'[a] = 0
  BY DEF PresenceHonest, NeverFalselyOnline, DrainedIsIdle, Idle
<1>1. /\ openLink[a] = NoLink => benches[a] = {}
      /\ status[a] = "DRAINED" => leases[a] = 0 /\ queued[a] = 0
  BY DEF PresenceHonest, NeverFalselyOnline, DrainedIsIdle, Idle
<1> QED
  BY <1>1 DEF RowsMove

LEMMA NoLinkIs == \A l \in Link : l # NoLink
  BY DEF Link, NoLink

\* A message moves only the row of its connection's Agent, which is open and not revoked.
LEMMA ActivityMoves ==
    ASSUME RegistryTypeOK, NEW l \in Link, NEW s, Activity(l, s),
           s = "DRAINED" => status[link[l].agent] = "DRAINED",
           NEW online, benches' = benches \/ benches' = [benches EXCEPT ![link[l].agent] = online]
    PROVE  RowsMove
<1> SUFFICES ASSUME NEW a \in Agent
             PROVE  /\ \/ openLink'[a] = openLink[a]
                          /\ (benches'[a] = benches[a] \/ openLink[a] # NoLink)
                       \/ openLink'[a] = NoLink /\ benches'[a] = {}
                       \/ openLink'[a] # NoLink /\ status[a] # "REVOKED"
                    /\ status[a] = "REVOKED" => status'[a] = "REVOKED"
                    /\ status'[a] = "DRAINED" =>
                         \/ /\ status[a] = "DRAINED" /\ leases'[a] \in {0, leases[a]}
                            /\ queued'[a] \in {0, queued[a]}
                         \/ leases'[a] = 0 /\ queued'[a] = 0
  BY DEF RowsMove
<1>1. openLink' = openLink /\ leases' = leases /\ queued' = queued
  BY DEF Activity, workload
<1>2. a # link[l].agent => benches'[a] = benches[a] /\ status'[a] = status[a]
  BY DEF Activity, RegistryTypeOK
<1>3. a = link[l].agent => openLink[a] # NoLink /\ status[a] # "REVOKED" /\ status'[a] = s
  BY NoLinkIs DEF Activity, RegistryTypeOK, Current, PresenceWriteAllowed
<1> QED
  BY <1>1, <1>2, <1>3

LEMMA MessageMoves ==
    ASSUME RegistryTypeOK, NEW l \in Link,
           \/ Heartbeat(l) \/ SkewedHeartbeat(l)
           \/ \E online \in SUBSET Bench : BenchSnapshot(l, online)
           \/ \E b \in Bench : \/ BenchAdded(l, b) \/ BenchRemoved(l, b)
                               \/ \E online \in BOOLEAN : BenchHealthChanged(l, b, online)
    PROVE  RowsMove
<1> DEFINE a == link[l].agent
           s == ConnectedStatus(status[a])
<1>1. /\ s = "DRAINED" => status[a] = "DRAINED"
      /\ SkewedStatus(status[a]) = "DRAINED" => status[a] = "DRAINED"
  BY DEF ConnectedStatus, SkewedStatus
<1>2. CASE Heartbeat(l) \/ SkewedHeartbeat(l)
  BY <1>1, <1>2, ActivityMoves DEF Heartbeat, SkewedHeartbeat
<1>3. ASSUME Activity(l, s), NEW online, benches' = [benches EXCEPT ![a] = online]
      PROVE  RowsMove
  BY <1>1, <1>3, ActivityMoves
<1>4. ASSUME NEW b \in Bench, NEW online \in BOOLEAN, BenchHealthChanged(l, b, online)
      PROVE  RowsMove
  BY <1>3, <1>4 DEF BenchHealthChanged
<1>5. ASSUME NEW b \in Bench, BenchAdded(l, b) \/ BenchRemoved(l, b) PROVE RowsMove
  BY <1>3, <1>5 DEF BenchAdded, BenchRemoved
<1>6. ASSUME NEW online \in SUBSET Bench, BenchSnapshot(l, online) PROVE RowsMove
  BY <1>3, <1>6 DEF BenchSnapshot
<1> QED
  BY <1>2, <1>4, <1>5, <1>6

LEMMA RegisterMoves == ASSUME RegistryTypeOK, NEW l \in Link, Register(l) PROVE RowsMove
<1> DEFINE a == link[l].agent
<1>1. /\ status[a] # "REVOKED" /\ UNCHANGED <<benches, leases, queued>>
      /\ status' = [status EXCEPT ![a] = ConnectedStatus(@)]
      /\ openLink' = [openLink EXCEPT ![a] = l]
  BY DEF Register, Connectable, ActivateRow, workload
<1>2. ConnectedStatus(status[a]) = "DRAINED" => status[a] = "DRAINED"
  BY DEF ConnectedStatus
<1> QED
  BY <1>1, <1>2, NoLinkIs DEF RowsMove, RegistryTypeOK

LEMMA HandlerEndsMoves == ASSUME RegistryTypeOK, NEW l \in Link, HandlerEnds(l) PROVE RowsMove
<1> DEFINE a == link[l].agent
<1>1. leases' = leases /\ queued' = queued
  BY DEF HandlerEnds, workload
<1>2. CASE openLink[a] # l
  <2>1. UNCHANGED <<status, openLink, benches>>
    BY <1>2 DEF HandlerEnds, Disconnect, presenceRows
  <2> QED
    BY <1>1, <2>1 DEF RowsMove
<1>3. CASE openLink[a] = l
  <2>1. /\ benches' = [benches EXCEPT ![a] = {}]
        /\ \/ UNCHANGED <<status, openLink>>
           \/ /\ status[a] # "REVOKED"
              /\ status' = [status EXCEPT ![a] = OfflineStatus(@)]
              /\ openLink' = [openLink EXCEPT ![a] = NoLink]
    BY <1>3 DEF HandlerEnds, Disconnect, MarkBenchesOffline, CloseRow, PresenceWriteAllowed
  <2>2. OfflineStatus(status[a]) = "DRAINED" => status[a] = "DRAINED"
    BY DEF OfflineStatus
  <2>3. openLink[a] # NoLink
    BY <1>3, NoLinkIs
  <2> QED
    BY <1>1, <2>1, <2>2, <2>3 DEF RowsMove, RegistryTypeOK
<1> QED
  BY <1>2, <1>3

LEMMA MonitorMoves == ASSUME RegistryTypeOK, MonitorPass PROVE RowsMove
<1>1. leases' = leases /\ queued' = queued
  BY DEF MonitorPass, workload
<1> SUFFICES ASSUME NEW a \in Agent
             PROVE  /\ \/ openLink'[a] = openLink[a]
                          /\ (benches'[a] = benches[a] \/ openLink[a] # NoLink)
                       \/ openLink'[a] = NoLink /\ benches'[a] = {}
                    /\ status[a] = "REVOKED" => status'[a] = "REVOKED"
                    /\ status'[a] = "DRAINED" =>
                         status[a] = "DRAINED" \/ (leases[a] = 0 /\ queued[a] = 0)
  BY <1>1 DEF RowsMove
<1>2. \/ openLink'[a] = openLink[a] /\ (benches'[a] = benches[a] \/ openLink[a] # NoLink)
      \/ openLink'[a] = NoLink /\ benches'[a] = {}
  BY DEF MonitorPass, CheckTimeouts, Timeout, Overdue
<1>3. status'[a] = StatusAfterTimeouts(a) \/ status'[a] = DrainFinishes(a, StatusAfterTimeouts(a))
  BY DEF MonitorPass
<1>4. /\ status[a] = "REVOKED" => StatusAfterTimeouts(a) = "REVOKED"
      /\ StatusAfterTimeouts(a) = "DRAINED" => status[a] = "DRAINED"
  <2>1. CASE ~Visited(a) \/ Raises(a)
    BY <2>1 DEF StatusAfterTimeouts
  <2>2. CASE ~(~Visited(a) \/ Raises(a)) /\ Timeout(a)
    <3>0. ~Degrades(a)
      BY <2>2 DEF Timeout, Degrades
    <3>1. StatusAfterTimeouts(a) = OfflineStatus(status[a]) /\ status[a] # "REVOKED"
      BY <2>2, <3>0 DEF StatusAfterTimeouts, Raises, PresenceWriteAllowed
    <3> QED
      BY <3>1 DEF OfflineStatus
  <2>3. CASE ~(~Visited(a) \/ Raises(a)) /\ ~Timeout(a) /\ Degrades(a)
    <3>1. StatusAfterTimeouts(a) = "DEGRADED" /\ status[a] # "REVOKED"
      BY <2>3 DEF StatusAfterTimeouts, Raises, PresenceWriteAllowed
    <3> QED
      BY <3>1
  <2>4. CASE ~(~Visited(a) \/ Raises(a)) /\ ~Timeout(a) /\ ~Degrades(a)
    BY <2>4 DEF StatusAfterTimeouts
  <2> QED
    BY <2>1, <2>2, <2>3, <2>4
<1>5. /\ status[a] = "REVOKED" => status'[a] = "REVOKED"
      /\ status'[a] = "DRAINED" => status[a] = "DRAINED" \/ Idle(a)
  BY <1>3, <1>4 DEF DrainFinishes
<1> QED
  BY <1>2, <1>5 DEF Idle

LEMMA OperatorMoves ==
    ASSUME RegistryTypeOK,
           \/ \E t \in Token, a \in Agent : Enroll(t, a)
           \/ \E a \in Agent : \/ \E cancel \in BOOLEAN : Drain(a, cancel)
                               \/ Undrain(a) \/ RevokeAgent(a)
                               \/ AdmitLease(a) \/ QueueSession(a) \/ WorkEnds(a)
    PROVE  RowsMove
<1>1. openLink' = openLink /\ benches' = benches
  BY DEF Enroll, Drain, Undrain, RevokeAgent, AdmitLease, QueueSession, WorkEnds, presenceRows
<1> SUFFICES ASSUME NEW b \in Agent
             PROVE  /\ status[b] = "REVOKED" => status'[b] = "REVOKED"
                    /\ status'[b] = "DRAINED" =>
                         \/ /\ status[b] = "DRAINED" /\ leases'[b] \in {0, leases[b]}
                            /\ queued'[b] \in {0, queued[b]}
                         \/ leases'[b] = 0 /\ queued'[b] = 0
  BY <1>1 DEF RowsMove
<1> USE DEF RegistryTypeOK
<1>2. ASSUME NEW t \in Token, NEW a \in Agent, Enroll(t, a)
      PROVE  /\ status[a] = "NONE" /\ status' = [status EXCEPT ![a] = "OFFLINE"]
             /\ leases' = leases /\ queued' = queued
  BY <1>2 DEF Enroll, ConsumeToken, workload
<1>3. ASSUME NEW a \in Agent, NEW left, Drain(a, TRUE) \/ Drain(a, FALSE),
             queued' = [queued EXCEPT ![a] = left],
             status' = [status EXCEPT ![a] = IF leases[a] = 0 /\ left = 0 THEN "DRAINED"
                                             ELSE "DRAINING"]
      PROVE  /\ status[b] = "REVOKED" => status'[b] = "REVOKED"
             /\ status'[b] = "DRAINED" =>
                  \/ status[b] = "DRAINED" /\ leases'[b] = leases[b] /\ queued'[b] = queued[b]
                  \/ leases'[b] = 0 /\ queued'[b] = 0
  <2>1. leases' = leases /\ status[a] # "REVOKED"
    BY <1>3 DEF Drain
  <2> QED
    BY <1>3, <2>1
<1>4. ASSUME NEW a \in Agent, NEW cancel \in BOOLEAN, Drain(a, cancel)
      PROVE  \E left : /\ queued' = [queued EXCEPT ![a] = left]
                       /\ status' = [status EXCEPT ![a] = IF leases[a] = 0 /\ left = 0
                                                           THEN "DRAINED" ELSE "DRAINING"]
  BY <1>4 DEF Drain
<1>5. ASSUME NEW a \in Agent, Undrain(a) \/ RevokeAgent(a)
      PROVE  /\ leases' = leases /\ queued' = queued
             /\ \/ status[a] # "REVOKED" /\ status' = [status EXCEPT ![a] = "ONLINE"]
                \/ status' = [status EXCEPT ![a] = "REVOKED"]
  BY <1>5 DEF Undrain, CompareAndSetOnline, RevokeAgent, RevokeRecord, workload
<1>6. ASSUME NEW a \in Agent, AdmitLease(a) \/ QueueSession(a)
      PROVE  /\ status' = status /\ status[a] = "ONLINE"
             /\ b # a => leases'[b] = leases[b] /\ queued'[b] = queued[b]
  BY <1>6 DEF AdmitLease, QueueSession, AcceptsWork
<1>7. ASSUME NEW a \in Agent, WorkEnds(a)
      PROVE  /\ status' = status
             /\ leases'[b] \in {0, leases[b]} /\ queued'[b] \in {0, queued[b]}
  BY <1>7 DEF WorkEnds
<1> HIDE DEF RegistryTypeOK
<1>8. status \in [Agent -> AgentStatuses]
  BY DEF RegistryTypeOK
<1>9. CASE \E a \in Agent, cancel \in BOOLEAN : Drain(a, cancel)
  <2>1. PICK a \in Agent, cancel \in BOOLEAN : Drain(a, cancel)
    BY <1>9
  <2>2. Drain(a, TRUE) \/ Drain(a, FALSE)
    BY <2>1
  <2> QED
    BY <1>3, <1>4, <2>1, <2>2
<1>10. CASE \E t \in Token, a \in Agent : Enroll(t, a)
  BY <1>2, <1>8, <1>10
<1>11. CASE \E a \in Agent : Undrain(a) \/ RevokeAgent(a)
  BY <1>5, <1>8, <1>11
<1>12. CASE \E a \in Agent : AdmitLease(a) \/ QueueSession(a)
  BY <1>6, <1>12
<1>13. CASE \E a \in Agent : WorkEnds(a)
  BY <1>7, <1>13
<1> QED
  BY <1>9, <1>10, <1>11, <1>12, <1>13

LEMMA RegistryMoves ==
    ASSUME RegistryTypeOK, [RegistryNext]_registryVars PROVE RowsMove
<1>1. ASSUME NEW l \in Link, LinkStep(l) PROVE RowsMove
  BY <1>1, QuietSteps, RowsStayMove, RegisterMoves, MessageMoves, HandlerEndsMoves DEF LinkStep
<1>2. CASE OperatorStep
  BY <1>2, QuietSteps, RowsStayMove, OperatorMoves DEF OperatorStep
<1>3. CASE MonitorPass
  BY <1>3, MonitorMoves
<1>4. CASE \/ \E a \in Agent : Tick(a) \/ AgentRestart(a)
           \/ ControlPlaneRestart \/ UNCHANGED registryVars
  BY <1>4, QuietSteps, RowsStayMove
<1> QED
  BY <1>1, <1>2, <1>3, <1>4 DEF RegistryNext

\* An Agent without a connection shows no bench ONLINE and a DRAINED Agent has no work,
\* however messages, timeouts, drains, revocations, replaced connections and restarts
\* interleave (disconnect_if_current, check_timeouts, _finish_if_idle).
THEOREM PresenceHonestHolds == RegistrySpec => []PresenceHonest
<1>1. RegistryInit => PresenceHonest
  BY DEF RegistryInit, PresenceHonest, NeverFalselyOnline, DrainedIsIdle
<1>2. RegistryTypeOK /\ PresenceHonest /\ [RegistryNext]_registryVars => PresenceHonest'
  BY RegistryMoves, OfflineNoFault
<1> QED
  BY <1>1, <1>2, RegistryTypeCorrect, PTL DEF RegistrySpec

\* A revoked Agent stays revoked and none of its connections is registered any more,
\* whatever handshake was under way when it was revoked (the record is read again in
\* register, and the agents CHECK refuses presence writes).
THEOREM RevokedStaysOutHolds == RegistrySpec => RevokedStaysOut
<1>1. RegistryTypeOK /\ [RegistryNext]_registryVars =>
        [\A a \in Agent : status[a] = "REVOKED" =>
             status'[a] = "REVOKED" /\ openLink'[a] \in {openLink[a], NoLink}]_registryVars
  BY RegistryMoves DEF RowsMove
<1> QED
  BY <1>1, RegistryTypeCorrect, PTL DEF RegistrySpec, RevokedStaysOut
=============================================================================

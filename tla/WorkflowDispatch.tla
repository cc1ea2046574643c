--------------------------- MODULE WorkflowDispatch ---------------------------
(***************************************************************************)
(* Who holds a bench on behalf of whom, at the control plane: the queue of *)
(* reservation requests and its promotion, the coordinator that takes a    *)
(* lease for a workflow and creates and dispatches its command, and the    *)
(* lifecycle pass that gives the lease back when the work is over.         *)
(*                                                                         *)
(* One bench is modelled.  A lease is named by who it was granted to: a    *)
(* queue entry or a workflow request; a request may also run under the     *)
(* lease of a queue entry.  A renewal and a new grant both give a lease a  *)
(* new version.  How a lease reaches the Agent is the subject of           *)
(* LeaseCoordination; here an acknowledgement comes or does not.           *)
(***************************************************************************)
EXTENDS SideBySide, Integers, FiniteSets, Sequences, SequencesExt

CONSTANTS
    Entry,          \* queue entries, all of one organisation
    Flow,           \* idempotency keys of the workflow requests
    MaxLeaseVersion,
    MaxAttempts,    \* calls made with one idempotency key
    MaxOutages,     \* times the Agent goes offline
    MaxStops        \* restarts of the control plane

ASSUME DispatchAssumption ==
    /\ {MaxLeaseVersion, MaxAttempts, MaxOutages, MaxStops} \subseteq Nat
    /\ Entry \cap Flow = {}

VARIABLES
    asks,       \* what each workflow request asks for
    heldLease,       \* the coordinated leases
    line,       \* queue rows in queue_order
    ticket,     \* their status
    promoting,  \* the entry promote_waiting waits for, or NoEntryYet
    call,       \* where the call of each request is
    attempts,   \* calls made so far with each key
    command,    \* the RUN_WORKFLOW command of each request
    agentUp,    \* the Agent is online
    outages,
    stops

dispatchVars == <<asks, heldLease, line, ticket, promoting, call, attempts, command,
                  agentUp, outages, stops>>

Holders == Entry \cup Flow

NoEntryYet == "no entry"

NoLease == [state |-> "none", version |-> 0]

NoCommand == [state |-> "none", version |-> 0]

(* The states in which the row keeps everyone else off the bench *)
LiveLease == {"activating", "active", "unknown"}

BenchTaken == \E x \in Holders : heldLease[x].state \in LiveLease

(* The lease a request runs under, and whether it was granted for it *)
LeaseOf(k) == IF asks[k].reuses = NoEntryYet THEN k ELSE asks[k].reuses

OwnLease(k) == LeaseOf(k) = k

DispatchInit ==
    /\ asks \in [Flow -> [reuses : Entry \cup {NoEntryYet}, releaseAfter : BOOLEAN]]
    /\ heldLease = [x \in Holders |-> NoLease]
    /\ line = <<>>
    /\ ticket = [e \in Entry |-> "none"]
    /\ promoting = NoEntryYet
    /\ call = [k \in Flow |-> "idle"]
    /\ attempts = [k \in Flow |-> 0]
    /\ command = [k \in Flow |-> NoCommand]
    /\ agentUp = TRUE
    /\ outages = 0
    /\ stops = 0

-----------------------------------------------------------------------------
(* Leases: what the central service and the Agent do to them *)

Granted(x) ==
    heldLease' = [heldLease EXCEPT ![x] = [state |-> "activating", version |-> @.version + 1]]

Grantable(x) ==
    /\ ~BenchTaken
    /\ agentUp
    /\ heldLease[x].version < MaxLeaseVersion

SetLease(x, state) == heldLease' = [heldLease EXCEPT ![x].state = state]

(* release with expected_lease_version: a lease of another version, or one *)
(* that is over, is left alone.                                            *)
ReleasedLeases(versions) ==
    [x \in Holders |->
        IF <<x, heldLease[x].version>> \in versions /\ heldLease[x].state \in LiveLease
        THEN [heldLease[x] EXCEPT !.state = "released"]
        ELSE heldLease[x]]

(* The Agent confirms, or the confirmation does not come in time *)
LeaseAnswered(x) ==
    /\ heldLease[x].state = "activating"
    /\ \/ agentUp /\ SetLease(x, "active")
       \/ SetLease(x, "unknown")
    /\ UNCHANGED <<asks, line, ticket, promoting, call, attempts, command, agentUp,
                   outages, stops>>

(* Reconciliation settles a lease whose application was uncertain *)
LeaseReconciled(x) ==
    /\ heldLease[x].state = "unknown"
    /\ \/ agentUp /\ SetLease(x, "active")
       \/ SetLease(x, "ended")
    /\ UNCHANGED <<asks, line, ticket, promoting, call, attempts, command, agentUp,
                   outages, stops>>

(* The owner releases it, an administrator revokes it, or it expires *)
LeaseOver(x) ==
    /\ heldLease[x].state \in LiveLease
    /\ SetLease(x, "ended")
    /\ UNCHANGED <<asks, line, ticket, promoting, call, attempts, command, agentUp,
                   outages, stops>>

LeaseRenewed(x) ==
    /\ heldLease[x].state = "active" /\ agentUp
    /\ heldLease[x].version < MaxLeaseVersion
    /\ heldLease' = [heldLease EXCEPT ![x].version = @ + 1]
    /\ UNCHANGED <<asks, line, ticket, promoting, call, attempts, command, agentUp,
                   outages, stops>>

-----------------------------------------------------------------------------
(* CentralReservationQueueService *)

JoinQueue(e) ==
    /\ ticket[e] = "none"
    /\ ticket' = [ticket EXCEPT ![e] = "waiting"]
    /\ line' = Append(line, e)
    /\ UNCHANGED <<asks, heldLease, promoting, call, attempts, command, agentUp, outages,
                   stops>>

CancelEntry(e) ==
    /\ ticket[e] = "waiting"
    /\ ticket' = [ticket EXCEPT ![e] = "cancelled"]
    /\ UNCHANGED <<asks, heldLease, line, promoting, call, attempts, command, agentUp,
                   outages, stops>>

(* The first row that waits, if there is one *)
WaitingLine == SelectSeq(line, LAMBDA e : ticket[e] = "waiting")

MarkPromoted(e) ==
    ticket' = [ticket EXCEPT ![e] = IF @ = "waiting" THEN "promoted" ELSE @]

(* A pass takes the head of the line.  A new lease is asked for when there *)
(* is none or the last one is over (under a key derived from it), an       *)
(* existing one is replayed: active, it is taken over; activating, it is   *)
(* sent again; unknown, it is left alone.                                  *)
Promote ==
    /\ promoting = NoEntryYet
    /\ WaitingLine # <<>>
    /\ LET e == Head(WaitingLine)
       IN \/ /\ heldLease[e].state \notin LiveLease
             /\ Grantable(e)
             /\ Granted(e)
             /\ promoting' = e
             /\ UNCHANGED ticket
          \/ /\ heldLease[e].state = "activating"
             /\ promoting' = e
             /\ UNCHANGED <<heldLease, ticket>>
          \/ /\ heldLease[e].state = "active"
             /\ MarkPromoted(e)
             /\ UNCHANGED <<heldLease, promoting>>
    /\ UNCHANGED <<asks, line, call, attempts, command, agentUp, outages, stops>>

(* grant returns.  A row cancelled meanwhile gives its lease back, but     *)
(* only a lease that was confirmed.                                        *)
PromoteEnds ==
    /\ promoting # NoEntryYet
    /\ heldLease[promoting].state # "activating"
    /\ IF heldLease[promoting].state = "active"
       THEN /\ MarkPromoted(promoting)
            /\ IF ticket[promoting] = "cancelled"
               THEN heldLease' = ReleasedLeases({<<promoting, heldLease[promoting].version>>})
               ELSE UNCHANGED heldLease
       ELSE UNCHANGED <<heldLease, ticket>>
    /\ promoting' = NoEntryYet
    /\ UNCHANGED <<asks, line, call, attempts, command, agentUp, outages, stops>>

-----------------------------------------------------------------------------
(* DistributedWorkflowCoordinator *)

SetCall(k, state) == call' = [call EXCEPT ![k] = state]

(* _release_pre_dispatch: only a lease granted for this request *)
ReleasePreDispatch(k) ==
    IF OwnLease(k)
    THEN heldLease' = ReleasedLeases({<<k, heldLease[k].version>>})
    ELSE UNCHANGED heldLease

(* The request becomes the leader of its key: a call with the key of a     *)
(* request in progress or done waits for, or gets, the same result.  A     *)
(* request with its own lease gets a new one or replays the one its key    *)
(* was granted before.                                                     *)
RunFlow(k) ==
    /\ call[k] = "idle" /\ attempts[k] < MaxAttempts
    /\ attempts' = [attempts EXCEPT ![k] = @ + 1]
    /\ agentUp
    /\ IF OwnLease(k) /\ heldLease[k].state = "none"
       THEN Grantable(k) /\ Granted(k)
       ELSE UNCHANGED heldLease
    /\ SetCall(k, IF OwnLease(k) THEN "granting" ELSE "staging")
    /\ UNCHANGED <<asks, line, ticket, promoting, command, agentUp, outages, stops>>

(* grant returns: a lease that is not active is given back at once *)
GrantReturns(k) ==
    /\ call[k] = "granting"
    /\ heldLease[k].state # "activating"
    /\ IF heldLease[k].state = "active"
       THEN SetCall(k, "staging") /\ UNCHANGED heldLease
       ELSE SetCall(k, "idle") /\ ReleasePreDispatch(k)
    /\ UNCHANGED <<asks, line, ticket, promoting, attempts, command, agentUp,
                   outages, stops>>

(* _reuse_reservation: the lease is active when the request looks *)
Reusable(k) == OwnLease(k) \/ heldLease[LeaseOf(k)].state = "active"

(* commands.create is idempotent: a command that exists is found again,    *)
(* unless the lease in its payload is another one.                         *)
CreateCommand(k) ==
    /\ command[k].state = "none" \/ command[k].version = heldLease[LeaseOf(k)].version
    /\ command' = [command EXCEPT ![k] =
            IF @.state = "none"
            THEN [state |-> "created", version |-> heldLease[LeaseOf(k)].version]
            ELSE @]

(* The artifacts are issued and the command is created *)
Stage(k) ==
    /\ call[k] = "staging"
    /\ Reusable(k)
    /\ CreateCommand(k)
    /\ SetCall(k, "dispatching")
    /\ UNCHANGED <<asks, heldLease, line, ticket, promoting, attempts, agentUp, outages,
                   stops>>

(* A capability is refused, the lease expired or the command differs *)
StageFails(k) ==
    /\ call[k] = "staging"
    /\ ReleasePreDispatch(k)
    /\ SetCall(k, "idle")
    /\ UNCHANGED <<asks, line, ticket, promoting, attempts, command, agentUp,
                   outages, stops>>

(* commands.dispatch: an Agent that went offline is an error to the caller *)
(* and leaves the command to expire.                                       *)
Dispatch(k) ==
    /\ call[k] = "dispatching"
    /\ IF agentUp
       THEN /\ command' = [command EXCEPT ![k].state =
                    IF @ = "created" THEN "running" ELSE @]
            /\ SetCall(k, "done")
       ELSE SetCall(k, "idle") /\ UNCHANGED command
    /\ UNCHANGED <<asks, heldLease, line, ticket, promoting, attempts, agentUp, outages,
                   stops>>

(* The command or its operation becomes terminal, or the command expires *)
CommandOver(k) ==
    /\ command[k].state \in {"created", "running"}
    /\ command' = [command EXCEPT ![k].state = "terminal"]
    /\ UNCHANGED <<asks, heldLease, line, ticket, promoting, call, attempts, agentUp,
                   outages, stops>>

-----------------------------------------------------------------------------
(* DistributedWorkflowReservationLifecycle *)

(* The intent recorded in the command's payload *)
ReleaseIntended(k) == command[k].state = "terminal" /\ asks[k].releaseAfter

(* A pass that does not compare versions *)
TerminalLeasesAny ==
    {<<LeaseOf(k), heldLease[LeaseOf(k)].version>> : k \in {j \in Flow : ReleaseIntended(j)}}

(* A pass that only looks at the leases granted for a workflow *)
TerminalLeasesOwned ==
    {<<k, command[k].version>> : k \in {j \in Flow : ReleaseIntended(j) /\ OwnLease(j)}}

(* list_terminal_workflow_commands *)
TerminalLeases ==
    {<<LeaseOf(k), command[k].version>> : k \in {j \in Flow : ReleaseIntended(j)}}

(* The monitor runs it after the queue's pass, never during one *)
ReleaseTerminal ==
    /\ promoting = NoEntryYet
    /\ heldLease' = ReleasedLeases(TerminalLeases)
    /\ heldLease' # heldLease
    /\ UNCHANGED <<asks, line, ticket, promoting, call, attempts, command, agentUp,
                   outages, stops>>

-----------------------------------------------------------------------------
(* Faults *)

AgentGoes ==
    /\ IF agentUp THEN outages < MaxOutages ELSE TRUE
    /\ agentUp' = ~agentUp
    /\ outages' = IF agentUp THEN outages + 1 ELSE outages
    /\ UNCHANGED <<asks, heldLease, line, ticket, promoting, call, attempts, command, stops>>

(* The calls in progress and the cache of their results are lost *)
ControlPlaneStops ==
    /\ stops < MaxStops
    /\ stops' = stops + 1
    /\ promoting' = NoEntryYet
    /\ call' = [k \in Flow |-> "idle"]
    /\ UNCHANGED <<asks, heldLease, line, ticket, attempts, command, agentUp, outages>>

DispatchNext ==
    \/ \E x \in Holders :
        LeaseAnswered(x) \/ LeaseReconciled(x) \/ LeaseOver(x) \/ LeaseRenewed(x)
    \/ \E e \in Entry : JoinQueue(e) \/ CancelEntry(e)
    \/ Promote \/ PromoteEnds
    \/ \E k \in Flow :
        \/ RunFlow(k) \/ GrantReturns(k) \/ Stage(k) \/ StageFails(k)
        \/ Dispatch(k) \/ CommandOver(k)
    \/ ReleaseTerminal
    \/ AgentGoes
    \/ ControlPlaneStops

DispatchSpec == DispatchInit /\ [][DispatchNext]_dispatchVars

DispatchTurn == focus = "dispatch"

(* The monitor's passes go on, and waiting for an Agent has a timeout *)
DispatchFairness ==
    /\ \A x \in Holders : WF_dispatchVars(DispatchTurn /\ LeaseAnswered(x))
    /\ WF_dispatchVars(DispatchTurn /\ Promote) /\ WF_dispatchVars(DispatchTurn /\ PromoteEnds)
    /\ WF_dispatchVars(DispatchTurn /\ ReleaseTerminal)

-----------------------------------------------------------------------------
DispatchTypeOK ==
    /\ asks \in [Flow -> [reuses : Entry \cup {NoEntryYet}, releaseAfter : BOOLEAN]]
    /\ heldLease \in [Holders -> [state : {"none", "ended", "released"} \cup LiveLease,
                             version : 0..MaxLeaseVersion]]
    /\ IsInjective(line) /\ ToSet(line) = {e \in Entry : ticket[e] # "none"}
    /\ ticket \in [Entry -> {"none", "waiting", "promoted", "cancelled"}]
    /\ promoting \in Entry \cup {NoEntryYet}
    /\ call \in [Flow -> {"idle", "granting", "staging", "dispatching", "done"}]
    /\ attempts \in [Flow -> 0..MaxAttempts]
    /\ command \in [Flow -> [state : {"none", "created", "running", "terminal"},
                             version : 0..MaxLeaseVersion]]
    /\ agentUp \in BOOLEAN
    /\ outages \in 0..MaxOutages
    /\ stops \in 0..MaxStops

(* A user's own reservation, obtained through the queue, is only ever      *)
(* given back automatically when the user cancelled the entry, or when a   *)
(* workflow that asked for it ended under exactly this lease: retries,     *)
(* failed dispatches and renewals never cost the user the bench.           *)
CallersLeaseKept ==
    \A e \in Entry : heldLease[e].state = "released" =>
        \/ ticket[e] = "cancelled"
        \/ \E k \in Flow :
            /\ LeaseOf(k) = e /\ ReleaseIntended(k)
            /\ command[k].version = heldLease[e].version

\* No lease that a finished workflow was to give back is left: it was released,
\* ended, or was renewed first.
FinishedWorkGaveBack ==
    \A k \in Flow :
        ReleaseIntended(k) => \/ heldLease[LeaseOf(k)].state \notin LiveLease
                              \/ heldLease[LeaseOf(k)].version # command[k].version

=============================================================================

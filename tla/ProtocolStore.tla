--------------------------- MODULE ProtocolStore ----------------------------
(***************************************************************************)
(* The rows that make Agent messages safe to repeat: the claims that fence *)
(* reconciliation reports, the archive of the reports, the final outcome   *)
(* of a journaled message, and SQLiteAgentConnectionRepository's           *)
(* connection rows.  Session handlers of a superseded and of a new         *)
(* connection work on the same reports, and the control plane may stop     *)
(* between any two transactions.                                           *)
(***************************************************************************)
EXTENDS Naturals, FiniteSets

CONSTANTS
    ReportId,       \* identifiers of report messages
    ReportContent,  \* digests of what reports say
    Handler,        \* session handlers of one Agent
    Circuit,           \* connection identifiers of one Agent
    MaxClock,       \* bound: wall clock readings 0..MaxClock
    MaxSequence,    \* bound: sequence numbers
    MaxApplies,     \* bound: times a report is applied
    MaxStoreCrashes \* bound: control-plane restarts

ASSUME ProtocolAssumption ==
    /\ IsFiniteSet(ReportId) /\ IsFiniteSet(Handler) /\ IsFiniteSet(Circuit)
    /\ {MaxClock, MaxSequence, MaxApplies, MaxStoreCrashes} \subseteq Nat
    /\ "NONE" \notin ReportContent

VARIABLES
    archivedReports,        \* reconciliation_reports: the content saved under each id
    claims,         \* reconciliation_report_claims
    handling,       \* what each handler is doing with which report
    appliedReports,        \* how many times each content was applied to the end
    messages,       \* outcome of each report's message in the protocol journal
    links,          \* agent_connections
    crashes

reportVars == <<archivedReports, claims, handling, appliedReports, messages>>
protocolVars == <<reportVars, links, crashes>>

NoClaim == [status |-> "NONE"]
Unheard == "NONE"
NoHandling == [step |-> "IDLE"]
NoCircuit == [state |-> "NONE"]

ProtocolInit ==
    /\ archivedReports = [r \in ReportId |-> Unheard]
    /\ claims = [r \in ReportId |-> NoClaim]
    /\ handling = [h \in Handler |-> NoHandling]
    /\ appliedReports = [d \in ReportContent |-> 0]
    /\ messages = [r \in ReportId |-> Unheard]
    /\ links = [l \in Circuit |-> NoCircuit]
    /\ crashes = 0

-----------------------------------------------------------------------------
\* SQLitePersistedReconciliationHandler.reconcile archives the report first;
\* another content under an identifier already archived is refused.
SaveReport(h, r, d) ==
    /\ handling[h] = NoHandling
    /\ archivedReports[r] \in {Unheard, d}
    /\ archivedReports' = [archivedReports EXCEPT ![r] = d]
    /\ messages' = [messages EXCEPT ![r] = IF @ = Unheard THEN "RECEIVED" ELSE @]
    /\ handling' = [handling EXCEPT ![h] = [step |-> "CLAIM", id |-> r, content |-> d]]
    /\ UNCHANGED <<claims, appliedReports, links, crashes>>

\* The claims that speak of a content, in a status.
ClaimsOf(d, status) ==
    {r \in ReportId : claims[r].status = status /\ claims[r].content = d}

\* Mutant: the content is looked up under this identifier only
AnswerById(r, d) ==
    IF claims[r] = NoClaim THEN "NEW"
    ELSE IF claims[r].content # d THEN "CONFLICT"
    ELSE IF claims[r].status = "PROCESSING" THEN "IN_PROGRESS" ELSE "DUPLICATE"

\* claim_report answers CONFLICT for another content under this identifier,
\* IN_PROGRESS while this content is being processed under any identifier, and
\* DUPLICATE once it is complete under any; otherwise it is NEW.
Answer(r, d) ==
    IF claims[r] # NoClaim
    THEN IF claims[r].content # d THEN "CONFLICT"
         ELSE IF claims[r].status = "PROCESSING" THEN "IN_PROGRESS" ELSE "DUPLICATE"
    ELSE IF ClaimsOf(d, "COMPLETE") # {} THEN "DUPLICATE"
    ELSE IF ClaimsOf(d, "PROCESSING") # {} THEN "IN_PROGRESS"
    ELSE "NEW"

\* A new report is claimed; a duplicate of a complete one is recorded as
\* complete with the same result and answered with it; the rest is rejected.
ClaimReport(h) ==
    /\ handling[h].step = "CLAIM"
    /\ LET r == handling[h].id
           d == handling[h].content
           answer == Answer(r, d)
       IN /\ claims' = CASE answer = "NEW" ->
                              [claims EXCEPT ![r] = [status |-> "PROCESSING", content |-> d]]
                         [] answer = "DUPLICATE" ->
                              [claims EXCEPT ![r] = [status |-> "COMPLETE", content |-> d]]
                         [] OTHER -> claims
          /\ handling' = [handling EXCEPT ![h] =
               IF answer = "NEW" THEN [@ EXCEPT !.step = "APPLY"]
               ELSE [@ EXCEPT !.step = IF answer = "DUPLICATE" THEN "HANDLED" ELSE "REJECTED"]]
    /\ UNCHANGED <<archivedReports, appliedReports, messages, links, crashes>>

\* complete_report: the claim must still be there, with this content.
CompleteReport(h) ==
    /\ handling[h].step = "APPLY"
    /\ appliedReports[handling[h].content] < MaxApplies
    /\ LET r == handling[h].id IN
       /\ claims[r] # NoClaim /\ claims[r].content = handling[h].content
       /\ claims' = [claims EXCEPT ![r].status = "COMPLETE"]
    /\ appliedReports' = [appliedReports EXCEPT ![handling[h].content] = @ + 1]
    /\ handling' = [handling EXCEPT ![h].step = "HANDLED"]
    /\ UNCHANGED <<archivedReports, messages, links, crashes>>

\* An exception while the report is applied abandons the claim: abandon_report
\* deletes it only while it is PROCESSING.
AbandonReport(h) ==
    /\ handling[h].step = "APPLY"
    /\ claims' = [claims EXCEPT ![handling[h].id] =
         IF @.status = "PROCESSING" THEN NoClaim ELSE @]
    /\ handling' = [handling EXCEPT ![h].step = "REJECTED"]
    /\ UNCHANGED <<archivedReports, appliedReports, messages, links, crashes>>

\* Mutant: the latest outcome wins
FirstOutcomeLatest(current, outcome) == outcome

\* mark_handled: the first outcome of a message is its last.
FirstOutcome(current, outcome) == IF current = "RECEIVED" THEN outcome ELSE current

MarkHandled(h) ==
    /\ handling[h].step \in {"HANDLED", "REJECTED"}
    /\ messages' = [messages EXCEPT ![handling[h].id] = FirstOutcome(@, handling[h].step)]
    /\ handling' = [handling EXCEPT ![h] = NoHandling]
    /\ UNCHANGED <<archivedReports, claims, appliedReports, links, crashes>>

\* A restart forgets what the handlers were doing; the rows stay, a claim that
\* was being processed included.
RestartStore ==
    /\ crashes < MaxStoreCrashes
    /\ crashes' = crashes + 1
    /\ handling' = [h \in Handler |-> NoHandling]
    /\ UNCHANGED <<archivedReports, claims, appliedReports, messages, links>>

-----------------------------------------------------------------------------
OpenedCircuits == {l \in Circuit : links[l].state = "OPEN"}

\* Mutant: a connection made before the active one was last heard fences it
OpenLinkStale(l, at) ==
    /\ links[l] = NoCircuit
    /\ links' = [k \in Circuit |->
         IF k = l THEN [state |-> "OPEN", since |-> at, beat |-> at, number |-> 0, end |-> 0]
         ELSE IF k \in OpenedCircuits THEN [links[k] EXCEPT !.state = "CLOSED", !.end = at]
         ELSE links[k]]
    /\ UNCHANGED <<reportVars, crashes>>

\* open: the connection that is active is fenced in the same transaction, at
\* the time the new one connected, unless it was heard from after that.
OpenLink(l, at) ==
    /\ links[l] = NoCircuit
    /\ \A k \in OpenedCircuits : at >= links[k].beat
    /\ links' = [k \in Circuit |->
         IF k = l THEN [state |-> "OPEN", since |-> at, beat |-> at, number |-> 0, end |-> 0]
         ELSE IF k \in OpenedCircuits THEN [links[k] EXCEPT !.state = "CLOSED", !.end = at]
         ELSE links[k]]
    /\ UNCHANGED <<reportVars, crashes>>

\* heartbeat: the row must be active and still at the sequence number expected;
\* neither the time nor the sequence number may go back.
BeatFits(l, expected, number, at) ==
    /\ links[l].state = "OPEN"
    /\ links[l].number = expected
    /\ at >= links[l].beat
    /\ number >= links[l].number

HeartbeatLink(l, expected, number, at) ==
    /\ BeatFits(l, expected, number, at)
    /\ links' = [links EXCEPT ![l].beat = at, ![l].number = number]
    /\ UNCHANGED <<reportVars, crashes>>

\* disconnect: refused when the row is closed or moved on, or when it was
\* heard from after the disconnection (AgentConnectionRecord.validate_timeline).
DisconnectLink(l, expected, at) ==
    /\ links[l].state = "OPEN"
    /\ links[l].number = expected
    /\ at >= links[l].beat
    /\ links' = [links EXCEPT ![l].state = "CLOSED", ![l].end = at]
    /\ UNCHANGED <<reportVars, crashes>>

ProtocolNext ==
    \/ \E h \in Handler, r \in ReportId, d \in ReportContent : SaveReport(h, r, d)
    \/ \E h \in Handler :
         ClaimReport(h) \/ CompleteReport(h) \/ AbandonReport(h) \/ MarkHandled(h)
    \/ RestartStore
    \/ \E l \in Circuit, at \in 0..MaxClock : OpenLink(l, at)
    \/ \E l \in Circuit, expected, number \in 0..MaxSequence, at \in 0..MaxClock :
         HeartbeatLink(l, expected, number, at)
    \/ \E l \in Circuit, expected \in 0..MaxSequence, at \in 0..MaxClock :
         DisconnectLink(l, expected, at)

ProtocolSpec == ProtocolInit /\ [][ProtocolNext]_protocolVars

-----------------------------------------------------------------------------
ProtocolTypeOK ==
    /\ \A r \in ReportId :
         /\ archivedReports[r] \in ReportContent \cup {Unheard}
         /\ messages[r] \in {Unheard, "RECEIVED", "HANDLED", "REJECTED"}
         /\ claims[r] = NoClaim
            \/ claims[r] \in [status : {"PROCESSING", "COMPLETE"}, content : ReportContent]
    /\ \A h \in Handler : handling[h].step \in {"IDLE", "CLAIM", "APPLY", "HANDLED", "REJECTED"}
    /\ appliedReports \in [ReportContent -> 0..MaxApplies]
    /\ \A l \in Circuit : links[l] = NoCircuit \/ links[l] \in
         [state : {"OPEN", "CLOSED"}, since : 0..MaxClock, beat : 0..MaxClock,
          number : 0..MaxSequence, end : 0..MaxClock]
    /\ crashes \in 0..MaxStoreCrashes

\* However a report is repeated, under one message identifier or several, over
\* one session or two, its content is never applied by two handlers at once,
\* is applied to the end at most once, and a claim never contradicts the
\* archived report (distributed_adapters.claim_report).  An Agent never has two
\* active connections and the timeline of each row is in order
\* (distributed.SQLiteAgentConnectionRepository).
ReportsFenced ==
    /\ \A d \in ReportContent :
         /\ Cardinality({h \in Handler : handling[h].step = "APPLY" /\ handling[h].content = d}) <= 1
         /\ appliedReports[d] <= 1
         /\ ClaimsOf(d, "COMPLETE") # {} <=> appliedReports[d] = 1
         /\ appliedReports[d] = 1 =>
              ~ \E h \in Handler : handling[h].step = "APPLY" /\ handling[h].content = d
    /\ \A r \in ReportId : claims[r] # NoClaim => archivedReports[r] = claims[r].content
    /\ Cardinality(OpenedCircuits) <= 1
    /\ \A l \in Circuit : links[l] # NoCircuit =>
         /\ links[l].beat >= links[l].since
         /\ links[l].state = "CLOSED" => links[l].end >= links[l].beat

\* The outcome of a message never changes once it has one, a completed claim
\* stays completed, and a closed connection never comes back to life
\* (distributed.mark_handled, complete_report, heartbeat, disconnect).
OutcomesAreFinal ==
    [][/\ \A r \in ReportId :
            /\ messages[r] \in {"HANDLED", "REJECTED"} => messages'[r] = messages[r]
            /\ claims[r].status = "COMPLETE" => claims'[r] = claims[r]
       /\ \A l \in Circuit : links[l].state = "CLOSED" => links'[l] = links[l]
      ]_protocolVars
=============================================================================

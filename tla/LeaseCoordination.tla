------------------------- MODULE LeaseCoordination -------------------------
(***************************************************************************)
(* Reservation leases: the control plane's CentralReservationLeaseService  *)
(* and its transactional repository, the synchronizer that offers a lease  *)
(* to the Agent and waits for its confirmation, the maintenance monitor,   *)
(* the Agent's versioned lease store, and the lease half of reconciliation *)
(* after a reconnect.  One Agent owns every bench of the model.            *)
(*                                                                         *)
(* The control plane is one event loop and its database calls are          *)
(* synchronous, so a handler is one step up to the point where it awaits   *)
(* the Agent; what it read before that await is kept in `waits' and        *)
(* compared (by revision) when it resumes.                                 *)
(***************************************************************************)
EXTENDS Integers, Sequences, FiniteSets

CONSTANTS
    Bench,            \* global benches of the Agent
    Reservation,      \* reservation identities
    Durations,        \* requestable reservation durations
    Endings,          \* what a client may ask for: release (RELEASED), revoke (REVOKED)
    LeaseTTL,         \* lease validity granted at once
    Grace,            \* offline_reservation_grace_seconds
    Protect,          \* scheduled_protection_window_seconds
    Skew,             \* maximum_clock_skew_seconds, both sides
    AgentOffset,      \* Agent clock minus control-plane clock
    Fragile,          \* benches whose health may change
    SlowAgent,        \* TRUE: a confirmation may arrive after the window
    MaxTime,          \* bound: last clock value
    MaxVersion,       \* bound: lease versions per bench
    MaxConnections,   \* bound: Agent connections
    MaxQueue          \* outgoing_queue_size, both directions

ASSUME FiniteAssumption == IsFiniteSet(Bench) /\ IsFiniteSet(Reservation)
ASSUME FragileAssumption == Fragile \subseteq Bench
ASSUME EndingsAssumption == Endings \subseteq {"RELEASED", "REVOKED"}
ASSUME DurationsAssumption == Durations \subseteq Nat \ {0}
ASSUME ClockAssumption ==
    /\ LeaseTTL \in Nat \ {0} /\ Grace \in Nat /\ Protect \in Nat 
    /\ Skew \in Nat /\ MaxTime \in Nat
    /\ AgentOffset \in Int /\ -Skew <= AgentOffset /\ AgentOffset <= Skew
ASSUME BoundAssumption ==
    /\ MaxVersion \in Nat /\ MaxConnections \in Nat /\ MaxQueue \in Nat \ {0}
    /\ SlowAgent \in BOOLEAN

VARIABLES
    now,          \* control-plane clock
    record,       \* reservations + coordinated_reservation_leases, per reservation
    history,      \* reservation_leases of a bench; the row at index v has version v
    waits,        \* handlers suspended in apply_lease
    monitor,      \* the monitor task: idle, activating, or dead
    presence,     \* the Agent has an open agent_connections row (status ONLINE)
    session,      \* the hub has a session for the Agent
    link,         \* the transport still carries messages
    connections,  \* connections made so far
    healthy,      \* bench health the Agent reports
    down,         \* control plane -> Agent messages of this session
    up,           \* Agent -> control plane persistent outbox
    store         \* Agent lease store: latest record of each bench

vars == <<now, record, history, waits, monitor, presence, session, link,
          connections, healthy, down, up, store>>

-----------------------------------------------------------------------------
(* Data. *)

CurrentStates  == {"ACTIVATING", "ACTIVE", "RENEWING", "UNKNOWN"}
TerminalStates == {"RELEASED", "EXPIRED", "REVOKED"}

\* NONE: no row yet.  SCHEDULED, CANCELLED (and EXPIRED at version 0): a
\* reservation row without a coordination record.  `granted' tells a reservation
\* made by grant() from one made by schedule().
RecordStates == CurrentStates \cup TerminalStates \cup {"NONE", "SCHEDULED", "CANCELLED"}

Record == [state: RecordStates, granted: BOOLEAN, bench: Bench, version: Nat,
           starts: Nat, ends: Nat, deadline: Nat, revision: Nat]

HistoryRow == [res: Reservation, until: Nat, released: BOOLEAN]

\* The Agent keeps an active lease or a tombstone; version 0 is "nothing stored".
Stored == [res: Reservation, version: Nat, until: Nat, released: BOOLEAN]

Lease == [res: Reservation, bench: Bench, version: Nat, until: Nat]

DownMsg == [type: {"activated", "released"}, lease: Lease] \cup [type: {"reconcile"}]
UpMsg   == [type: {"applied"}, lease: Lease]
             \cup [type: {"report"}, leases: {L \in SUBSET Lease : IsFiniteSet(L)}]

\* A handler suspended in HubReservationLeaseSynchronizer.apply_lease, with the
\* revision of the pending record it read before the await.
Wait == [who: {"api", "monitor"}, res: Reservation, version: Nat, revision: Nat,
         confirmed: BOOLEAN]

Smaller(a, b) == IF a <= b THEN a ELSE b
Larger(a, b)  == IF a >= b THEN a ELSE b

AgentNow == now + AgentOffset

Current(r) == record[r].state \in CurrentStates

RowOf(r) == history[record[r].bench][record[r].version]

\* _replace_lease_history: the durable history row must equal the lease in the
\* coordination record, which is unreleased until the record is terminal.
HistoryMatches(r) == ~RowOf(r).released

LeaseOf(r) == [res |-> r, bench |-> record[r].bench, version |-> record[r].version,
               until |-> RowOf(r).until]

\* _route_is_eligible / _optional_route_predicates_match: Agent and bench ONLINE.
Eligible(b) == presence /\ healthy[b]

-----------------------------------------------------------------------------
(* Writes shared by the handlers. *)

Put(r, rec) == record' = [record EXCEPT ![r] = rec]

Interrupted(rec) ==
    [rec EXCEPT !.state = "UNKNOWN", !.revision = @ + 1,
                !.deadline = Larger(now, Smaller(now + Grace, rec.ends))]

Advance(rec, s) == [rec EXCEPT !.state = s, !.revision = @ + 1, !.deadline = 0]

ReleaseRow(h, b, v) == [h EXCEPT ![b][v].released = TRUE]

\* Faulty variant: the queue has no limit.
PostUnbounded(msgs) ==
    /\ down' = IF session THEN down \o msgs ELSE down
    /\ UNCHANGED link

\* AgentConnectionHub.send: a full queue closes the socket.
Post(msgs) ==
    IF ~session
      THEN UNCHANGED <<down, link>>
      ELSE IF Len(down) + Len(msgs) <= MaxQueue
        THEN down' = down \o msgs /\ UNCHANGED link
        ELSE UNCHANGED down /\ link' = FALSE

Orderings(S) == {f \in [1..Cardinality(S) -> S] : \A i, j \in DOMAIN f : f[i] = f[j] => i = j}

\* release_lease() for each lease of a set, in some order.
Notify(leases) ==
    \E order \in Orderings(leases) :
        Post([i \in DOMAIN order |-> [type |-> "released", lease |-> order[i]]])

Offered(r, v) == \E w \in waits : w.res = r /\ w.version = v

\* _synchronize_pending up to its await.  `rec' is the pending record and
\* `lease' what is offered; `sound' says its history row matches: marking an
\* unsound record UNKNOWN raises, which ends the monitor's iteration.
Synchronize(r, rec, lease, sound, who) ==
    LET joins == Offered(r, rec.version)
        wait  == [who |-> who, res |-> r, version |-> rec.version,
                  revision |-> rec.revision,
                  confirmed |-> \E w \in waits : /\ w.res = r /\ w.version = rec.version
                                                 /\ w.confirmed]
    IN IF session /\ (joins \/ Len(down) < MaxQueue)
         THEN /\ Put(r, rec)
              /\ waits' = waits \cup {wait}
              /\ down' = IF joins THEN down
                         ELSE Append(down, [type |-> "activated", lease |-> lease])
              /\ UNCHANGED <<link, monitor>>
         ELSE /\ Put(r, IF sound THEN Interrupted(rec) ELSE rec)
              /\ link' = (link /\ ~session)
              /\ monitor' = IF ~sound /\ who = "monitor" THEN "idle" ELSE monitor
              /\ UNCHANGED <<waits, down>>

\* Insert a new lease version for bench b and offer it to the Agent.
Activate(r, rec, until, who) ==
    LET b == rec.bench
        v == Len(history[b]) + 1
    IN /\ v <= MaxVersion
       /\ history' = [history EXCEPT
                        ![b] = Append(@, [res |-> r, until |-> until, released |-> FALSE])]
       /\ Synchronize(r, [rec EXCEPT !.version = v],
                      [res |-> r, bench |-> b, version |-> v, until |-> until], TRUE, who)

\* mark_agent_disconnected: records are interrupted one by one; one whose history
\* disagrees raises, and those not yet visited stay as they are.
MarkDisconnected ==
    LET open == {r \in Reservation : record[r].state \in {"ACTIVATING", "ACTIVE", "RENEWING"}}
        good == {r \in open : HistoryMatches(r)}
    IN \E done \in SUBSET good :
         /\ good = open => done = open
         /\ record' = [r \in Reservation |->
                         IF r \in done THEN Interrupted(record[r]) ELSE record[r]]

-----------------------------------------------------------------------------
(* Control-plane API handlers. *)

\* Faulty variant: pending and interrupted owners are overlooked.
FreeBenchActiveOnly(b) ==
    \A q \in Reservation : record[q].state = "ACTIVE" => record[q].bench # b

\* _has_current_coordination
FreeBench(b) == \A q \in Reservation : Current(q) => record[q].bench # b

\* Faulty variant: only the start of the new interval is looked at.
OverlapsAtStart(states, b, starts, ends) ==
    \E q \in Reservation : /\ record[q].state \in states /\ record[q].bench = b
                           /\ record[q].starts <= starts /\ record[q].ends > starts

\* Rows of the reservations table that overlap [starts, ends) of bench b.
Overlaps(states, b, starts, ends) ==
    \E q \in Reservation : /\ record[q].state \in states /\ record[q].bench = b
                           /\ record[q].starts < ends /\ record[q].ends > starts

\* grant(): BEGIN IMMEDIATE checks and inserts, then the offer.
Grant(r, b, d) ==
    /\ record[r].state = "NONE"
    /\ now + d < MaxTime
    /\ Eligible(b)
    /\ FreeBench(b)
    /\ ~Overlaps({"SCHEDULED"}, b, now, now + d + Protect)
    /\ Activate(r, [state |-> "ACTIVATING", granted |-> TRUE, bench |-> b,
                    version |-> 0, starts |-> now, ends |-> now + d, deadline |-> 0, revision |-> 1],
                Smaller(now + d, now + LeaseTTL), "api")
    /\ UNCHANGED <<now, presence, session, connections, healthy, up, store>>

\* A client repeats grant() or renew() with the same idempotency key: the stored
\* result is found and a record that is still pending is offered again.
Retry(r) ==
    /\ \/ record[r].state = "RENEWING"
       \/ record[r].state = "ACTIVATING" /\ record[r].granted
    /\ Synchronize(r, record[r], LeaseOf(r), HistoryMatches(r), "api")
    /\ UNCHANGED <<now, history, presence, session, connections, healthy, up, store>>

Schedule(r, b, starts, d) ==
    /\ record[r].state = "NONE"
    /\ now < starts /\ starts + d < MaxTime
    /\ ~Overlaps(CurrentStates \cup {"SCHEDULED"}, b, starts, starts + d)
    /\ Put(r, [state |-> "SCHEDULED", granted |-> FALSE, bench |-> b, version |-> 0,
               starts |-> starts, ends |-> starts + d, deadline |-> 0, revision |-> 0])
    /\ UNCHANGED <<now, history, waits, monitor, presence, session, link, connections,
                   healthy, down, up, store>>

CancelScheduled(r) ==
    /\ record[r].state = "SCHEDULED"
    /\ Put(r, [record[r] EXCEPT !.state = "CANCELLED"])
    /\ UNCHANGED <<now, history, waits, monitor, presence, session, link, connections,
                   healthy, down, up, store>>

\* renew(): a new version replaces the current one in history, then the offer.
Renew(r) ==
    LET b == record[r].bench
        v == record[r].version
        until == Smaller(record[r].ends, now + LeaseTTL)
    IN /\ record[r].state = "ACTIVE"
       /\ now < record[r].ends
       /\ Eligible(b)
       /\ HistoryMatches(r)
       /\ v = Len(history[b]) /\ v < MaxVersion
       /\ history' = [ReleaseRow(history, b, v) EXCEPT
                        ![b] = Append(@, [res |-> r, until |-> until, released |-> FALSE])]
       /\ Synchronize(r, [Advance(record[r], "RENEWING") EXCEPT !.version = v + 1],
                      [res |-> r, bench |-> b, version |-> v + 1, until |-> until], TRUE, "api")
       /\ UNCHANGED <<now, presence, session, connections, healthy, up, store>>

\* release() (RELEASED) and revoke() (REVOKED): the central fence is committed
\* first, then the Agent is notified if it is connected.
Release(r, s) ==
    /\ Current(r)
    /\ HistoryMatches(r)
    /\ Put(r, Advance(record[r], s))
    /\ history' = ReleaseRow(history, record[r].bench, record[r].version)
    /\ Post(<<[type |-> "released", lease |-> LeaseOf(r)]>>)
    /\ UNCHANGED <<now, waits, monitor, presence, session, connections, healthy, up, store>>

-----------------------------------------------------------------------------
(* Resumption of suspended handlers. *)

\* The record is still the one the suspended handler read.
Unchanged(w) == record[w.res].revision = w.revision

\* Faulty variant: the update is keyed by the lease version alone.
ReplaceableVersion(w) == record[w.res].version = w.version

\* replace_if_current(): compare-and-set on the revision, then the history check.
Replaceable(w) == Unchanged(w) /\ HistoryMatches(w.res)

SameKey(w, u) == w.res = u.res /\ w.version = u.version

\* An exception in the monitor's handler ends the iteration.
Abandoned(w) == IF w.who = "monitor" THEN "idle" ELSE monitor

\* The confirmation arrived: compare-and-set on the revision read before the
\* await, with the route predicates inside the transaction.
Conclude(w) ==
    LET r == w.res
    IN /\ w.confirmed
       /\ waits' = waits \ {w}
       /\ record' = IF Replaceable(w)
                      THEN [record EXCEPT ![r] = IF Eligible(record[r].bench)
                                                   THEN Advance(record[r], "ACTIVE")
                                                   ELSE Interrupted(record[r])]
                      ELSE record
       /\ monitor' = IF Unchanged(w) /\ ~HistoryMatches(r) THEN Abandoned(w) ELSE monitor
       /\ UNCHANGED <<now, history, presence, session, link, connections, healthy, down,
                      up, store>>

\* A confirmation for this wait may still arrive over the present session.
InFlight(w) ==
    /\ link /\ session
    /\ \/ \E i \in 1..Len(down) : /\ down[i].type = "activated"
                                  /\ down[i].lease.res = w.res
                                  /\ down[i].lease.version = w.version
       \/ \E i \in 1..Len(up) : /\ up[i].type = "applied"
                                /\ up[i].lease.res = w.res
                                /\ up[i].lease.version = w.version

\* The confirmation window elapses for one waiter: it drops and cancels the
\* shared future.  Every other waiter on that future is thrown CancelledError,
\* which no `except Exception' catches: a request fails, the monitor task ends.
TimeOut(w) ==
    LET r == w.res
        others == {u \in waits \ {w} : SameKey(u, w) /\ ~u.confirmed}
    IN /\ ~w.confirmed
       /\ SlowAgent \/ ~InFlight(w)
       /\ waits' = waits \ ({w} \cup others)
       /\ record' = IF Replaceable(w)
                      THEN [record EXCEPT ![r] = Interrupted(record[r])]
                      ELSE record
       /\ monitor' = IF \E u \in others : u.who = "monitor" THEN "dead"
                     ELSE IF Unchanged(w) /\ ~HistoryMatches(r) THEN Abandoned(w) ELSE monitor
       /\ UNCHANGED <<now, history, presence, session, link, connections, healthy, down,
                      up, store>>

-----------------------------------------------------------------------------
(* The monitor: monitor_once() every interval. *)

MonitorWaits == \E w \in waits : w.who = "monitor"

\* Faulty variant: interrupted records are left to reconciliation.
DueUnlessUnknown(r) ==
    /\ Current(r) /\ record[r].state # "UNKNOWN"
    /\ record[r].ends <= now \/ RowOf(r).until + Skew < now

DueToExpire(r) ==
    /\ Current(r)
    /\ \/ record[r].ends <= now
       \/ record[r].state # "UNKNOWN" /\ RowOf(r).until + Skew < now
       \/ record[r].state = "UNKNOWN" /\ record[r].deadline <= now

\* expire_due(): visits due records one by one; one whose history row was already
\* released raises out of monitor_once, so nothing after it runs.
MonitorExpire ==
    LET due  == {r \in Reservation : DueToExpire(r)}
        good == {r \in due : HistoryMatches(r)}
    IN /\ monitor = "idle"
       /\ \E done \in SUBSET good :
            /\ good = due => done = due
            /\ record' = [r \in Reservation |->
                            IF r \in done THEN Advance(record[r], "EXPIRED") ELSE record[r]]
            /\ history' = [b \in Bench |-> [v \in DOMAIN history[b] |->
                             IF \E r \in done : record[r].bench = b /\ record[r].version = v
                               THEN [history[b][v] EXCEPT !.released = TRUE]
                               ELSE history[b][v]]]
            /\ Notify({LeaseOf(r) : r \in done})
       /\ monitor' = IF good = due THEN "activating" ELSE "idle"
       /\ UNCHANGED <<now, waits, presence, session, connections, healthy, up, store>>

\* Faulty variant: reachability is checked before the end of the reservation.
LapsedWhileConnected(r) ==
    record[r].state = "SCHEDULED" /\ record[r].ends <= now /\ session

\* A scheduled reservation whose whole interval passed without an activation.
Lapsed(r) == record[r].state = "SCHEDULED" /\ record[r].ends <= now

\* process_due_scheduled(), one due reservation.
MonitorActivate(r) ==
    /\ monitor = "activating" /\ ~MonitorWaits
    /\ record[r].starts <= now
    /\ \/ /\ record[r].state = "ACTIVATING" /\ session
          /\ Synchronize(r, record[r], LeaseOf(r), HistoryMatches(r), "monitor")
          /\ UNCHANGED history
       \/ /\ Lapsed(r)
          /\ Put(r, [record[r] EXCEPT !.state = "EXPIRED"])
          /\ UNCHANGED <<history, waits, down, link, monitor>>
       \/ /\ record[r].state = "SCHEDULED" /\ now < record[r].ends
          /\ session /\ Eligible(record[r].bench) /\ FreeBench(record[r].bench)
          /\ Activate(r, [record[r] EXCEPT !.state = "ACTIVATING", !.revision = 1],
                      Smaller(record[r].ends, now + LeaseTTL), "monitor")
    /\ UNCHANGED <<now, presence, session, connections, healthy, up, store>>

\* The rest of the iteration touches no lease; the next one starts idle.
MonitorFinish ==
    /\ monitor = "activating" /\ ~MonitorWaits
    /\ monitor' = "idle"
    /\ UNCHANGED <<now, record, history, waits, presence, session, link, connections,
                   healthy, down, up, store>>

\* check_timeouts(): no heartbeat for offline_timeout_seconds.
MonitorOffline ==
    /\ monitor = "idle" /\ presence /\ ~link
    /\ presence' = FALSE
    /\ MarkDisconnected
    /\ UNCHANGED <<now, history, waits, monitor, session, link, connections, healthy,
                   down, up, store>>

-----------------------------------------------------------------------------
(* Connections. *)

\* The Agent dials again.  A connection that is still open is superseded, which
\* marks nothing UNKNOWN.  Messages the Agent had already written are lost.
Connect ==
    /\ ~link /\ connections < MaxConnections
    /\ connections' = connections + 1
    /\ link' = TRUE /\ session' = TRUE /\ presence' = TRUE
    /\ down' = <<[type |-> "reconcile"]>>
    /\ \E k \in 0..Len(up) : up' = SubSeq(up, k + 1, Len(up))
    /\ UNCHANGED <<now, record, history, waits, monitor, healthy, store>>

LinkLoss ==
    /\ link /\ connections < MaxConnections
    /\ link' = FALSE
    /\ UNCHANGED <<now, record, history, waits, monitor, presence, session, connections,
                   healthy, down, up, store>>

\* AgentGateway.serve() ends: detach, disconnect presence, mark_agent_unknown
\* (its exceptions are suppressed).
SessionEnds ==
    /\ session /\ ~link
    /\ session' = FALSE
    /\ presence' = FALSE
    /\ IF presence THEN MarkDisconnected ELSE UNCHANGED record
    /\ UNCHANGED <<now, history, waits, monitor, link, connections, healthy, down, up, store>>

\* The control-plane process restarts: suspended handlers, the hub and the
\* monitor are gone; the database, with its open connection row, is not.
ControlPlaneRestart ==
    /\ connections < MaxConnections
    /\ session' = FALSE /\ link' = FALSE
    /\ waits' = {}
    /\ monitor' = "idle"
    /\ UNCHANGED <<now, record, history, presence, connections, healthy, down, up, store>>

\* The Agent process restarts: its outbox is in memory, its lease store is not.
AgentRestart ==
    /\ connections < MaxConnections
    /\ link' = FALSE
    /\ up' = <<>>
    /\ UNCHANGED <<now, record, history, waits, monitor, presence, session, connections,
                   healthy, down, store>>

HealthChange(b) ==
    /\ b \in Fragile
    /\ healthy' = [healthy EXCEPT ![b] = ~@]
    /\ UNCHANGED <<now, record, history, waits, monitor, presence, session, link,
                   connections, down, up, store>>

Tick ==
    /\ now < MaxTime
    /\ now' = now + 1
    /\ UNCHANGED <<record, history, waits, monitor, presence, session, link, connections,
                   healthy, down, up, store>>

-----------------------------------------------------------------------------
(* The Agent: AgentConnectionManager._dispatch and the lease store. *)

\* Faulty variant: an equal version may replace its own tombstone.
ApplyAllowedRevives(old, l) ==
    \/ l.version > old.version
    \/ l.version = old.version /\ l.res = old.res

\* resolve_lease_version(): FALSE is a raised error, which drops the connection.
ApplyAllowed(old, l) ==
    \/ l.version > old.version
    \/ l.version = old.version /\ l.res = old.res /\ ~old.released

ReleaseAllowed(old, l) ==
    \/ l.version > old.version
    \/ l.version = old.version /\ l.res = old.res

AsStored(l, released) ==
    [res |-> l.res, version |-> l.version, until |-> l.until, released |-> released]

\* apply() then the confirmation; a full outbox raises after the lease was stored.
AgentApplies ==
    LET l == Head(down).lease
    IN /\ link /\ down # <<>> /\ Head(down).type = "activated"
       /\ down' = Tail(down)
       /\ IF AgentNow <= l.until + Skew /\ ApplyAllowed(store[l.bench], l)
            THEN /\ store' = [store EXCEPT ![l.bench] = AsStored(l, FALSE)]
                 /\ IF Len(up) < MaxQueue
                      THEN up' = Append(up, [type |-> "applied", lease |-> l]) /\ UNCHANGED link
                      ELSE link' = FALSE /\ UNCHANGED up
            ELSE link' = FALSE /\ UNCHANGED <<store, up>>
       /\ UNCHANGED <<now, record, history, waits, monitor, presence, session, connections,
                      healthy>>

AgentReleases ==
    LET l == Head(down).lease
    IN /\ link /\ down # <<>> /\ Head(down).type = "released"
       /\ down' = Tail(down)
       /\ IF ReleaseAllowed(store[l.bench], l)
            THEN store' = [store EXCEPT ![l.bench] = AsStored(l, TRUE)] /\ UNCHANGED link
            ELSE link' = FALSE /\ UNCHANGED store
       /\ UNCHANGED <<now, record, history, waits, monitor, presence, session, connections,
                      healthy, up>>

HeldLeases == {[res |-> store[b].res, bench |-> b, version |-> store[b].version,
                until |-> store[b].until] :
                 b \in {c \in Bench : store[c].version > 0 /\ ~store[c].released}}

\* AgentReconciliationReportBuilder.build(): the active local leases.
AgentReports ==
    /\ link /\ down # <<>> /\ Head(down).type = "reconcile"
    /\ down' = Tail(down)
    /\ IF Len(up) < MaxQueue
         THEN up' = Append(up, [type |-> "report", leases |-> HeldLeases]) /\ UNCHANGED link
         ELSE link' = FALSE /\ UNCHANGED up
    /\ UNCHANGED <<now, record, history, waits, monitor, presence, session, connections,
                   healthy, store>>

-----------------------------------------------------------------------------
(* The control plane receives from the Agent. *)

\* Faulty variant: the receipt is matched by reservation alone.
ConfirmsReservation(l, w) == w.res = l.res

\* The receipt's key: one future per reservation and lease version.
Confirms(l, w) == w.res = l.res /\ w.version = l.version

\* confirm(): resolves the shared future, if any waiter still holds it.
Confirm ==
    LET l == Head(up).lease
    IN /\ link /\ session /\ up # <<>> /\ Head(up).type = "applied"
       /\ up' = Tail(up)
       /\ waits' = {IF Confirms(l, w)
                      THEN [w EXCEPT !.confirmed = TRUE] ELSE w : w \in waits}
       /\ UNCHANGED <<now, record, history, monitor, presence, session, link, connections,
                      healthy, down, store>>

\* _reconcile_leases(): a row of history that is current for the Agent.
Authoritative(b, v) == v \in DOMAIN history[b] /\ ~history[b][v].released

StaleLocal(l) ==
    \/ ~Authoritative(l.bench, l.version)
    \/ history[l.bench][l.version].res # l.res
    \/ history[l.bench][l.version].until < now
    \/ l.until < now

\* A local lease that the interrupted record still names is restored.
Restorable(l) ==
    /\ ~StaleLocal(l)
    /\ record[l.res].state = "UNKNOWN"
    /\ record[l.res].bench = l.bench /\ record[l.res].version = l.version

\* CoordinatedReconciliationHandler.reconcile(): overdue history rows are released
\* (the coordination record is not touched), stale local leases are fenced, and
\* matching interrupted leases become ACTIVE; an ineligible bench raises, which
\* closes the connection and leaves the rest of the report unapplied.
Reconcile ==
    LET leases == Head(up).leases
        stale  == {l \in leases : StaleLocal(l)}
        back   == {l \in leases : Restorable(l)}
        good   == {l \in back : Eligible(l.bench)}
    IN /\ link /\ session /\ up # <<>> /\ Head(up).type = "report"
       /\ up' = Tail(up)
       /\ IF ~presence
            THEN /\ link' = FALSE
                 /\ UNCHANGED <<record, history, down>>
            ELSE /\ history' = [b \in Bench |-> [v \in DOMAIN history[b] |->
                                  [history[b][v] EXCEPT
                                     !.released = @ \/ history[b][v].until < now]]]
                 /\ \E done \in SUBSET good, fenced \in SUBSET stale :
                      /\ good = back => done = back /\ fenced = stale
                      /\ record' = [r \in Reservation |->
                                      IF \E l \in done : l.res = r
                                        THEN Advance(record[r], "ACTIVE") ELSE record[r]]
                      /\ IF good # back
                           THEN link' = FALSE /\ UNCHANGED down
                           ELSE Notify(fenced)
       /\ UNCHANGED <<now, waits, monitor, presence, session, connections, healthy, store>>

-----------------------------------------------------------------------------

\* A freshly enrolled Agent that has not connected yet.
Init ==
    /\ now = 0
    /\ \E b0 \in Bench :
         record = [r \in Reservation |->
                     [state |-> "NONE", granted |-> FALSE, bench |-> b0, version |-> 0,
                      starts |-> 0, ends |-> 0, deadline |-> 0, revision |-> 0]]
    /\ history = [b \in Bench |-> <<>>]
    /\ waits = {}
    /\ monitor = "idle"
    /\ presence = FALSE /\ session = FALSE /\ link = FALSE
    /\ connections = 0
    /\ healthy = [b \in Bench |-> TRUE]
    /\ down = <<>> /\ up = <<>>
    /\ \E r0 \in Reservation :
         store = [b \in Bench |-> [res |-> r0, version |-> 0, until |-> 0, released |-> TRUE]]

Api ==
    \/ \E r \in Reservation, b \in Bench, d \in Durations :
         \/ Grant(r, b, d)
         \/ \E starts \in 1..MaxTime : Schedule(r, b, starts, d)
    \/ \E r \in Reservation :
         \/ Retry(r) \/ CancelScheduled(r) \/ Renew(r)
         \/ \E s \in Endings : Release(r, s)

Resume == \E w \in waits : Conclude(w) \/ TimeOut(w)

Monitor ==
    \/ MonitorExpire \/ MonitorFinish \/ MonitorOffline
    \/ \E r \in Reservation : MonitorActivate(r)

Network ==
    \/ Connect \/ LinkLoss \/ SessionEnds \/ ControlPlaneRestart \/ AgentRestart
    \/ \E b \in Bench : HealthChange(b)

Deliver == AgentApplies \/ AgentReleases \/ AgentReports \/ Confirm \/ Reconcile

Next == Api \/ Resume \/ Monitor \/ Network \/ Deliver \/ Tick

Spec == Init /\ [][Next]_vars

MonitorResume == \E w \in waits : w.who = "monitor" /\ (Conclude(w) \/ TimeOut(w))

\* The clock advances, the monitor loop keeps running and visits every due
\* reservation in each iteration, its bounded confirmation wait ends, and a
\* connected transport delivers.  Nothing is assumed of clients, of the network
\* staying up, or of the Agent reconnecting.
Fairness ==
    /\ WF_vars(Tick) /\ WF_vars(Deliver)
    /\ WF_vars(MonitorExpire) /\ WF_vars(MonitorFinish) /\ WF_vars(MonitorResume)
    /\ \A r \in Reservation : SF_vars(MonitorActivate(r))

FairSpec == Spec /\ Fairness

-----------------------------------------------------------------------------
(* Safety. *)

\* Every variable has its type, and neither outgoing queue exceeds the
\* configured outgoing_queue_size.
TypeOK ==
    /\ now \in Nat
    /\ record \in [Reservation -> Record]
    /\ history \in [Bench -> Seq(HistoryRow)]
    /\ waits \subseteq Wait
    /\ monitor \in {"idle", "activating", "dead"}
    /\ presence \in BOOLEAN /\ session \in BOOLEAN /\ link \in BOOLEAN
    /\ connections \in Nat
    /\ healthy \in [Bench -> BOOLEAN]
    /\ down \in Seq(DownMsg) /\ Len(down) <= MaxQueue
    /\ up \in Seq(UpMsg) /\ Len(up) <= MaxQueue
    /\ store \in [Bench -> Stored]

\* A bench never has two current coordination records: pending, active and
\* interrupted ownership all exclude a new grant or activation, through
\* disconnects, restarts and reconciliation.
SingleOwner ==
    \A r, q \in Reservation :
        Current(r) /\ Current(q) /\ record[r].bench = record[q].bench => r = q

\* Calendar: no two scheduled or current reservations of a bench overlap in time,
\* whichever of grant() and schedule() came first.
CalendarDisjoint ==
    LET Booked == {r \in Reservation : Current(r) \/ record[r].state = "SCHEDULED"}
    IN \A r, q \in Booked :
         r # q /\ record[r].bench = record[q].bench
            => record[r].ends <= record[q].starts \/ record[q].ends <= record[r].starts

\* Fencing: while the control plane accepts new work for a reservation (its record
\* is ACTIVE), the Agent's latest lease of that bench is exactly that reservation's
\* version, so the Agent admits no other owner, however late older messages arrive.
Fenced ==
    \A r \in Reservation :
        record[r].state = "ACTIVE"
            => LET s == store[record[r].bench]
               IN s.version = record[r].version /\ s.res = r

\* What a step may never do at the Agent: lower a bench's lease version, rebind a
\* version to another reservation, or reactivate a released version (a tombstone).
AgentNeverRegresses ==
    [][\A b \in Bench :
         LET old == store[b]
             new == store'[b]
         IN \/ new.version > old.version
            \/ new.version = old.version /\ new.res = old.res /\ (old.released => new.released)]_vars

\* A released, revoked, expired or cancelled reservation stays so: no confirmation,
\* timeout, reconnect or monitor pass that started before the end revives it.
NoResurrection ==
    [][\A r \in Reservation :
         record[r].state \in TerminalStates \cup {"CANCELLED"} => record'[r] = record[r]]_vars

\* expire_due() raises, in every iteration, on a due record whose history row was
\* released behind it.
Starved == \E r \in Reservation : Current(r) /\ ~HistoryMatches(r)

-----------------------------------------------------------------------------
(* Liveness. *)

\* No bench is held forever: every current reservation ends, even if the Agent
\* never returns, unless the monitor has died or is starved.
OwnershipEnds ==
    \A r \in Reservation : Current(r) ~> (~Current(r) \/ monitor = "dead" \/ Starved)

\* A scheduled reservation is activated, cancelled or expired in the end, under
\* the same two exceptions.
ScheduleResolved ==
    \A r \in Reservation :
        record[r].state = "SCHEDULED"
            ~> (record[r].state # "SCHEDULED" \/ monitor = "dead" \/ Starved)

-----------------------------------------------------------------------------
(* Claims of the documentation that the code does not keep. *)

\* docs/PHASE_5.md: "interrupted leases expire after their configured grace period,
\* preventing indefinite leaks" (as long as the monitor task is alive).
InterruptedLeasesExpire ==
    \A r \in Reservation :
        record[r].state = "UNKNOWN" ~> (record[r].state # "UNKNOWN" \/ monitor = "dead")

\* The comment in apply_lease(): "``shield`` deliberately prevents one waiter from
\* cancelling a shared confirmation".  The monitor is one of the waiters; it ends
\* only by being cancelled.
MonitorSurvives == monitor # "dead"
=============================================================================

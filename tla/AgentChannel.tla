---------------------------- MODULE AgentChannel ----------------------------
(***************************************************************************)
(* The event channel of one Agent: the durable, bounded event buffer with  *)
(* its eviction, coalescing and overflow marker, the writer that keeps one *)
(* batch in flight, the WebSocket connections it is sent on, the gateway   *)
(* that journals, routes and acknowledges it, and the persistent outbox    *)
(* for other messages.  What an event does once it is routed is the        *)
(* business of RemoteCommands.                                             *)
(*                                                                         *)
(* A transaction of the Agent or of the control plane is one step.  The    *)
(* gateway's handler of one message is three: journaled, routed,           *)
(* acknowledged; its process may die, or the connection be superseded,     *)
(* between any two.                                                        *)
(***************************************************************************)
EXTENDS SideBySide, Integers, Sequences, FiniteSets

CONSTANTS
    Event,        \* events the Agent's components append
    Priority,     \* [Event -> PriorityValues]
    Key,          \* [Event -> coalescing key], read for PROGRESS events only
    Status,       \* other persistent messages (lease confirmations, reports)
    Capacity,     \* event buffer capacity
    BatchLimit,   \* event_batch_size
    OutboxSize,   \* outgoing_queue_size of the Agent
    HubSize,      \* outgoing_queue_size of the control plane
    MaxConn,      \* bound: connections whose handlers exist at once
    MaxWork,      \* bound: events, statuses, pushes and faults of one behaviour
    MaxChannelFaults, \* bound: faults of any kind
    MaxPushes     \* bound: messages pushed into a handshake

\* models/distributed.py: the enumeration's values.
PriorityValues == {10, 50, 80, 100}
PROGRESS == 10
FAILURE  == 80

\* The type of the one event the buffer makes itself, which no component appends.
Marker  == "EVENT_BUFFER_OVERFLOW"

ASSUME ChannelAssumption ==
    /\ IsFiniteSet(Event) /\ Priority \in [Event -> PriorityValues]
    /\ Marker \notin Event /\ DOMAIN Key = Event
    /\ {Capacity, BatchLimit, OutboxSize, HubSize} \subseteq Nat \ {0}
    /\ {MaxConn, MaxWork, MaxChannelFaults, MaxPushes} \subseteq Nat

VARIABLES
    rows,      \* agent_event_buffer: a set, ordered by sequence number
    meta,      \* the buffer's control metadata, committed with every row
    known,     \* outcome of each event ID: NEW, BUFFERED or DROPPED
    flight,    \* _in_flight_event_batch
    lastAck,   \* _last_event_ack
    batches,   \* batch message IDs issued
    outbox,    \* persistent messages waiting for the writer
    issued,    \* statuses sent so far (each is one message ID)
    conn,      \* the Agent's connection, the one it dialled last
    agent,     \* the Agent's end of it: OFF, HELLO or SERVING, and its cursors
    wire,      \* Agent -> control plane messages of each connection
    queue,     \* control plane -> Agent messages of each connection
    hub,       \* the connection the hub and presence hold as current, or 0
    gate,      \* the gateway's handler of each connection
    msgJournal,  \* protocol_message_journal: outcome by message ID
    routed,    \* history: events that reached the router
    handled,   \* history: how often each status was handled
    reported,  \* history: the last overflow total that reached the router
    masked,    \* history: an acknowledgement removed a marker newer than its copy
    channelFaults,
    pushes

channelVars == <<rows, meta, known, flight, lastAck, batches, outbox, issued,
                 conn, agent, wire, queue, hub, gate, msgJournal, routed, handled,
                  reported, masked, channelFaults, pushes>>

-----------------------------------------------------------------------------
(* Data. *)

Conn    == 1..MaxConn
Keys    == {Key[e] : e \in Event}
NoKey   == 0

\* A buffered row; `total' is the payload of the overflow marker.
RowOf(e, seq, total) == [event |-> e, seq |-> seq, total |-> total]

\* The rows up to a sequence number, and the events of some rows.
Through(rs, w) == {row \in rs : row.seq <= w}
EventsOf(rs)   == {row.event : row \in rs}

\* A batch is named by its message ID; `mark' is the sequence number of its last
\* event, which its acknowledgement must name.
NoBatch == [id |-> 0, mark |-> 0, rows |-> {}]
BatchThrough(id, last) == [id |-> id, mark |-> last.seq, rows |-> Through(rows, last.seq)]

PriorityOf(row) == IF row.event = Marker THEN FAILURE ELSE Priority[row.event]

InitialEventState ==
    [next |-> 1, acked |-> 0, peeked |-> 0, dropped |-> [p \in PriorityValues |-> 0],
     coalesced |-> 0, last |-> [k \in Keys |-> NoKey], marker |-> FALSE]

DroppedTotal(d) == d[10] + d[50] + d[80] + d[100]

NoMessage == [kind |-> "NONE"]
IdleGate == [phase |-> "NONE", expect |-> 1, sentTo |-> 0, task |-> "IDLE", msg |-> NoMessage]

-----------------------------------------------------------------------------
(* The event buffer. *)

Produced ==
    Cardinality(issued) + Cardinality({e \in Event : known[e] # "NEW"}) + pushes + channelFaults

Ordinary(rs) == {row \in rs : row.event # Marker}
Markers(rs)  == {row \in rs : row.event = Marker}

\* Coalescing: the previous row of the key is deleted if it is still there.
Coalesced(rs, m, e) ==
    IF Priority[e] = PROGRESS /\ m.last[Key[e]] # NoKey
    THEN LET kept == {row \in rs : row.seq # m.last[Key[e]]}
         IN [rows |-> kept,
             meta |-> [m EXCEPT !.coalesced = IF kept = rs THEN @ ELSE @ + 1,
                                !.last[Key[e]] = NoKey]]
    ELSE [rows |-> rs, meta |-> m]

\* The row of the lowest priority, the oldest of them; the marker is never a
\* candidate.
LowestPriority(rs) ==
    {v \in Ordinary(rs) :
        \A row \in Ordinary(rs) \ {v} :
            \/ PriorityOf(v) < PriorityOf(row)
            \/ PriorityOf(v) = PriorityOf(row) /\ v.seq < row.seq}

\* Mutant: the payload of an existing marker is left alone.
RecordOverflowOnce(rs, m, p) ==
    LET d == [m.dropped EXCEPT ![p] = @ + 1]
    IN IF m.marker
       THEN [rows |-> rs, meta |-> [m EXCEPT !.dropped = d]]
       ELSE [rows |-> rs \cup {RowOf(Marker, m.next, DroppedTotal(d))},
             meta |-> [m EXCEPT !.dropped = d, !.marker = TRUE, !.next = @ + 1]]

\* Counts a drop; the marker is created, or its payload rewritten in place.
RecordOverflow(rs, m, p) ==
    LET d == [m.dropped EXCEPT ![p] = @ + 1]
        t == DroppedTotal(d)
    IN IF m.marker
       THEN [rows |-> Ordinary(rs) \cup {[row EXCEPT !.total = t] : row \in Markers(rs)},
             meta |-> [m EXCEPT !.dropped = d]]
       ELSE [rows |-> rs \cup {RowOf(Marker, m.next, t)},
             meta |-> [m EXCEPT !.dropped = d, !.marker = TRUE, !.next = @ + 1]]

Remember(m, e, seq) ==
    IF Priority[e] = PROGRESS THEN [m EXCEPT !.last[Key[e]] = seq] ELSE m

\* Mutant: a key goes on pointing to a row that is gone.
ForgetNothing(m, gone) == m

Forget(m, gone) == [m EXCEPT !.last = [k \in Keys |-> IF @[k] \in gone THEN NoKey ELSE @[k]]]

\* append(): an event that arrives at a full buffer evicts a row of lower
\* priority or is dropped itself.  Repeating a known event ID changes nothing.
AppendEvent(e) ==
    LET seq  == meta.next
        c    == Coalesced(rows, [meta EXCEPT !.next = @ + 1], e)
        full == Cardinality(Ordinary(c.rows)) >= Capacity
        evicted(v) == RecordOverflow(c.rows \ {v}, Forget(c.meta, {v.seq}), PriorityOf(v))
        refused    == RecordOverflow(c.rows, c.meta, Priority[e])
    IN /\ known[e] = "NEW" /\ Produced < MaxWork
       /\ \/ /\ ~full
             /\ rows' = c.rows \cup {RowOf(e, seq, 0)} /\ meta' = Remember(c.meta, e, seq)
             /\ known' = [known EXCEPT ![e] = "BUFFERED"]
          \/ /\ full
             /\ \E v \in LowestPriority(c.rows) :
                   /\ PriorityOf(v) < Priority[e]
                   /\ rows' = evicted(v).rows \cup {RowOf(e, seq, 0)}
                   /\ meta' = Remember(evicted(v).meta, e, seq)
             /\ known' = [known EXCEPT ![e] = "BUFFERED"]
          \/ /\ full /\ \E v \in LowestPriority(c.rows) : PriorityOf(v) >= Priority[e]
             /\ rows' = refused.rows /\ meta' = refused.meta
             /\ known' = [known EXCEPT ![e] = "DROPPED"]
       /\ UNCHANGED <<flight, lastAck, batches, outbox, issued, conn, agent, wire, queue,
                      hub, gate, msgJournal, routed, handled, reported, masked, channelFaults, pushes>>

\* Mutant: everything peeked goes, also what did not fit in the batch.
AcknowledgePeeked(w) ==
    /\ rows' = rows \ Through(rows, meta.peeked)
    /\ meta' = [Forget(meta, 1..meta.peeked) EXCEPT
                   !.acked = w,
                   !.marker = @ /\ Markers(rows') # {}]

\* acknowledge_through(): the rows up to the watermark go, the marker with them.
AcknowledgeThrough(w) ==
    /\ rows' = rows \ Through(rows, w)
    /\ meta' = [Forget(meta, 1..w) EXCEPT
                   !.acked = w,
                   !.marker = @ /\ Markers(rows') # {}]

-----------------------------------------------------------------------------
(* The Agent's connection manager. *)

OffAgent == [phase |-> "OFF", next |-> 2, expect |-> 1, sent |-> 0]

\* Mutant: the batch counts as sent on the next connection too.
HangUpKeepsSent == /\ agent' = [OffAgent EXCEPT !.sent = agent.sent]
                   /\ queue' = IF conn = 0 THEN queue ELSE [queue EXCEPT ![conn] = <<>>]

\* The Agent closes the connection: ephemeral messages are dropped, the batch in
\* flight and the persistent messages are kept for the next one.
HangUp == /\ agent' = OffAgent
          /\ queue' = IF conn = 0 THEN queue ELSE [queue EXCEPT ![conn] = <<>>]

Send(m) == wire' = IF gate[conn].phase = "CLOSED" THEN wire
                   ELSE [wire EXCEPT ![conn] = Append(@, m)]

\* peek(): the oldest rows, at most BatchLimit of them.
PeekedRows == {row \in rows : Cardinality(Through(rows, row.seq)) <= BatchLimit}

Peek == \E w \in {meta.peeked} \cup {row.seq : row \in PeekedRows} :
            /\ meta.peeked <= w /\ \A row \in PeekedRows : row.seq <= w
            /\ meta' = [meta EXCEPT !.peeked = w]

\* _writer(): the batch in flight is sent once per connection; only when there is
\* none is the buffer peeked.  The transport's size limit may cut it short.
SendBatch ==
    /\ agent.phase = "SERVING"
    /\ \/ /\ flight.id = 0
          /\ \E last \in PeekedRows : flight' = BatchThrough(batches + 1, last)
          /\ Peek /\ batches' = batches + 1
       \/ /\ flight.id # 0 /\ agent.sent # flight.id
          /\ UNCHANGED <<flight, meta, batches>>
    /\ Send([kind |-> "EVENT_BATCH", id |-> flight'.id, seq |-> agent.next,
             mark |-> flight'.mark, rows |-> flight'.rows])
    /\ agent' = [agent EXCEPT !.next = @ + 1, !.sent = flight'.id]
    /\ UNCHANGED <<rows, known, lastAck, outbox, issued, conn, queue, hub, gate, msgJournal,
                   routed, handled, reported, masked, channelFaults, pushes>>

\* send(): a component queues a persistent message; a full queue refuses it.
QueueStatus(s) ==
    /\ s \notin issued /\ Len(outbox) < OutboxSize /\ Produced < MaxWork
    /\ issued' = issued \cup {s} /\ outbox' = Append(outbox, s)
    /\ UNCHANGED <<rows, meta, known, flight, lastAck, batches, conn, agent, wire, queue, hub,
                   gate, msgJournal, routed, handled, reported, masked, channelFaults, pushes>>

\* The head is removed only after the socket took it; a failure in between leaves
\* it to be sent again, under the same message ID, on the next connection.
SendStatus ==
    /\ agent.phase = "SERVING" /\ outbox # <<>>
    /\ Send([kind |-> "STATUS", id |-> Head(outbox), seq |-> agent.next, mark |-> 0, rows |-> {}])
    /\ \/ /\ outbox' = Tail(outbox)
          /\ agent' = [agent EXCEPT !.next = @ + 1]
          /\ UNCHANGED <<queue, channelFaults>>
       \/ /\ Produced < MaxWork /\ channelFaults < MaxChannelFaults /\ channelFaults' = channelFaults + 1
          /\ HangUp /\ UNCHANGED outbox
    /\ UNCHANGED <<rows, meta, known, flight, lastAck, batches, issued, conn, hub, gate,
                   msgJournal, routed, handled, reported, masked, pushes>>

Consumed == /\ agent' = [agent EXCEPT !.expect = @ + 1, !.phase = "SERVING"]
            /\ queue' = [queue EXCEPT ![conn] = Tail(@)]

\* _acknowledge_event_batch(): the acknowledgement must name the batch in flight
\* and its watermark; a repetition of the last one is ignored.
AckAccepted(m) == m.id = flight.id /\ m.mark = flight.mark
AckRepeated(m) == flight.id = 0 /\ <<m.id, m.mark>> = lastAck

\* acknowledge_through() returns at once below the watermark it already holds.
ReceiveAck(m) ==
    \/ /\ flight.id # 0 /\ AckAccepted(m)
       /\ m.mark > meta.acked /\ m.mark <= meta.peeked
       /\ AcknowledgeThrough(m.mark)
       /\ masked' = (masked \/ \E now \in Markers(Through(rows, m.mark)), sent \in flight.rows :
                        now.seq = sent.seq /\ now.total > sent.total)
       /\ flight' = NoBatch /\ lastAck' = <<m.id, m.mark>>
       /\ Consumed
    \/ /\ AckRepeated(m)
       /\ Consumed
       /\ UNCHANGED <<rows, meta, flight, lastAck, masked>>
    \/ /\ ~AckRepeated(m) /\ (flight.id = 0 \/ ~AckAccepted(m))
       /\ HangUp /\ UNCHANGED <<rows, meta, flight, lastAck, masked>>

\* _receive_welcome() and _reader(): the first message must be WELCOME, and every
\* message carry the next sequence number; anything else ends the connection.
AgentReceive ==
    /\ agent.phase # "OFF" /\ queue[conn] # <<>>
    /\ LET m == Head(queue[conn])
           inOrder == m.seq = agent.expect /\ (agent.phase = "HELLO") = (m.kind = "WELCOME")
       IN \/ /\ ~inOrder /\ HangUp
             /\ UNCHANGED <<rows, meta, flight, lastAck, masked>>
          \/ /\ inOrder /\ m.kind \in {"WELCOME", "PUSH"} /\ Consumed
             /\ UNCHANGED <<rows, meta, flight, lastAck, masked>>
          \/ inOrder /\ m.kind = "EVENT_ACK" /\ ReceiveAck(m)
    /\ UNCHANGED <<known, batches, outbox, issued, conn, wire, hub, gate, msgJournal, routed,
                   handled, reported, channelFaults, pushes>>

-----------------------------------------------------------------------------
(* The gateway and the hub. *)

\* AgentConnectionHub.send(): needs a session; a full queue closes it.  The
\* sequence number is taken first.  What is sent to a peer that has gone is lost.
Enqueued(c, kind, id, mark) ==
    IF c # conn \/ agent.phase = "OFF" THEN queue
    ELSE [queue EXCEPT ![c] = Append(@, [kind |-> kind, id |-> id, mark |-> mark,
                                    seq |-> gate[c].sentTo + 1])]

CloseGate(c) == /\ gate' = [gate EXCEPT ![c] = [IdleGate EXCEPT !.phase = "CLOSED"]]
                /\ wire' = [wire EXCEPT ![c] = <<>>]
Detach(c)    == hub' = IF hub = c THEN 0 ELSE hub

\* WELCOME and the reconciliation request that follows it.
Greeting == <<[kind |-> "WELCOME", id |-> 0, mark |-> 0, seq |-> 1],
              [kind |-> "PUSH", id |-> 0, mark |-> 0, seq |-> 2]>>

\* An identity for the next connection: one whose handler has ended.
Free == {c \in Conn \ {conn} : gate[c].phase \in {"NONE", "CLOSED"}}

\* serve() up to attach(): the new connection is current at once.  Without a
\* predecessor nothing is awaited before WELCOME and the reconciliation request
\* are queued; otherwise the old socket is closed first, and others may already
\* send on the new session.
Dial ==
    /\ agent.phase = "OFF" /\ Free # {}
    /\ LET c == CHOOSE c \in Free : \A d \in Free : c <= d
       IN /\ conn' = c /\ hub' = c
          /\ wire' = [wire EXCEPT ![c] = <<>>]
          /\ IF hub = 0
             THEN /\ gate' = [gate EXCEPT ![c] = [IdleGate EXCEPT !.phase = "RUNNING",
                                                               !.expect = 2, !.sentTo = 2]]
                  /\ queue' = [queue EXCEPT ![c] = Greeting]
             ELSE /\ gate' = [gate EXCEPT ![c] = [IdleGate EXCEPT !.phase = "ATTACHED",
                                                               !.expect = 2]]
                  /\ queue' = [queue EXCEPT ![c] = <<>>]
    /\ agent' = [agent EXCEPT !.phase = "HELLO"]
    /\ UNCHANGED <<rows, meta, known, flight, lastAck, batches, outbox, issued, msgJournal,
                   routed, handled, reported, masked, channelFaults, pushes>>

\* serve() after attach(): WELCOME is queued, sent directly and taken off the
\* queue again.  If another message got in first, the Agent sees a WELCOME out of
\* order and the gateway raises.  If the connection was itself superseded while the
\* old socket was closing, its WELCOME is queued on the newer session.
Welcome(c) ==
    /\ gate[c].phase = "ATTACHED"
    /\ \/ /\ hub = c /\ queue[c] = <<>>
          /\ gate' = [gate EXCEPT ![c] = [@ EXCEPT !.phase = "RUNNING", !.sentTo = 2]]
          /\ queue' = [queue EXCEPT ![c] = Greeting]
          /\ UNCHANGED <<hub, wire>>
       \/ /\ hub = c /\ queue[c] # <<>>
          /\ queue' = [queue EXCEPT ![c] = <<[kind |-> "WELCOME", id |-> 0, mark |-> 0,
                                              seq |-> gate[c].sentTo + 1]>>]
          /\ CloseGate(c) /\ Detach(c)
       \/ /\ hub # c /\ hub # 0
          /\ queue' = Enqueued(hub, "WELCOME", 0, 0)
          /\ gate' = [gate EXCEPT ![c] = [IdleGate EXCEPT !.phase = "CLOSED"], ![hub].sentTo = @ + 1]
          /\ UNCHANGED <<hub, wire>>
       \/ hub = 0 /\ CloseGate(c) /\ UNCHANGED <<queue, hub>>
    /\ UNCHANGED <<rows, meta, known, flight, lastAck, batches, outbox, issued, conn, agent,
                   msgJournal, routed, handled, reported, masked, channelFaults, pushes>>

\* Another component sends a command, a lease or a request to the Agent between
\* attach() and WELCOME; later it is received like the reconciliation request.
Push ==
    /\ Produced < MaxWork /\ pushes < MaxPushes /\ pushes' = pushes + 1
    /\ hub # 0 /\ gate[hub] = [IdleGate EXCEPT !.phase = "ATTACHED", !.expect = 2]
    /\ queue' = Enqueued(hub, "PUSH", 0, 0)
    /\ gate' = [gate EXCEPT ![hub].sentTo = @ + 1]
    /\ UNCHANGED <<rows, meta, known, flight, lastAck, batches, outbox, issued, conn, agent, wire,
                   hub, msgJournal, routed, handled, reported, masked, channelFaults>>

\* Mutant: the journal is not consulted.
IsNewAlways(m) == m.kind = "STATUS"

\* _reader(): the tracker, then the durable journal.  A message whose ID is
\* already there is skipped, unless it is a batch.
InOrder(c, m) == m.seq = gate[c].expect
IsNew(m)      == m.kind = "STATUS" /\ msgJournal[m.id] = "NONE"
Handles(m)    == m.kind = "EVENT_BATCH" \/ IsNew(m)

Receive(c) ==
    /\ gate[c].phase = "RUNNING" /\ gate[c].task = "IDLE" /\ wire[c] # <<>>
    /\ LET m == Head(wire[c])
       IN \/ /\ ~InOrder(c, m)
             /\ CloseGate(c) /\ Detach(c) /\ UNCHANGED msgJournal
          \/ /\ InOrder(c, m)
             /\ msgJournal' = IF IsNew(m) THEN [msgJournal EXCEPT ![m.id] = "RECEIVED"]
                             ELSE msgJournal
             /\ gate' = [gate EXCEPT ![c].expect = @ + 1,
                                     ![c].task = IF Handles(m) THEN "RECEIVED" ELSE @,
                                     ![c].msg = IF Handles(m) THEN m ELSE @]
             /\ wire' = [wire EXCEPT ![c] = Tail(@)]
             /\ UNCHANGED hub
    /\ UNCHANGED <<rows, meta, known, flight, lastAck, batches, outbox, issued, conn, agent, queue,
                   routed, handled, reported, masked, channelFaults, pushes>>

\* mark_handled(): the first final outcome stays.  A batch is routed whatever its
\* row says, so the rows of batches are not kept here.
Finalize(m, outcome) ==
    msgJournal' = IF m.kind = "STATUS" /\ msgJournal[m.id] = "RECEIVED"
                  THEN [msgJournal EXCEPT ![m.id] = outcome] ELSE msgJournal

\* What of a batch reaches the domain services.
Delivered(done) ==
    /\ routed' = routed \cup EventsOf(done)
    /\ reported' = IF Markers(done) = {} THEN reported
                   ELSE (CHOOSE row \in Markers(done) : TRUE).total

\* _router.handle(): fenced by presence, then routed event by event; one that
\* raises leaves the earlier ones routed, rejects the message and ends the
\* connection.
RouteMessage(c) ==
    /\ gate[c].task = "RECEIVED"
    /\ LET m == gate[c].msg
       IN \/ /\ hub = c
             /\ Delivered(m.rows) /\ Finalize(m, "HANDLED")
             /\ handled' = IF m.kind = "STATUS" THEN [handled EXCEPT ![m.id] = @ + 1]
                           ELSE handled
             /\ gate' = [gate EXCEPT ![c] = IF m.kind = "EVENT_BATCH"
                                            THEN [@ EXCEPT !.task = "ROUTED"]
                                            ELSE [@ EXCEPT !.task = "IDLE", !.msg = NoMessage]]
             /\ UNCHANGED <<hub, wire, channelFaults>>
          \/ /\ hub = c /\ Produced < MaxWork /\ channelFaults < MaxChannelFaults
             /\ channelFaults' = channelFaults + 1
             /\ \E w \in {0} \cup {row.seq : row \in m.rows} :
                   /\ m.kind = "EVENT_BATCH" => w < m.mark
                   /\ Delivered(Through(m.rows, w))
             /\ Finalize(m, "REJECTED") /\ CloseGate(c) /\ Detach(c) /\ UNCHANGED handled
          \/ /\ hub # c
             /\ Finalize(m, "REJECTED") /\ CloseGate(c)
             /\ UNCHANGED <<hub, routed, reported, handled, channelFaults>>
    /\ UNCHANGED <<rows, meta, known, flight, lastAck, batches, outbox, issued, conn, agent,
                   queue, masked, pushes>>

\* Mutant: the Agent's session, whichever connection it is on by now.
AckSessionCurrent(c) == hub

\* The session an acknowledgement goes to: the one that received the batch, and
\* only while it is current (expected_connection_id).
AckSession(c) == IF hub = c THEN c ELSE 0

AcknowledgeBatch(c) ==
    /\ gate[c].task = "ROUTED"
    /\ LET m == gate[c].msg
           s == AckSession(c)
       IN IF s # 0 /\ Len(queue[s]) < HubSize
          THEN /\ queue' = Enqueued(s, "EVENT_ACK", m.id, m.mark)
               /\ gate' = [gate EXCEPT ![c].task = "IDLE", ![c].msg = NoMessage,
                                       ![s].sentTo = @ + 1]
               /\ UNCHANGED <<hub, wire>>
          ELSE CloseGate(c) /\ Detach(c) /\ UNCHANGED queue
    /\ UNCHANGED <<rows, meta, known, flight, lastAck, batches, outbox, issued, conn, agent,
                   msgJournal, routed, handled, reported, masked, channelFaults, pushes>>

-----------------------------------------------------------------------------
(* Faults, and how the two ends notice them. *)

Fault == Produced < MaxWork /\ channelFaults < MaxChannelFaults /\ channelFaults' = channelFaults + 1

\* The Agent sees the connection fail, or its acknowledgement timeout pass, or
\* the handshake time out; the control plane does not know yet.
AgentLosesLink ==
    /\ agent.phase # "OFF" /\ Fault /\ HangUp
    /\ UNCHANGED <<rows, meta, known, flight, lastAck, batches, outbox, issued, conn, wire,
                   hub, gate, msgJournal, routed, handled, reported, masked, pushes>>

\* The Agent notices that the control plane closed the connection.
AgentSeesClose ==
    /\ agent.phase # "OFF" /\ gate[conn].phase = "CLOSED" /\ queue[conn] = <<>>
    /\ HangUp
    /\ UNCHANGED <<rows, meta, known, flight, lastAck, batches, outbox, issued, conn, wire,
                   hub, gate, msgJournal, routed, handled, reported, masked, channelFaults, pushes>>

\* The gateway's handler ends: the peer is gone, or a newer connection replaced it.
ConnectionEnds(c) ==
    /\ gate[c].phase = "RUNNING" /\ gate[c].task = "IDLE"
    /\ hub # c \/ c # conn \/ agent.phase = "OFF"
    /\ CloseGate(c) /\ Detach(c)
    /\ UNCHANGED <<rows, meta, known, flight, lastAck, batches, outbox, issued, conn, agent,
                   queue, msgJournal, routed, handled, reported, masked, channelFaults, pushes>>

AgentProcessRestarts ==
    /\ Fault /\ HangUp
    /\ flight' = NoBatch /\ lastAck' = <<0, 0>> /\ outbox' = <<>>
    /\ UNCHANGED <<rows, meta, known, batches, issued, conn, wire, hub, gate, msgJournal,
                   routed, handled, reported, masked, pushes>>

ControlPlaneCrashes ==
    /\ Fault /\ hub' = 0
    /\ gate' = [c \in Conn |-> IF gate[c].phase = "NONE" THEN gate[c]
                               ELSE [IdleGate EXCEPT !.phase = "CLOSED"]]
    /\ wire' = [c \in Conn |-> <<>>]
    /\ UNCHANGED <<rows, meta, known, flight, lastAck, batches, outbox, issued, conn, agent,
                   queue, msgJournal, routed, handled, reported, masked, pushes>>

-----------------------------------------------------------------------------
ChannelInit ==
    /\ rows = {} /\ meta = InitialEventState /\ known = [e \in Event |-> "NEW"]
    /\ flight = NoBatch /\ lastAck = <<0, 0>> /\ batches = 0
    /\ outbox = <<>> /\ issued = {}
    /\ conn = 0 /\ agent = OffAgent
    /\ wire = [c \in Conn |-> <<>>] /\ queue = [c \in Conn |-> <<>>]
    /\ hub = 0 /\ gate = [c \in Conn |-> IdleGate]
    /\ msgJournal = [s \in Status |-> "NONE"]
    /\ routed = {} /\ handled = [s \in Status |-> 0] /\ reported = 0 /\ masked = FALSE
    /\ channelFaults = 0 /\ pushes = 0

GatewayStep == \E c \in Conn : Welcome(c) \/ Receive(c) \/ RouteMessage(c) \/ AcknowledgeBatch(c)

ChannelNext ==
    \/ \E e \in Event : AppendEvent(e)
    \/ \E s \in Status : QueueStatus(s)
    \/ SendBatch \/ SendStatus \/ AgentReceive \/ Dial \/ Push \/ GatewayStep
    \/ AgentLosesLink \/ AgentSeesClose \/ AgentProcessRestarts \/ ControlPlaneCrashes
    \/ \E c \in Conn : ConnectionEnds(c)

ChannelSpec == ChannelInit /\ [][ChannelNext]_channelVars

ChannelTurn == focus = "channel"

\* The Agent's writer and reader, its redial loop, and the gateway's handler of a
\* connection keep running; faults are bounded, appends owe nothing.
ChannelFairness ==
    /\ WF_channelVars(ChannelTurn /\ SendBatch)
    /\ WF_channelVars(ChannelTurn /\ SendStatus)
    /\ WF_channelVars(ChannelTurn /\ AgentReceive)
    /\ WF_channelVars(ChannelTurn /\ Dial) /\ WF_channelVars(ChannelTurn /\ AgentSeesClose)
    /\ \A c \in Conn :
        /\ WF_channelVars(ChannelTurn /\ Welcome(c)) /\ WF_channelVars(ChannelTurn /\ Receive(c))
        /\ WF_channelVars(ChannelTurn /\ RouteMessage(c))
        /\ WF_channelVars(ChannelTurn /\ AcknowledgeBatch(c))
        /\ WF_channelVars(ChannelTurn /\ ConnectionEnds(c))

-----------------------------------------------------------------------------
(* Properties. *)

EventNames == Event \cup {Marker}
RowSet == [event: EventNames, seq: Nat, total: Nat]

\* The metadata agrees with the rows it was committed with: the marker flag with
\* the marker's row (_record_overflow raises otherwise), each coalescing entry
\* with a row, the watermarks with each other; and no more than Capacity ordinary
\* rows are ever held.
ChannelTypeOK ==
    /\ rows \subseteq RowSet /\ flight.rows \subseteq RowSet
    /\ \A x, y \in rows : x.seq = y.seq \/ x.event = y.event => x = y
    /\ Cardinality(Ordinary(rows)) <= Capacity
    /\ meta.acked <= meta.peeked /\ meta.peeked < meta.next
    /\ meta.marker <=> Markers(rows) # {}
    /\ \A k \in Keys : meta.last[k] # NoKey => \E row \in rows : row.seq = meta.last[k]
    /\ hub \in 0..MaxConn /\ \A c \in Conn : wire[c] \in Seq([kind: {"EVENT_BATCH", "STATUS"},
          id: Nat \cup Status, seq: Nat, mark: Nat, rows: SUBSET RowSet])

Held == EventsOf(rows)

\* Every event that was handed to the buffer is still there, has reached the
\* router, or is counted as dropped or coalesced: no crash, replay, eviction of a
\* row in flight or late acknowledgement makes one vanish silently.
NoSilentLoss ==
    Cardinality({e \in Event : known[e] # "NEW" /\ e \notin Held /\ e \notin routed})
        <= DroppedTotal(meta.dropped) + meta.coalesced

\* An acknowledgement on the Agent's current connection always names the batch in
\* flight, whatever was superseded, replayed or acknowledged before; one that did
\* not would make the Agent drop the connection.
AckFitsFlight ==
    agent.phase # "OFF" =>
        \A i \in DOMAIN queue[conn] : LET m == queue[conn][i]
            IN m.kind = "EVENT_ACK" => flight.id # 0 /\ AckAccepted(m)

\* Once the buffer has drained, the control plane has been sent the final count of
\* dropped events, unless an event was dropped while the marker was in flight.
OverflowReported ==
    rows = {} /\ ~masked => reported = DroppedTotal(meta.dropped)

\* A status message is handled at most once however often it is sent.
StatusHandledOnce == \A s \in Status : handled[s] <= 1

\* Every buffered event has been routed, evicted or coalesced.  It holds again
\* and again, through lost links, restarts, superseded connections and handlers
\* that raise.
EventsDelivered == Held = {}

=============================================================================

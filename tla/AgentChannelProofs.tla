------------------------- MODULE AgentChannelProofs -------------------------
(***************************************************************************)
(* Proofs about AgentChannel, for any events, capacities, batch and queue  *)
(* sizes and any number of connections and faults: nothing is lost         *)
(* silently, the overflow is reported, a status is handled once, and the   *)
(* buffer stays within its capacity.                                       *)
(*                                                                         *)
(* The inductive invariant follows the batch in flight: what the buffer    *)
(* still holds of it, every message that is about it, and that on the      *)
(* current connection it is in one place only, on its way, with the        *)
(* gateway's handler or in its acknowledgement on the way back.            *)
(***************************************************************************)
EXTENDS AgentChannel, SequenceTheorems, FiniteSetTheorems, TLAPS

-----------------------------------------------------------------------------
(* Types. *)

BatchMessage  == [kind : {"EVENT_BATCH"}, id : Nat, seq : Nat, mark : Nat,
                  rows : SUBSET RowSet]
StatusMessage == [kind : {"STATUS"}, id : Status, seq : Nat, mark : {0}, rows : {{}}]
UpMessage     == BatchMessage \cup StatusMessage

DownMessage == [kind : {"WELCOME", "PUSH", "EVENT_ACK"}, id : Nat, mark : Nat, seq : Nat]

Gate == [phase : {"NONE", "ATTACHED", "RUNNING", "CLOSED"}, expect : Nat, sentTo : Nat,
         task : {"IDLE", "RECEIVED", "ROUTED"}, msg : UpMessage \cup {NoMessage}]

Meta == [next : Nat \ {0}, acked : Nat, peeked : Nat, dropped : [PriorityValues -> Nat],
         coalesced : Nat, last : [Keys -> Nat], marker : BOOLEAN]

FlightTypes ==
    /\ flight \in [id : Nat, mark : Nat, rows : SUBSET RowSet]
    /\ batches \in Nat
    /\ flight.id <= batches
    /\ routed \subseteq EventNames

NetTypes ==
    /\ conn \in 0..MaxConn
    /\ hub \in {0, conn}
    /\ agent \in [phase : {"OFF", "HELLO", "SERVING"}, next : Nat, expect : Nat, sent : Nat]
    /\ agent.phase # "OFF" => conn # 0
    /\ agent.phase = "OFF" => agent = OffAgent
    /\ wire \in [Conn -> Seq(UpMessage)]
    /\ queue \in [Conn -> Seq(DownMessage)]
    /\ gate \in [Conn -> Gate]
    /\ \A c \in Conn : /\ gate[c].task # "IDLE" => gate[c].msg \in UpMessage
                       /\ gate[c].task = "ROUTED" => gate[c].msg \in BatchMessage

StatusTypes ==
    /\ outbox \in Seq(Status)
    /\ msgJournal \in [Status -> {"NONE", "RECEIVED", "HANDLED", "REJECTED"}]
    /\ handled \in [Status -> Nat]

-----------------------------------------------------------------------------
(* The invariant. *)

\* Rows and metadata of the buffer agree: sequence numbers are unique, coalescing
\* points to ordinary rows, and the marker counts every drop.
Sound(rs, m) ==
    /\ rs \subseteq RowSet /\ m \in Meta
    /\ \A x, y \in rs : x.seq = y.seq => x = y
    /\ \A x, y \in Markers(rs) : x = y
    /\ \A x \in rs : 0 < x.seq /\ x.seq < m.next
    /\ \A k \in Keys : m.last[k] < m.next
    /\ \A x \in Markers(rs) : \A k \in Keys : m.last[k] # x.seq
    /\ m.marker <=> Markers(rs) # {}
    /\ \A x \in Markers(rs) : x.total = DroppedTotal(m.dropped)

\* What the buffer holds was appended.
BufferInv ==
    /\ Sound(rows, meta)
    /\ known \in [Event -> {"NEW", "BUFFERED", "DROPPED"}]
    /\ \A x \in rows : x.event \in Event => known[x.event] # "NEW"

\* The batch in flight: it has a copy of every row it will remove, the marker's
\* no newer than the row itself.
FlightInv ==
    /\ flight.id = 0 => flight.rows = {}
    /\ flight.mark < meta.next
    /\ \A x, y \in Markers(flight.rows) : x = y
    /\ Markers(flight.rows) # {} => Markers(rows) # {}
    /\ flight.id # 0 => \A x \in rows : x.seq <= flight.mark =>
           \E y \in flight.rows : y.seq = x.seq /\ y.event = x.event /\ y.total <= x.total

\* The message about a batch which the gateway is handling.
Busy(c) == gate[c].task # "IDLE" /\ gate[c].msg.kind = "EVENT_BATCH"

\* A message about the batch in flight carries exactly that batch.
Carries(m, b, f) == /\ m.id \in 1..b
                    /\ m.id = f.id => m.rows = f.rows /\ m.mark = f.mark

\* An acknowledgement of the batch in flight means that all of it was routed.
Covers(m, b, f, done) == /\ m.id \in 1..b
                         /\ m.id = f.id => m.mark = f.mark /\ EventsOf(f.rows) \subseteq done

Messages ==
    \A c \in Conn :
        /\ \A i \in 1..Len(wire[c]) : wire[c][i].kind = "EVENT_BATCH" => Carries(wire[c][i], batches, flight)
        /\ Busy(c) => Carries(gate[c].msg, batches, flight)
        /\ gate[c].task = "ROUTED" => EventsOf(gate[c].msg.rows) \subseteq routed
        /\ \A i \in 1..Len(queue[c]) : queue[c][i].kind = "EVENT_ACK" => Covers(queue[c][i], batches, flight, routed)

BatchAt(i) == i \in 1..Len(wire[conn]) /\ wire[conn][i].kind = "EVENT_BATCH"
AckAt(i)   == i \in 1..Len(queue[conn]) /\ queue[conn][i].kind = "EVENT_ACK"

Underway(id, f, sent) == f.id # 0 /\ id = f.id /\ sent = f.id

\* On the current connection the batch in flight is in one place.
OnePlace ==
    agent.phase # "OFF" =>
        /\ \A i \in Nat : BatchAt(i) => /\ Underway(wire[conn][i].id, flight, agent.sent)
                                        /\ ~Busy(conn)
                                        /\ \A j \in Nat : BatchAt(j) => i = j
                                        /\ \A j \in Nat : ~AckAt(j)
        /\ Busy(conn) => Underway(gate[conn].msg.id, flight, agent.sent) /\ \A j \in Nat : ~AckAt(j)
        /\ \A i \in Nat : AckAt(i) => /\ Underway(queue[conn][i].id, flight, agent.sent)
                                      /\ \A j \in Nat : AckAt(j) => i = j

\* The totals.  When no marker is left the last report is exact; while the batch
\* in flight has one, its acknowledgement comes after the report of that total;
\* and what may still be routed has no marker unless the buffer has.
Reports ==
    /\ masked \in BOOLEAN /\ reported \in Nat
    /\ Markers(rows) = {} /\ ~masked => reported = DroppedTotal(meta.dropped)
    /\ agent.phase # "OFF" /\ (gate[conn].task = "ROUTED" \/ \E i \in Nat : AckAt(i)) =>
           \A x \in Markers(flight.rows) : reported = x.total
    /\ hub # 0 /\ Markers(rows) = {} =>
           /\ \A i \in 1..Len(wire[hub]) : Markers(wire[hub][i].rows) = {}
           /\ gate[hub].task = "RECEIVED" => Markers(gate[hub].msg.rows) = {}

\* A status that is being handled is in the journal, is handled by one handler,
\* and once it was handled the journal says so.
Handling(c) == gate[c].task = "RECEIVED" /\ gate[c].msg.kind = "STATUS"

Statuses ==
    /\ \A c \in Conn : Handling(c) => msgJournal[gate[c].msg.id] = "RECEIVED"
    /\ \A c, d \in Conn : Handling(c) /\ Handling(d) /\ gate[c].msg.id = gate[d].msg.id => c = d
    /\ \A s \in Status : handled[s] = 0 \/ (handled[s] = 1 /\ msgJournal[s] = "HANDLED")

ChannelInv ==
    /\ FlightTypes /\ NetTypes /\ StatusTypes
    /\ BufferInv /\ FlightInv /\ Messages /\ OnePlace /\ Reports /\ Statuses
    /\ NoSilentLoss

-----------------------------------------------------------------------------
(* The operators of the buffer. *)

LEMMA DroppedUp ==
    ASSUME NEW d \in [PriorityValues -> Nat], NEW p \in PriorityValues
    PROVE  /\ DroppedTotal(d) \in Nat
           /\ [d EXCEPT ![p] = @ + 1] \in [PriorityValues -> Nat]
           /\ DroppedTotal([d EXCEPT ![p] = @ + 1]) = DroppedTotal(d) + 1
<1>1. d[10] \in Nat /\ d[50] \in Nat /\ d[80] \in Nat /\ d[100] \in Nat
  BY DEF PriorityValues
<1>2. p = 10 \/ p = 50 \/ p = 80 \/ p = 100
  BY DEF PriorityValues
<1> QED  BY <1>1, <1>2 DEF DroppedTotal, PriorityValues

LEMMA PrioritiesAre ==
    /\ \A e \in Event : Priority[e] \in PriorityValues
    /\ \A row : row.event \in EventNames => PriorityOf(row) \in PriorityValues
    /\ Marker \notin Event
  BY ChannelAssumption DEF PriorityOf, EventNames, FAILURE, PriorityValues

\* Rows that go, with or without the pointers to them.
LEMMA FewerRowsSound ==
    ASSUME NEW rs, NEW m, Sound(rs, m), NEW x \in rs, x.event # Marker, NEW n,
           n \in Meta, n.next = m.next, n.dropped = m.dropped, n.marker = m.marker,
           \A k \in Keys : n.last[k] = m.last[k] \/ n.last[k] = NoKey
    PROVE  Sound(rs \ {x}, n) /\ Markers(rs \ {x}) = Markers(rs)
<1>1. Markers(rs \ {x}) = Markers(rs)
  BY DEF Markers
<1>2. \A k \in Keys : n.last[k] < n.next
  BY DEF Sound, Meta, NoKey
<1>3. \A y \in Markers(rs) : \A k \in Keys : n.last[k] # y.seq
  BY DEF Sound, NoKey, Markers, RowSet
<1> QED  BY <1>1, <1>2, <1>3 DEF Sound

\* Pointers that go.
LEMMA FewerPointersSound ==
    ASSUME NEW rs, NEW m, Sound(rs, m), NEW n,
           n \in Meta, n.next = m.next, n.dropped = m.dropped, n.marker = m.marker,
           \A k \in Keys : n.last[k] = m.last[k] \/ n.last[k] = NoKey
    PROVE  Sound(rs, n)
<1>1. \A k \in Keys : n.last[k] < n.next
  BY DEF Sound, Meta, NoKey
<1>2. \A y \in Markers(rs) : \A k \in Keys : n.last[k] # y.seq
  BY DEF Sound, NoKey, Markers, RowSet
<1> QED  BY <1>1, <1>2 DEF Sound

\* The part of an append that coalesces.
LEMMA CoalescedSound ==
    ASSUME NEW rs, NEW m, Sound(rs, m), NEW e \in Event, NEW c, c = Coalesced(rs, m, e)
    PROVE  /\ Sound(c.rows, c.meta) /\ Markers(c.rows) = Markers(rs)
           /\ c.meta.next = m.next /\ c.meta.dropped = m.dropped
           /\ \/ c.rows = rs /\ c.meta.coalesced = m.coalesced
              \/ \E x \in rs : c.rows = rs \ {x} /\ c.meta.coalesced = m.coalesced + 1
           /\ c.rows \subseteq rs
<1> DEFINE key == Key[e]
           kept == {row \in rs : row.seq # m.last[key]}
           n == [m EXCEPT !.coalesced = IF kept = rs THEN @ ELSE @ + 1, !.last[key] = NoKey]
<1>1. key \in Keys
  BY DEF Keys
<1>2. n \in Meta /\ n.next = m.next /\ n.dropped = m.dropped /\ n.marker = m.marker
  <2>1. [m.last EXCEPT ![key] = NoKey] \in [Keys -> Nat]
    BY DEF Sound, Meta, NoKey
  <2>2. m.coalesced \in Nat /\ m.coalesced + 1 \in Nat
    BY DEF Sound, Meta
  <2> QED  BY <2>1, <2>2 DEF Sound, Meta
<1>3. \A j \in Keys : n.last[j] = m.last[j] \/ n.last[j] = NoKey
  BY <1>1 DEF Sound, Meta
<1>4. n.coalesced = IF kept = rs THEN m.coalesced ELSE m.coalesced + 1
  BY DEF Sound, Meta
<1> HIDE DEF n
<1>5. CASE ~(Priority[e] = PROGRESS /\ m.last[key] # NoKey)
  BY <1>5 DEF Coalesced
<1>6. CASE Priority[e] = PROGRESS /\ m.last[key] # NoKey
  <2>1. c = [rows |-> kept, meta |-> n]
    BY <1>6 DEF Coalesced, n
  <2>2. CASE kept = rs
    <3>3. Sound(rs, n)
      <4> HIDE DEF kept, key
      <4> QED  BY <1>2, <1>3, FewerPointersSound
    <3>4. c.rows = rs /\ c.meta = n
      BY <2>1, <2>2
    <3>5. n.coalesced = m.coalesced
      BY <2>2, <1>4
    <3> HIDE DEF kept, key
    <3> QED  BY <1>2, <3>3, <3>4, <3>5
  <2>3. CASE kept # rs
    <3>1. PICK x \in rs : x.seq = m.last[key]
      BY <2>3
    <3>2. kept = rs \ {x}
      BY <3>1 DEF Sound
    <3>3. x.event # Marker
      BY <3>1, <1>1 DEF Sound, Markers
    <3>4. Sound(rs \ {x}, n) /\ Markers(rs \ {x}) = Markers(rs)
      <4> HIDE DEF n, kept, key
      <4> QED  BY <1>2, <1>3, <3>3, FewerRowsSound
    <3>5. c.rows = rs \ {x} /\ c.meta = n
      BY <2>1, <3>2
    <3>6. n.coalesced = m.coalesced + 1
      BY <2>3, <1>4
    <3> HIDE DEF kept, key
    <3> QED  BY <1>2, <3>4, <3>5, <3>6
  <2> QED  BY <2>2, <2>3
<1> QED  BY <1>5, <1>6

\* The part of an append that evicts.
LEMMA EvictedSound ==
    ASSUME NEW rs, NEW m, Sound(rs, m), NEW v \in Ordinary(rs), NEW n, n = Forget(m, {v.seq})
    PROVE  /\ Sound(rs \ {v}, n) /\ Markers(rs \ {v}) = Markers(rs)
           /\ n.next = m.next /\ n.dropped = m.dropped /\ n.coalesced = m.coalesced
<1> DEFINE last == [k \in Keys |-> IF m.last[k] \in {v.seq} THEN NoKey ELSE m.last[k]]
<1>1. last \in [Keys -> Nat]
  BY DEF Sound, Meta, NoKey
<1>2. n = [m EXCEPT !.last = last]
  BY DEF Forget
<1>3. /\ n \in Meta /\ n.next = m.next /\ n.dropped = m.dropped /\ n.marker = m.marker
      /\ n.coalesced = m.coalesced /\ n.last = last
  BY <1>1, <1>2 DEF Sound, Meta
<1>4. \A k \in Keys : n.last[k] = m.last[k] \/ n.last[k] = NoKey
  BY <1>3
<1>5. v \in rs /\ v.event # Marker
  BY DEF Ordinary
<1> QED  BY <1>3, <1>4, <1>5, FewerRowsSound

\* A copy of a row: the same event at the same place, of a total no larger.
Copy(y, x) == y.seq = x.seq /\ y.event = x.event /\ y.total <= x.total

\* The part of an append that counts a drop.
Overflowed(o, rs, m) ==
    /\ Sound(o.rows, o.meta) /\ Markers(o.rows) # {}
    /\ o.meta.next >= m.next /\ o.meta.coalesced = m.coalesced
    /\ DroppedTotal(o.meta.dropped) = DroppedTotal(m.dropped) + 1
    /\ \A x \in o.rows : x.seq >= m.next \/ \E y \in rs : Copy(y, x)
    /\ \A y \in rs : \E x \in o.rows : x.event = y.event
    /\ \A x \in o.rows : x.event = Marker \/ x \in rs

LEMMA OverflowSound ==
    ASSUME NEW rs, NEW m, Sound(rs, m), NEW p \in PriorityValues,
           NEW o, o = RecordOverflow(rs, m, p)
    PROVE  Overflowed(o, rs, m)
<1> DEFINE d == [m.dropped EXCEPT ![p] = @ + 1]
           t == DroppedTotal(d)
<1>1. /\ m.dropped \in [PriorityValues -> Nat] /\ d \in [PriorityValues -> Nat]
      /\ t \in Nat /\ t = DroppedTotal(m.dropped) + 1 /\ DroppedTotal(m.dropped) \in Nat
  BY DroppedUp DEF Sound, Meta
<1> HIDE DEF d
<1>2. CASE m.marker
  <2> DEFINE up(x) == [x EXCEPT !.total = t]
             n == [m EXCEPT !.dropped = d]
             qs == Ordinary(rs) \cup {up(x) : x \in Markers(rs)}
  <2>1. o = [rows |-> qs, meta |-> n]
    BY <1>2 DEF RecordOverflow, d
  <2>2. /\ n \in Meta /\ n.next = m.next /\ n.dropped = d /\ n.marker = m.marker
        /\ n.coalesced = m.coalesced /\ n.last = m.last
    BY <1>1 DEF Sound, Meta
  <2>3. \A x \in Markers(rs) : /\ up(x) \in RowSet /\ up(x).seq = x.seq /\ up(x).event = Marker
                               /\ up(x).total = t /\ x.event = Marker /\ x \in rs
                               /\ x.total <= t /\ x.seq \in Nat
    BY <1>1 DEF Sound, Markers, RowSet
  <2>4. \A x \in Ordinary(rs) : x \in RowSet /\ x.event # Marker /\ x \in rs /\ Copy(x, x)
    BY DEF Ordinary, Sound, Copy, RowSet
  <2>5. PICK z \in Markers(rs) : TRUE
    BY <1>2 DEF Sound
  <2> HIDE DEF n, up
  <2>6. Markers(qs) = {up(x) : x \in Markers(rs)}
    BY <2>3, <2>4 DEF Markers
  <2>7. \A x, y \in qs : x.seq = y.seq => x = y
    <3>1. \A x, y \in rs : x.seq = y.seq => x = y
      BY DEF Sound
    <3> QED  BY <2>3, <2>4, <3>1
  <2>8. \A x \in qs : 0 < x.seq /\ x.seq < n.next
    <3>1. \A x \in rs : 0 < x.seq /\ x.seq < m.next
      BY DEF Sound
    <3> QED  BY <2>2, <2>3, <2>4, <3>1
  <2>9. \A x \in Markers(qs) : x.total = DroppedTotal(n.dropped)
    BY <2>2, <2>3, <2>6
  <2>10. \A x \in Markers(qs) : \A k \in Keys : n.last[k] # x.seq
    <3>1. \A x \in Markers(rs) : \A k \in Keys : m.last[k] # x.seq
      BY DEF Sound
    <3> QED  BY <2>2, <2>3, <2>6, <3>1
  <2>11. Markers(qs) # {}
    BY <2>5, <2>6
  <2>12. qs \subseteq RowSet /\ (n.marker <=> Markers(qs) # {}) /\ \A k \in Keys : n.last[k] < n.next
    BY <1>2, <2>2, <2>3, <2>4, <2>11 DEF Sound
  <2>18. \A x, y \in Markers(qs) : x = y
    <3>1. \A x, y \in Markers(rs) : x = y
      BY DEF Sound
    <3> QED  BY <2>6, <3>1
  <2>13. Sound(qs, n)
    BY <2>18, <2>2, <2>7, <2>8, <2>9, <2>10, <2>12 DEF Sound
  <2>14. \A x \in qs : \E y \in rs : Copy(y, x)
    BY <2>3, <2>4 DEF Copy
  <2>15. \A y \in rs : \E x \in qs : x.event = y.event
    <3> SUFFICES ASSUME NEW y \in rs PROVE \E x \in qs : x.event = y.event
      OBVIOUS
    <3>1. CASE y \in Markers(rs)
      BY <3>1, <2>3
    <3>2. CASE y \in Ordinary(rs)
      BY <3>2
    <3> QED  BY <3>1, <3>2 DEF Markers, Ordinary
  <2>16. \A x \in qs : x.event = Marker \/ x \in rs
    BY <2>3, <2>4
  <2> HIDE DEF qs
  <2>17. n.next >= m.next
    BY <2>2 DEF Sound, Meta
  <2> QED  BY <1>1, <2>1, <2>2, <2>11, <2>13, <2>14, <2>15, <2>16, <2>17 DEF Overflowed
<1>3. CASE ~m.marker
  <2> DEFINE r == RowOf(Marker, m.next, t)
             n == [m EXCEPT !.dropped = d, !.marker = TRUE, !.next = @ + 1]
  <2>1. o = [rows |-> rs \cup {r}, meta |-> n]
    BY <1>3 DEF RecordOverflow, d
  <2>2. /\ n \in Meta /\ n.next = m.next + 1 /\ n.dropped = d /\ n.marker = TRUE
        /\ n.coalesced = m.coalesced /\ n.last = m.last
        /\ m.next \in Nat /\ 0 < m.next
    <3>1. m \in Meta /\ m.next \in Nat \ {0} /\ m.next + 1 \in Nat \ {0}
      BY DEF Sound, Meta
    <3>2. /\ n.next = m.next + 1 /\ n.dropped = d /\ n.marker = TRUE
          /\ n.coalesced = m.coalesced /\ n.last = m.last
      BY <3>1 DEF Meta
    <3>3. n \in Meta
      BY <3>1, <1>1 DEF Meta
    <3> QED  BY <3>1, <3>2, <3>3
  <2>3. r \in RowSet /\ r.event = Marker /\ r.seq = m.next /\ r.total = t
    BY <1>1, <2>2 DEF RowOf, RowSet, EventNames
  <2> HIDE DEF n, r
  <2>4. Markers(rs \cup {r}) = {r}
    BY <1>3, <2>3 DEF Sound, Markers
  <2>5. /\ \A x \in rs : x.seq \in Nat /\ x.total \in Nat /\ 0 < x.seq /\ x.seq < m.next
        /\ \A x, y \in rs : x.seq = y.seq => x = y
        /\ \A k \in Keys : m.last[k] < m.next /\ m.last[k] \in Nat
        /\ rs \subseteq RowSet
    BY DEF Sound, RowSet, Meta
  <2>6. Sound(rs \cup {r}, n)
    <3>1. \A x, y \in rs \cup {r} : x.seq = y.seq => x = y
      BY <2>3, <2>5
    <3>2. \A x \in rs \cup {r} : 0 < x.seq /\ x.seq < n.next
      BY <2>2, <2>3, <2>5
    <3>3. \A x \in Markers(rs \cup {r}) : \A k \in Keys : n.last[k] # x.seq
      BY <2>2, <2>3, <2>4, <2>5
    <3>4. \A k \in Keys : n.last[k] < n.next
      BY <2>2, <2>5
    <3>5. \A x \in Markers(rs \cup {r}) : x.total = DroppedTotal(n.dropped)
      BY <2>2, <2>3, <2>4
    <3>6. (n.marker <=> Markers(rs \cup {r}) # {}) /\ \A x, y \in Markers(rs \cup {r}) : x = y
      BY <2>2, <2>4
    <3> QED  BY <2>2, <2>3, <2>5, <3>1, <3>2, <3>3, <3>4, <3>5, <3>6 DEF Sound
  <2>7. \A x \in rs : Copy(x, x)
    BY <2>5 DEF Copy
  <2>8. o.rows = rs \cup {r} /\ o.meta = n
    BY <2>1
  <2>9. \A x \in rs \cup {r} : x.seq >= m.next \/ \E y \in rs : Copy(y, x)
    BY <2>2, <2>3, <2>7
  <2>10. n.next >= m.next
    BY <2>2
  <2>11. \A x \in rs \cup {r} : x.event = Marker \/ x \in rs
    BY <2>3
  <2> QED  BY <1>1, <2>2, <2>4, <2>6, <2>8, <2>9, <2>10, <2>11 DEF Overflowed
<1> QED  BY <1>2, <1>3 DEF Sound, Meta

\* The part of an append that writes the new row, under a number taken before.
LEMMA InsertedSound ==
    ASSUME NEW rs, NEW m, Sound(rs, m), NEW e \in Event, NEW seq \in Nat \ {0}, seq < m.next,
           \A x \in rs : x.seq # seq,
           NEW qs, qs = rs \cup {RowOf(e, seq, 0)}, NEW n, n = Remember(m, e, seq)
    PROVE  /\ Sound(qs, n) /\ Markers(qs) = Markers(rs)
           /\ n.next = m.next /\ n.dropped = m.dropped /\ n.coalesced = m.coalesced
<1> DEFINE r == RowOf(e, seq, 0)
<1>1. r \in RowSet /\ r.event = e /\ r.seq = seq /\ e # Marker
  BY PrioritiesAre DEF RowOf, RowSet, EventNames
<1>2. Key[e] \in Keys
  BY DEF Keys
<1>3. /\ n \in Meta /\ n.next = m.next /\ n.dropped = m.dropped /\ n.coalesced = m.coalesced
      /\ n.marker = m.marker
      /\ \A k \in Keys : n.last[k] = m.last[k] \/ n.last[k] = seq
  <2>1. [m.last EXCEPT ![Key[e]] = seq] \in [Keys -> Nat]
    BY DEF Sound, Meta
  <2>2. CASE Priority[e] = PROGRESS
    BY <2>1, <2>2, <1>2 DEF Remember, Sound, Meta
  <2>3. CASE Priority[e] # PROGRESS
    BY <2>3 DEF Remember, Sound, Meta
  <2> QED  BY <2>2, <2>3
<1> HIDE DEF r
<1>4. Markers(qs) = Markers(rs)
  BY <1>1 DEF Markers, r
<1>5. \A x, y \in qs : x.seq = y.seq => x = y
  BY <1>1 DEF Sound, r
<1>6. \A x \in qs : 0 < x.seq /\ x.seq < n.next
  BY <1>1, <1>3 DEF Sound, r
<1>7. \A k \in Keys : n.last[k] < n.next
  BY <1>3 DEF Sound
<1>8. \A x \in Markers(qs) : \A k \in Keys : n.last[k] # x.seq
  BY <1>3, <1>4 DEF Sound, Markers
<1>9. qs \subseteq RowSet
  BY <1>1 DEF Sound, r
<1>10. /\ n.marker <=> Markers(qs) # {}
       /\ \A x \in Markers(qs) : x.total = DroppedTotal(n.dropped)
       /\ \A x, y \in Markers(qs) : x = y
  BY <1>3, <1>4 DEF Sound
<1> QED  BY <1>3, <1>4, <1>5, <1>6, <1>7, <1>8, <1>9, <1>10 DEF Sound

-----------------------------------------------------------------------------
(* What is accounted for. *)

\* The events that left the buffer and were not routed.
Lost(kn, rs, rt) == {e \in Event : kn[e] # "NEW" /\ e \notin EventsOf(rs) /\ e \notin rt}
Uncounted(m)     == DroppedTotal(m.dropped) + m.coalesced

LEMMA OneMoreLost ==
    ASSUME NEW kn, NEW rs, NEW rt, NEW ln, NEW qs, NEW pt, NEW a, NEW n \in Nat,
           Cardinality(Lost(kn, rs, rt)) <= n,
           Lost(ln, qs, pt) \subseteq Lost(kn, rs, rt) \cup {a}
    PROVE  Cardinality(Lost(ln, qs, pt)) <= n + 1
<1>1. IsFiniteSet(Lost(kn, rs, rt))
  BY FS_Subset, ChannelAssumption DEF Lost
<1> DEFINE S == Lost(kn, rs, rt)
           T == Lost(ln, qs, pt)
<1>2. S = Lost(kn, rs, rt) /\ T = Lost(ln, qs, pt)
  OBVIOUS
<1> HIDE DEF S, T
<1>3. IsFiniteSet(S \cup {a}) /\ Cardinality(S \cup {a}) <= Cardinality(S) + 1 /\ Cardinality(S) \in Nat
  <2>1. IsFiniteSet(S) /\ Cardinality(S) \in Nat
    BY <1>1, <1>2, FS_CardinalityType
  <2>2. /\ IsFiniteSet(S \cup {a})
        /\ Cardinality(S \cup {a}) = IF a \in S THEN Cardinality(S) ELSE Cardinality(S) + 1
    BY <2>1, FS_AddElement
  <2> QED  BY <2>1, <2>2
<1>4. Cardinality(T) <= Cardinality(S \cup {a}) /\ Cardinality(S \cup {a}) \in Nat
      /\ Cardinality(T) \in Nat
  BY <1>2, <1>3, FS_Subset, FS_CardinalityType
<1> QED  BY <1>2, <1>3, <1>4

LEMMA NoMoreLost ==
    ASSUME NEW kn, NEW rs, NEW rt, NEW ln, NEW qs, NEW pt, NEW n \in Nat,
           Cardinality(Lost(kn, rs, rt)) <= n,
           Lost(ln, qs, pt) \subseteq Lost(kn, rs, rt)
    PROVE  Cardinality(Lost(ln, qs, pt)) <= n
<1>1. IsFiniteSet(Lost(kn, rs, rt))
  BY FS_Subset, ChannelAssumption DEF Lost
<1>2. Cardinality(Lost(ln, qs, pt)) <= Cardinality(Lost(kn, rs, rt))
      /\ Cardinality(Lost(kn, rs, rt)) \in Nat /\ Cardinality(Lost(ln, qs, pt)) \in Nat
  BY <1>1, FS_Subset, FS_CardinalityType
<1> QED  BY <1>2

LEMMA LostAre == NoSilentLoss <=> Cardinality(Lost(known, rows, routed)) <= Uncounted(meta)
  BY DEF NoSilentLoss, Lost, Uncounted, Held

LEMMA CountsAre ==
    ASSUME NEW m \in Meta
    PROVE  /\ DroppedTotal(m.dropped) \in Nat /\ m.coalesced \in Nat /\ Uncounted(m) \in Nat
           /\ m.next \in Nat /\ 0 < m.next
<1>1. m.dropped \in [PriorityValues -> Nat] /\ m.coalesced \in Nat /\ m.next \in Nat /\ 0 < m.next
  BY DEF Meta
<1>2. DroppedTotal(m.dropped) \in Nat
  BY <1>1 DEF DroppedTotal, PriorityValues
<1> QED  BY <1>1, <1>2 DEF Uncounted

-----------------------------------------------------------------------------
(* An append. *)

\* What the metadata and the rows after an append have in common with those
\* before, whichever branch it took.
Appended(e) ==
    /\ Sound(rows', meta')
    /\ \A x \in rows' : x.seq >= meta.next \/ \E y \in rows : Copy(y, x)
    /\ meta'.next >= meta.next
    /\ Markers(rows) # {} => Markers(rows') # {}
    /\ Markers(rows') = {} => DroppedTotal(meta'.dropped) = DroppedTotal(meta.dropped)
    /\ \A x \in rows' : x.event \in Event => x.event = e \/ \E y \in rows : y.event = x.event
    /\ known' \in [Event -> {"NEW", "BUFFERED", "DROPPED"}]
    /\ known'[e] # "NEW" /\ \A f \in Event \ {e} : known'[f] = known[f]
    /\ Cardinality(Lost(known', rows', routed)) <= Uncounted(meta')

\* The events of the rows, of which a few stay.
LEMMA EventsLost ==
    ASSUME NEW kn, NEW ln, NEW rs, NEW qs, NEW rt, NEW a,
           \A f \in Event \ {a} : ln[f] = kn[f],
           \A y \in rs : y.event = a \/ \E x \in qs : x.event = y.event
    PROVE  Lost(ln, qs, rt) \subseteq Lost(kn, rs, rt) \cup {a}
  BY DEF Lost, EventsOf

LEMMA CoalescedLost ==
    ASSUME NEW m, Sound(rows, m), Cardinality(Lost(known, rows, routed)) <= Uncounted(m),
           NEW e \in Event, NEW c, c = Coalesced(rows, m, e)
    PROVE  Cardinality(Lost(known, c.rows, routed)) <= Uncounted(c.meta)
<1>1. /\ Sound(c.rows, c.meta) /\ c.meta.dropped = m.dropped
      /\ \/ c.rows = rows /\ c.meta.coalesced = m.coalesced
         \/ \E x \in rows : c.rows = rows \ {x} /\ c.meta.coalesced = m.coalesced + 1
  BY CoalescedSound
<1>2. m \in Meta /\ c.meta \in Meta
  BY <1>1 DEF Sound
<1>3. CASE c.rows = rows /\ c.meta.coalesced = m.coalesced
  BY <1>1, <1>3 DEF Uncounted
<1>4. CASE \E x \in rows : c.rows = rows \ {x} /\ c.meta.coalesced = m.coalesced + 1
  <2>1. PICK x \in rows : c.rows = rows \ {x} /\ c.meta.coalesced = m.coalesced + 1
    BY <1>4
  <2>2. Lost(known, c.rows, routed) \subseteq Lost(known, rows, routed) \cup {x.event}
    <3>1. \A y \in rows : y.event = x.event \/ \E z \in c.rows : z.event = y.event
      BY <2>1
    <3> QED  BY <3>1, EventsLost
  <2>3. Cardinality(Lost(known, c.rows, routed)) <= Uncounted(m) + 1
    BY <2>2, <1>2, OneMoreLost, CountsAre
  <2>4. Uncounted(c.meta) = Uncounted(m) + 1
    BY <2>1, <1>1, <1>2, CountsAre DEF Uncounted
  <2> QED  BY <2>3, <2>4
<1> QED  BY <1>1, <1>3, <1>4

\* The new row, after what coalescing and eviction left.
LEMMA InsertedStep ==
    ASSUME BufferInv, NEW e \in Event, NEW qs, NEW n, Sound(qs, n),
           meta.next < n.next,
           \A x \in qs : x.seq # meta.next,
           \A x \in qs : x.seq >= meta.next \/ \E y \in rows : Copy(y, x),
           Markers(rows) # {} => Markers(qs) # {},
           Markers(qs) = {} => DroppedTotal(n.dropped) = DroppedTotal(meta.dropped),
           \A x \in qs : x.event = Marker \/ \E y \in rows : y.event = x.event,
           Cardinality(Lost(known, qs, routed)) <= Uncounted(n),
           rows' = qs \cup {RowOf(e, meta.next, 0)}, meta' = Remember(n, e, meta.next),
           known' = [known EXCEPT ![e] = "BUFFERED"]
    PROVE  Appended(e)
<1>1. meta \in Meta /\ n \in Meta /\ meta.next \in Nat \ {0}
  BY DEF BufferInv, Sound, Meta
<1>2. /\ Sound(rows', meta') /\ Markers(rows') = Markers(qs)
      /\ meta'.next = n.next /\ meta'.dropped = n.dropped /\ meta'.coalesced = n.coalesced
  BY <1>1, InsertedSound
<1>3. /\ known' \in [Event -> {"NEW", "BUFFERED", "DROPPED"}]
      /\ known'[e] # "NEW" /\ \A f \in Event \ {e} : known'[f] = known[f]
  BY DEF BufferInv
<1>4. Uncounted(meta') = Uncounted(n) /\ Uncounted(n) \in Nat
  BY <1>1, <1>2, CountsAre DEF Uncounted
<1>5. RowOf(e, meta.next, 0).event = e /\ RowOf(e, meta.next, 0).seq = meta.next
  BY DEF RowOf
<1>6. Cardinality(Lost(known', rows', routed)) <= Uncounted(meta')
  <2>1. Lost(known', rows', routed) \subseteq Lost(known, qs, routed)
    BY <1>3, <1>5 DEF Lost, EventsOf
  <2>2. ASSUME NEW k \in Nat, Cardinality(Lost(known, qs, routed)) <= k
        PROVE  Cardinality(Lost(known', rows', routed)) <= k
    BY ONLY <2>1, <2>2, NoMoreLost
  <2> QED  BY <2>2, <1>4
<1>7. \A x \in rows' : x.seq >= meta.next \/ \E y \in rows : Copy(y, x)
  BY <1>1, <1>5
<1>8. \A x \in rows' : x.event \in Event => x.event = e \/ \E y \in rows : y.event = x.event
  BY <1>5, PrioritiesAre
<1>9. meta'.next >= meta.next
  BY <1>1, <1>2, CountsAre
<1> QED  BY <1>2, <1>3, <1>6, <1>7, <1>8, <1>9 DEF Appended

LEMMA AppendStep ==
    ASSUME BufferInv, NoSilentLoss, NEW e \in Event, AppendEvent(e)
    PROVE  Appended(e)
<1> DEFINE m == [meta EXCEPT !.next = @ + 1]
           c == Coalesced(rows, m, e)
           dropped(rs, n, p) == RecordOverflow(rs, n, p)
<1>1. /\ Sound(rows, meta) /\ meta \in Meta /\ rows \subseteq RowSet
      /\ known \in [Event -> {"NEW", "BUFFERED", "DROPPED"}]
      /\ meta.next \in Nat \ {0} /\ \A x \in rows : x.seq < meta.next /\ x.seq \in Nat /\ Copy(x, x)
  BY DEF BufferInv, Sound, Meta, RowSet, Copy
<1>2. /\ m \in Meta /\ m.next = meta.next + 1 /\ m.dropped = meta.dropped
      /\ m.coalesced = meta.coalesced /\ m.last = meta.last /\ m.marker = meta.marker
  BY <1>1 DEF Meta
<1> HIDE DEF m
<1>3. Sound(rows, m)
  <2>1. \A x \in rows : 0 < x.seq /\ x.seq < m.next
    BY <1>1, <1>2 DEF Sound
  <2>2. \A k \in Keys : m.last[k] < m.next
    BY <1>1, <1>2 DEF Sound, Meta
  <2> QED  BY <1>1, <1>2, <2>1, <2>2 DEF Sound
<1>4. Cardinality(Lost(known, rows, routed)) <= Uncounted(m)
  BY <1>2, LostAre DEF Uncounted
<1>5. /\ Sound(c.rows, c.meta) /\ Markers(c.rows) = Markers(rows)
      /\ c.meta.next = m.next /\ c.meta.dropped = m.dropped /\ c.rows \subseteq rows
      /\ Cardinality(Lost(known, c.rows, routed)) <= Uncounted(c.meta)
  BY <1>3, <1>4, CoalescedSound, CoalescedLost
<1>6. \/ /\ rows' = c.rows \cup {RowOf(e, meta.next, 0)} /\ meta' = Remember(c.meta, e, meta.next)
         /\ known' = [known EXCEPT ![e] = "BUFFERED"]
      \/ /\ \E v \in LowestPriority(c.rows) :
               LET o == dropped(c.rows \ {v}, Forget(c.meta, {v.seq}), PriorityOf(v))
               IN /\ rows' = o.rows \cup {RowOf(e, meta.next, 0)}
                  /\ meta' = Remember(o.meta, e, meta.next)
         /\ known' = [known EXCEPT ![e] = "BUFFERED"]
      \/ /\ LET o == dropped(c.rows, c.meta, Priority[e]) IN rows' = o.rows /\ meta' = o.meta
         /\ known' = [known EXCEPT ![e] = "DROPPED"]
  BY DEF AppendEvent, m
<1> HIDE DEF c
<1>7. /\ c.meta \in Meta /\ Uncounted(c.meta) \in Nat
      /\ \A x \in c.rows : x.seq # meta.next /\ x.seq < meta.next /\ x \in rows /\ Copy(x, x)
  BY <1>1, <1>5, CountsAre DEF Sound
<1>8. CASE /\ rows' = c.rows \cup {RowOf(e, meta.next, 0)} /\ meta' = Remember(c.meta, e, meta.next)
           /\ known' = [known EXCEPT ![e] = "BUFFERED"]
  <2>1. meta.next < c.meta.next
    BY <1>1, <1>2, <1>5
  <2>2. \A x \in c.rows : x.seq >= meta.next \/ \E y \in rows : Copy(y, x)
    BY <1>7
  <2>3. \A x \in c.rows : x.event = Marker \/ \E y \in rows : y.event = x.event
    BY <1>7
  <2> QED  BY <1>2, <1>5, <1>7, <1>8, <2>1, <2>2, <2>3, InsertedStep
<1>9. ASSUME NEW v \in LowestPriority(c.rows), NEW o,
             o = dropped(c.rows \ {v}, Forget(c.meta, {v.seq}), PriorityOf(v)),
             rows' = o.rows \cup {RowOf(e, meta.next, 0)}, meta' = Remember(o.meta, e, meta.next),
             known' = [known EXCEPT ![e] = "BUFFERED"]
      PROVE  Appended(e)
  <2> DEFINE n == Forget(c.meta, {v.seq})
             rs == c.rows \ {v}
  <2>1. v \in Ordinary(c.rows) /\ v \in c.rows /\ PriorityOf(v) \in PriorityValues
    BY <1>5, PrioritiesAre DEF LowestPriority, Ordinary, Sound, RowSet
  <2>2. /\ Sound(rs, n) /\ Markers(rs) = Markers(c.rows) /\ n.next = c.meta.next
        /\ n.dropped = c.meta.dropped /\ n.coalesced = c.meta.coalesced
    BY <1>5, <2>1, EvictedSound
  <2> HIDE DEF n
  <2>3. o = RecordOverflow(rs, n, PriorityOf(v))
    BY <1>9 DEF n
  <2>4. /\ Sound(o.rows, o.meta) /\ Markers(o.rows) # {}
        /\ o.meta.next >= n.next /\ o.meta.coalesced = n.coalesced
        /\ DroppedTotal(o.meta.dropped) = DroppedTotal(n.dropped) + 1
        /\ \A x \in o.rows : x.seq >= n.next \/ \E y \in rs : Copy(y, x)
        /\ \A y \in rs : \E x \in o.rows : x.event = y.event
        /\ \A x \in o.rows : x.event = Marker \/ x \in rs
    <3>1. Overflowed(o, rs, n)
      BY <2>1, <2>2, <2>3, OverflowSound
    <3> QED  BY <3>1 DEF Overflowed
  <2>5. n \in Meta /\ o.meta \in Meta /\ o.meta.next \in Nat /\ n.next = meta.next + 1
    BY <1>2, <1>5, <2>2, <2>4, CountsAre DEF Sound
  <2>6. meta.next < o.meta.next
    BY <1>1, <2>4, <2>5
  <2>7. \A x \in o.rows : x.seq > meta.next \/ \E y \in rows : Copy(y, x)
    <3>1. \A y \in rs : y \in rows
      BY <1>7
    <3>2. \A x \in o.rows : x.seq \in Nat
      BY <2>4 DEF Sound, RowSet
    <3> HIDE DEF rs
    <3> QED  BY <1>1, <2>4, <2>5, <3>1, <3>2
  <2>8. \A x \in o.rows : x.seq # meta.next
    BY <1>1, <2>7 DEF Copy
  <2>9. \A x \in o.rows : x.event = Marker \/ \E y \in rows : y.event = x.event
    BY <1>7, <2>4
  <2>10. Cardinality(Lost(known, o.rows, routed)) <= Uncounted(o.meta)
    <3>1. \A y \in c.rows : y.event = v.event \/ \E x \in o.rows : x.event = y.event
      BY <2>4
    <3>2. Lost(known, o.rows, routed) \subseteq Lost(known, c.rows, routed) \cup {v.event}
      BY <3>1, EventsLost
    <3>3. Cardinality(Lost(known, o.rows, routed)) <= Uncounted(c.meta) + 1
      BY <1>5, <1>7, <3>2, OneMoreLost
    <3>4. Uncounted(o.meta) = Uncounted(c.meta) + 1
      BY <1>7, <2>2, <2>4, CountsAre DEF Uncounted
    <3> QED  BY <3>3, <3>4
  <2>11. \A x \in o.rows : x.seq >= meta.next \/ \E y \in rows : Copy(y, x)
    <3>1. \A x \in o.rows : x.seq \in Nat
      BY <2>4 DEF Sound, RowSet
    <3> QED  BY <1>1, <2>7, <3>1
  <2> HIDE DEF rs
  <2> QED  BY <1>9, <2>4, <2>6, <2>8, <2>9, <2>10, <2>11, InsertedStep
<1>10. ASSUME NEW o, o = dropped(c.rows, c.meta, Priority[e]), rows' = o.rows, meta' = o.meta,
              known' = [known EXCEPT ![e] = "DROPPED"]
       PROVE  Appended(e)
  <2>1. /\ Sound(o.rows, o.meta) /\ Markers(o.rows) # {}
        /\ o.meta.next >= c.meta.next /\ o.meta.coalesced = c.meta.coalesced
        /\ DroppedTotal(o.meta.dropped) = DroppedTotal(c.meta.dropped) + 1
        /\ \A x \in o.rows : x.seq >= c.meta.next \/ \E y \in c.rows : Copy(y, x)
        /\ \A y \in c.rows : \E x \in o.rows : x.event = y.event
        /\ \A x \in o.rows : x.event = Marker \/ x \in c.rows
    <3>1. Priority[e] \in PriorityValues
      BY PrioritiesAre
    <3>2. Overflowed(o, c.rows, c.meta)
      BY <1>5, <1>10, <3>1, OverflowSound
    <3> QED  BY <3>2 DEF Overflowed
  <2>2. o.meta \in Meta /\ o.meta.next \in Nat /\ \A x \in o.rows : x.seq \in Nat
    BY <2>1, CountsAre DEF Sound, RowSet
  <2>3. \A x \in o.rows : x.seq >= meta.next \/ \E y \in rows : Copy(y, x)
    BY <1>1, <1>2, <1>5, <1>7, <2>1, <2>2
  <2>4. /\ known' \in [Event -> {"NEW", "BUFFERED", "DROPPED"}]
        /\ known'[e] # "NEW" /\ \A f \in Event \ {e} : known'[f] = known[f]
    BY <1>1, <1>10
  <2>5. Cardinality(Lost(known', o.rows, routed)) <= Uncounted(o.meta)
    <3>1. Lost(known', o.rows, routed) \subseteq Lost(known, c.rows, routed) \cup {e}
      <4>1. \A y \in c.rows : y.event = e \/ \E x \in o.rows : x.event = y.event
        BY <2>1
      <4>2. \A f \in Event \ {e} : known'[f] = known[f]
        BY <2>4
      <4> QED  BY <4>1, <4>2, EventsLost
    <3>2. Cardinality(Lost(known', o.rows, routed)) <= Uncounted(c.meta) + 1
      BY <1>5, <1>7, <3>1, OneMoreLost
    <3>3. Uncounted(o.meta) = Uncounted(c.meta) + 1
      BY <1>7, <2>1, CountsAre DEF Uncounted
    <3> QED  BY <3>2, <3>3
  <2>6. meta'.next >= meta.next
    BY <1>1, <1>2, <1>5, <1>10, <2>1, <2>2
  <2>7. \A x \in o.rows : x.event \in Event => x.event = e \/ \E y \in rows : y.event = x.event
    BY <1>7, <2>1, PrioritiesAre
  <2> QED  BY <1>10, <2>1, <2>3, <2>4, <2>5, <2>6, <2>7 DEF Appended
<1> QED  BY <1>6, <1>8, <1>9, <1>10

LEMMA AppendKeeps ==
    ASSUME ChannelInv, NEW e \in Event, AppendEvent(e)
    PROVE  ChannelInv'
<1>1. /\ FlightTypes /\ NetTypes /\ StatusTypes
      /\ BufferInv /\ FlightInv /\ Messages /\ OnePlace /\ Reports /\ Statuses /\ NoSilentLoss
  BY DEF ChannelInv
<1>2. Appended(e)
  BY <1>1, AppendStep
<1>3. UNCHANGED <<flight, lastAck, batches, outbox, issued, conn, agent, wire, queue, hub, gate,
                  msgJournal, routed, handled, reported, masked>>
  BY DEF AppendEvent
<1>4. /\ rows \subseteq RowSet /\ rows' \subseteq RowSet /\ meta \in Meta /\ meta' \in Meta
      /\ meta.next \in Nat /\ meta'.next \in Nat /\ meta.next <= meta'.next
  BY <1>1, <1>2, CountsAre DEF BufferInv, Sound, Appended
<1>5. FlightTypes' /\ NetTypes' /\ StatusTypes'
  BY <1>1, <1>3 DEF FlightTypes, NetTypes, StatusTypes
<1>6. BufferInv'
  BY <1>1, <1>2 DEF BufferInv, Appended
<1>7. FlightInv'
  <2>1. flight.mark \in Nat /\ flight.rows \subseteq RowSet
    BY <1>1 DEF FlightTypes
  <2>2. flight.mark < meta'.next
    BY <1>1, <1>4, <2>1 DEF FlightInv
  <2>3. ASSUME flight.id # 0, NEW x \in rows', x.seq <= flight.mark
        PROVE  \E y \in flight.rows : y.seq = x.seq /\ y.event = x.event /\ y.total <= x.total
    <3>1. x.seq \in Nat /\ x.total \in Nat
      BY <1>4 DEF RowSet
    <3>2. x.seq < meta.next
      BY <1>1, <1>4, <2>1, <2>3, <3>1 DEF FlightInv
    <3>3. PICK y \in rows : Copy(y, x)
      BY <1>2, <1>4, <3>1, <3>2 DEF Appended
    <3>4. y.total \in Nat /\ y.seq = x.seq /\ y.event = x.event /\ y.total <= x.total
      BY <1>4, <3>3 DEF Copy, RowSet
    <3>5. PICK z \in flight.rows : z.seq = y.seq /\ z.event = y.event /\ z.total <= y.total
      BY <1>1, <2>3, <3>4 DEF FlightInv
    <3>6. z.total \in Nat
      BY <2>1 DEF RowSet
    <3> QED  BY <3>1, <3>4, <3>5, <3>6
  <2>4. Markers(rows) # {} => Markers(rows') # {}
    BY <1>2 DEF Appended
  <2> QED  BY <1>1, <1>3, <2>2, <2>3, <2>4 DEF FlightInv
<1>8. Messages' /\ OnePlace' /\ Statuses'
  BY <1>1, <1>3
  DEF Messages, OnePlace, Statuses, Busy, Handling, BatchAt, AckAt, Underway, Carries, Covers
<1>9. Reports'
  <2>1. /\ Markers(rows') = {} => Markers(rows) = {}
        /\ Markers(rows') = {} => DroppedTotal(meta'.dropped) = DroppedTotal(meta.dropped)
    BY <1>2 DEF Appended
  <2> QED  BY <1>1, <1>3, <2>1 DEF Reports, AckAt
<1>10. NoSilentLoss'
  <2>1. Cardinality(Lost(known', rows', routed)) <= Uncounted(meta')
    BY <1>2 DEF Appended
  <2> QED  BY <2>1, <1>3 DEF NoSilentLoss, Lost, Uncounted, Held
<1> QED  BY <1>5, <1>6, <1>7, <1>8, <1>9, <1>10 DEF ChannelInv

-----------------------------------------------------------------------------
(* Steps that send nothing about a batch. *)

LEMMA AppendPlaces ==
    ASSUME NEW S, NEW s \in Seq(S), NEW x \in S
    PROVE  /\ Append(s, x) \in Seq(S)
           /\ Len(s) \in Nat
           /\ Len(Append(s, x)) = Len(s) + 1
           /\ \A i \in 1..Len(s) : Append(s, x)[i] = s[i]
           /\ Append(s, x)[Len(s) + 1] = x
           /\ \A i \in 1..Len(Append(s, x)) : i \in 1..Len(s) \/ i = Len(s) + 1
  BY AppendProperties

LEMMA TailPlaces ==
    ASSUME NEW S, NEW s \in Seq(S), s # <<>>
    PROVE  /\ Tail(s) \in Seq(S) /\ Len(s) \in Nat \ {0}
           /\ Len(Tail(s)) = Len(s) - 1
           /\ \A i \in 1..Len(Tail(s)) : Tail(s)[i] = s[i + 1] /\ i + 1 \in 1..Len(s)
           /\ Head(s) = s[1] /\ Head(s) \in S /\ 1 \in 1..Len(s)
  BY HeadTailProperties, EmptySeq

\* Every message of a kind in t was in s, as many places along for all of them.
CarriedOver(t, s, kind) ==
    \E k \in {0, 1} : \A i \in 1..Len(t) :
        t[i].kind = kind => i + k \in 1..Len(s) /\ t[i] = s[i + k]

LEMMA CarriedSame ==
    \A s, kind : CarriedOver(s, s, kind) /\ CarriedOver(<<>>, s, kind)
<1>1. ASSUME NEW s, NEW kind
      PROVE  CarriedOver(s, s, kind) /\ CarriedOver(<<>>, s, kind)
  <2>1. \A i \in 1..Len(s) : i + 0 = i
    OBVIOUS
  <2>2. 1..Len(<<>>) = {}
    OBVIOUS
  <2> QED  BY <2>1, <2>2 DEF CarriedOver
<1> QED  BY <1>1

LEMMA CarriedTail ==
    ASSUME NEW S, NEW s \in Seq(S), NEW kind, s # <<>>
    PROVE  CarriedOver(Tail(s), s, kind)
BY TailPlaces DEF CarriedOver

LEMMA CarriedAppend ==
    ASSUME NEW S, NEW s \in Seq(S), NEW kind, NEW x \in S, x.kind # kind
    PROVE  CarriedOver(Append(s, x), s, kind)
<1>1. \A i \in 1..Len(Append(s, x)) : Append(s, x)[i].kind = kind =>
          i + 0 \in 1..Len(s) /\ Append(s, x)[i] = s[i + 0]
  BY AppendPlaces
<1> QED  BY <1>1 DEF CarriedOver

\* A step that moves, drops or adds messages, none of them about a batch.
Calm ==
    /\ UNCHANGED <<rows, meta, known, batches, routed, reported, masked>>
    /\ flight' = flight \/ (flight' = NoBatch /\ agent'.phase = "OFF")
    /\ \A c \in Conn : /\ CarriedOver(wire'[c], wire[c], "EVENT_BATCH")
                       /\ CarriedOver(queue'[c], queue[c], "EVENT_ACK")
                       /\ \/ gate'[c].task = "IDLE"
                          \/ gate'[c].task = gate[c].task /\ gate'[c].msg = gate[c].msg
                          \/ gate'[c].task = "RECEIVED" /\ gate'[c].msg \in StatusMessage
    /\ agent'.phase # "OFF" =>
           \/ agent.phase # "OFF" /\ conn' = conn /\ agent'.sent = agent.sent
           \/ gate'[conn'].task = "IDLE" /\ \A i \in Nat : ~BatchAt(i)' /\ ~AckAt(i)'
    /\ hub' # 0 => hub' = hub \/ (wire'[hub'] = <<>> /\ gate'[hub'].task = "IDLE")

\* What such a step leaves as it was.
Untouched ==
    /\ FlightTypes /\ BufferInv /\ FlightInv /\ Messages /\ OnePlace /\ Reports /\ NoSilentLoss

LEMMA CalmKeeps ==
    ASSUME ChannelInv, NetTypes', Calm
    PROVE  Untouched'
<1>1. /\ FlightTypes /\ NetTypes /\ StatusTypes
      /\ BufferInv /\ FlightInv /\ Messages /\ OnePlace /\ Reports /\ Statuses /\ NoSilentLoss
  BY DEF ChannelInv
<1>2. /\ UNCHANGED <<rows, meta, known, batches, routed, reported, masked>>
      /\ flight' = flight \/ (flight' = NoBatch /\ agent'.phase = "OFF")
  BY DEF Calm
<1>3. flight'.id \in {0, flight.id} /\ (flight'.id = 0 \/ flight' = flight)
      /\ flight'.mark \in {0, flight.mark} /\ flight'.rows \in {{}, flight.rows}
  BY <1>2 DEF NoBatch
<1>4. FlightTypes'
  BY <1>1, <1>2 DEF FlightTypes, NoBatch
<1>5. BufferInv'
  BY <1>1, <1>2 DEF BufferInv
<1>6. NoSilentLoss'
  BY <1>1, <1>2 DEF NoSilentLoss, Held
<1>7. FlightInv'
  <2>1. meta.next \in Nat /\ 0 < meta.next
    BY <1>1, CountsAre DEF BufferInv, Sound
  <2>2. CASE flight' = flight
    BY <1>1, <1>2, <2>2 DEF FlightInv
  <2>3. CASE flight' = NoBatch
    BY <1>1, <1>2, <2>1, <2>3 DEF FlightInv, NoBatch, Markers
  <2> QED  BY <1>2, <2>2, <2>3
\* Where the messages of the next state are now.
<1>8. ASSUME NEW c \in Conn
      PROVE  \E k \in {0, 1} : \A i \in 1..Len(wire'[c]) : wire'[c][i].kind = "EVENT_BATCH" =>
                 i + k \in 1..Len(wire[c]) /\ wire'[c][i] = wire[c][i + k]
  BY DEF Calm, CarriedOver
<1>9. ASSUME NEW c \in Conn
      PROVE  \E k \in {0, 1} : \A i \in 1..Len(queue'[c]) : queue'[c][i].kind = "EVENT_ACK" =>
                 i + k \in 1..Len(queue[c]) /\ queue'[c][i] = queue[c][i + k]
  BY DEF Calm, CarriedOver
<1>10. \A c \in Conn : /\ \/ gate'[c].task = "IDLE"
                          \/ gate'[c].task = gate[c].task /\ gate'[c].msg = gate[c].msg
                          \/ /\ gate'[c].task = "RECEIVED" /\ gate'[c].msg.kind = "STATUS"
                             /\ gate'[c].msg.rows = {}
  BY DEF Calm, StatusMessage
<1>11. Messages'
  <2>1. \A m : Carries(m, batches, flight) => Carries(m, batches', flight')
    BY <1>1, <1>2, <1>3 DEF Carries, FlightTypes
  <2>2. \A m : Covers(m, batches, flight, routed) => Covers(m, batches', flight', routed')
    BY <1>1, <1>2, <1>3 DEF Covers, FlightTypes
  <2> SUFFICES ASSUME NEW c \in Conn
               PROVE  /\ \A i \in 1..Len(wire'[c]) : wire'[c][i].kind = "EVENT_BATCH" => Carries(wire'[c][i], batches', flight')
                      /\ Busy(c)' => Carries(gate'[c].msg, batches', flight')
                      /\ gate'[c].task = "ROUTED" => EventsOf(gate'[c].msg.rows) \subseteq routed'
                      /\ \A i \in 1..Len(queue'[c]) : queue'[c][i].kind = "EVENT_ACK" => Covers(queue'[c][i], batches', flight', routed')
    BY DEF Messages
  <2>3. \A i \in 1..Len(wire'[c]) : wire'[c][i].kind = "EVENT_BATCH" => Carries(wire'[c][i], batches', flight')
    BY <1>1, <1>8, <2>1 DEF Messages
  <2>4. Busy(c)' => Carries(gate'[c].msg, batches', flight')
    BY <1>1, <1>10, <2>1 DEF Messages, Busy
  <2>5. gate'[c].task = "ROUTED" => EventsOf(gate'[c].msg.rows) \subseteq routed'
    BY <1>1, <1>2, <1>10 DEF Messages
  <2>6. \A i \in 1..Len(queue'[c]) : queue'[c][i].kind = "EVENT_ACK" => Covers(queue'[c][i], batches', flight', routed')
    BY <1>1, <1>9, <2>2 DEF Messages
  <2> QED  BY <2>3, <2>4, <2>5, <2>6
<1>12. OnePlace' /\ (agent'.phase # "OFF" /\ (gate'[conn'].task = "ROUTED" \/ \E i \in Nat : AckAt(i)') =>
           agent.phase # "OFF" /\ (gate[conn].task = "ROUTED" \/ \E i \in Nat : AckAt(i)))
  <2>1. CASE agent'.phase = "OFF"
    BY <2>1 DEF OnePlace
  <2>2. CASE gate'[conn'].task = "IDLE" /\ \A i \in Nat : ~BatchAt(i)' /\ ~AckAt(i)'
    BY <2>2 DEF OnePlace, Busy
  <2>3. CASE /\ agent'.phase # "OFF" /\ agent.phase # "OFF" /\ conn' = conn
             /\ agent'.sent = agent.sent
    <3>1. conn \in Conn /\ flight' = flight
      BY <1>1, <1>2, <2>3 DEF NetTypes, Conn
    <3>2. PICK k \in {0, 1} : \A i \in 1..Len(wire'[conn]) : wire'[conn][i].kind = "EVENT_BATCH" =>
                 i + k \in 1..Len(wire[conn]) /\ wire'[conn][i] = wire[conn][i + k]
      BY <1>8, <3>1
    <3>3. PICK l \in {0, 1} : \A i \in 1..Len(queue'[conn]) : queue'[conn][i].kind = "EVENT_ACK" =>
                 i + l \in 1..Len(queue[conn]) /\ queue'[conn][i] = queue[conn][i + l]
      BY <1>9, <3>1
    <3>4. \A i \in Nat : BatchAt(i)' => /\ i + k \in Nat /\ BatchAt(i + k)
                                        /\ wire'[conn][i] = wire[conn][i + k]
      BY <2>3, <3>2 DEF BatchAt
    <3>5. \A i \in Nat : AckAt(i)' => /\ i + l \in Nat /\ AckAt(i + l)
                                      /\ queue'[conn][i] = queue[conn][i + l]
      BY <2>3, <3>3 DEF AckAt
    <3>6. Busy(conn)' => Busy(conn) /\ gate'[conn].msg = gate[conn].msg
      BY <1>10, <2>3, <3>1 DEF Busy
    <3>7. \A id : Underway(id, flight, agent.sent) => Underway(id, flight', agent'.sent)
      BY <2>3, <3>1 DEF Underway
    <3>8. /\ \A i \in Nat : BatchAt(i) => /\ Underway(wire[conn][i].id, flight, agent.sent) /\ ~Busy(conn)
                                          /\ \A j \in Nat : BatchAt(j) => i = j
                                          /\ \A j \in Nat : ~AckAt(j)
          /\ Busy(conn) => Underway(gate[conn].msg.id, flight, agent.sent) /\ \A j \in Nat : ~AckAt(j)
          /\ \A i \in Nat : AckAt(i) => /\ Underway(queue[conn][i].id, flight, agent.sent)
                                        /\ \A j \in Nat : AckAt(j) => i = j
      BY <1>1, <2>3 DEF OnePlace
    <3>9. ASSUME NEW i \in Nat, BatchAt(i)'
          PROVE  /\ Underway(wire'[conn][i].id, flight', agent'.sent) /\ ~Busy(conn)'
                 /\ \A j \in Nat : BatchAt(j)' => i = j
                 /\ \A j \in Nat : ~AckAt(j)'
      <4>1. BatchAt(i + k) /\ i + k \in Nat /\ wire'[conn][i] = wire[conn][i + k]
        BY <3>4, <3>9
      <4>2. Underway(wire'[conn][i].id, flight', agent'.sent) /\ ~Busy(conn)'
        BY <4>1, <3>6, <3>7, <3>8
      <4>3. \A j \in Nat : BatchAt(j)' => i = j
        <5> TAKE j \in Nat
        <5> HAVE BatchAt(j)'
        <5>1. BatchAt(j + k) /\ j + k \in Nat
          BY <3>4
        <5>2. i + k = j + k
          BY <4>1, <5>1, <3>8
        <5> QED  BY <5>2
      <4>4. \A j \in Nat : ~AckAt(j)'
        BY <4>1, <3>5, <3>8
      <4> QED  BY <4>2, <4>3, <4>4
    <3>10. Busy(conn)' => Underway(gate'[conn].msg.id, flight', agent'.sent) /\ \A j \in Nat : ~AckAt(j)'
      BY <3>5, <3>6, <3>7, <3>8
    <3>11. ASSUME NEW i \in Nat, AckAt(i)'
           PROVE  Underway(queue'[conn][i].id, flight', agent'.sent) /\ \A j \in Nat : AckAt(j)' => i = j
      <4>1. AckAt(i + l) /\ i + l \in Nat /\ queue'[conn][i] = queue[conn][i + l]
        BY <3>5, <3>11
      <4>2. Underway(queue'[conn][i].id, flight', agent'.sent)
        BY <4>1, <3>7, <3>8
      <4>3. \A j \in Nat : AckAt(j)' => i = j
        <5> TAKE j \in Nat
        <5> HAVE AckAt(j)'
        <5>1. AckAt(j + l) /\ j + l \in Nat
          BY <3>5
        <5>2. i + l = j + l
          BY <4>1, <5>1, <3>8
        <5> QED  BY <5>2
      <4> QED  BY <4>2, <4>3
    <3>12. OnePlace'
      BY <2>3, <3>9, <3>10, <3>11 DEF OnePlace
    <3>13. gate'[conn].task = "ROUTED" => gate[conn].task = "ROUTED"
      BY <1>10, <3>1
    <3>14. (\E i \in Nat : AckAt(i)') => \E i \in Nat : AckAt(i)
      BY <3>5
    <3> QED  BY <2>3, <3>12, <3>13, <3>14
  <2> QED  BY <2>1, <2>2, <2>3 DEF Calm
<1>13. Reports'
  <2>1. \A x \in Markers(flight'.rows) : flight' = flight
    BY <1>2 DEF Markers, NoBatch
  <2>2. agent'.phase # "OFF" /\ (gate'[conn'].task = "ROUTED" \/ \E i \in Nat : AckAt(i)') =>
            \A x \in Markers(flight'.rows) : reported' = x.total
    BY <1>1, <1>2, <1>12, <2>1 DEF Reports
  <2>3. ASSUME hub' # 0, Markers(rows') = {}
        PROVE  /\ \A i \in 1..Len(wire'[hub']) : Markers(wire'[hub'][i].rows) = {}
               /\ gate'[hub'].task = "RECEIVED" => Markers(gate'[hub'].msg.rows) = {}
    <3>1. hub' \in Conn
      BY <2>3 DEF NetTypes, Conn
    <3>2. CASE wire'[hub'] = <<>> /\ gate'[hub'].task = "IDLE"
      BY <3>2
    <3>3. CASE hub' = hub
      <4>1. /\ \A i \in 1..Len(wire[hub]) : Markers(wire[hub][i].rows) = {}
            /\ gate[hub].task = "RECEIVED" => Markers(gate[hub].msg.rows) = {}
        BY <1>1, <1>2, <2>3, <3>3 DEF Reports
      <4>2. ASSUME NEW i \in 1..Len(wire'[hub]) PROVE Markers(wire'[hub][i].rows) = {}
        <5>1. wire'[hub][i] \in UpMessage
          BY <3>1, <3>3 DEF NetTypes
        <5>2. CASE wire'[hub][i].kind = "EVENT_BATCH"
          BY <1>8, <3>1, <3>3, <4>1, <5>2
        <5>3. CASE wire'[hub][i] \in StatusMessage
          BY <5>3 DEF StatusMessage, Markers
        <5> QED  BY <5>1, <5>2, <5>3 DEF UpMessage, BatchMessage
      <4>3. gate'[hub].task = "RECEIVED" => Markers(gate'[hub].msg.rows) = {}
        BY <1>10, <3>1, <3>3, <4>1 DEF Markers
      <4> QED  BY <3>3, <4>2, <4>3
    <3> QED  BY <2>3, <3>2, <3>3 DEF Calm
  <2> QED  BY <1>1, <1>2, <2>2, <2>3 DEF Reports
<1> QED  BY <1>4, <1>5, <1>6, <1>7, <1>11, <1>12, <1>13 DEF Untouched

\* The same, part by part.
WireCalm  == /\ wire' \in [Conn -> Seq(UpMessage)]
             /\ \A c \in Conn : CarriedOver(wire'[c], wire[c], "EVENT_BATCH")
QueueCalm == /\ queue' \in [Conn -> Seq(DownMessage)]
             /\ \A c \in Conn : CarriedOver(queue'[c], queue[c], "EVENT_ACK")
GateCalm  == /\ gate' \in [Conn -> Gate]
             /\ \A c \in Conn : \/ gate'[c].task = "IDLE"
                                \/ gate'[c].task = gate[c].task /\ gate'[c].msg = gate[c].msg
GateMoves == /\ gate' \in [Conn -> Gate]
             /\ \A c \in Conn : \/ gate'[c].task = "IDLE"
                                \/ gate'[c].task = gate[c].task /\ gate'[c].msg = gate[c].msg
                                \/ gate'[c].task = "RECEIVED" /\ gate'[c].msg \in StatusMessage
AgentCalm == /\ agent' \in [phase : {"OFF", "HELLO", "SERVING"}, next : Nat, expect : Nat, sent : Nat]
             /\ agent'.phase = "OFF" => agent' = OffAgent
             /\ agent'.phase # "OFF" => agent.phase # "OFF" /\ agent'.sent = agent.sent

LEMMA MovesCalm ==
    ASSUME ChannelInv, UNCHANGED <<rows, meta, known, batches, routed, reported, masked, conn>>,
           flight' = flight \/ (flight' = NoBatch /\ agent'.phase = "OFF"),
           WireCalm, QueueCalm, GateMoves, AgentCalm, hub' \in {0, hub}
    PROVE  NetTypes' /\ Untouched'
<1>1. NetTypes
  BY DEF ChannelInv
<1>2. \A c \in Conn : /\ gate'[c].task # "IDLE" => gate'[c].msg \in UpMessage
                      /\ gate'[c].task = "ROUTED" => gate'[c].msg \in BatchMessage
  BY <1>1 DEF NetTypes, GateMoves, UpMessage, StatusMessage
<1>3. NetTypes'
  BY <1>1, <1>2 DEF NetTypes, GateMoves, AgentCalm, WireCalm, QueueCalm
<1>4. Calm
  BY DEF Calm, GateMoves, AgentCalm, WireCalm, QueueCalm
<1> QED  BY <1>3, <1>4, CalmKeeps

LEMMA CalmStep ==
    ASSUME ChannelInv, UNCHANGED <<rows, meta, known, batches, routed, reported, masked, conn>>,
           flight' = flight \/ (flight' = NoBatch /\ agent'.phase = "OFF"),
           WireCalm, QueueCalm, GateCalm, AgentCalm, hub' \in {0, hub}
    PROVE  NetTypes' /\ Untouched'
<1>1. GateMoves
  BY DEF GateCalm, GateMoves
<1> QED  BY <1>1, MovesCalm

LEMMA StatusesKept ==
    ASSUME Statuses, GateCalm, UNCHANGED <<msgJournal, handled>>
    PROVE  Statuses'
  BY DEF Statuses, GateCalm, Handling

LEMMA Unmoved ==
    ASSUME NetTypes
    PROVE  /\ UNCHANGED wire => WireCalm
           /\ UNCHANGED queue => QueueCalm
           /\ UNCHANGED gate => GateCalm
           /\ UNCHANGED agent => AgentCalm
<1>1. UNCHANGED wire => WireCalm
  BY CarriedSame DEF WireCalm, NetTypes
<1>2. UNCHANGED queue => QueueCalm
  BY CarriedSame DEF QueueCalm, NetTypes
<1> QED  BY <1>1, <1>2 DEF GateCalm, AgentCalm, NetTypes

LEMMA IdleTypes ==
    /\ IdleGate \in Gate /\ IdleGate.task = "IDLE" /\ IdleGate.msg = NoMessage
    /\ \A p \in {"NONE", "ATTACHED", "RUNNING", "CLOSED"} :
          /\ [IdleGate EXCEPT !.phase = p] \in Gate
          /\ [IdleGate EXCEPT !.phase = p].task = "IDLE"
    /\ OffAgent \in [phase : {"OFF", "HELLO", "SERVING"}, next : Nat, expect : Nat, sent : Nat]
    /\ OffAgent.phase = "OFF" /\ OffAgent.sent = 0
<1>1. IdleGate \in Gate /\ IdleGate.task = "IDLE" /\ IdleGate.msg = NoMessage
  BY DEF IdleGate, Gate
<1>2. ASSUME NEW p \in {"NONE", "ATTACHED", "RUNNING", "CLOSED"}
      PROVE  [IdleGate EXCEPT !.phase = p] \in Gate /\ [IdleGate EXCEPT !.phase = p].task = "IDLE"
  BY <1>1 DEF Gate
<1> QED  BY <1>1, <1>2 DEF OffAgent

LEMMA HungUp ==
    ASSUME NetTypes, HangUp
    PROVE  QueueCalm /\ AgentCalm /\ agent'.phase = "OFF"
<1>1. AgentCalm /\ agent'.phase = "OFF"
  BY IdleTypes DEF AgentCalm, HangUp
<1>2. CASE conn = 0
  BY <1>1, <1>2, Unmoved DEF HangUp
<1>3. CASE conn # 0
  <2>1. queue' = [queue EXCEPT ![conn] = <<>>]
    BY <1>3 DEF HangUp
  <2>2. queue' \in [Conn -> Seq(DownMessage)]
    <3>1. queue \in [Conn -> Seq(DownMessage)] /\ <<>> \in Seq(DownMessage)
      BY DEF NetTypes
    <3> QED  BY <2>1, <3>1
  <2>3. \A c \in Conn : queue[c] \in Seq(DownMessage) /\ (queue'[c] = queue[c] \/ queue'[c] = <<>>)
    BY <2>1 DEF NetTypes
  <2>4. \A c \in Conn : CarriedOver(queue'[c], queue[c], "EVENT_ACK")
    BY <2>3, CarriedSame
  <2> QED  BY <1>1, <2>2, <2>4 DEF QueueCalm
<1> QED  BY <1>2, <1>3

LEMMA Closed ==
    ASSUME NetTypes, NEW c \in Conn, CloseGate(c)
    PROVE  WireCalm /\ GateCalm
<1>1. /\ wire' \in [Conn -> Seq(UpMessage)]
      /\ \A d \in Conn : wire[d] \in Seq(UpMessage) /\ (wire'[d] = wire[d] \/ wire'[d] = <<>>)
  BY DEF NetTypes, CloseGate
<1>2. \A d \in Conn : CarriedOver(wire'[d], wire[d], "EVENT_BATCH")
  BY <1>1, CarriedSame
<1>3. GateCalm
  BY IdleTypes DEF NetTypes, CloseGate, GateCalm
<1> QED  BY <1>1, <1>2, <1>3 DEF WireCalm

LEMMA Pushed ==
    ASSUME NetTypes, NEW c \in Conn, NEW kind \in {"WELCOME", "PUSH"},
           queue' = Enqueued(c, kind, 0, 0)
    PROVE  QueueCalm
<1> DEFINE x == [kind |-> kind, id |-> 0, mark |-> 0, seq |-> gate[c].sentTo + 1]
<1>1. CASE queue' = queue
  BY <1>1, Unmoved
<1>2. CASE queue' = [queue EXCEPT ![c] = Append(queue[c], x)]
  <2>1. x \in DownMessage /\ x.kind # "EVENT_ACK"
    BY DEF NetTypes, Gate, DownMessage
  <2> HIDE DEF x
  <2>2. queue[c] \in Seq(DownMessage)
    BY DEF NetTypes
  <2>3. Append(queue[c], x) \in Seq(DownMessage) /\ CarriedOver(Append(queue[c], x), queue[c], "EVENT_ACK")
    BY <2>1, <2>2, AppendPlaces, CarriedAppend
  <2>4. \A d \in Conn : queue[d] \in Seq(DownMessage) /\ CarriedOver(queue[d], queue[d], "EVENT_ACK")
    BY CarriedSame DEF NetTypes
  <2> QED  BY <1>2, <2>3, <2>4 DEF NetTypes, QueueCalm
<1> QED  BY <1>1, <1>2 DEF Enqueued

\* What is left to show of a calm step.
LEMMA CalmDone ==
    ASSUME NetTypes', Untouched', StatusTypes', Statuses'
    PROVE  ChannelInv'
  BY DEF Untouched, ChannelInv

LEMMA QueueStatusKeeps ==
    ASSUME ChannelInv, NEW s \in Status, QueueStatus(s)
    PROVE  ChannelInv'
<1>1. NetTypes /\ StatusTypes /\ Statuses
  BY DEF ChannelInv
<1>2. /\ outbox' = Append(outbox, s)
      /\ UNCHANGED <<rows, meta, known, flight, batches, conn, agent, wire, queue, hub, gate,
                     msgJournal, routed, handled, reported, masked>>
  BY DEF QueueStatus
<1>3. NetTypes' /\ Untouched'
  BY <1>1, <1>2, Unmoved, CalmStep
<1>4. StatusTypes'
  BY <1>1, <1>2, AppendPlaces DEF StatusTypes
<1>5. Statuses'
  BY <1>1, <1>2, Unmoved, StatusesKept
<1> QED  BY <1>3, <1>4, <1>5, CalmDone

\* Of what is written to the socket the control plane gets all or nothing.
LEMMA Sent ==
    ASSUME NetTypes, conn # 0, NEW x \in UpMessage, Send(x)
    PROVE  /\ wire' \in [Conn -> Seq(UpMessage)]
           /\ \/ wire' = wire
              \/ wire' = [wire EXCEPT ![conn] = Append(wire[conn], x)]
           /\ x.kind # "EVENT_BATCH" => WireCalm
<1>1. conn \in Conn /\ wire \in [Conn -> Seq(UpMessage)] /\ wire[conn] \in Seq(UpMessage)
  BY DEF NetTypes, Conn
<1>2. CASE wire' = wire
  BY <1>1, <1>2, Unmoved
<1>3. CASE wire' = [wire EXCEPT ![conn] = Append(wire[conn], x)]
  <2>1. Append(wire[conn], x) \in Seq(UpMessage)
    BY <1>1, AppendPlaces
  <2>2. x.kind # "EVENT_BATCH" => CarriedOver(Append(wire[conn], x), wire[conn], "EVENT_BATCH")
    BY <1>1, CarriedAppend
  <2>3. \A d \in Conn : CarriedOver(wire[d], wire[d], "EVENT_BATCH")
    BY <1>1, CarriedSame
  <2> QED  BY <1>1, <1>3, <2>1, <2>2, <2>3 DEF WireCalm
<1> QED  BY <1>2, <1>3 DEF Send

LEMMA SendStatusKeeps ==
    ASSUME ChannelInv, SendStatus
    PROVE  ChannelInv'
<1>1. NetTypes /\ StatusTypes /\ Statuses
  BY DEF ChannelInv
<1> DEFINE x == [kind |-> "STATUS", id |-> Head(outbox), seq |-> agent.next, mark |-> 0, rows |-> {}]
<1>2. /\ agent.phase = "SERVING" /\ conn # 0 /\ agent.next \in Nat
      /\ outbox # <<>> /\ Send(x)
      /\ UNCHANGED <<rows, meta, known, flight, batches, conn, hub, gate,
                     msgJournal, routed, handled, reported, masked>>
  BY <1>1 DEF SendStatus, NetTypes
<1>3. Head(outbox) \in Status /\ Tail(outbox) \in Seq(Status)
  BY <1>1, <1>2, TailPlaces DEF StatusTypes
<1>4. x \in UpMessage /\ x.kind # "EVENT_BATCH"
  BY <1>2, <1>3 DEF UpMessage, StatusMessage
<1>5. WireCalm
  <2> HIDE DEF x
  <2> QED  BY <1>1, <1>2, <1>4, Sent
<1>6. QueueCalm /\ AgentCalm /\ StatusTypes'
  <2>1. CASE outbox' = Tail(outbox) /\ agent' = [agent EXCEPT !.next = @ + 1] /\ UNCHANGED queue
    <3>1. AgentCalm
      <4>1. agent \in [phase : {"OFF", "HELLO", "SERVING"}, next : Nat, expect : Nat, sent : Nat]
        BY <1>1 DEF NetTypes
      <4>2. /\ agent' \in [phase : {"OFF", "HELLO", "SERVING"}, next : Nat, expect : Nat, sent : Nat]
            /\ agent'.phase = "SERVING" /\ agent'.sent = agent.sent
        BY <1>2, <2>1, <4>1
      <4> QED  BY <1>2, <4>2 DEF AgentCalm
    <3> QED  BY <1>1, <1>2, <1>3, <2>1, <3>1, Unmoved DEF StatusTypes
  <2>2. CASE HangUp /\ UNCHANGED outbox
    BY <1>1, <1>2, <2>2, HungUp DEF StatusTypes
  <2> QED  BY <2>1, <2>2 DEF SendStatus
<1>7. NetTypes' /\ Untouched'
  BY <1>1, <1>2, <1>5, <1>6, Unmoved, CalmStep
<1>8. Statuses'
  BY <1>1, <1>2, Unmoved, StatusesKept
<1> QED  BY <1>6, <1>7, <1>8, CalmDone

LEMMA PushKeeps ==
    ASSUME ChannelInv, Push
    PROVE  ChannelInv'
<1>1. NetTypes /\ StatusTypes /\ Statuses
  BY DEF ChannelInv
<1>2. /\ hub \in Conn /\ queue' = Enqueued(hub, "PUSH", 0, 0)
      /\ gate' = [gate EXCEPT ![hub].sentTo = @ + 1]
      /\ UNCHANGED <<rows, meta, known, flight, batches, outbox, conn, agent, wire,
                     hub, msgJournal, routed, handled, reported, masked>>
  BY <1>1 DEF Push, NetTypes, Conn
<1>3. QueueCalm
  BY <1>1, <1>2, Pushed
<1>4. GateCalm
  <2>1. PICK g \in Gate : g = gate[hub]
    BY <1>1, <1>2 DEF NetTypes
  <2>2. /\ [g EXCEPT !.sentTo = @ + 1] \in Gate
        /\ [g EXCEPT !.sentTo = @ + 1].task = g.task /\ [g EXCEPT !.sentTo = @ + 1].msg = g.msg
    BY DEF Gate
  <2> QED  BY <1>1, <1>2, <2>1, <2>2 DEF GateCalm, NetTypes
<1>5. NetTypes' /\ Untouched'
  BY <1>1, <1>2, <1>3, <1>4, Unmoved, CalmStep
<1>6. Statuses' /\ StatusTypes'
  BY <1>1, <1>2, <1>4, StatusesKept DEF StatusTypes
<1> QED  BY <1>5, <1>6, CalmDone

LEMMA LinkEndsKeeps ==
    ASSUME ChannelInv, AgentLosesLink \/ AgentSeesClose \/ \E c \in Conn : ConnectionEnds(c)
    PROVE  ChannelInv'
<1>1. NetTypes /\ StatusTypes /\ Statuses
  BY DEF ChannelInv
<1>2. UNCHANGED <<rows, meta, known, flight, batches, outbox, conn, msgJournal, routed,
                  handled, reported, masked>>
  BY DEF AgentLosesLink, AgentSeesClose, ConnectionEnds
<1>3. WireCalm /\ QueueCalm /\ GateCalm /\ AgentCalm /\ hub' \in {0, hub}
  <2>1. CASE AgentLosesLink \/ AgentSeesClose
    BY <1>1, <2>1, HungUp, Unmoved DEF AgentLosesLink, AgentSeesClose
  <2>2. CASE \E c \in Conn : ConnectionEnds(c)
    BY <1>1, <2>2, Closed, Unmoved DEF ConnectionEnds, Detach
  <2> QED  BY <2>1, <2>2
<1>4. NetTypes' /\ Untouched'
  BY <1>2, <1>3, CalmStep
<1>5. Statuses' /\ StatusTypes'
  BY <1>1, <1>2, <1>3, StatusesKept DEF StatusTypes
<1> QED  BY <1>4, <1>5, CalmDone

LEMMA AgentProcessRestartsKeeps ==
    ASSUME ChannelInv, AgentProcessRestarts
    PROVE  ChannelInv'
<1>1. NetTypes /\ StatusTypes /\ Statuses
  BY DEF ChannelInv
<1>2. /\ HangUp /\ flight' = NoBatch /\ outbox' = <<>>
      /\ UNCHANGED <<rows, meta, known, batches, conn, wire, hub, gate, msgJournal, routed,
                     handled, reported, masked>>
  BY DEF AgentProcessRestarts
<1>3. WireCalm /\ QueueCalm /\ GateCalm /\ AgentCalm /\ agent'.phase = "OFF"
  BY <1>1, <1>2, HungUp, Unmoved
<1>4. NetTypes' /\ Untouched'
  BY <1>2, <1>3, CalmStep
<1>5. Statuses' /\ StatusTypes'
  BY <1>1, <1>2, <1>3, StatusesKept DEF StatusTypes
<1> QED  BY <1>4, <1>5, CalmDone

LEMMA ControlPlaneCrashesKeeps ==
    ASSUME ChannelInv, ControlPlaneCrashes
    PROVE  ChannelInv'
<1>1. NetTypes /\ StatusTypes /\ Statuses
  BY DEF ChannelInv
<1>2. /\ gate' = [c \in Conn |-> IF gate[c].phase = "NONE" THEN gate[c]
                                 ELSE [IdleGate EXCEPT !.phase = "CLOSED"]]
      /\ wire' = [c \in Conn |-> <<>>] /\ hub' = 0
      /\ UNCHANGED <<rows, meta, known, flight, batches, outbox, conn, agent, queue,
                     msgJournal, routed, handled, reported, masked>>
  BY DEF ControlPlaneCrashes
<1>3. WireCalm
  <2>1. \A c \in Conn : wire[c] \in Seq(UpMessage) /\ <<>> \in Seq(UpMessage)
    BY <1>1 DEF NetTypes
  <2> QED  BY <1>2, <2>1, CarriedSame DEF WireCalm
<1>4. GateCalm
  BY <1>1, <1>2, IdleTypes DEF GateCalm, NetTypes
<1>5. NetTypes' /\ Untouched'
  BY <1>1, <1>2, <1>3, <1>4, Unmoved, CalmStep
<1>6. Statuses' /\ StatusTypes'
  BY <1>1, <1>2, <1>4, StatusesKept DEF StatusTypes
<1> QED  BY <1>5, <1>6, CalmDone

\* A set of numbers has a least one.
LEMMA Least ==
    ASSUME NEW T \in SUBSET Nat, T # {}
    PROVE  \E x \in T : \A y \in T : x <= y
<1> DEFINE R == OpToRel(<, Nat)
<1>1. IsWellFoundedOn(R, Nat)
  BY Zenon, NatLessThanWellFounded
<1>2. \A x, y \in Nat : x < y => <<x, y>> \in R
  BY DEF OpToRel
<1> HIDE DEF R
<1>3. PICK x \in T : \A y \in T : <<y, x>> \notin R
  BY <1>1, WFMin
<1>4. \A y \in T : ~(y < x) /\ y \in Nat /\ x \in Nat
  BY <1>2, <1>3
<1> QED  BY <1>4

LEMMA GreetingIs ==
    /\ Greeting \in Seq(DownMessage) /\ Len(Greeting) = 2
    /\ \A i \in 1..Len(Greeting) : Greeting[i].kind # "EVENT_ACK"
    /\ \A s : CarriedOver(Greeting, s, "EVENT_ACK")
<1>1. Greeting \in Seq(DownMessage) /\ Len(Greeting) = 2
  BY DEF Greeting, DownMessage
<1>2. \A i \in 1..Len(Greeting) : Greeting[i].kind # "EVENT_ACK"
  BY DEF Greeting
<1> QED  BY <1>1, <1>2 DEF CarriedOver

LEMMA DialKeeps ==
    ASSUME ChannelInv, Dial
    PROVE  ChannelInv'
<1> DEFINE least == CHOOSE c \in Free : \A d \in Free : c <= d
<1>1. NetTypes /\ StatusTypes /\ Statuses
  BY DEF ChannelInv
<1>2. PICK c \in Conn : c = least
  <2>1. Free \in SUBSET Nat /\ Free # {} /\ Free \subseteq Conn
    BY DEF Dial, Free, Conn
  <2> QED  BY <2>1, Least
<1> HIDE DEF least
<1>3. /\ agent.phase = "OFF" /\ conn' = c /\ hub' = c /\ agent' = [agent EXCEPT !.phase = "HELLO"]
      /\ wire' = [wire EXCEPT ![c] = <<>>]
      /\ \/ /\ gate' = [gate EXCEPT ![c] = [IdleGate EXCEPT !.phase = "RUNNING",
                                                            !.expect = 2, !.sentTo = 2]]
            /\ queue' = [queue EXCEPT ![c] = Greeting]
         \/ /\ gate' = [gate EXCEPT ![c] = [IdleGate EXCEPT !.phase = "ATTACHED", !.expect = 2]]
            /\ queue' = [queue EXCEPT ![c] = <<>>]
      /\ UNCHANGED <<rows, meta, known, flight, batches, outbox, msgJournal, routed,
                     handled, reported, masked>>
  BY <1>2 DEF Dial, least
<1>4. /\ wire \in [Conn -> Seq(UpMessage)] /\ queue \in [Conn -> Seq(DownMessage)]
      /\ gate \in [Conn -> Gate] /\ agent = OffAgent /\ MaxConn \in Nat
  BY <1>1, <1>3, ChannelAssumption DEF NetTypes
<1>5. /\ wire' \in [Conn -> Seq(UpMessage)] /\ wire'[c] = <<>>
      /\ \A d \in Conn : CarriedOver(wire'[d], wire[d], "EVENT_BATCH")
  <2>1. \A d \in Conn : wire[d] \in Seq(UpMessage) /\ (wire'[d] = wire[d] \/ wire'[d] = <<>>)
    BY <1>3, <1>4
  <2> QED  BY <1>3, <1>4, <2>1, CarriedSame
<1>6. /\ queue' \in [Conn -> Seq(DownMessage)]
      /\ \A i \in 1..Len(queue'[c]) : queue'[c][i].kind # "EVENT_ACK"
      /\ \A d \in Conn : CarriedOver(queue'[d], queue[d], "EVENT_ACK")
  <2>1. \A d \in Conn : queue[d] \in Seq(DownMessage) /\ (d # c => queue'[d] = queue[d])
    BY <1>3, <1>4
  <2>2. queue'[c] = <<>> \/ queue'[c] = Greeting
    BY <1>3, <1>4
  <2>3. queue' \in [Conn -> Seq(DownMessage)]
    <3>1. <<>> \in Seq(DownMessage)
      OBVIOUS
    <3> QED  BY <1>3, <1>4, <3>1, GreetingIs
  <2>4. \A i \in 1..Len(queue'[c]) : queue'[c][i].kind # "EVENT_ACK"
    BY <2>2, GreetingIs
  <2>5. ASSUME NEW d \in Conn PROVE CarriedOver(queue'[d], queue[d], "EVENT_ACK")
    <3>1. CASE d = c
      BY <2>1, <2>2, <3>1, GreetingIs, CarriedSame
    <3>2. CASE d # c
      BY <2>1, <3>2, CarriedSame
    <3> QED  BY <3>1, <3>2
  <2> QED  BY <2>3, <2>4, <2>5
<1>7. /\ gate' \in [Conn -> Gate] /\ gate'[c].task = "IDLE" /\ \A d \in Conn \ {c} : gate'[d] = gate[d]
  <2>1. /\ [IdleGate EXCEPT !.phase = "RUNNING", !.expect = 2, !.sentTo = 2] \in Gate
        /\ [IdleGate EXCEPT !.phase = "RUNNING", !.expect = 2, !.sentTo = 2].task = "IDLE"
        /\ [IdleGate EXCEPT !.phase = "ATTACHED", !.expect = 2] \in Gate
        /\ [IdleGate EXCEPT !.phase = "ATTACHED", !.expect = 2].task = "IDLE"
    BY DEF IdleGate, Gate
  <2> QED  BY <1>3, <1>4, <2>1
<1>8. /\ agent' \in [phase : {"OFF", "HELLO", "SERVING"}, next : Nat, expect : Nat, sent : Nat]
      /\ agent'.phase = "HELLO"
  BY <1>3, <1>4, IdleTypes DEF OffAgent
<1>9. \A d \in Conn : /\ gate'[d].task # "IDLE" => gate'[d].msg \in UpMessage
                      /\ gate'[d].task = "ROUTED" => gate'[d].msg \in BatchMessage
  BY <1>1, <1>7 DEF NetTypes
<1>10. NetTypes'
  BY <1>3, <1>5, <1>6, <1>7, <1>8, <1>9 DEF NetTypes, Conn
<1>11. Calm
  <2>1. \A i \in Nat : ~BatchAt(i)' /\ ~AckAt(i)'
    BY <1>3, <1>5, <1>6 DEF BatchAt, AckAt
  <2> QED  BY <1>3, <1>5, <1>6, <1>7, <1>8, <2>1 DEF Calm
<1>12. Statuses' /\ StatusTypes'
  <2>1. GateCalm
    BY <1>7 DEF GateCalm
  <2> QED  BY <1>1, <1>3, <2>1, StatusesKept DEF StatusTypes
<1> QED  BY <1>10, <1>11, <1>12, CalmKeeps, CalmDone

LEMMA WelcomeKeeps ==
    ASSUME ChannelInv, NEW c \in Conn, Welcome(c)
    PROVE  ChannelInv'
<1>1. NetTypes /\ StatusTypes /\ Statuses
  BY DEF ChannelInv
<1>2. UNCHANGED <<rows, meta, known, flight, batches, outbox, conn, agent, msgJournal, routed,
                  handled, reported, masked>>
  BY DEF Welcome
<1>3. /\ queue \in [Conn -> Seq(DownMessage)] /\ gate \in [Conn -> Gate] /\ hub \in {0} \cup Conn
      /\ \A d \in Conn : CarriedOver(queue[d], queue[d], "EVENT_ACK")
  BY <1>1, CarriedSame DEF NetTypes, Conn
<1>4. ASSUME /\ gate' = [gate EXCEPT ![c] = [@ EXCEPT !.phase = "RUNNING", !.sentTo = 2]]
             /\ queue' = [queue EXCEPT ![c] = Greeting] /\ UNCHANGED <<hub, wire>>
      PROVE  WireCalm /\ GateCalm /\ QueueCalm /\ hub' \in {0, hub}
  <2>1. PICK g \in Gate : g = gate[c]
    BY <1>3
  <2>2. /\ [g EXCEPT !.phase = "RUNNING", !.sentTo = 2] \in Gate
        /\ [g EXCEPT !.phase = "RUNNING", !.sentTo = 2].task = g.task
        /\ [g EXCEPT !.phase = "RUNNING", !.sentTo = 2].msg = g.msg
    BY DEF Gate
  <2>3. GateCalm
    BY <1>3, <1>4, <2>1, <2>2 DEF GateCalm
  <2>4. QueueCalm
    BY <1>3, <1>4, GreetingIs DEF QueueCalm
  <2> QED  BY <1>1, <1>4, <2>3, <2>4, Unmoved
<1>5. ASSUME /\ queue' = [queue EXCEPT ![c] = <<[kind |-> "WELCOME", id |-> 0, mark |-> 0,
                                                 seq |-> gate[c].sentTo + 1]>>]
             /\ CloseGate(c) /\ Detach(c)
      PROVE  WireCalm /\ GateCalm /\ QueueCalm /\ hub' \in {0, hub}
  <2> DEFINE x == [kind |-> "WELCOME", id |-> 0, mark |-> 0, seq |-> gate[c].sentTo + 1]
  <2>1. x \in DownMessage /\ x.kind # "EVENT_ACK"
    BY <1>3 DEF Gate, DownMessage
  <2> HIDE DEF x
  <2>2. <<x>> \in Seq(DownMessage) /\ \A s : CarriedOver(<<x>>, s, "EVENT_ACK")
    BY <2>1 DEF CarriedOver
  <2>3. queue' = [queue EXCEPT ![c] = <<x>>]
    BY <1>5 DEF x
  <2>4. QueueCalm
    BY <1>3, <2>2, <2>3 DEF QueueCalm
  <2> QED  BY <1>1, <1>5, <2>4, Closed DEF Detach
<1>6. ASSUME /\ hub # c /\ hub # 0 /\ queue' = Enqueued(hub, "WELCOME", 0, 0)
             /\ gate' = [gate EXCEPT ![c] = [IdleGate EXCEPT !.phase = "CLOSED"], ![hub].sentTo = @ + 1]
             /\ UNCHANGED <<hub, wire>>
      PROVE  WireCalm /\ GateCalm /\ QueueCalm /\ hub' \in {0, hub}
  <2>1. hub \in Conn
    BY <1>3, <1>6
  <2>2. PICK g \in Gate : g = gate[hub]
    BY <1>3, <2>1
  <2>3. /\ [g EXCEPT !.sentTo = @ + 1] \in Gate
        /\ [g EXCEPT !.sentTo = @ + 1].task = g.task /\ [g EXCEPT !.sentTo = @ + 1].msg = g.msg
    BY DEF Gate
  <2>4. gate' = [gate EXCEPT ![c] = [IdleGate EXCEPT !.phase = "CLOSED"],
                             ![hub] = [g EXCEPT !.sentTo = @ + 1]]
    BY <1>3, <1>6, <2>1, <2>2
  <2>7. PICK h \in Gate : h = [IdleGate EXCEPT !.phase = "CLOSED"] /\ h.task = "IDLE"
    BY IdleTypes
  <2>8. PICK f \in Gate : f = [g EXCEPT !.sentTo = @ + 1] /\ f.task = g.task /\ f.msg = g.msg
    BY <2>3
  <2>9. gate' = [gate EXCEPT ![c] = h, ![hub] = f]
    BY <2>4, <2>7, <2>8
  <2>10. /\ gate' \in [Conn -> Gate] /\ gate'[c] = h /\ gate'[hub] = f
         /\ \A d \in Conn \ {c, hub} : gate'[d] = gate[d]
    <3>1. gate \in [Conn -> Gate] /\ c \in Conn /\ hub \in Conn /\ c # hub
      BY <1>3, <1>6, <2>1
    <3>2. gate' \in [Conn -> Gate]
      BY <2>9, <3>1
    <3>3. gate'[c] = h /\ gate'[hub] = f
      BY <2>9, <3>1
    <3> QED  BY <2>9, <3>1, <3>2, <3>3
  <2>5. GateCalm
    BY <2>2, <2>7, <2>8, <2>10 DEF GateCalm
  <2>6. QueueCalm
    BY <1>1, <1>6, <2>1, Pushed
  <2> QED  BY <1>1, <1>6, <2>5, <2>6, Unmoved
<1>7. ASSUME hub = 0 /\ CloseGate(c) /\ UNCHANGED <<queue, hub>>
      PROVE  WireCalm /\ GateCalm /\ QueueCalm /\ hub' \in {0, hub}
  BY <1>1, <1>7, Closed, Unmoved
<1>8. WireCalm /\ GateCalm /\ QueueCalm /\ hub' \in {0, hub}
  BY <1>4, <1>5, <1>6, <1>7 DEF Welcome
<1>9. NetTypes' /\ Untouched'
  BY <1>1, <1>2, <1>8, Unmoved, CalmStep
<1>10. Statuses' /\ StatusTypes'
  BY <1>1, <1>2, <1>8, StatusesKept DEF StatusTypes
<1> QED  BY <1>9, <1>10, CalmDone

-----------------------------------------------------------------------------
(* The Agent's reader, and the acknowledgement. *)

LEMMA AcknowledgedSound ==
    ASSUME Sound(rows, meta), NEW w \in Nat, AcknowledgeThrough(w)
    PROVE  /\ Sound(rows', meta') /\ rows' \subseteq rows
           /\ rows' = {x \in rows : x.seq > w}
           /\ Uncounted(meta') = Uncounted(meta)
           /\ meta'.next = meta.next /\ meta'.dropped = meta.dropped
<1> DEFINE last == [k \in Keys |-> IF meta.last[k] \in 1..w THEN NoKey ELSE meta.last[k]]
           flag == meta.marker /\ Markers(rows') # {}
<1>1. rows \subseteq RowSet /\ meta \in Meta /\ \A x \in rows : x.seq \in Nat
  BY DEF Sound, RowSet
<1>2. rows' = {x \in rows : x.seq > w}
  BY <1>1 DEF AcknowledgeThrough, Through
<1>3. last \in [Keys -> Nat] /\ \A k \in Keys : last[k] = meta.last[k] \/ last[k] = 0
  BY <1>1 DEF Meta, NoKey
<1>4. meta' = [[meta EXCEPT !.last = last] EXCEPT !.acked = w, !.marker = meta.marker /\ Markers(rows') # {}]
  <2>1. Forget(meta, 1..w) = [meta EXCEPT !.last = last]
    BY DEF Forget
  <2>2. [meta EXCEPT !.last = last].marker = meta.marker
    BY <1>1 DEF Meta
  <2> QED  BY <2>1, <2>2 DEF AcknowledgeThrough
<1> HIDE DEF last
<1>5. (meta.marker /\ Markers(rows') # {}) = (Markers(rows') # {})
  <2>1. Markers(rows') # {} => meta.marker
    BY <1>2 DEF Sound, Markers
  <2> QED  BY <2>1
<1>6. meta' = [[meta EXCEPT !.last = last] EXCEPT !.acked = w, !.marker = (Markers(rows') # {})]
  BY <1>4, <1>5
<1>7. PICK b \in BOOLEAN : b = (Markers(rows') # {})
  OBVIOUS
<1>8. /\ meta' \in Meta /\ meta'.next = meta.next /\ meta'.dropped = meta.dropped
      /\ meta'.coalesced = meta.coalesced /\ meta'.last = last /\ meta'.marker = b
  <2>1. PICK n \in Meta : n = [meta EXCEPT !.last = last]
    BY <1>1, <1>3 DEF Meta
  <2>2. /\ n.next = meta.next /\ n.dropped = meta.dropped
        /\ n.coalesced = meta.coalesced /\ n.last = last
    BY <1>1, <2>1 DEF Meta
  <2>3. meta' = [n EXCEPT !.acked = w, !.marker = b]
    BY <1>6, <1>7, <2>1
  <2> QED  BY <2>2, <2>3 DEF Meta
<1>9. meta'.marker <=> Markers(rows') # {}
  BY <1>7, <1>8
<1>10. rows' \subseteq rows /\ Markers(rows') \subseteq Markers(rows)
  BY <1>2 DEF Markers
<1>11. /\ \A x, y \in rows' : x.seq = y.seq => x = y
       /\ \A x, y \in Markers(rows') : x = y
  BY <1>10 DEF Sound
<1>12. \A x \in rows' : 0 < x.seq /\ x.seq < meta'.next
  BY <1>8, <1>10 DEF Sound
<1>13. \A k \in Keys : meta'.last[k] < meta'.next
  BY <1>1, <1>3, <1>8, CountsAre DEF Sound
<1>14. \A x \in Markers(rows') : \A k \in Keys : meta'.last[k] # x.seq
  <2>1. \A x \in Markers(rows') : 0 < x.seq /\ x.seq \in Nat /\ \A k \in Keys : meta.last[k] # x.seq
    BY <1>1, <1>10 DEF Sound, Markers
  <2> QED  BY <1>3, <1>8, <2>1
<1>15. \A x \in Markers(rows') : x.total = DroppedTotal(meta'.dropped)
  BY <1>8, <1>10 DEF Sound
<1>16. rows' \subseteq RowSet
  BY <1>1, <1>10
<1> QED  BY <1>2, <1>8, <1>9, <1>10, <1>11, <1>12, <1>13, <1>14, <1>15, <1>16 DEF Sound, Uncounted

LEMMA ConsumedCalm ==
    ASSUME NetTypes, agent.phase # "OFF", queue[conn] # <<>>, Consumed
    PROVE  /\ QueueCalm /\ AgentCalm /\ conn \in Conn
           /\ queue[conn] \in Seq(DownMessage) /\ queue'[conn] = Tail(queue[conn])
           /\ Head(queue[conn]) = queue[conn][1] /\ queue[conn][1] \in DownMessage
           /\ 1 \in 1..Len(queue[conn])
<1>1. /\ conn \in Conn /\ queue \in [Conn -> Seq(DownMessage)] /\ queue[conn] \in Seq(DownMessage)
      /\ agent \in [phase : {"OFF", "HELLO", "SERVING"}, next : Nat, expect : Nat, sent : Nat]
  BY DEF NetTypes, Conn
<1>2. /\ agent' \in [phase : {"OFF", "HELLO", "SERVING"}, next : Nat, expect : Nat, sent : Nat]
      /\ agent'.phase = "SERVING" /\ agent'.sent = agent.sent
  <2>1. PICK a \in [phase : {"OFF", "HELLO", "SERVING"}, next : Nat, expect : Nat, sent : Nat] : a = agent
    BY <1>1
  <2>2. PICK n \in Nat : n = a.expect + 1
    OBVIOUS
  <2>3. agent' = [a EXCEPT !.expect = n, !.phase = "SERVING"]
    BY <2>1, <2>2 DEF Consumed
  <2> QED  BY <2>1, <2>2, <2>3
<1>3. queue' = [queue EXCEPT ![conn] = Tail(queue[conn])]
  BY DEF Consumed
<1>4. /\ Tail(queue[conn]) \in Seq(DownMessage)
      /\ CarriedOver(Tail(queue[conn]), queue[conn], "EVENT_ACK")
  BY <1>1, TailPlaces, CarriedTail
<1>5. \A d \in Conn : CarriedOver(queue[d], queue[d], "EVENT_ACK")
  BY <1>1, CarriedSame
<1>6. QueueCalm
  BY <1>1, <1>3, <1>4, <1>5 DEF QueueCalm
<1> QED  BY <1>1, <1>2, <1>3, <1>6, TailPlaces DEF AgentCalm

\* The Agent accepts an acknowledgement.
Accepts == LET m == Head(queue[conn])
           IN /\ agent.phase # "OFF" /\ queue[conn] # <<>> /\ m.kind = "EVENT_ACK"
              /\ flight.id # 0 /\ AckAccepted(m) /\ AcknowledgeThrough(m.mark)
              /\ masked' = (masked \/ \E now \in Markers(Through(rows, m.mark)), sent \in flight.rows :
                               now.seq = sent.seq /\ now.total > sent.total)
              /\ flight' = NoBatch /\ Consumed
              /\ UNCHANGED <<known, batches, outbox, conn, wire, hub, gate, msgJournal, routed,
                             handled, reported>>

LEMMA AcceptsKeeps ==
    ASSUME ChannelInv, Accepts
    PROVE  ChannelInv'
<1>1. /\ FlightTypes /\ NetTypes /\ StatusTypes
      /\ BufferInv /\ FlightInv /\ Messages /\ OnePlace /\ Reports /\ Statuses /\ NoSilentLoss
  BY DEF ChannelInv
<1> DEFINE w == flight.mark
<1>2. /\ agent.phase # "OFF" /\ queue[conn] # <<>> /\ Head(queue[conn]).kind = "EVENT_ACK"
      /\ flight.id # 0 /\ Head(queue[conn]).id = flight.id /\ Head(queue[conn]).mark = w
      /\ AcknowledgeThrough(w) /\ flight' = NoBatch /\ Consumed
      /\ masked' = (masked \/ \E now \in Markers(Through(rows, w)), sent \in flight.rows :
                       now.seq = sent.seq /\ now.total > sent.total)
      /\ UNCHANGED <<known, batches, outbox, conn, wire, hub, gate, msgJournal, routed,
                     handled, reported>>
  BY DEF Accepts, AckAccepted
<1>3. /\ QueueCalm /\ AgentCalm /\ conn \in Conn
      /\ queue[conn] \in Seq(DownMessage) /\ queue'[conn] = Tail(queue[conn])
      /\ queue[conn][1].kind = "EVENT_ACK" /\ queue[conn][1].id = flight.id
      /\ queue[conn][1].mark = w /\ 1 \in 1..Len(queue[conn])
  BY <1>1, <1>2, ConsumedCalm
<1>4. /\ flight \in [id : Nat, mark : Nat, rows : SUBSET RowSet] /\ w \in Nat
      /\ rows \subseteq RowSet /\ flight.rows \subseteq RowSet
  BY <1>1 DEF FlightTypes, BufferInv, Sound
<1>5. /\ Sound(rows', meta') /\ rows' = {x \in rows : x.seq > w}
      /\ Uncounted(meta') = Uncounted(meta)
      /\ meta'.next = meta.next /\ meta'.dropped = meta.dropped
  BY <1>1, <1>2, <1>4, AcknowledgedSound DEF BufferInv
<1>6. AckAt(1) /\ \A i \in Nat : ~BatchAt(i) /\ (AckAt(i) => i = 1)
  <2>1. AckAt(1)
    BY <1>3 DEF AckAt
  <2> QED  BY <1>1, <1>2, <2>1 DEF OnePlace
<1>7. ~Busy(conn)
  BY <1>1, <1>2, <1>6 DEF OnePlace
<1>8. EventsOf(flight.rows) \subseteq routed
  BY <1>1, <1>3 DEF Messages, Covers
<1>9. ASSUME NEW x \in rows, x.seq <= w
      PROVE  \E y \in flight.rows : y.seq = x.seq /\ y.event = x.event /\ y.total <= x.total
  BY <1>1, <1>2, <1>9 DEF FlightInv
<1>10. FlightTypes' /\ StatusTypes'
  BY <1>1, <1>2 DEF FlightTypes, StatusTypes, NoBatch
<1>11. BufferInv'
  BY <1>1, <1>2, <1>5 DEF BufferInv
<1>12. FlightInv'
  <2>1. meta.next \in Nat /\ 0 < meta.next
    BY <1>1, CountsAre DEF BufferInv, Sound
  <2> QED  BY <1>2, <1>5, <2>1 DEF FlightInv, NoBatch, Markers
<1>13. NetTypes'
  BY <1>1, <1>2, <1>3 DEF NetTypes, QueueCalm, AgentCalm
<1>14. Messages'
  <2>1. \A m : Carries(m, batches, flight) => Carries(m, batches', flight')
    BY <1>1, <1>2 DEF Carries, FlightTypes, NoBatch
  <2>2. \A m : Covers(m, batches, flight, routed) => Covers(m, batches', flight', routed')
    BY <1>1, <1>2 DEF Covers, FlightTypes, NoBatch
  <2>3. ASSUME NEW c \in Conn, NEW i \in 1..Len(queue'[c]), queue'[c][i].kind = "EVENT_ACK"
        PROVE  Covers(queue'[c][i], batches', flight', routed')
    <3>1. \E k \in {0, 1} : i + k \in 1..Len(queue[c]) /\ queue'[c][i] = queue[c][i + k]
      BY <1>3, <2>3 DEF QueueCalm, CarriedOver
    <3> QED  BY <1>1, <2>2, <2>3, <3>1 DEF Messages
  <2>4. ASSUME NEW c \in Conn
        PROVE  /\ \A i \in 1..Len(wire'[c]) : wire'[c][i].kind = "EVENT_BATCH" =>
                      Carries(wire'[c][i], batches', flight')
               /\ Busy(c)' => Carries(gate'[c].msg, batches', flight')
               /\ gate'[c].task = "ROUTED" => EventsOf(gate'[c].msg.rows) \subseteq routed'
    BY <1>1, <1>2, <2>1 DEF Messages, Busy
  <2> QED  BY <2>3, <2>4 DEF Messages
<1>15. \A i \in Nat : ~AckAt(i)' /\ ~BatchAt(i)'
  <2>1. \A i \in Nat : ~BatchAt(i)'
    BY <1>2, <1>6 DEF BatchAt
  <2>2. ASSUME NEW i \in Nat, AckAt(i)' PROVE FALSE
    <3>1. i \in 1..Len(Tail(queue[conn])) /\ Tail(queue[conn])[i].kind = "EVENT_ACK"
      BY <1>2, <1>3, <2>2 DEF AckAt
    <3>2. i + 1 \in 1..Len(queue[conn]) /\ queue[conn][i + 1].kind = "EVENT_ACK"
      BY <1>2, <1>3, <3>1, TailPlaces
    <3>3. AckAt(i + 1) /\ i + 1 # 1
      BY <3>1, <3>2 DEF AckAt
    <3> QED  BY <1>6, <3>3
  <2> QED  BY <2>1, <2>2
<1>16. OnePlace'
  BY <1>2, <1>7, <1>15 DEF OnePlace, Busy
<1>17. Statuses'
  BY <1>1, <1>2 DEF Statuses, Handling
<1>18. NoSilentLoss'
  <2>1. Lost(known', rows', routed') \subseteq Lost(known, rows, routed)
    <3>1. \A x \in rows : x.seq \in Nat
      BY <1>4 DEF RowSet
    <3>2. \A x \in rows : x.event \in EventsOf(rows') \/ x.event \in routed
      BY <1>4, <1>5, <1>8, <1>9, <3>1 DEF EventsOf
    <3> QED  BY <1>2, <3>2 DEF Lost, EventsOf
  <2>2. Uncounted(meta) \in Nat /\ Cardinality(Lost(known, rows, routed)) <= Uncounted(meta)
    BY <1>1, LostAre, CountsAre DEF BufferInv, Sound
  <2>3. Cardinality(Lost(known', rows', routed')) <= Uncounted(meta)
    BY ONLY <2>1, <2>2, NoMoreLost
  <2>4. Cardinality(Lost(known', rows', routed')) <= Uncounted(meta')
    BY <2>3, <1>5
  <2> QED  BY <2>4 DEF NoSilentLoss, Lost, Uncounted, Held
<1>19. Reports'
  <2>1. masked' \in BOOLEAN /\ reported' \in Nat
    BY <1>1, <1>2 DEF Reports
  <2>2. ASSUME Markers(rows') = {}, ~masked' PROVE reported' = DroppedTotal(meta'.dropped)
    <3>1. ~masked
      BY <1>2, <2>2
    <3>2. CASE Markers(rows) = {}
      BY <1>1, <1>2, <1>5, <3>1, <3>2 DEF Reports
    <3>3. CASE Markers(rows) # {}
      <4>1. PICK x \in Markers(rows) : TRUE
        BY <3>3
      <4>2. x \in rows /\ x.event = Marker /\ x.seq \in Nat /\ x.total \in Nat
        BY <1>4, <4>1 DEF Markers, RowSet
      <4>3. x.seq <= w
        BY <1>4, <1>5, <2>2, <4>2 DEF Markers
      <4>4. PICK y \in flight.rows : y.seq = x.seq /\ y.event = x.event /\ y.total <= x.total
        BY <1>9, <4>2, <4>3
      <4>5. y.total \in Nat /\ y \in Markers(flight.rows)
        BY <1>4, <4>2, <4>4 DEF RowSet, Markers
      <4>6. x \in Markers(Through(rows, w))
        BY <4>2, <4>3 DEF Markers, Through
      <4>7. ~(x.total > y.total)
        BY <1>2, <2>2, <4>4, <4>6
      <4>8. reported = y.total
        BY <1>1, <1>2, <1>6, <4>5 DEF Reports
      <4>9. x.total = DroppedTotal(meta.dropped)
        BY <1>1, <4>1 DEF BufferInv, Sound
      <4> QED  BY <1>2, <1>5, <4>2, <4>4, <4>5, <4>7, <4>8, <4>9
    <3> QED  BY <3>2, <3>3
  <2>3. \A x \in Markers(flight'.rows) : reported' = x.total
    BY <1>2 DEF Markers, NoBatch
  <2>4. ASSUME hub' # 0
        PROVE  /\ \A i \in 1..Len(wire'[hub']) : Markers(wire'[hub'][i].rows) = {}
               /\ gate'[hub'].task = "RECEIVED" => Markers(gate'[hub'].msg.rows) = {}
    <3>1. hub' = conn /\ wire' = wire /\ gate' = gate /\ wire[conn] \in Seq(UpMessage)
      BY <1>1, <1>2, <1>3, <2>4 DEF NetTypes
    <3>2. \A m \in UpMessage : m.kind # "EVENT_BATCH" => Markers(m.rows) = {}
      BY DEF UpMessage, BatchMessage, StatusMessage, Markers
    <3>3. ASSUME NEW i \in 1..Len(wire[conn]) PROVE Markers(wire[conn][i].rows) = {}
      <4>1. wire[conn][i] \in UpMessage /\ i \in Nat
        BY <3>1
      <4>2. wire[conn][i].kind # "EVENT_BATCH"
        BY <1>6, <4>1 DEF BatchAt
      <4> QED  BY <3>2, <4>1, <4>2
    <3>4. gate[conn].task = "RECEIVED" => Markers(gate[conn].msg.rows) = {}
      BY <1>1, <1>3, <1>7, <3>2 DEF NetTypes, Busy
    <3> QED  BY <3>1, <3>3, <3>4
  <2> QED  BY <2>1, <2>2, <2>3, <2>4 DEF Reports
<1> QED  BY <1>10, <1>11, <1>12, <1>13, <1>14, <1>16, <1>17, <1>18, <1>19 DEF ChannelInv

LEMMA AgentReceiveKeeps ==
    ASSUME ChannelInv, AgentReceive
    PROVE  ChannelInv'
<1>1. NetTypes /\ StatusTypes /\ Statuses
  BY DEF ChannelInv
<1> DEFINE calm == UNCHANGED <<rows, meta, flight, lastAck, masked>>
<1>2. /\ agent.phase # "OFF" /\ queue[conn] # <<>>
      /\ UNCHANGED <<known, batches, outbox, conn, wire, hub, gate, msgJournal, routed,
                     handled, reported>>
      /\ \/ HangUp /\ calm
         \/ Consumed /\ calm
         \/ Accepts
  BY DEF AgentReceive, ReceiveAck, Accepts
<1>3. ASSUME QueueCalm, AgentCalm, calm
      PROVE  ChannelInv'
  <2>1. NetTypes' /\ Untouched'
    BY <1>1, <1>2, <1>3, Unmoved, CalmStep
  <2>2. Statuses' /\ StatusTypes'
    BY <1>1, <1>2, Unmoved, StatusesKept DEF StatusTypes
  <2> QED  BY <2>1, <2>2, CalmDone
<1>4. CASE HangUp /\ calm
  BY <1>1, <1>3, <1>4, HungUp
<1>5. CASE Consumed /\ calm
  BY <1>1, <1>2, <1>3, <1>5, ConsumedCalm
<1>6. CASE Accepts
  BY <1>6, AcceptsKeeps
<1> QED  BY <1>2, <1>4, <1>5, <1>6

-----------------------------------------------------------------------------
(* The Agent's writer. *)

LEMMA PeekedSound ==
    ASSUME Sound(rows, meta), Peek
    PROVE  /\ Sound(rows, meta') /\ Uncounted(meta') = Uncounted(meta)
           /\ meta'.next = meta.next /\ meta'.dropped = meta.dropped
<1>1. PICK w \in {meta.peeked} \cup {row.seq : row \in PeekedRows} : meta' = [meta EXCEPT !.peeked = w]
  BY DEF Peek
<1>2. w \in Nat
  BY <1>1 DEF Sound, Meta, PeekedRows, RowSet
<1>3. /\ meta' \in Meta /\ meta'.next = meta.next /\ meta'.dropped = meta.dropped
      /\ meta'.coalesced = meta.coalesced /\ meta'.last = meta.last /\ meta'.marker = meta.marker
  BY <1>1, <1>2 DEF Sound, Meta
<1> QED  BY <1>3 DEF Sound, Uncounted

\* The batch that is sent: new, cut from the buffer, or the one in flight again.
Fetched ==
    \/ /\ flight.id = 0 /\ batches' = batches + 1 /\ Peek
       /\ \E last \in PeekedRows : flight' = BatchThrough(batches + 1, last)
    \/ /\ flight.id # 0 /\ agent.sent # flight.id /\ UNCHANGED <<flight, meta, batches>>

LEMMA FetchedBatch ==
    ASSUME ChannelInv, UNCHANGED <<rows, known, routed>>, Fetched
    PROVE  /\ FlightTypes' /\ BufferInv' /\ FlightInv' /\ NoSilentLoss'
           /\ flight'.id \in 1..batches'
           /\ meta'.dropped = meta.dropped
           /\ \A m : Carries(m, batches, flight) => Carries(m, batches', flight')
           /\ \A m : Covers(m, batches, flight, routed) => Covers(m, batches', flight', routed')
           /\ ~Underway(flight.id, flight, agent.sent)
           /\ flight.id # 0 => flight' = flight
<1>1. FlightTypes /\ BufferInv /\ FlightInv /\ NoSilentLoss
  BY DEF ChannelInv
<1>2. CASE flight.id # 0 /\ agent.sent # flight.id /\ UNCHANGED <<flight, meta, batches>>
  <2>1. FlightTypes' /\ BufferInv' /\ FlightInv' /\ NoSilentLoss'
    BY <1>1, <1>2 DEF FlightTypes, BufferInv, FlightInv, NoSilentLoss, Held
  <2>2. flight'.id \in 1..batches'
    BY <1>1, <1>2 DEF FlightTypes
  <2> QED  BY <1>2, <2>1, <2>2 DEF Underway
<1>3. ASSUME flight.id = 0, batches' = batches + 1, Peek,
             NEW last \in PeekedRows, flight' = BatchThrough(batches + 1, last)
      PROVE  /\ FlightTypes' /\ BufferInv' /\ FlightInv' /\ NoSilentLoss'
             /\ flight'.id \in 1..batches'
             /\ meta'.dropped = meta.dropped
             /\ \A m : Carries(m, batches, flight) => Carries(m, batches', flight')
             /\ \A m : Covers(m, batches, flight, routed) => Covers(m, batches', flight', routed')
  <2>1. /\ Sound(rows, meta') /\ Uncounted(meta') = Uncounted(meta)
        /\ meta'.next = meta.next /\ meta'.dropped = meta.dropped
    BY <1>1, <1>3, PeekedSound DEF BufferInv
  <2>2. /\ rows \subseteq RowSet /\ last \in rows /\ last.seq \in Nat /\ last.seq < meta.next
        /\ batches \in Nat /\ routed \subseteq EventNames
    BY <1>1 DEF PeekedRows, BufferInv, Sound, RowSet, FlightTypes
  <2>3. /\ flight'.id = batches + 1 /\ flight'.mark = last.seq
        /\ flight'.rows = Through(rows, last.seq)
        /\ flight' \in [id : Nat, mark : Nat, rows : SUBSET RowSet]
    <3>1. Through(rows, last.seq) \in SUBSET RowSet
      BY <2>2 DEF Through
    <3> QED  BY <1>3, <2>2, <3>1 DEF BatchThrough
  <2>4. FlightTypes'
    BY <1>3, <2>2, <2>3 DEF FlightTypes
  <2>5. BufferInv'
    BY <1>1, <2>1 DEF BufferInv
  <2>6. FlightInv'
    <3>1. \A x, y \in Markers(rows) : x = y
      BY <1>1 DEF BufferInv, Sound
    <3>2. \A x \in rows : x.seq <= last.seq => x \in flight'.rows /\ x.total <= x.total
      BY <2>2, <2>3 DEF Through, RowSet
    <3>3. flight'.rows \subseteq rows /\ flight'.id # 0 /\ UNCHANGED rows
      BY <2>2, <2>3 DEF Through
    <3>4. /\ \A x, y \in Markers(flight'.rows) : x = y
          /\ Markers(flight'.rows) # {} => Markers(rows') # {}
      BY <3>1, <3>3 DEF Markers
    <3> QED  BY <2>1, <2>2, <2>3, <3>2, <3>3, <3>4 DEF FlightInv
  <2>7. NoSilentLoss'
    BY <1>1, <2>1 DEF NoSilentLoss, Uncounted, Held
  <2>8. \A m : m.id \in 1..batches => m.id # flight'.id /\ m.id \in 1..batches'
    BY <1>3, <2>2, <2>3
  <2> QED  BY <1>3, <2>1, <2>2, <2>3, <2>4, <2>5, <2>6, <2>7, <2>8 DEF Carries, Covers
<1> QED  BY <1>2, <1>3 DEF Fetched, Underway

LEMMA SendBatchKeeps ==
    ASSUME ChannelInv, SendBatch
    PROVE  ChannelInv'
<1>1. /\ FlightTypes /\ NetTypes /\ StatusTypes
      /\ BufferInv /\ FlightInv /\ Messages /\ OnePlace /\ Reports /\ Statuses /\ NoSilentLoss
  BY DEF ChannelInv
<1>2. /\ agent.phase = "SERVING" /\ conn # 0 /\ conn \in Conn /\ Fetched
      /\ Send([kind |-> "EVENT_BATCH", id |-> flight'.id, seq |-> agent.next,
               mark |-> flight'.mark, rows |-> flight'.rows])
      /\ agent' = [agent EXCEPT !.next = @ + 1, !.sent = flight'.id]
      /\ UNCHANGED <<rows, known, outbox, conn, queue, hub, gate, msgJournal, routed, handled,
                     reported, masked>>
  BY <1>1 DEF SendBatch, Fetched, NetTypes, Conn
<1>3. /\ FlightTypes' /\ BufferInv' /\ FlightInv' /\ NoSilentLoss'
      /\ flight'.id \in 1..batches'
      /\ meta'.dropped = meta.dropped
      /\ \A m : Carries(m, batches, flight) => Carries(m, batches', flight')
      /\ \A m : Covers(m, batches, flight, routed) => Covers(m, batches', flight', routed')
      /\ ~Underway(flight.id, flight, agent.sent)
  BY <1>2, FetchedBatch
<1>4. flight' \in [id : Nat, mark : Nat, rows : SUBSET RowSet] /\ flight'.id # 0
  BY <1>3 DEF FlightTypes
<1>5. PICK x \in BatchMessage :
          /\ x = [kind |-> "EVENT_BATCH", id |-> flight'.id, seq |-> agent.next,
                  mark |-> flight'.mark, rows |-> flight'.rows]
          /\ x.kind = "EVENT_BATCH" /\ x.id = flight'.id
          /\ x.mark = flight'.mark /\ x.rows = flight'.rows
  <2> DEFINE y == [kind |-> "EVENT_BATCH", id |-> flight'.id, seq |-> agent.next,
                   mark |-> flight'.mark, rows |-> flight'.rows]
  <2>1. agent.next \in Nat
    BY <1>1 DEF NetTypes
  <2>2. flight'.id \in Nat /\ flight'.mark \in Nat /\ flight'.rows \in SUBSET RowSet
    BY <1>4
  <2>3. y \in BatchMessage
    BY <2>1, <2>2 DEF BatchMessage
  <2> QED  BY <2>3
<1>6. /\ wire' \in [Conn -> Seq(UpMessage)]
      /\ \/ wire' = wire
         \/ wire' = [wire EXCEPT ![conn] = Append(wire[conn], x)]
  <2>1. x \in UpMessage /\ Send(x)
    BY <1>2, <1>5 DEF UpMessage
  <2> HIDE DEF Send
  <2> QED  BY <1>1, <1>2, <2>1, Sent
<1>7. wire \in [Conn -> Seq(UpMessage)] /\ wire[conn] \in Seq(UpMessage)
  BY <1>1, <1>2 DEF NetTypes
<1>8. /\ agent' \in [phase : {"OFF", "HELLO", "SERVING"}, next : Nat, expect : Nat, sent : Nat]
      /\ agent'.phase = "SERVING" /\ agent'.sent = flight'.id
  <2>1. PICK a \in [phase : {"OFF", "HELLO", "SERVING"}, next : Nat, expect : Nat, sent : Nat] : a = agent
    BY <1>1 DEF NetTypes
  <2>2. PICK n \in Nat : n = a.next + 1
    OBVIOUS
  <2>3. agent' = [a EXCEPT !.next = n, !.sent = flight'.id]
    BY <1>2, <2>1, <2>2
  <2> QED  BY <1>2, <1>4, <2>1, <2>3
\* Where the messages are.
<1>9. \A c \in Conn : \A i \in 1..Len(wire'[c]) :
          \/ i \in 1..Len(wire[c]) /\ wire'[c][i] = wire[c][i]
          \/ c = conn /\ i = Len(wire[conn]) + 1 /\ wire'[c][i] = x
  <2>1. CASE wire' = wire
    BY <2>1
  <2>2. CASE wire' = [wire EXCEPT ![conn] = Append(wire[conn], x)]
    <3>1. x \in UpMessage
      BY DEF UpMessage
    <3>2. \A i \in 1..Len(Append(wire[conn], x)) :
             \/ i \in 1..Len(wire[conn]) /\ Append(wire[conn], x)[i] = wire[conn][i]
             \/ i = Len(wire[conn]) + 1 /\ Append(wire[conn], x)[i] = x
      BY <1>7, <3>1, AppendPlaces
    <3>3. \A c \in Conn : wire'[c] = IF c = conn THEN Append(wire[conn], x) ELSE wire[c]
      BY <1>7, <2>2
    <3> QED  BY <3>2, <3>3
  <2> QED  BY <1>6, <2>1, <2>2
<1>10. ~Busy(conn) /\ \A i \in Nat : ~BatchAt(i) /\ ~AckAt(i)
  BY <1>1, <1>2, <1>3 DEF OnePlace, Underway
<1>11. NetTypes'
  BY <1>1, <1>2, <1>6, <1>8 DEF NetTypes
<1>12. Messages'
  <2>1. Carries(x, batches', flight')
    BY <1>3, <1>5 DEF Carries
  <2>2. \A c \in Conn : \A i \in 1..Len(wire'[c]) :
            wire'[c][i].kind = "EVENT_BATCH" => Carries(wire'[c][i], batches', flight')
    BY <1>1, <1>3, <1>9, <2>1 DEF Messages
  <2>3. \A c \in Conn :
           /\ Busy(c)' => Carries(gate'[c].msg, batches', flight')
           /\ gate'[c].task = "ROUTED" => EventsOf(gate'[c].msg.rows) \subseteq routed'
           /\ \A i \in 1..Len(queue'[c]) : queue'[c][i].kind = "EVENT_ACK" =>
                  Covers(queue'[c][i], batches', flight', routed')
    BY <1>1, <1>2, <1>3 DEF Messages, Busy
  <2> QED  BY <2>2, <2>3 DEF Messages
<1>13. /\ \A i \in Nat : BatchAt(i)' => i = Len(wire[conn]) + 1 /\ wire'[conn][i] = x
       /\ \A i \in Nat : ~AckAt(i)'
       /\ ~Busy(conn)'
  <2>1. \A i \in Nat : BatchAt(i)' => i = Len(wire[conn]) + 1 /\ wire'[conn][i] = x
    BY <1>2, <1>9, <1>10 DEF BatchAt
  <2> QED  BY <1>2, <1>10, <2>1 DEF AckAt, Busy
<1>14. OnePlace'
  BY <1>2, <1>4, <1>5, <1>8, <1>13 DEF OnePlace, Underway
<1>15. Reports'
  <2>1. gate'[conn'].task # "ROUTED"
    BY <1>1, <1>2, <1>10 DEF NetTypes, Busy, BatchMessage
  <2>2. ASSUME hub' # 0, Markers(rows') = {}
        PROVE  /\ \A i \in 1..Len(wire'[hub']) : Markers(wire'[hub'][i].rows) = {}
               /\ gate'[hub'].task = "RECEIVED" => Markers(gate'[hub'].msg.rows) = {}
    <3>1. hub \in Conn /\ hub' = hub /\ hub # 0 /\ Markers(rows) = {} /\ gate' = gate
      BY <1>1, <1>2, <2>2 DEF NetTypes, Conn
    <3>2. Markers(x.rows) = {}
      BY <1>3, <1>5, <2>2 DEF FlightInv
    <3>3. /\ \A i \in 1..Len(wire[hub]) : Markers(wire[hub][i].rows) = {}
          /\ gate[hub].task = "RECEIVED" => Markers(gate[hub].msg.rows) = {}
      BY <1>1, <3>1 DEF Reports
    <3> QED  BY <1>9, <3>1, <3>2, <3>3
  <2> QED  BY <1>1, <1>2, <1>3, <1>13, <2>1, <2>2 DEF Reports
<1>16. Statuses' /\ StatusTypes'
  BY <1>1, <1>2 DEF Statuses, Handling, StatusTypes
<1> QED  BY <1>3, <1>11, <1>12, <1>14, <1>15, <1>16 DEF ChannelInv

-----------------------------------------------------------------------------
(* The gateway's handler. *)

\* A message is read from the socket; t and y are the task and message of the
\* handler after it.
Taken(c, t, y) ==
    /\ wire' = [wire EXCEPT ![c] = Tail(@)]
    /\ gate' = [gate EXCEPT ![c].expect = @ + 1, ![c].task = t, ![c].msg = y]

LEMMA TakenMoves ==
    ASSUME NetTypes, NEW c \in Conn, wire[c] # <<>>, NEW t \in {"IDLE", "RECEIVED"},
           NEW y \in UpMessage \cup {NoMessage}, Taken(c, t, y)
    PROVE  /\ WireCalm /\ gate' \in [Conn -> Gate] /\ gate'[c].task = t /\ gate'[c].msg = y
           /\ \A d \in Conn \ {c} : gate'[d] = gate[d] /\ wire'[d] = wire[d]
           /\ wire[c] \in Seq(UpMessage) /\ wire'[c] = Tail(wire[c])
<1>1. /\ wire \in [Conn -> Seq(UpMessage)] /\ wire[c] \in Seq(UpMessage)
      /\ gate \in [Conn -> Gate]
  BY DEF NetTypes
<1>2. PICK g \in Gate : g = gate[c]
  BY <1>1
<1>3. PICK n \in Nat : n = g.expect + 1
  BY DEF Gate
<1>4. gate' = [gate EXCEPT ![c] = [g EXCEPT !.expect = n, !.task = t, !.msg = y]]
  BY <1>1, <1>2, <1>3 DEF Taken
<1>5. PICK h \in Gate : /\ h = [g EXCEPT !.expect = n, !.task = t, !.msg = y]
                        /\ h.task = t /\ h.msg = y
  <2>1. [g EXCEPT !.expect = n, !.task = t, !.msg = y] \in Gate
    BY DEF Gate
  <2> QED  BY <2>1 DEF Gate
<1>6. /\ gate' \in [Conn -> Gate] /\ gate'[c].task = t /\ gate'[c].msg = y
      /\ \A d \in Conn \ {c} : gate'[d] = gate[d]
  BY <1>1, <1>4, <1>5
<1>7. /\ Tail(wire[c]) \in Seq(UpMessage)
      /\ CarriedOver(Tail(wire[c]), wire[c], "EVENT_BATCH")
  BY <1>1, TailPlaces, CarriedTail
<1>8. \A d \in Conn : CarriedOver(wire[d], wire[d], "EVENT_BATCH")
  BY <1>1, CarriedSame
<1>9. /\ wire' \in [Conn -> Seq(UpMessage)] /\ wire'[c] = Tail(wire[c])
      /\ \A d \in Conn \ {c} : wire'[d] = wire[d]
  BY <1>1, <1>7 DEF Taken
<1> QED  BY <1>1, <1>6, <1>7, <1>8, <1>9 DEF WireCalm

LEMMA TakesBatchKeeps ==
    ASSUME ChannelInv, NEW c \in Conn, gate[c].task = "IDLE", wire[c] # <<>>,
           NEW m, m = wire[c][1], m.kind = "EVENT_BATCH", Taken(c, "RECEIVED", m),
           UNCHANGED <<rows, meta, known, flight, batches, outbox, conn, agent, queue, hub,
                       msgJournal, routed, handled, reported, masked>>
    PROVE  ChannelInv'
<1>1. /\ FlightTypes /\ NetTypes /\ StatusTypes
      /\ BufferInv /\ FlightInv /\ Messages /\ OnePlace /\ Reports /\ Statuses /\ NoSilentLoss
  BY DEF ChannelInv
<1>2. wire[c] \in Seq(UpMessage) /\ m \in UpMessage /\ m \in BatchMessage /\ 1 \in 1..Len(wire[c])
  BY <1>1, TailPlaces DEF NetTypes, UpMessage, StatusMessage
<1>3. /\ WireCalm /\ gate' \in [Conn -> Gate] /\ gate'[c].task = "RECEIVED" /\ gate'[c].msg = m
      /\ \A d \in Conn \ {c} : gate'[d] = gate[d] /\ wire'[d] = wire[d]
      /\ wire'[c] = Tail(wire[c])
  BY <1>1, <1>2, TakenMoves
<1>4. \A i \in 1..Len(wire'[c]) : i + 1 \in 1..Len(wire[c]) /\ wire'[c][i] = wire[c][i + 1]
  BY <1>2, <1>3, TailPlaces
<1>5. FlightTypes' /\ StatusTypes' /\ BufferInv' /\ FlightInv' /\ NoSilentLoss'
  BY <1>1 DEF FlightTypes, StatusTypes, BufferInv, FlightInv, NoSilentLoss, Held
<1>6. NetTypes'
  BY <1>1, <1>2, <1>3 DEF NetTypes, WireCalm
<1>7. Carries(m, batches, flight)
  BY <1>1, <1>2 DEF Messages
<1>8. Messages'
  <2>3. \A d \in Conn : \A i \in 1..Len(wire[d]) :
            wire[d][i].kind = "EVENT_BATCH" => Carries(wire[d][i], batches, flight)
    BY <1>1 DEF Messages
  <2>1. ASSUME NEW d \in Conn, NEW i \in 1..Len(wire'[d]), wire'[d][i].kind = "EVENT_BATCH"
        PROVE  Carries(wire'[d][i], batches', flight')
    <3>1. CASE d = c
      BY <1>4, <2>1, <2>3, <3>1
    <3>2. CASE d # c
      BY <1>3, <2>1, <2>3, <3>2
    <3> QED  BY <3>1, <3>2
  <2>2. \A d \in Conn :
           /\ Busy(d)' => Carries(gate'[d].msg, batches', flight')
           /\ gate'[d].task = "ROUTED" => EventsOf(gate'[d].msg.rows) \subseteq routed'
           /\ \A i \in 1..Len(queue'[d]) : queue'[d][i].kind = "EVENT_ACK" =>
                  Covers(queue'[d][i], batches', flight', routed')
    BY <1>1, <1>3, <1>7 DEF Messages, Busy
  <2> QED  BY <2>1, <2>2 DEF Messages
<1>9. OnePlace'
  <2>1. CASE agent.phase = "OFF"
    BY <2>1 DEF OnePlace
  <2>2. CASE agent.phase # "OFF" /\ c = conn
    <3>1. BatchAt(1)
      BY <1>2, <2>2 DEF BatchAt
    <3>2. /\ Underway(m.id, flight, agent.sent)
          /\ \A j \in Nat : (BatchAt(j) => j = 1) /\ ~AckAt(j)
      BY <1>1, <2>2, <3>1 DEF OnePlace
    <3>3. ASSUME NEW j \in Nat, BatchAt(j)' PROVE FALSE
      <4>1. j + 1 \in 1..Len(wire[conn]) /\ wire[conn][j + 1].kind = "EVENT_BATCH" /\ j \in 1..Len(wire'[conn])
        BY <1>4, <2>2, <3>3 DEF BatchAt
      <4>2. BatchAt(j + 1) /\ j + 1 # 1
        BY <4>1 DEF BatchAt
      <4> QED  BY <3>2, <4>2
    <3>4. \A j \in Nat : ~AckAt(j)'
      BY <3>2 DEF AckAt
    <3> QED  BY <1>3, <2>2, <3>2, <3>3, <3>4 DEF OnePlace
  <2>3. CASE agent.phase # "OFF" /\ c # conn
    <3>1. conn \in Conn
      BY <1>1, <2>3 DEF NetTypes, Conn
    <3>2. gate'[conn] = gate[conn] /\ wire'[conn] = wire[conn]
      BY <1>3, <2>3, <3>1
    <3> QED  BY <1>1, <2>3, <3>2 DEF OnePlace, BatchAt, AckAt, Busy
  <2> QED  BY <2>1, <2>2, <2>3
<1>10. Reports'
  <2>1. conn # 0 /\ gate'[conn].task = "ROUTED" => gate[conn].task = "ROUTED"
    <3>1. conn # 0 => conn \in Conn
      BY <1>1 DEF NetTypes, Conn
    <3>2. \A d \in Conn : gate'[d].task = "ROUTED" => gate[d].task = "ROUTED"
      BY <1>3
    <3> QED  BY <3>1, <3>2
  <2>2. agent'.phase # "OFF" /\ (gate'[conn'].task = "ROUTED" \/ \E i \in Nat : AckAt(i)') =>
           \A x \in Markers(flight'.rows) : reported' = x.total
    BY <1>1, <2>1 DEF Reports, NetTypes, AckAt
  <2>3. ASSUME hub' # 0, Markers(rows') = {}
        PROVE  /\ \A i \in 1..Len(wire'[hub']) : Markers(wire'[hub'][i].rows) = {}
               /\ gate'[hub'].task = "RECEIVED" => Markers(gate'[hub'].msg.rows) = {}
    <3>1. hub \in Conn /\ hub' = hub
      BY <1>1, <2>3 DEF NetTypes, Conn
    <3>2. /\ \A i \in 1..Len(wire[hub]) : Markers(wire[hub][i].rows) = {}
          /\ gate[hub].task = "RECEIVED" => Markers(gate[hub].msg.rows) = {}
      BY <1>1, <2>3, <3>1 DEF Reports
    <3>3. CASE hub = c
      <4>1. Markers(m.rows) = {}
        BY <1>2, <3>2, <3>3
      <4>2. \A i \in 1..Len(wire'[c]) : Markers(wire'[c][i].rows) = {}
        BY <1>4, <3>2, <3>3
      <4> QED  BY <1>3, <3>1, <3>3, <4>1, <4>2
    <3>4. CASE hub # c
      BY <1>3, <3>1, <3>2, <3>4
    <3> QED  BY <3>3, <3>4
  <2> QED  BY <1>1, <2>2, <2>3 DEF Reports
<1>11. Statuses'
  <2>1. \A d \in Conn : Handling(d)' => d # c /\ Handling(d) /\ gate'[d] = gate[d]
    BY <1>3 DEF Handling
  <2> QED  BY <1>1, <2>1 DEF Statuses
<1> QED  BY <1>5, <1>6, <1>8, <1>9, <1>10, <1>11 DEF ChannelInv

LEMMA ReceiveKeeps ==
    ASSUME ChannelInv, NEW c \in Conn, Receive(c)
    PROVE  ChannelInv'
<1>1. NetTypes /\ StatusTypes /\ Statuses
  BY DEF ChannelInv
<1>2. PICK m \in UpMessage : m = Head(wire[c]) /\ m = wire[c][1]
  BY <1>1, TailPlaces DEF Receive, NetTypes
<1>3. /\ gate[c].task = "IDLE" /\ wire[c] # <<>>
      /\ UNCHANGED <<rows, meta, known, flight, batches, outbox, conn, agent, queue,
                     routed, handled, reported, masked>>
  BY DEF Receive
<1>4. \/ CloseGate(c) /\ Detach(c) /\ UNCHANGED msgJournal
      \/ /\ ~Handles(m) /\ Taken(c, gate[c].task, gate[c].msg) /\ UNCHANGED <<msgJournal, hub>>
      \/ /\ m.kind = "EVENT_BATCH" /\ Taken(c, "RECEIVED", m) /\ UNCHANGED <<msgJournal, hub>>
      \/ /\ IsNew(m) /\ Taken(c, "RECEIVED", m) /\ UNCHANGED hub
         /\ msgJournal' = [msgJournal EXCEPT ![m.id] = "RECEIVED"]
  <2>1. \/ CloseGate(c) /\ Detach(c) /\ UNCHANGED msgJournal
        \/ /\ msgJournal' = IF IsNew(m) THEN [msgJournal EXCEPT ![m.id] = "RECEIVED"] ELSE msgJournal
           /\ Taken(c, IF Handles(m) THEN "RECEIVED" ELSE gate[c].task,
                    IF Handles(m) THEN m ELSE gate[c].msg)
           /\ UNCHANGED hub
    BY <1>2 DEF Receive, Taken
  <2>2. IsNew(m) => m.kind # "EVENT_BATCH"
    BY DEF IsNew
  <2> QED  BY <2>1, <2>2 DEF Handles
<1>5. CASE CloseGate(c) /\ Detach(c) /\ UNCHANGED msgJournal
  <2>1. WireCalm /\ GateCalm /\ hub' \in {0, hub}
    BY <1>1, <1>5, Closed DEF Detach
  <2>2. NetTypes' /\ Untouched'
    BY <1>1, <1>3, <2>1, Unmoved, CalmStep
  <2>3. Statuses' /\ StatusTypes'
    BY <1>1, <1>3, <1>5, <2>1, StatusesKept DEF StatusTypes
  <2> QED  BY <2>2, <2>3, CalmDone
<1>6. CASE ~Handles(m) /\ Taken(c, gate[c].task, gate[c].msg) /\ UNCHANGED <<msgJournal, hub>>
  <2>1. gate[c].msg \in UpMessage \cup {NoMessage} /\ gate[c].task = "IDLE"
    BY <1>1, <1>3 DEF NetTypes, Gate
  <2>2. /\ WireCalm /\ gate' \in [Conn -> Gate] /\ gate'[c].task = "IDLE"
        /\ \A d \in Conn \ {c} : gate'[d] = gate[d]
    BY <1>1, <1>3, <1>6, <2>1, TakenMoves
  <2>3. GateCalm
    BY <2>2 DEF GateCalm
  <2>4. NetTypes' /\ Untouched'
    BY <1>1, <1>3, <1>6, <2>2, <2>3, Unmoved, CalmStep
  <2>5. Statuses' /\ StatusTypes'
    BY <1>1, <1>3, <1>6, <2>3, StatusesKept DEF StatusTypes
  <2> QED  BY <2>4, <2>5, CalmDone
<1>7. CASE m.kind = "EVENT_BATCH" /\ Taken(c, "RECEIVED", m) /\ UNCHANGED <<msgJournal, hub>>
  BY <1>2, <1>3, <1>7, TakesBatchKeeps
<1>8. CASE /\ IsNew(m) /\ Taken(c, "RECEIVED", m) /\ UNCHANGED hub
           /\ msgJournal' = [msgJournal EXCEPT ![m.id] = "RECEIVED"]
  <2>1. m \in StatusMessage /\ m.kind = "STATUS" /\ m.id \in Status /\ msgJournal[m.id] = "NONE"
    BY <1>8 DEF IsNew, UpMessage, BatchMessage, StatusMessage
  <2>2. /\ WireCalm /\ gate' \in [Conn -> Gate] /\ gate'[c].task = "RECEIVED" /\ gate'[c].msg = m
        /\ \A d \in Conn \ {c} : gate'[d] = gate[d]
    BY <1>1, <1>3, <1>8, TakenMoves
  <2>3. GateMoves
    BY <2>1, <2>2 DEF GateMoves
  <2>4. NetTypes' /\ Untouched'
    BY <1>1, <1>3, <1>8, <2>2, <2>3, Unmoved, MovesCalm
  <2>5. /\ msgJournal \in [Status -> {"NONE", "RECEIVED", "HANDLED", "REJECTED"}]
        /\ msgJournal'[m.id] = "RECEIVED" /\ \A s \in Status \ {m.id} : msgJournal'[s] = msgJournal[s]
    BY <1>1, <1>8, <2>1 DEF StatusTypes
  <2>6. StatusTypes'
    BY <1>1, <1>3, <1>8, <2>1 DEF StatusTypes
  <2>7. \A d \in Conn \ {c} : Handling(d)' <=> Handling(d)
    BY <2>2 DEF Handling
  <2>8. \A d \in Conn \ {c} : Handling(d) => gate[d].msg.id # m.id /\ gate[d].msg.id \in Status
    <3>1. \A d \in Conn : Handling(d) => gate[d].msg \in StatusMessage
      BY <1>1 DEF NetTypes, Handling, UpMessage, BatchMessage
    <3> QED  BY <1>1, <2>1, <3>1 DEF Statuses, StatusMessage
  <2>9. Statuses'
    <3>1. \A d \in Conn : Handling(d)' => msgJournal'[gate'[d].msg.id] = "RECEIVED"
      BY <1>1, <2>2, <2>5, <2>7, <2>8 DEF Statuses
    <3>2. \A d, b \in Conn : Handling(d)' /\ Handling(b)' /\ gate'[d].msg.id = gate'[b].msg.id => d = b
      BY <1>1, <2>2, <2>7, <2>8 DEF Statuses
    <3>3. \A s \in Status : handled'[s] = 0 \/ (handled'[s] = 1 /\ msgJournal'[s] = "HANDLED")
      BY <1>1, <1>3, <2>1, <2>5 DEF Statuses
    <3> QED  BY <3>1, <3>2, <3>3 DEF Statuses
  <2> QED  BY <2>4, <2>6, <2>9, CalmDone
<1> QED  BY <1>4, <1>5, <1>6, <1>7, <1>8

LEMMA DeliveredRows ==
    ASSUME NEW done \in SUBSET RowSet, Delivered(done), reported \in Nat
    PROVE  /\ routed' = routed \cup EventsOf(done) /\ EventsOf(done) \subseteq EventNames
           /\ reported' \in Nat
           /\ Markers(done) = {} => reported' = reported
           /\ Markers(done) # {} => \E x \in Markers(done) : reported' = x.total
<1>1. routed' = routed \cup EventsOf(done) /\ EventsOf(done) \subseteq EventNames
  BY DEF Delivered, EventsOf, RowSet
<1>2. CASE Markers(done) = {}
  BY <1>1, <1>2 DEF Delivered
<1>3. CASE Markers(done) # {}
  <2>1. PICK x \in Markers(done) : reported' = x.total
    BY <1>3 DEF Delivered
  <2>2. x.total \in Nat
    BY <2>1 DEF Markers, RowSet
  <2> QED  BY <1>1, <1>3, <2>1, <2>2
<1> QED  BY <1>2, <1>3

\* All or a part of a batch is routed; after a part the connection ends.
LEMMA RoutesBatchKeeps ==
    ASSUME ChannelInv, NEW c \in Conn, gate[c].task = "RECEIVED", hub = c,
           NEW m, m = gate[c].msg, m.kind = "EVENT_BATCH",
           NEW done \in SUBSET m.rows, Delivered(done),
           \/ /\ done = m.rows /\ gate' = [gate EXCEPT ![c] = [@ EXCEPT !.task = "ROUTED"]]
              /\ UNCHANGED <<hub, wire>>
           \/ CloseGate(c) /\ hub' = 0,
           UNCHANGED <<rows, meta, known, flight, batches, outbox, conn, agent, queue,
                       msgJournal, handled, masked>>
    PROVE  ChannelInv'
<1>1. /\ FlightTypes /\ NetTypes /\ StatusTypes
      /\ BufferInv /\ FlightInv /\ Messages /\ OnePlace /\ Reports /\ Statuses /\ NoSilentLoss
  BY DEF ChannelInv
<1>2. /\ m \in BatchMessage /\ m.rows \subseteq RowSet /\ c = conn /\ done \subseteq RowSet
  BY <1>1 DEF NetTypes, UpMessage, StatusMessage, BatchMessage, Conn
<1>3. /\ routed' = routed \cup EventsOf(done) /\ EventsOf(done) \subseteq EventNames
      /\ reported' \in Nat
      /\ Markers(done) = {} => reported' = reported
      /\ Markers(done) # {} => \E x \in Markers(done) : reported' = x.total
  BY <1>1, <1>2, DeliveredRows DEF Reports
<1>4. /\ gate' \in [Conn -> Gate] /\ \A d \in Conn \ {c} : gate'[d] = gate[d]
      /\ \/ gate'[c].task = "ROUTED" /\ gate'[c].msg = m /\ done = m.rows /\ wire' = wire
         \/ gate'[c].task = "IDLE" /\ hub' = 0
      /\ hub' \in {0, hub}
  <2>1. PICK g \in Gate : g = gate[c]
    BY <1>1 DEF NetTypes
  <2>2. /\ [g EXCEPT !.task = "ROUTED"] \in Gate
        /\ [g EXCEPT !.task = "ROUTED"].task = "ROUTED" /\ [g EXCEPT !.task = "ROUTED"].msg = g.msg
    BY DEF Gate
  <2>3. CASE /\ done = m.rows /\ gate' = [gate EXCEPT ![c] = [@ EXCEPT !.task = "ROUTED"]]
             /\ UNCHANGED <<hub, wire>>
    BY <1>1, <2>1, <2>2, <2>3 DEF NetTypes
  <2>4. CASE CloseGate(c) /\ hub' = 0
    BY <1>1, <2>4, IdleTypes DEF NetTypes, CloseGate
  <2> QED  BY <2>3, <2>4
<1>5. /\ wire' \in [Conn -> Seq(UpMessage)]
      /\ \A d \in Conn : wire'[d] = wire[d] \/ wire'[d] = <<>>
  <2>1. wire \in [Conn -> Seq(UpMessage)] /\ <<>> \in Seq(UpMessage)
    BY <1>1 DEF NetTypes
  <2>2. CASE wire' = wire
    BY <2>1, <2>2
  <2>3. CASE CloseGate(c)
    BY <2>1, <2>3 DEF CloseGate
  <2> QED  BY <2>2, <2>3
<1>6. FlightTypes' /\ StatusTypes' /\ BufferInv' /\ FlightInv'
  BY <1>1, <1>3 DEF FlightTypes, StatusTypes, BufferInv, FlightInv
<1>7. NetTypes'
  <2>1. \A d \in Conn : /\ gate'[d].task # "IDLE" => gate'[d].msg \in UpMessage
                        /\ gate'[d].task = "ROUTED" => gate'[d].msg \in BatchMessage
    <3> SUFFICES ASSUME NEW d \in Conn
                 PROVE  /\ gate'[d].task # "IDLE" => gate'[d].msg \in UpMessage
                        /\ gate'[d].task = "ROUTED" => gate'[d].msg \in BatchMessage
      OBVIOUS
    <3>1. CASE d = c
      BY <1>1, <1>2, <1>4, <3>1 DEF NetTypes, UpMessage
    <3>2. CASE d # c
      BY <1>1, <1>4, <3>2 DEF NetTypes
    <3> QED  BY <3>1, <3>2
  <2>2. hub' \in {0, conn'} /\ gate' \in [Conn -> Gate]
    BY <1>1, <1>4 DEF NetTypes
  <2> QED  BY <1>1, <1>5, <2>1, <2>2 DEF NetTypes
<1>8. NoSilentLoss'
  <2>1. Lost(known', rows', routed') \subseteq Lost(known, rows, routed)
    BY <1>3 DEF Lost
  <2>2. Uncounted(meta) \in Nat /\ Cardinality(Lost(known, rows, routed)) <= Uncounted(meta)
    BY <1>1, LostAre, CountsAre DEF BufferInv, Sound
  <2>3. Cardinality(Lost(known', rows', routed')) <= Uncounted(meta)
    BY ONLY <2>1, <2>2, NoMoreLost
  <2> QED  BY <2>3 DEF NoSilentLoss, Lost, Uncounted, Held
<1>9. Busy(c) /\ Carries(m, batches, flight)
  BY <1>1 DEF Busy, Messages
<1>10. Messages'
  <2>1. \A y : Covers(y, batches, flight, routed) => Covers(y, batches', flight', routed')
    BY <1>3 DEF Covers
  <2>2. ASSUME NEW d \in Conn
        PROVE  \A i \in 1..Len(wire'[d]) : wire'[d][i].kind = "EVENT_BATCH" =>
                   Carries(wire'[d][i], batches', flight')
    BY <1>1, <1>5 DEF Messages
  <2>3. ASSUME NEW d \in Conn
        PROVE  /\ Busy(d)' => Carries(gate'[d].msg, batches', flight')
               /\ gate'[d].task = "ROUTED" => EventsOf(gate'[d].msg.rows) \subseteq routed'
    <3>1. CASE d = c
      BY <1>3, <1>4, <1>9, <3>1 DEF Busy
    <3>2. CASE d # c
      BY <1>1, <1>3, <1>4, <3>2 DEF Messages, Busy
    <3> QED  BY <3>1, <3>2
  <2>4. ASSUME NEW d \in Conn
        PROVE  \A i \in 1..Len(queue'[d]) : queue'[d][i].kind = "EVENT_ACK" =>
                   Covers(queue'[d][i], batches', flight', routed')
    BY <1>1, <2>1 DEF Messages
  <2> QED  BY <2>2, <2>3, <2>4 DEF Messages
<1>11. agent.phase # "OFF" => /\ Underway(m.id, flight, agent.sent)
                              /\ \A j \in Nat : ~AckAt(j) /\ ~BatchAt(j)
  BY <1>1, <1>2, <1>9 DEF OnePlace
<1>12. \A j \in Nat : (AckAt(j)' => AckAt(j)) /\ (BatchAt(j)' => BatchAt(j))
  BY <1>2, <1>5 DEF AckAt, BatchAt
<1>13. OnePlace'
  BY <1>2, <1>4, <1>11, <1>12 DEF OnePlace, Busy
<1>14. Reports'
  <2>1. Markers(rows) = {} => Markers(m.rows) = {} /\ Markers(done) = {}
    BY <1>1, <1>2 DEF Reports, Conn, Markers
  <2>2. ASSUME agent'.phase # "OFF", gate'[conn'].task = "ROUTED" \/ \E i \in Nat : AckAt(i)',
               NEW x \in Markers(flight'.rows)
        PROVE  reported' = x.total
    <3>1. done = flight.rows
      BY <1>2, <1>4, <1>9, <1>11, <1>12, <2>2 DEF Carries, Underway
    <3>2. PICK y \in Markers(done) : reported' = y.total
      BY <1>3, <2>2, <3>1
    <3> QED  BY <1>1, <2>2, <3>1, <3>2 DEF FlightInv
  <2>3. ASSUME hub' # 0, Markers(rows') = {}
        PROVE  /\ \A i \in 1..Len(wire'[hub']) : Markers(wire'[hub'][i].rows) = {}
               /\ gate'[hub'].task = "RECEIVED" => Markers(gate'[hub'].msg.rows) = {}
    BY <1>1, <1>4, <2>3 DEF Reports
  <2> QED  BY <1>1, <1>3, <2>1, <2>2, <2>3 DEF Reports
<1>15. Statuses'
  <2>1. \A d \in Conn : Handling(d)' => d # c /\ Handling(d) /\ gate'[d] = gate[d]
    BY <1>4 DEF Handling
  <2> QED  BY <1>1, <2>1 DEF Statuses
<1> QED  BY <1>6, <1>7, <1>8, <1>10, <1>13, <1>14, <1>15 DEF ChannelInv

\* The journal after a message was handled or rejected.
LEMMA FinalizedStatuses ==
    ASSUME Statuses, StatusTypes, NetTypes, NEW c \in Conn, gate[c].task = "RECEIVED",
           NEW m, m = gate[c].msg, NEW outcome \in {"HANDLED", "REJECTED"}, Finalize(m, outcome),
           gate'[c].task # "RECEIVED", \A d \in Conn \ {c} : gate'[d] = gate[d],
           UNCHANGED outbox,
           \/ handled' = handled
           \/ /\ outcome = "HANDLED" /\ m.kind = "STATUS"
              /\ handled' = [handled EXCEPT ![m.id] = @ + 1]
    PROVE  Statuses' /\ StatusTypes'
<1>1. \A d \in Conn : Handling(d)' => d # c /\ Handling(d) /\ gate'[d] = gate[d]
  BY DEF Handling
<1>2. CASE m.kind # "STATUS"
  <2>1. UNCHANGED <<msgJournal, handled>>
    BY <1>2 DEF Finalize
  <2>2. StatusTypes'
    BY <2>1 DEF StatusTypes
  <2>3. \A d \in Conn : Handling(d)' => msgJournal'[gate'[d].msg.id] = "RECEIVED"
    BY <1>1, <2>1 DEF Statuses
  <2>4. \A d, b \in Conn : Handling(d)' /\ Handling(b)' /\ gate'[d].msg.id = gate'[b].msg.id => d = b
    BY <1>1 DEF Statuses
  <2> QED  BY <2>1, <2>2, <2>3, <2>4 DEF Statuses
<1>3. CASE m.kind = "STATUS"
  <2>1. Handling(c) /\ m.id \in Status /\ msgJournal[m.id] = "RECEIVED"
    BY <1>3 DEF Handling, NetTypes, UpMessage, BatchMessage, StatusMessage, Statuses
  <2>2. handled[m.id] = 0 /\ handled \in [Status -> Nat]
    BY <2>1 DEF Statuses, StatusTypes
  <2>3. /\ msgJournal' \in [Status -> {"NONE", "RECEIVED", "HANDLED", "REJECTED"}]
        /\ msgJournal'[m.id] = outcome
        /\ \A s \in Status \ {m.id} : msgJournal'[s] = msgJournal[s]
    BY <1>3, <2>1 DEF Finalize, StatusTypes
  <2>4. /\ handled' \in [Status -> Nat] /\ \A s \in Status \ {m.id} : handled'[s] = handled[s]
        /\ handled'[m.id] = 0 \/ (handled'[m.id] = 1 /\ outcome = "HANDLED")
    BY <2>1, <2>2
  <2>5. \A d \in Conn : Handling(d) /\ d # c => gate[d].msg.id \in Status \ {m.id}
    <3>1. \A d \in Conn : Handling(d) => gate[d].msg.id \in Status
      BY DEF Handling, NetTypes, UpMessage, BatchMessage, StatusMessage
    <3> QED  BY <2>1, <3>1 DEF Statuses
  <2>6. \A d \in Conn : Handling(d)' => msgJournal'[gate'[d].msg.id] = "RECEIVED"
    BY <1>1, <2>3, <2>5 DEF Statuses
  <2>7. \A d, b \in Conn : Handling(d)' /\ Handling(b)' /\ gate'[d].msg.id = gate'[b].msg.id => d = b
    BY <1>1 DEF Statuses
  <2>8. \A s \in Status : handled'[s] = 0 \/ (handled'[s] = 1 /\ msgJournal'[s] = "HANDLED")
    BY <2>3, <2>4 DEF Statuses
  <2> QED  BY <2>3, <2>4, <2>6, <2>7, <2>8 DEF Statuses, StatusTypes
<1> QED  BY <1>2, <1>3

LEMMA RouteMessageKeeps ==
    ASSUME ChannelInv, NEW c \in Conn, RouteMessage(c)
    PROVE  ChannelInv'
<1>1. NetTypes /\ StatusTypes /\ Statuses /\ Reports
  BY DEF ChannelInv
<1> DEFINE m == gate[c].msg
<1>2. /\ gate[c].task = "RECEIVED" /\ m \in UpMessage
      /\ UNCHANGED <<rows, meta, known, flight, batches, outbox, conn, agent, queue, masked>>
  BY <1>1 DEF RouteMessage, NetTypes
<1>3. \/ /\ hub = c /\ Delivered(m.rows) /\ Finalize(m, "HANDLED") /\ UNCHANGED <<hub, wire>>
         /\ handled' = IF m.kind = "STATUS" THEN [handled EXCEPT ![m.id] = @ + 1] ELSE handled
         /\ gate' = [gate EXCEPT ![c] = IF m.kind = "EVENT_BATCH"
                                        THEN [@ EXCEPT !.task = "ROUTED"]
                                        ELSE [@ EXCEPT !.task = "IDLE", !.msg = NoMessage]]
      \/ /\ hub = c /\ hub' = 0 /\ \E w : Delivered(Through(m.rows, w))
         /\ Finalize(m, "REJECTED") /\ CloseGate(c) /\ UNCHANGED handled
      \/ /\ Finalize(m, "REJECTED") /\ CloseGate(c) /\ UNCHANGED <<hub, routed, reported, handled>>
  BY DEF RouteMessage, Detach
<1>4. CASE m \in BatchMessage /\ hub = c /\ Delivered(m.rows) /\ Finalize(m, "HANDLED")
           /\ UNCHANGED <<hub, wire, handled>>
           /\ gate' = [gate EXCEPT ![c] = [@ EXCEPT !.task = "ROUTED"]]
  <2>1. m.kind = "EVENT_BATCH" /\ UNCHANGED msgJournal
    BY <1>4 DEF BatchMessage, Finalize
  <2> QED  BY <1>2, <1>4, <2>1, RoutesBatchKeeps
<1>5. CASE m \in BatchMessage /\ hub = c /\ hub' = 0 /\ (\E w : Delivered(Through(m.rows, w)))
           /\ Finalize(m, "REJECTED") /\ CloseGate(c) /\ UNCHANGED handled
  <2>1. m.kind = "EVENT_BATCH" /\ UNCHANGED msgJournal
    BY <1>5 DEF BatchMessage, Finalize
  <2>2. PICK w : Delivered(Through(m.rows, w))
    BY <1>5
  <2>3. Through(m.rows, w) \in SUBSET m.rows
    BY DEF Through
  <2> HIDE DEF CloseGate, Delivered
  <2> QED  BY <1>2, <1>5, <2>1, <2>2, <2>3, RoutesBatchKeeps
\* What is left sends nothing about a batch, nor does a status contain events.
<1>6. ASSUME UNCHANGED <<routed, reported>>, WireCalm, GateCalm, gate'[c].task # "RECEIVED",
             \A d \in Conn \ {c} : gate'[d] = gate[d], hub' \in {0, hub},
             NEW outcome \in {"HANDLED", "REJECTED"}, Finalize(m, outcome),
             \/ handled' = handled
             \/ /\ outcome = "HANDLED" /\ m.kind = "STATUS"
                /\ handled' = [handled EXCEPT ![m.id] = @ + 1]
      PROVE  ChannelInv'
  <2>1. NetTypes' /\ Untouched'
    BY <1>1, <1>2, <1>6, Unmoved, CalmStep
  <2>2. Statuses' /\ StatusTypes'
    BY <1>1, <1>2, <1>6, FinalizedStatuses
  <2> QED  BY <2>1, <2>2, CalmDone
<1>7. m \in StatusMessage => \A w : m.rows = {} /\ Through(m.rows, w) = {}
  BY DEF StatusMessage, Through
<1>8. Delivered({}) => UNCHANGED <<routed, reported>>
  <2>1. {} \in SUBSET RowSet /\ EventsOf({}) = {} /\ Markers({}) = {} /\ reported \in Nat
    BY <1>1 DEF EventsOf, Markers, Reports
  <2> QED  BY <2>1, DeliveredRows
<1>9. CloseGate(c) => /\ WireCalm /\ GateCalm /\ gate'[c].task # "RECEIVED"
                      /\ \A d \in Conn \ {c} : gate'[d] = gate[d]
  BY <1>1, Closed, IdleTypes DEF CloseGate, NetTypes
<1>10. CASE m \in StatusMessage /\ Delivered(m.rows) /\ Finalize(m, "HANDLED") /\ UNCHANGED <<hub, wire>>
            /\ handled' = [handled EXCEPT ![m.id] = @ + 1]
            /\ gate' = [gate EXCEPT ![c] = [@ EXCEPT !.task = "IDLE", !.msg = NoMessage]]
  <2>1. PICK g \in Gate : g = gate[c]
    BY <1>1 DEF NetTypes
  <2>2. /\ [g EXCEPT !.task = "IDLE", !.msg = NoMessage] \in Gate
        /\ [g EXCEPT !.task = "IDLE", !.msg = NoMessage].task = "IDLE"
    BY DEF Gate
  <2>3. /\ GateCalm /\ gate'[c].task # "RECEIVED" /\ \A d \in Conn \ {c} : gate'[d] = gate[d]
    BY <1>1, <1>10, <2>1, <2>2 DEF GateCalm, NetTypes
  <2>4. m.kind = "STATUS" /\ UNCHANGED <<routed, reported>>
    BY <1>7, <1>8, <1>10 DEF StatusMessage
  <2> QED  BY <1>1, <1>6, <1>10, <2>3, <2>4, Unmoved
<1>11. CASE m \in StatusMessage /\ hub' = 0 /\ (\E w : Delivered(Through(m.rows, w)))
            /\ Finalize(m, "REJECTED") /\ CloseGate(c) /\ UNCHANGED handled
  BY <1>6, <1>7, <1>8, <1>9, <1>11
<1>12. CASE Finalize(m, "REJECTED") /\ CloseGate(c) /\ UNCHANGED <<hub, routed, reported, handled>>
  BY <1>6, <1>9, <1>12
<1> QED
  <2>1. m.kind = "EVENT_BATCH" => m \in BatchMessage
    BY <1>2 DEF UpMessage, StatusMessage
  <2>2. m.kind # "EVENT_BATCH" => m \in StatusMessage /\ m.kind = "STATUS"
    BY <1>2 DEF UpMessage, StatusMessage, BatchMessage
  <2>3. m \in BatchMessage => m.kind = "EVENT_BATCH"
    BY DEF BatchMessage
  <2> HIDE DEF m
  <2> QED  BY <1>3, <1>4, <1>5, <1>10, <1>11, <1>12, <2>1, <2>2, <2>3

\* The acknowledgement is queued on the session the batch came from.
LEMMA AcknowledgesKeeps ==
    ASSUME ChannelInv, NEW c \in Conn, gate[c].task = "ROUTED", hub = c, agent.phase # "OFF",
           NEW x, x = [kind |-> "EVENT_ACK", id |-> gate[c].msg.id, mark |-> gate[c].msg.mark,
                       seq |-> gate[c].sentTo + 1],
           queue' = [queue EXCEPT ![c] = Append(@, x)],
           gate' \in [Conn -> Gate], gate'[c].task = "IDLE",
           \A d \in Conn \ {c} : gate'[d] = gate[d],
           UNCHANGED <<rows, meta, known, flight, batches, outbox, conn, agent, wire, hub,
                       msgJournal, routed, handled, reported, masked>>
    PROVE  ChannelInv'
<1>1. /\ FlightTypes /\ NetTypes /\ StatusTypes
      /\ BufferInv /\ FlightInv /\ Messages /\ OnePlace /\ Reports /\ Statuses /\ NoSilentLoss
  BY DEF ChannelInv
<1> DEFINE m == gate[c].msg
<1>2. m \in BatchMessage /\ m.kind = "EVENT_BATCH" /\ c = conn /\ conn # 0
  BY <1>1 DEF NetTypes, BatchMessage, Conn
<1>3. Busy(c) /\ Carries(m, batches, flight) /\ EventsOf(m.rows) \subseteq routed
  BY <1>1, <1>2 DEF Busy, Messages
<1>4. /\ x \in DownMessage /\ x.kind = "EVENT_ACK" /\ x.id = m.id /\ x.mark = m.mark
  <2>1. m.id \in Nat /\ m.mark \in Nat /\ gate[c].sentTo + 1 \in Nat
    <3>1. gate[c].sentTo \in Nat
      BY <1>1 DEF NetTypes, Gate
    <3> QED  BY <1>2, <3>1 DEF BatchMessage
  <2> QED  BY <2>1 DEF DownMessage
<1>5. Covers(x, batches, flight, routed)
  BY <1>3, <1>4 DEF Carries, Covers
<1>6. /\ Underway(m.id, flight, agent.sent)
      /\ \A j \in Nat : ~AckAt(j) /\ ~BatchAt(j)
  BY <1>1, <1>2, <1>3 DEF OnePlace
<1>7. /\ queue \in [Conn -> Seq(DownMessage)] /\ queue[c] \in Seq(DownMessage)
  BY <1>1 DEF NetTypes
<1> HIDE DEF m
<1>8. /\ queue' \in [Conn -> Seq(DownMessage)]
      /\ \A d \in Conn : \A i \in 1..Len(queue'[d]) :
            \/ i \in 1..Len(queue[d]) /\ queue'[d][i] = queue[d][i]
            \/ d = c /\ i = Len(queue[c]) + 1 /\ queue'[d][i] = x
  <2>1. /\ Append(queue[c], x) \in Seq(DownMessage)
        /\ \A i \in 1..Len(Append(queue[c], x)) :
             \/ i \in 1..Len(queue[c]) /\ Append(queue[c], x)[i] = queue[c][i]
             \/ i = Len(queue[c]) + 1 /\ Append(queue[c], x)[i] = x
    BY <1>4, <1>7, AppendPlaces
  <2>2. \A d \in Conn : queue'[d] = IF d = c THEN Append(queue[c], x) ELSE queue[d]
    BY <1>7
  <2>3. queue' \in [Conn -> Seq(DownMessage)]
    BY <1>7, <2>1
  <2> QED  BY <2>1, <2>2, <2>3
<1>9. FlightTypes' /\ StatusTypes' /\ BufferInv' /\ FlightInv' /\ NoSilentLoss'
  BY <1>1 DEF FlightTypes, StatusTypes, BufferInv, FlightInv, NoSilentLoss, Held
<1>10. NetTypes'
  BY <1>1, <1>8 DEF NetTypes
<1>11. Messages'
  <2>1. ASSUME NEW d \in Conn
        PROVE  \A i \in 1..Len(queue'[d]) : queue'[d][i].kind = "EVENT_ACK" =>
                   Covers(queue'[d][i], batches', flight', routed')
    BY <1>1, <1>5, <1>8 DEF Messages
  <2>2. ASSUME NEW d \in Conn
        PROVE  /\ \A i \in 1..Len(wire'[d]) : wire'[d][i].kind = "EVENT_BATCH" =>
                      Carries(wire'[d][i], batches', flight')
               /\ Busy(d)' => Carries(gate'[d].msg, batches', flight')
               /\ gate'[d].task = "ROUTED" => EventsOf(gate'[d].msg.rows) \subseteq routed'
    BY <1>1 DEF Messages, Busy
  <2> QED  BY <2>1, <2>2 DEF Messages
<1>12. /\ \A j \in Nat : ~BatchAt(j)'
       /\ ~Busy(conn)'
       /\ \A i \in Nat : AckAt(i)' => i = Len(queue[c]) + 1 /\ queue'[c][i] = x
  <2>1. \A j \in Nat : ~BatchAt(j)'
    BY <1>6 DEF BatchAt
  <2>2. ~Busy(conn)'
    BY <1>2 DEF Busy
  <2>3. \A i \in Nat : AckAt(i)' => i = Len(queue[c]) + 1 /\ queue'[c][i] = x
    BY <1>2, <1>6, <1>8 DEF AckAt
  <2> QED  BY <2>1, <2>2, <2>3
<1>13. OnePlace'
  BY <1>2, <1>4, <1>6, <1>12 DEF OnePlace
<1>14. Reports'
  <2>1. \A y \in Markers(flight.rows) : reported = y.total
    BY <1>1, <1>2 DEF Reports
  <2>2. ASSUME hub' # 0, Markers(rows') = {}
        PROVE  /\ \A i \in 1..Len(wire'[hub']) : Markers(wire'[hub'][i].rows) = {}
               /\ gate'[hub'].task = "RECEIVED" => Markers(gate'[hub'].msg.rows) = {}
    BY <1>1, <2>2 DEF Reports
  <2> QED  BY <1>1, <2>1, <2>2 DEF Reports
<1>15. Statuses'
  <2>1. \A d \in Conn : Handling(d)' => d # c /\ Handling(d) /\ gate'[d] = gate[d]
    BY DEF Handling
  <2> QED  BY <1>1, <2>1 DEF Statuses
<1> QED  BY <1>9, <1>10, <1>11, <1>13, <1>14, <1>15 DEF ChannelInv

LEMMA AcknowledgeBatchKeeps ==
    ASSUME ChannelInv, NEW c \in Conn, AcknowledgeBatch(c)
    PROVE  ChannelInv'
<1>1. NetTypes /\ StatusTypes /\ Statuses
  BY DEF ChannelInv
<1> DEFINE m == gate[c].msg
           x == [kind |-> "EVENT_ACK", id |-> m.id, mark |-> m.mark, seq |-> gate[c].sentTo + 1]
           ack == /\ hub = c /\ UNCHANGED <<hub, wire>>
                  /\ gate' = [gate EXCEPT ![c].task = "IDLE", ![c].msg = NoMessage,
                                          ![c].sentTo = @ + 1]
<1>2. /\ gate[c].task = "ROUTED" /\ c # 0
      /\ UNCHANGED <<rows, meta, known, flight, batches, outbox, conn, agent,
                     msgJournal, routed, handled, reported, masked>>
  BY DEF AcknowledgeBatch, Conn
<1>3. \/ CloseGate(c) /\ Detach(c) /\ UNCHANGED queue
      \/ ack /\ UNCHANGED queue
      \/ ack /\ agent.phase # "OFF" /\ queue' = [queue EXCEPT ![c] = Append(@, x)]
  BY <1>2 DEF AcknowledgeBatch, AckSession, Enqueued
<1>4. ASSUME WireCalm, GateCalm, hub' \in {0, hub}, UNCHANGED queue
      PROVE  ChannelInv'
  <2>1. NetTypes' /\ Untouched'
    BY <1>1, <1>2, <1>4, Unmoved, CalmStep
  <2>2. Statuses' /\ StatusTypes'
    BY <1>1, <1>2, <1>4, StatusesKept DEF StatusTypes
  <2> QED  BY <2>1, <2>2, CalmDone
<1>5. CASE CloseGate(c) /\ Detach(c) /\ UNCHANGED queue
  BY <1>1, <1>4, <1>5, Closed DEF Detach
<1>6. ASSUME ack
      PROVE  /\ gate' \in [Conn -> Gate] /\ gate'[c].task = "IDLE"
             /\ \A d \in Conn \ {c} : gate'[d] = gate[d]
  <2>1. PICK g \in Gate : g = gate[c]
    BY <1>1 DEF NetTypes
  <2>2. PICK n \in Nat : n = g.sentTo + 1
    BY DEF Gate
  <2>3. /\ [g EXCEPT !.task = "IDLE", !.msg = NoMessage, !.sentTo = n] \in Gate
        /\ [g EXCEPT !.task = "IDLE", !.msg = NoMessage, !.sentTo = n].task = "IDLE"
    BY DEF Gate
  <2>4. gate' = [gate EXCEPT ![c] = [g EXCEPT !.task = "IDLE", !.msg = NoMessage, !.sentTo = n]]
    BY <1>1, <1>6, <2>1, <2>2 DEF NetTypes
  <2> QED  BY <1>1, <2>3, <2>4 DEF NetTypes
<1>7. CASE ack /\ UNCHANGED queue
  <2>1. GateCalm
    BY <1>6, <1>7 DEF GateCalm
  <2> QED  BY <1>1, <1>4, <1>7, <2>1, Unmoved
<1>8. CASE ack /\ agent.phase # "OFF" /\ queue' = [queue EXCEPT ![c] = Append(@, x)]
  <2>1. PICK y : y = x
    OBVIOUS
  <2>2. queue' = [queue EXCEPT ![c] = Append(@, y)]
    BY <1>8, <2>1
  <2> QED  BY <1>2, <1>6, <1>8, <2>1, <2>2, AcknowledgesKeeps
<1> QED  BY <1>3, <1>5, <1>7, <1>8

-----------------------------------------------------------------------------
(* The theorems. *)

LEMMA ChannelInitInv ==
    ASSUME ChannelInit
    PROVE  ChannelInv
<1> USE DEF ChannelInit
<1> DEFINE none == [p \in PriorityValues |-> 0]
<1>1. /\ meta \in Meta /\ meta.next = 1 /\ meta.dropped = none /\ meta.coalesced = 0
      /\ meta.last = [k \in Keys |-> NoKey] /\ meta.marker = FALSE /\ DroppedTotal(none) = 0
  BY DEF InitialEventState, Meta, NoKey, DroppedTotal, PriorityValues
<1>2. Sound(rows, meta)
  BY <1>1 DEF Sound, Markers, NoKey
<1>3. BufferInv
  BY <1>2 DEF BufferInv
<1>4. FlightTypes /\ StatusTypes
  BY DEF FlightTypes, StatusTypes, NoBatch
<1>5. NetTypes
  <2>1. agent \in [phase : {"OFF", "HELLO", "SERVING"}, next : Nat, expect : Nat, sent : Nat]
    BY IdleTypes
  <2>2. wire \in [Conn -> Seq(UpMessage)] /\ queue \in [Conn -> Seq(DownMessage)]
    OBVIOUS
  <2>3. gate \in [Conn -> Gate] /\ \A c \in Conn : gate[c].task = "IDLE"
    BY IdleTypes
  <2>4. conn \in 0..MaxConn /\ hub \in {0, conn} /\ agent.phase = "OFF" /\ agent = OffAgent
    BY IdleTypes, ChannelAssumption
  <2> QED  BY <2>1, <2>2, <2>3, <2>4 DEF NetTypes
<1>6. FlightInv
  BY <1>1 DEF FlightInv, NoBatch, Markers
<1>7. \A c \in Conn : gate[c].task = "IDLE" /\ wire[c] = <<>> /\ queue[c] = <<>>
  BY IdleTypes
<1>8. Messages
  BY <1>7 DEF Messages, Busy
<1>9. OnePlace
  BY IdleTypes DEF OnePlace
<1>10. Reports
  BY <1>1, IdleTypes DEF Reports
<1>11. Statuses
  BY <1>7 DEF Statuses, Handling
<1>12. NoSilentLoss
  <2>1. {e \in Event : known[e] # "NEW" /\ e \notin Held /\ e \notin routed} = {}
    OBVIOUS
  <2>2. DroppedTotal(meta.dropped) + meta.coalesced = 0
    BY <1>1
  <2>3. Cardinality({}) = 0
    BY FS_EmptySet
  <2>4. Cardinality({e \in Event : known[e] # "NEW" /\ e \notin Held /\ e \notin routed}) = 0
    BY ONLY <2>1, <2>3
  <2> QED  BY ONLY <2>2, <2>4 DEF NoSilentLoss
<1> QED  BY <1>3, <1>4, <1>5, <1>6, <1>8, <1>9, <1>10, <1>11, <1>12 DEF ChannelInv

LEMMA ChannelNextInv ==
    ASSUME ChannelInv, [ChannelNext]_channelVars
    PROVE  ChannelInv'
<1>1. CASE \E e \in Event : AppendEvent(e)
  BY <1>1, AppendKeeps
<1>2. CASE \E s \in Status : QueueStatus(s)
  BY <1>2, QueueStatusKeeps
<1>3. CASE SendBatch
  BY <1>3, SendBatchKeeps
<1>4. CASE SendStatus
  BY <1>4, SendStatusKeeps
<1>5. CASE AgentReceive
  BY <1>5, AgentReceiveKeeps
<1>6. CASE Dial
  BY <1>6, DialKeeps
<1>7. CASE Push
  BY <1>7, PushKeeps
<1>8. CASE GatewayStep
  BY <1>8, WelcomeKeeps, ReceiveKeeps, RouteMessageKeeps, AcknowledgeBatchKeeps DEF GatewayStep
<1>9. CASE AgentLosesLink \/ AgentSeesClose \/ \E c \in Conn : ConnectionEnds(c)
  BY <1>9, LinkEndsKeeps
<1>10. CASE AgentProcessRestarts
  BY <1>10, AgentProcessRestartsKeeps
<1>11. CASE ControlPlaneCrashes
  BY <1>11, ControlPlaneCrashesKeeps
<1>12. CASE UNCHANGED channelVars
  <2>1. NetTypes /\ StatusTypes /\ Statuses
    BY DEF ChannelInv
  <2>2. NetTypes' /\ Untouched'
    BY <1>12, <2>1, Unmoved, CalmStep DEF channelVars
  <2>3. StatusTypes' /\ Statuses'
    BY <1>12, <2>1, Unmoved, StatusesKept DEF channelVars, StatusTypes
  <2> QED  BY <2>2, <2>3, CalmDone
<1> QED
  BY <1>1, <1>2, <1>3, <1>4, <1>5, <1>6, <1>7, <1>8, <1>9, <1>10, <1>11, <1>12 DEF ChannelNext

\* The invariant above holds in every reachable state, with any number of
\* connections, events and faults.
THEOREM ChannelInvariant == ChannelSpec => []ChannelInv
<1>1. ChannelInit => ChannelInv
  BY ChannelInitInv
<1>2. ChannelInv /\ [ChannelNext]_channelVars => ChannelInv'
  BY ChannelNextInv
<1> QED  BY <1>1, <1>2, PTL DEF ChannelSpec

\* Every event that was appended is in the buffer, was routed, or is counted as
\* dropped or coalesced.
THEOREM NothingLostSilently == ChannelSpec => []NoSilentLoss
<1>1. ChannelInv => NoSilentLoss
  BY DEF ChannelInv
<1> QED  BY <1>1, ChannelInvariant, PTL

\* Once the buffer has drained, the control plane was sent the final count of
\* dropped events.
THEOREM OverflowIsReported == ChannelSpec => []OverflowReported
<1>1. ChannelInv => OverflowReported
  BY DEF ChannelInv, Reports, OverflowReported, Markers
<1> QED  BY <1>1, ChannelInvariant, PTL

\* A status is handled at most once, however often it is sent.
THEOREM StatusesHandledOnce == ChannelSpec => []StatusHandledOnce
<1>1. ChannelInv => StatusHandledOnce
  BY DEF ChannelInv, Statuses, StatusHandledOnce
<1> QED  BY <1>1, ChannelInvariant, PTL

\* An acknowledgement on the Agent's connection names the batch in flight: the
\* branch of the reader that drops the connection for it is never taken.
THEOREM AcknowledgementsFit == ChannelSpec => []AckFitsFlight
<1>1. ASSUME ChannelInv, agent.phase # "OFF", NEW i \in DOMAIN queue[conn],
             queue[conn][i].kind = "EVENT_ACK"
      PROVE  flight.id # 0 /\ AckAccepted(queue[conn][i])
  <2>1. NetTypes /\ Messages /\ OnePlace
    BY <1>1 DEF ChannelInv
  <2>2. conn \in Conn /\ queue[conn] \in Seq(DownMessage)
    BY <1>1, <2>1 DEF NetTypes, Conn
  <2>3. i \in 1..Len(queue[conn]) /\ i \in Nat
    BY <2>2
  <2>4. Underway(queue[conn][i].id, flight, agent.sent) /\ Covers(queue[conn][i], batches, flight, routed)
    BY <1>1, <2>1, <2>2, <2>3 DEF OnePlace, Messages, AckAt
  <2> QED  BY <2>4 DEF Underway, Covers, AckAccepted
<1>2. ChannelInv => AckFitsFlight
  BY <1>1 DEF AckFitsFlight
<1> QED  BY <1>2, ChannelInvariant, PTL

-----------------------------------------------------------------------------
(* The buffer within its capacity, and what its control row points to. *)

\* An event has one row, and the key of a coalescing event points to its own row.
Pointing(rs, m) ==
    /\ IsFiniteSet(rs)
    /\ \A x, y \in Ordinary(rs) : x.event = y.event => x = y
    /\ \A k \in Keys : m.last[k] # NoKey => \E x \in Ordinary(rs) : x.seq = m.last[k]
    /\ \A k, l \in Keys : m.last[k] # NoKey /\ m.last[k] = m.last[l] => k = l

Marks(n, m) == n.acked = m.acked /\ n.peeked = m.peeked

BoundInv ==
    /\ Pointing(rows, meta)
    /\ Cardinality(Ordinary(rows)) <= Capacity
    /\ meta.acked <= meta.peeked /\ meta.peeked < meta.next

LEMMA OrdinaryFinite ==
    ASSUME NEW rs, IsFiniteSet(rs)
    PROVE  IsFiniteSet(Ordinary(rs)) /\ Cardinality(Ordinary(rs)) \in Nat
<1>1. Ordinary(rs) \subseteq rs
  BY DEF Ordinary
<1> QED  BY <1>1, FS_Subset, FS_CardinalityType

\* Rows that go take the pointers to them along.
LEMMA FewerPointing ==
    ASSUME NEW rs, NEW m, Pointing(rs, m), NEW n, NEW qs, qs \subseteq rs,
           \A k \in Keys : n.last[k] = m.last[k] \/ n.last[k] = NoKey,
           \A k \in Keys : \A x \in rs \ qs : n.last[k] # NoKey => n.last[k] # x.seq
    PROVE  Pointing(qs, n) /\ Cardinality(Ordinary(qs)) <= Cardinality(Ordinary(rs))
<1>1. IsFiniteSet(rs) /\ IsFiniteSet(qs)
  BY FS_Subset DEF Pointing
<1>2. Ordinary(qs) \subseteq Ordinary(rs) /\ Ordinary(rs) \subseteq rs
  BY DEF Ordinary
<1>3. Cardinality(Ordinary(qs)) <= Cardinality(Ordinary(rs))
  BY <1>1, <1>2, OrdinaryFinite, FS_Subset
<1>4. ASSUME NEW k \in Keys, n.last[k] # NoKey
      PROVE  \E x \in Ordinary(qs) : x.seq = n.last[k]
  <2>1. PICK x \in Ordinary(rs) : x.seq = n.last[k]
    BY <1>4 DEF Pointing
  <2>2. x \in qs
    BY <1>2, <1>4, <2>1
  <2> QED  BY <2>1, <2>2 DEF Ordinary
<1>5. \A k, l \in Keys : n.last[k] # NoKey /\ n.last[k] = n.last[l] => k = l
  BY DEF Pointing
<1>6. \A x, y \in Ordinary(qs) : x.event = y.event => x = y
  BY <1>2 DEF Pointing
<1> QED  BY <1>1, <1>3, <1>4, <1>5, <1>6 DEF Pointing

LEMMA CoalescedPointing ==
    ASSUME NEW rs, NEW m, Sound(rs, m), Pointing(rs, m), NEW e \in Event,
           NEW c, c = Coalesced(rs, m, e)
    PROVE  /\ Pointing(c.rows, c.meta) /\ c.rows \subseteq rs
           /\ Cardinality(Ordinary(c.rows)) <= Cardinality(Ordinary(rs))
           /\ Marks(c.meta, m)
           /\ \A k \in Keys : c.meta.last[k] = m.last[k] \/ c.meta.last[k] = NoKey
<1> DEFINE key == Key[e]
           kept == {row \in rs : row.seq # m.last[key]}
           n == [m EXCEPT !.coalesced = IF kept = rs THEN @ ELSE @ + 1, !.last[key] = NoKey]
<1>1. key \in Keys /\ m \in Meta
  BY DEF Keys, Sound
<1>2. CASE ~(Priority[e] = PROGRESS /\ m.last[key] # NoKey)
  <2>1. c.rows = rs /\ c.meta = m
    BY <1>2 DEF Coalesced
  <2>2. Cardinality(Ordinary(rs)) \in Nat
    BY OrdinaryFinite DEF Pointing
  <2> QED  BY <1>2, <2>1, <2>2 DEF Marks
<1>3. CASE Priority[e] = PROGRESS /\ m.last[key] # NoKey
  <2>1. c.rows = kept /\ c.meta = n
    BY <1>3 DEF Coalesced
  <2>2. n.acked = m.acked /\ n.peeked = m.peeked
    BY <1>1 DEF Meta
  <2>3. /\ n.last = [m.last EXCEPT ![key] = NoKey] /\ m.last \in [Keys -> Nat]
    BY <1>1 DEF Meta
  <2>4. n.last[key] = NoKey /\ \A k \in Keys \ {key} : n.last[k] = m.last[k]
    BY <1>1, <2>3
  <2> HIDE DEF n
  <2>5. ASSUME NEW k \in Keys, NEW x \in rs \ kept, n.last[k] # NoKey
        PROVE  n.last[k] # x.seq
    <3>1. k # key /\ n.last[k] = m.last[k] /\ x.seq = m.last[key]
      BY <2>4, <2>5
    <3> QED  BY <1>1, <1>3, <3>1 DEF Pointing
  <2>6. kept \subseteq rs
    OBVIOUS
  <2> HIDE DEF kept
  <2>7. \A k \in Keys : n.last[k] = m.last[k] \/ n.last[k] = NoKey
    BY <2>4
  <2>8. Pointing(kept, n) /\ Cardinality(Ordinary(kept)) <= Cardinality(Ordinary(rs))
    BY <2>5, <2>6, <2>7, FewerPointing
  <2> QED  BY <2>1, <2>2, <2>6, <2>7, <2>8 DEF Marks
<1> QED  BY <1>2, <1>3

LEMMA EvictedPointing ==
    ASSUME NEW rs, NEW m, Sound(rs, m), Pointing(rs, m), NEW v \in Ordinary(rs),
           NEW n, n = Forget(m, {v.seq})
    PROVE  /\ Pointing(rs \ {v}, n) /\ Marks(n, m)
           /\ Cardinality(Ordinary(rs \ {v})) < Cardinality(Ordinary(rs))
           /\ \A k \in Keys : n.last[k] = m.last[k] \/ n.last[k] = NoKey
<1> DEFINE last == [k \in Keys |-> IF m.last[k] \in {v.seq} THEN NoKey ELSE m.last[k]]
<1>1. m \in Meta /\ n = [m EXCEPT !.last = last]
  BY DEF Sound, Forget
<1>2. n.last = last /\ n.acked = m.acked /\ n.peeked = m.peeked
  BY <1>1 DEF Meta
<1>3. \A k \in Keys : n.last[k] = m.last[k] \/ n.last[k] = NoKey
  BY <1>2
<1>4. \A k \in Keys : \A x \in rs \ (rs \ {v}) : n.last[k] # NoKey => n.last[k] # x.seq
  BY <1>2
<1>5. Pointing(rs \ {v}, n)
  BY <1>3, <1>4, FewerPointing
<1>6. IsFiniteSet(Ordinary(rs)) /\ Cardinality(Ordinary(rs)) \in Nat
  BY OrdinaryFinite DEF Pointing
<1>7. Ordinary(rs \ {v}) = Ordinary(rs) \ {v}
  BY DEF Ordinary
<1>8. Cardinality(Ordinary(rs) \ {v}) = Cardinality(Ordinary(rs)) - 1
  BY <1>6, FS_RemoveElement
<1>9. Cardinality(Ordinary(rs \ {v})) < Cardinality(Ordinary(rs))
  <2>1. Cardinality(Ordinary(rs \ {v})) = Cardinality(Ordinary(rs) \ {v})
    BY ONLY <1>7, Zenon
  <2> QED  BY <1>6, <1>8, <2>1
<1>10. Marks(n, m)
  BY <1>2 DEF Marks
<1> HIDE DEF last
<1> QED  BY <1>3, <1>5, <1>9, <1>10

LEMMA OverflowPointing ==
    ASSUME NEW rs, NEW m, Sound(rs, m), Pointing(rs, m), NEW p \in PriorityValues,
           NEW o, o = RecordOverflow(rs, m, p)
    PROVE  /\ Pointing(o.rows, o.meta) /\ Ordinary(o.rows) = Ordinary(rs)
           /\ Marks(o.meta, m) /\ o.meta.last = m.last
<1> DEFINE d == [m.dropped EXCEPT ![p] = @ + 1]
           t == DroppedTotal(d)
<1>1. m \in Meta
  BY DEF Sound
<1> HIDE DEF d
<1>2. CASE m.marker
  <2> DEFINE up(x) == [x EXCEPT !.total = t]
             ms == {up(x) : x \in Markers(rs)}
  <2>1. o.rows = Ordinary(rs) \cup ms /\ o.meta = [m EXCEPT !.dropped = d]
    BY <1>2 DEF RecordOverflow, d
  <2>2. o.meta.last = m.last /\ o.meta.acked = m.acked /\ o.meta.peeked = m.peeked
    BY <1>1, <2>1 DEF Meta
  <2>3. \A x \in ms : x.event = Marker
    <3>1. \A x \in Markers(rs) : x \in RowSet /\ x.event = Marker
      BY DEF Markers, Sound
    <3>2. \A x \in Markers(rs) : up(x).event = Marker
      BY <3>1 DEF RowSet
    <3> QED  BY <3>2
  <2>4. IsFiniteSet(ms)
    <3>1. \A x, y \in Markers(rs) : x = y
      BY DEF Sound
    <3>2. \A x, y \in ms : x = y
      BY <3>1
    <3>3. CASE ms = {}
      BY <3>3, FS_EmptySet
    <3>4. CASE ms # {}
      <4>1. PICK x \in ms : TRUE
        BY <3>4
      <4>2. ms = {x}
        BY <3>2, <4>1
      <4> QED  BY <4>2, FS_Singleton
    <3> QED  BY <3>3, <3>4
  <2> HIDE DEF ms
  <2>5. Ordinary(o.rows) = Ordinary(rs)
    BY <2>1, <2>3 DEF Ordinary
  <2>6. IsFiniteSet(o.rows)
    <3>1. IsFiniteSet(Ordinary(rs))
      BY OrdinaryFinite DEF Pointing
    <3>2. IsFiniteSet(Ordinary(rs) \cup ms)
      BY <2>4, <3>1, FS_Union
    <3> QED  BY <2>1, <3>2
  <2> QED  BY <2>2, <2>5, <2>6 DEF Pointing, Marks
<1>3. CASE ~m.marker
  <2> DEFINE r == RowOf(Marker, m.next, t)
  <2>1. /\ o.rows = rs \cup {r}
        /\ o.meta = [m EXCEPT !.dropped = d, !.marker = TRUE, !.next = @ + 1]
    BY <1>3 DEF RecordOverflow, d
  <2>2. o.meta.last = m.last /\ o.meta.acked = m.acked /\ o.meta.peeked = m.peeked
    BY <1>1, <2>1 DEF Meta
  <2>3. r.event = Marker
    BY DEF RowOf
  <2> HIDE DEF r
  <2>4. Ordinary(o.rows) = Ordinary(rs)
    BY <2>1, <2>3 DEF Ordinary
  <2>5. IsFiniteSet(o.rows)
    BY <2>1, FS_AddElement DEF Pointing
  <2> QED  BY <2>2, <2>4, <2>5 DEF Pointing, Marks
<1> QED  BY <1>2, <1>3

\* The new row fills a free place; its key, if it coalesces, pointed nowhere or to
\* a row that went.
LEMMA InsertedPointing ==
    ASSUME NEW rs, NEW m, Sound(rs, m), Pointing(rs, m), NEW e \in Event, NEW seq \in Nat \ {0},
           \A k \in Keys : m.last[k] # seq,
           \A x \in rs : x.event # e,
           Cardinality(Ordinary(rs)) < Capacity,
           NEW qs, qs = rs \cup {RowOf(e, seq, 0)}, NEW n, n = Remember(m, e, seq)
    PROVE  Pointing(qs, n) /\ Marks(n, m) /\ Cardinality(Ordinary(qs)) <= Capacity
<1> DEFINE r == RowOf(e, seq, 0)
<1>1. r.event = e /\ r.seq = seq /\ e # Marker /\ Key[e] \in Keys /\ m \in Meta
  BY PrioritiesAre DEF RowOf, Keys, Sound
<1>2. /\ n.acked = m.acked /\ n.peeked = m.peeked
      /\ \A k \in Keys : n.last[k] = m.last[k] \/ (k = Key[e] /\ n.last[k] = seq)
  <2>1. CASE Priority[e] = PROGRESS
    <3>1. n = [m EXCEPT !.last = [m.last EXCEPT ![Key[e]] = seq]]
      BY <2>1 DEF Remember
    <3>2. n.last = [m.last EXCEPT ![Key[e]] = seq] /\ m.last \in [Keys -> Nat]
      BY <1>1, <3>1 DEF Meta
    <3> QED  BY <1>1, <3>1, <3>2 DEF Meta
  <2>2. CASE Priority[e] # PROGRESS
    BY <2>2 DEF Remember
  <2> QED  BY <2>1, <2>2
<1> HIDE DEF r
<1>3. Ordinary(qs) = Ordinary(rs) \cup {r}
  BY <1>1 DEF Ordinary, r
<1>4. IsFiniteSet(qs)
  BY FS_AddElement DEF Pointing
<1>5. Cardinality(Ordinary(qs)) <= Capacity
  <2>1. IsFiniteSet(Ordinary(rs)) /\ Cardinality(Ordinary(rs)) \in Nat
    BY OrdinaryFinite DEF Pointing
  <2>2. Cardinality(Ordinary(rs) \cup {r}) <= Cardinality(Ordinary(rs)) + 1
    <3>1. PICK S : S = Ordinary(rs)
      OBVIOUS
    <3>2. Cardinality(S \cup {r}) = IF r \in S THEN Cardinality(S) ELSE Cardinality(S) + 1
      BY <2>1, <3>1, FS_AddElement
    <3>3. Cardinality(S \cup {r}) <= Cardinality(S) + 1
      BY <2>1, <3>1, <3>2
    <3> QED  BY <3>1, <3>3
  <2>3. Cardinality(Ordinary(qs)) = Cardinality(Ordinary(rs) \cup {r})
    BY ONLY <1>3, Zenon
  <2>4. Cardinality(Ordinary(qs)) \in Nat /\ Capacity \in Nat
    BY <1>4, OrdinaryFinite, ChannelAssumption
  <2> QED  BY <2>1, <2>2, <2>3, <2>4
<1>6. \A x, y \in Ordinary(qs) : x.event = y.event => x = y
  <2>1. \A x \in Ordinary(rs) : x.event # e
    BY DEF Ordinary
  <2> QED  BY <1>1, <1>3, <2>1 DEF Pointing
<1>7. \A k \in Keys : n.last[k] # NoKey => \E x \in Ordinary(qs) : x.seq = n.last[k]
  BY <1>1, <1>2, <1>3 DEF Pointing
<1>8. \A k, l \in Keys : n.last[k] # NoKey /\ n.last[k] = n.last[l] => k = l
  BY <1>2 DEF Pointing
<1> QED  BY <1>2, <1>4, <1>5, <1>6, <1>7, <1>8 DEF Pointing, Marks

LEMMA AppendBounded ==
    ASSUME BufferInv, BoundInv, NEW e \in Event, AppendEvent(e)
    PROVE  Pointing(rows', meta') /\ Marks(meta', meta) /\ Cardinality(Ordinary(rows')) <= Capacity
<1> DEFINE m == [meta EXCEPT !.next = @ + 1]
           c == Coalesced(rows, m, e)
<1>1. /\ Sound(rows, meta) /\ meta \in Meta /\ Pointing(rows, meta)
      /\ meta.next \in Nat \ {0} /\ \A x \in rows : x.event # e
      /\ \A k \in Keys : meta.last[k] < meta.next /\ meta.last[k] \in Nat
      /\ Cardinality(Ordinary(rows)) <= Capacity
  <2>1. known[e] = "NEW"
    BY DEF AppendEvent
  <2> QED  BY <2>1 DEF BufferInv, Sound, Meta, BoundInv
<1>2. /\ m \in Meta /\ m.next = meta.next + 1 /\ m.dropped = meta.dropped
      /\ m.last = meta.last /\ m.marker = meta.marker /\ Marks(m, meta)
  BY <1>1 DEF Meta, Marks
<1>3. /\ \/ /\ ~(Cardinality(Ordinary(c.rows)) >= Capacity)
            /\ rows' = c.rows \cup {RowOf(e, meta.next, 0)} /\ meta' = Remember(c.meta, e, meta.next)
         \/ \E v \in LowestPriority(c.rows) :
               LET o == RecordOverflow(c.rows \ {v}, Forget(c.meta, {v.seq}), PriorityOf(v))
               IN /\ rows' = o.rows \cup {RowOf(e, meta.next, 0)}
                  /\ meta' = Remember(o.meta, e, meta.next)
         \/ LET o == RecordOverflow(c.rows, c.meta, Priority[e]) IN rows' = o.rows /\ meta' = o.meta
  BY DEF AppendEvent, m
<1> HIDE DEF m
<1>4. Sound(rows, m) /\ Pointing(rows, m)
  <2>1. \A x \in rows : 0 < x.seq /\ x.seq < m.next
    BY <1>1, <1>2 DEF Sound, RowSet
  <2>2. \A k \in Keys : m.last[k] < m.next
    BY <1>1, <1>2
  <2> QED  BY <1>1, <1>2, <2>1, <2>2 DEF Sound, Pointing
<1>5. /\ Sound(c.rows, c.meta) /\ c.rows \subseteq rows /\ Pointing(c.rows, c.meta)
      /\ Cardinality(Ordinary(c.rows)) <= Cardinality(Ordinary(rows)) /\ Marks(c.meta, m)
      /\ \A k \in Keys : c.meta.last[k] = m.last[k] \/ c.meta.last[k] = NoKey
  BY <1>4, CoalescedSound, CoalescedPointing
<1> HIDE DEF c
<1>6. /\ \A k \in Keys : c.meta.last[k] # meta.next
      /\ \A x \in c.rows : x.event # e
      /\ Cardinality(Ordinary(rows)) \in Nat /\ Cardinality(Ordinary(c.rows)) \in Nat
      /\ Capacity \in Nat
      /\ Marks(c.meta, meta)
  <2>1. Cardinality(Ordinary(rows)) \in Nat /\ Cardinality(Ordinary(c.rows)) \in Nat
    BY <1>1, <1>5, OrdinaryFinite DEF Pointing
  <2>2. \A k \in Keys : c.meta.last[k] # meta.next
    BY <1>1, <1>2, <1>5 DEF NoKey
  <2> QED  BY <1>1, <1>2, <1>5, <2>1, <2>2, ChannelAssumption DEF Marks
<1>7. CASE /\ ~(Cardinality(Ordinary(c.rows)) >= Capacity)
           /\ rows' = c.rows \cup {RowOf(e, meta.next, 0)} /\ meta' = Remember(c.meta, e, meta.next)
  <2>1. Cardinality(Ordinary(c.rows)) < Capacity
    BY <1>6, <1>7
  <2>2. /\ Pointing(rows', meta') /\ Marks(meta', c.meta)
        /\ Cardinality(Ordinary(rows')) <= Capacity
    BY <1>1, <1>5, <1>6, <1>7, <2>1, InsertedPointing
  <2> QED  BY <1>6, <2>2 DEF Marks
<1>8. ASSUME NEW v \in LowestPriority(c.rows), NEW o,
             o = RecordOverflow(c.rows \ {v}, Forget(c.meta, {v.seq}), PriorityOf(v)),
             rows' = o.rows \cup {RowOf(e, meta.next, 0)}, meta' = Remember(o.meta, e, meta.next)
      PROVE  Pointing(rows', meta') /\ Marks(meta', meta) /\ Cardinality(Ordinary(rows')) <= Capacity
  <2> DEFINE n == Forget(c.meta, {v.seq})
             rs == c.rows \ {v}
  <2>1. v \in Ordinary(c.rows) /\ PriorityOf(v) \in PriorityValues
    BY <1>5, PrioritiesAre DEF LowestPriority, Ordinary, Sound, RowSet
  <2>2. /\ Sound(rs, n) /\ Pointing(rs, n) /\ Marks(n, c.meta)
        /\ Cardinality(Ordinary(rs)) < Cardinality(Ordinary(c.rows))
        /\ \A k \in Keys : n.last[k] = c.meta.last[k] \/ n.last[k] = NoKey
    BY <1>5, <2>1, EvictedSound, EvictedPointing
  <2>3. \A x \in rs : x.event # e
    BY <1>6
  <2>4. o = RecordOverflow(rs, n, PriorityOf(v))
    BY <1>8
  <2> HIDE DEF n, rs
  <2>5. /\ Pointing(o.rows, o.meta) /\ Ordinary(o.rows) = Ordinary(rs)
        /\ Marks(o.meta, n) /\ o.meta.last = n.last
    BY <2>1, <2>2, <2>4, OverflowPointing
  <2>6. Sound(o.rows, o.meta) /\ \A x \in o.rows : x.event = Marker \/ x \in rs
    <3>1. Overflowed(o, rs, n)
      BY <2>1, <2>2, <2>4, OverflowSound
    <3> QED  BY <3>1 DEF Overflowed
  <2>7. \A x \in o.rows : x.event # e
    BY <2>3, <2>6, PrioritiesAre
  <2>8. \A k \in Keys : o.meta.last[k] # meta.next
    BY <1>1, <1>6, <2>2, <2>5 DEF NoKey
  <2>9. Cardinality(Ordinary(o.rows)) < Capacity
    <3>1. Cardinality(Ordinary(rs)) \in Nat
      BY <2>2, OrdinaryFinite DEF Pointing
    <3> QED  BY <1>1, <1>5, <1>6, <2>2, <2>5, <3>1
  <2>10. /\ Pointing(rows', meta') /\ Marks(meta', o.meta)
         /\ Cardinality(Ordinary(rows')) <= Capacity
    BY <1>1, <1>8, <2>5, <2>6, <2>7, <2>8, <2>9, InsertedPointing
  <2> QED  BY <1>6, <2>2, <2>5, <2>10 DEF Marks
<1>9. ASSUME NEW o, o = RecordOverflow(c.rows, c.meta, Priority[e]), rows' = o.rows, meta' = o.meta
      PROVE  Pointing(rows', meta') /\ Marks(meta', meta) /\ Cardinality(Ordinary(rows')) <= Capacity
  <2>1. Priority[e] \in PriorityValues
    BY PrioritiesAre
  <2>2. /\ Pointing(o.rows, o.meta) /\ Ordinary(o.rows) = Ordinary(c.rows) /\ Marks(o.meta, c.meta)
    BY <1>5, <1>9, <2>1, OverflowPointing
  <2>3. Cardinality(Ordinary(o.rows)) <= Capacity
    BY <1>1, <1>5, <1>6, <2>2
  <2> QED  BY <1>6, <1>9, <2>2, <2>3 DEF Marks
<1> QED  BY <1>3, <1>7, <1>8, <1>9

LEMMA AcknowledgeBounded ==
    ASSUME BufferInv, BoundInv, NEW w \in Nat, w <= meta.peeked, AcknowledgeThrough(w)
    PROVE  BoundInv'
<1> DEFINE last == [k \in Keys |-> IF meta.last[k] \in 1..w THEN NoKey ELSE meta.last[k]]
<1>1. /\ rows \subseteq RowSet /\ meta \in Meta /\ Sound(rows, meta)
      /\ Pointing(rows, meta) /\ Cardinality(Ordinary(rows)) <= Capacity
      /\ meta.peeked < meta.next /\ \A x \in rows : x.seq \in Nat /\ 0 < x.seq
  BY DEF Sound, RowSet, BufferInv, BoundInv
<1>2. rows' = {x \in rows : x.seq > w} /\ meta'.next = meta.next
  BY <1>1, AcknowledgedSound
<1>3. /\ last \in [Keys -> Nat] /\ Forget(meta, 1..w) = [meta EXCEPT !.last = last]
      /\ \A k \in Keys : last[k] = meta.last[k] \/ last[k] = NoKey
      /\ \A k \in Keys : last[k] # NoKey => last[k] \notin 1..w
  BY <1>1 DEF Meta, NoKey, Forget
<1> HIDE DEF last
<1>4. meta'.last = last /\ meta'.acked = w /\ meta'.peeked = meta.peeked
  <2>1. PICK n : n = [meta EXCEPT !.last = last]
    OBVIOUS
  <2>2. n \in Meta /\ n.last = last /\ n.peeked = meta.peeked
    BY <1>1, <1>3, <2>1 DEF Meta
  <2>3. meta' = [n EXCEPT !.acked = w, !.marker = @ /\ Markers(rows') # {}]
    BY <1>3, <2>1 DEF AcknowledgeThrough
  <2> QED  BY <2>2, <2>3 DEF Meta
<1>5. \A k \in Keys : \A x \in rows \ rows' : meta'.last[k] # NoKey => meta'.last[k] # x.seq
  <2>1. \A x \in rows \ rows' : x.seq \in 1..w
    BY <1>1, <1>2
  <2> QED  BY <1>3, <1>4, <2>1
<1>6. rows' \subseteq rows
  BY <1>2
<1>7. Pointing(rows', meta') /\ Cardinality(Ordinary(rows')) <= Cardinality(Ordinary(rows))
  <2>1. \A k \in Keys : meta'.last[k] = meta.last[k] \/ meta'.last[k] = NoKey
    BY <1>3, <1>4
  <2>2. PICK rs, m, qs, n : rs = rows /\ m = meta /\ qs = rows' /\ n = meta'
    OBVIOUS
  <2>3. Pointing(qs, n) /\ Cardinality(Ordinary(qs)) <= Cardinality(Ordinary(rs))
    BY <1>1, <1>5, <1>6, <2>1, <2>2, FewerPointing
  <2> QED  BY <2>2, <2>3
<1>8. Cardinality(Ordinary(rows')) <= Capacity
  <2>1. Cardinality(Ordinary(rows')) \in Nat /\ Cardinality(Ordinary(rows)) \in Nat /\ Capacity \in Nat
    BY <1>1, <1>7, OrdinaryFinite, ChannelAssumption DEF Pointing
  <2> QED  BY <1>1, <1>7, <2>1
<1> QED  BY <1>1, <1>2, <1>4, <1>7, <1>8 DEF BoundInv

LEMMA PeekBounded ==
    ASSUME BufferInv, BoundInv, Peek, UNCHANGED rows
    PROVE  BoundInv'
<1>1. PICK w \in {meta.peeked} \cup {row.seq : row \in PeekedRows} :
          meta.peeked <= w /\ meta' = [meta EXCEPT !.peeked = w]
  BY DEF Peek
<1>2. meta \in Meta /\ w \in Nat /\ w < meta.next /\ meta.acked <= meta.peeked
  BY <1>1 DEF BufferInv, Sound, Meta, PeekedRows, RowSet, BoundInv
<1>3. /\ meta'.acked = meta.acked /\ meta'.peeked = w /\ meta'.next = meta.next
      /\ meta'.last = meta.last
  BY <1>1, <1>2 DEF Meta
<1>4. meta.acked <= w
  BY <1>1, <1>2 DEF Meta
<1> QED  BY <1>2, <1>3, <1>4 DEF BoundInv, Pointing

LEMMA BoundNext ==
    ASSUME ChannelInv, BoundInv, [ChannelNext]_channelVars
    PROVE  BoundInv'
<1>1. BufferInv /\ NoSilentLoss
  BY DEF ChannelInv
<1>2. ASSUME NEW e \in Event, AppendEvent(e) PROVE BoundInv'
  <2>1. /\ Pointing(rows', meta') /\ Marks(meta', meta) /\ Cardinality(Ordinary(rows')) <= Capacity
    BY <1>1, <1>2, AppendBounded
  <2>2. meta'.next >= meta.next /\ meta' \in Meta /\ meta \in Meta
    BY <1>1, <1>2, AppendStep DEF Appended, BufferInv, Sound
  <2>3. meta'.peeked < meta'.next
    BY <2>1, <2>2 DEF Marks, Meta, BoundInv
  <2> QED  BY <2>1, <2>3 DEF BoundInv, Marks
<1>3. CASE SendBatch
  BY <1>1, <1>3, PeekBounded DEF SendBatch, BoundInv
<1>4. CASE AgentReceive
  <2>1. CASE UNCHANGED <<rows, meta>>
    BY <2>1 DEF BoundInv
  <2>2. ASSUME NEW m, m.mark <= meta.peeked, m.mark = flight.mark, AcknowledgeThrough(m.mark)
        PROVE  BoundInv'
    <3>1. m.mark \in Nat
      BY <2>2 DEF ChannelInv, FlightTypes
    <3> QED  BY <1>1, <2>2, <3>1, AcknowledgeBounded
  <2> QED  BY <1>4, <2>1, <2>2 DEF AgentReceive, ReceiveAck, AckAccepted
<1>5. CASE UNCHANGED <<rows, meta>>
  BY <1>5 DEF BoundInv
<1>6. CASE GatewayStep
  BY <1>5, <1>6 DEF GatewayStep, Welcome, Receive, RouteMessage, AcknowledgeBatch
<1>7. CASE Dial \/ Push \/ SendStatus \/ \E s \in Status : QueueStatus(s)
  BY <1>5, <1>7 DEF Dial, Push, SendStatus, QueueStatus
<1>8. CASE \/ AgentLosesLink \/ AgentSeesClose \/ AgentProcessRestarts \/ ControlPlaneCrashes
           \/ \E c \in Conn : ConnectionEnds(c)
  BY <1>5, <1>8 DEF AgentLosesLink, AgentSeesClose, AgentProcessRestarts, ControlPlaneCrashes,
                    ConnectionEnds
<1>9. CASE UNCHANGED channelVars
  BY <1>5, <1>9 DEF channelVars
<1> QED
  BY <1>2, <1>3, <1>4, <1>6, <1>7, <1>8, <1>9 DEF ChannelNext

LEMMA BoundAlways == ChannelSpec => []BoundInv
<1>1. ChannelInit => BoundInv
  <2> SUFFICES ASSUME ChannelInit PROVE BoundInv
    OBVIOUS
  <2>1. rows = {} /\ Ordinary(rows) = {} /\ Capacity \in Nat
    BY ChannelAssumption DEF ChannelInit, Ordinary
  <2>2. /\ meta.last = [k \in Keys |-> NoKey] /\ meta.acked = 0 /\ meta.peeked = 0 /\ meta.next = 1
    BY DEF ChannelInit, InitialEventState
  <2>3. IsFiniteSet(rows) /\ Cardinality(Ordinary(rows)) = 0
    BY <2>1, FS_EmptySet
  <2> QED  BY <2>1, <2>2, <2>3 DEF BoundInv, Pointing
<1>2. ChannelInv /\ BoundInv /\ [ChannelNext]_channelVars => BoundInv'
  BY BoundNext
<1> QED  BY <1>1, <1>2, ChannelInvariant, PTL DEF ChannelSpec

\* The buffer and its control row agree in every reachable state: no more than
\* Capacity ordinary rows, one row for an event, no coalescing key that points to a
\* row that is gone, and watermarks in order (sqlite_state.py).
THEOREM ChannelTypeCorrect == ChannelSpec => []ChannelTypeOK
<1>1. ChannelInv /\ BoundInv => ChannelTypeOK
  <2> SUFFICES ASSUME ChannelInv, BoundInv PROVE ChannelTypeOK
    OBVIOUS
  <2>1. BufferInv /\ FlightTypes /\ NetTypes /\ Sound(rows, meta)
    BY DEF ChannelInv, BufferInv
  <2>2. \A x, y \in rows : x.seq = y.seq \/ x.event = y.event => x = y
    <3>1. \A x \in rows : x \in Ordinary(rows) \/ x \in Markers(rows)
      BY DEF Ordinary, Markers
    <3>2. \A x \in Ordinary(rows), y \in Markers(rows) : x.event # y.event
      BY DEF Ordinary, Markers
    <3> QED  BY <2>1, <3>1, <3>2 DEF Sound, BoundInv, Pointing
  <2>3. \A k \in Keys : meta.last[k] # NoKey => \E row \in rows : row.seq = meta.last[k]
    BY DEF BoundInv, Pointing, Ordinary
  <2>4. \A c \in Conn : wire[c] \in Seq([kind: {"EVENT_BATCH", "STATUS"},
          id: Nat \cup Status, seq: Nat, mark: Nat, rows: SUBSET RowSet])
    <3> DEFINE M == [kind: {"EVENT_BATCH", "STATUS"}, id: Nat \cup Status, seq: Nat, mark: Nat,
                     rows: SUBSET RowSet]
    <3>1. UpMessage \subseteq M
      BY DEF UpMessage, BatchMessage, StatusMessage
    <3>2. \A c \in Conn : wire[c] \in Seq(UpMessage)
      BY <2>1 DEF NetTypes
    <3> HIDE DEF M
    <3>3. ASSUME NEW s \in Seq(UpMessage) PROVE s \in Seq(M)
      BY <3>1
    <3>4. \A c \in Conn : wire[c] \in Seq(M)
      BY <3>2, <3>3
    <3> QED  BY <3>4 DEF M
  <2>5. rows \subseteq RowSet /\ flight.rows \subseteq RowSet /\ hub \in 0..MaxConn
    <3>1. 0 \in 0..MaxConn
      BY ChannelAssumption
    <3> QED  BY <2>1, <3>1 DEF Sound, FlightTypes, NetTypes
  <2>6. meta.marker <=> Markers(rows) # {}
    BY <2>1 DEF Sound
  <2> QED  BY <2>2, <2>3, <2>4, <2>5, <2>6 DEF ChannelTypeOK, BoundInv
<1> QED  BY <1>1, ChannelInvariant, BoundAlways, PTL
=============================================================================

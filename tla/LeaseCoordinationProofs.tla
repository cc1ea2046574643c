--------------------- MODULE LeaseCoordinationProofs ---------------------
(***************************************************************************)
(* Proofs about LeaseCoordination, for every value of its constants.  The  *)
(* inductive invariant ties every lease that exists anywhere (coordination *)
(* record, suspended handler, message, Agent store) to the row of the      *)
(* bench's append-only history that has its version.                       *)
(***************************************************************************)
EXTENDS LeaseCoordination, FiniteSetTheorems, TLAPS

\* Lease l was written to history h for the reservation that still owns that row.
Bound(l, h, rec) ==
    /\ l.version \in 1..Len(h[l.bench])
    /\ h[l.bench][l.version].res = l.res
    /\ rec[l.res].bench = l.bench
    /\ l.version <= rec[l.res].version

\* The Agent has stored l, or a later version of the same bench.
Reached(l, st) == l.version <= st[l.bench].version

\* A record with a lease owns the row of that version; a current record's version
\* is the newest of its bench; a record that is not coordinated has no lease; an
\* ACTIVE record's version has reached the Agent.
RecordInv ==
    \A r \in Reservation :
        /\ record[r].version <= Len(history[record[r].bench])
        /\ record[r].version > 0 => history[record[r].bench][record[r].version].res = r
        /\ Current(r) => record[r].version = Len(history[record[r].bench])
        /\ Current(r) => record[r].version > 0
        /\ record[r].state \in {"NONE", "SCHEDULED"} => record[r].version = 0
        /\ record[r].state = "ACTIVE" => record[r].version <= store[record[r].bench].version

\* What the Agent stores for bench b is a lease of the history.
StoreInv ==
    \A b \in Bench :
        store[b].version > 0 => /\ store[b].version <= Len(history[b])
                                /\ history[b][store[b].version].res = store[b].res
                                /\ record[store[b].res].bench = b
                                /\ store[b].version <= record[store[b].res].version

\* So is what the control plane has sent ...
DownOK(m, h, rec) == m.type # "reconcile" => Bound(m.lease, h, rec)
DownInv == \A i \in 1..Len(down) : DownOK(down[i], history, record)

\* ... and what the Agent has sent, which it had stored before.
UpOK(m, h, rec, st) ==
    /\ m.type = "applied" => Bound(m.lease, h, rec) /\ Reached(m.lease, st)
    /\ m.type = "report" => \A l \in m.leases : Bound(l, h, rec) /\ Reached(l, st)
UpInv == \A i \in 1..Len(up) : UpOK(up[i], history, record, store)

\* What a suspended handler read before its await: it is behind the record, or the
\* record is still the pending one; a confirmed version has reached the Agent.
WaitOK(w, rec, st) ==
    /\ w.version >= 1 /\ w.version <= rec[w.res].version
    /\ w.revision <= rec[w.res].revision
    /\ w.revision = rec[w.res].revision
         => /\ w.version = rec[w.res].version
            /\ rec[w.res].state \in {"ACTIVATING", "RENEWING"}
    /\ w.confirmed => w.version <= st[rec[w.res].bench].version
WaitInv == \A w \in waits : WaitOK(w, record, store)

Inv == TypeOK /\ RecordInv /\ StoreInv /\ DownInv /\ UpInv /\ WaitInv

-----------------------------------------------------------------------------
(* Steps only move forward. *)

RecordsGrow ==
    \A r \in Reservation :
        /\ record[r].version > 0 => /\ record'[r].bench = record[r].bench
                                    /\ record'[r].version >= record[r].version
        /\ \/ record'[r] = record[r]
           \/ record[r].version = 0
           \/ record'[r].revision > record[r].revision

HistoryGrows ==
    \A b \in Bench :
        /\ Len(history'[b]) >= Len(history[b])
        /\ \A v \in 1..Len(history[b]) : history'[b][v].res = history[b][v].res

StoreGrows == \A b \in Bench : store'[b].version >= store[b].version

Grows == RecordsGrow /\ HistoryGrows /\ StoreGrows

\* Leases, receipts and suspended handlers stay sound across a growing step.
LEMMA Monotone ==
    ASSUME Inv, TypeOK', Grows
    PROVE  /\ \A l \in Lease : Bound(l, history, record) => Bound(l, history', record')
           /\ \A l \in Lease : Reached(l, store) => Reached(l, store')
           /\ \A w \in Wait : WaitOK(w, record, store) => WaitOK(w, record', store')
<1> USE DEF Grows, RecordsGrow, HistoryGrows, StoreGrows
<1>1. ASSUME NEW l \in Lease, Bound(l, history, record)
      PROVE  Bound(l, history', record')
  <2>1. l.bench \in Bench /\ l.res \in Reservation /\ l.version \in Nat
    BY DEF Lease
  <2>2. record \in [Reservation -> Record] /\ record' \in [Reservation -> Record]
    BY DEF Inv, TypeOK
  <2>3. record[l.res].version \in Nat /\ record'[l.res].version \in Nat
    BY <2>1, <2>2 DEF Record
  <2>4. Len(history[l.bench]) \in Nat /\ Len(history'[l.bench]) \in Nat
    BY <2>1 DEF Inv, TypeOK
  <2> QED
    BY <1>1, <2>1, <2>3, <2>4 DEF Bound
<1>2. ASSUME NEW l \in Lease, Reached(l, store)
      PROVE  Reached(l, store')
  <2>1. l.bench \in Bench /\ l.version \in Nat
    BY DEF Lease
  <2>2. store[l.bench].version \in Nat /\ store'[l.bench].version \in Nat
    BY <2>1 DEF Inv, TypeOK, Stored
  <2> QED
    BY <1>2, <2>1, <2>2 DEF Reached
<1>3. ASSUME NEW w \in Wait, WaitOK(w, record, store)
      PROVE  WaitOK(w, record', store')
  <2>1. w.res \in Reservation /\ w.version \in Nat /\ w.revision \in Nat
    BY DEF Wait
  <2>2. record \in [Reservation -> Record] /\ record' \in [Reservation -> Record]
    BY DEF Inv, TypeOK
  <2>3. /\ record[w.res].version \in Nat /\ record'[w.res].version \in Nat
        /\ record[w.res].revision \in Nat /\ record'[w.res].revision \in Nat
        /\ record[w.res].bench \in Bench
    BY <2>1, <2>2 DEF Record
  <2>4. /\ store[record[w.res].bench].version \in Nat
        /\ store'[record[w.res].bench].version \in Nat
    BY <2>3 DEF Inv, TypeOK, Stored
  <2>5. WaitOK(w, record, store)
    BY <1>3
  <2>6. CASE record'[w.res] = record[w.res]
    BY <2>1, <2>3, <2>4, <2>5, <2>6 DEF WaitOK
  <2>7. CASE record'[w.res] # record[w.res]
    <3>1. /\ record[w.res].version > 0
          /\ w.version <= record[w.res].version
          /\ w.revision <= record[w.res].revision
      BY <2>1, <2>3, <2>5 DEF WaitOK
    <3>2. record'[w.res].revision > record[w.res].revision
      BY <2>1, <2>3, <2>7, <3>1
    <3>3. /\ record'[w.res].bench = record[w.res].bench
          /\ record'[w.res].version >= record[w.res].version
      BY <2>1, <3>1
    <3> QED
      BY <2>1, <2>3, <2>4, <2>5, <3>1, <3>2, <3>3 DEF WaitOK
  <2> QED
    BY <2>6, <2>7
<1> QED
  BY <1>1, <1>2, <1>3

\* Messages that were sound before a growing step are sound after it.
LEMMA OldMessages ==
    ASSUME Inv, TypeOK', Grows
    PROVE  /\ \A m \in DownMsg : DownOK(m, history, record) => DownOK(m, history', record')
           /\ \A m \in UpMsg : UpOK(m, history, record, store)
                                 => UpOK(m, history', record', store')
<1>1. ASSUME NEW m \in DownMsg, DownOK(m, history, record)
      PROVE  DownOK(m, history', record')
  <2>1. m.type # "reconcile" => m.lease \in Lease
    BY DEF DownMsg
  <2> QED
    BY <1>1, <2>1, Monotone DEF DownOK
<1>2. ASSUME NEW m \in UpMsg, UpOK(m, history, record, store)
      PROVE  UpOK(m, history', record', store')
  <2>1. /\ m.type = "applied" => m.lease \in Lease
        /\ m.type = "report" => m.leases \subseteq Lease
    BY DEF UpMsg
  <2> QED
    BY <1>2, <2>1, Monotone DEF UpOK
<1> QED
  BY <1>1, <1>2

\* The invariant after a growing step, from what the step leaves in the queues and
\* among the suspended handlers, each sound before or after it.
LEMMA GrowingStep ==
    ASSUME Inv, TypeOK', Grows, RecordInv', StoreInv',
           \A i \in 1..Len(down') : \/ DownOK(down'[i], history, record)
                                    \/ DownOK(down'[i], history', record'),
           \A i \in 1..Len(up') : \/ UpOK(up'[i], history, record, store)
                                  \/ UpOK(up'[i], history', record', store'),
           \A w \in waits' : \/ WaitOK(w, record, store)
                             \/ WaitOK(w, record', store')
    PROVE  Inv'
<1>1. DownInv'
  <2> SUFFICES ASSUME NEW i \in 1..Len(down')
               PROVE  DownOK(down'[i], history', record')
    BY DEF DownInv
  <2>1. down'[i] \in DownMsg
    BY DEF TypeOK
  <2> QED
    BY <2>1, OldMessages
<1>2. UpInv'
  <2> SUFFICES ASSUME NEW i \in 1..Len(up')
               PROVE  UpOK(up'[i], history', record', store')
    BY DEF UpInv
  <2>1. up'[i] \in UpMsg
    BY DEF TypeOK
  <2> QED
    BY <2>1, OldMessages
<1>3. WaitInv'
  <2>1. waits' \subseteq Wait
    BY DEF TypeOK
  <2> QED
    BY <2>1, Monotone DEF WaitInv
<1> QED
  BY <1>1, <1>2, <1>3 DEF Inv

\* The Agent's records stay rows of the history when only the rest grows.
LEMMA StoreKept ==
    ASSUME Inv, TypeOK', Grows, store' = store
    PROVE  StoreInv'
<1> SUFFICES ASSUME NEW b \in Bench, store[b].version > 0
             PROVE  /\ store[b].version <= Len(history'[b])
                    /\ history'[b][store[b].version].res = store[b].res
                    /\ record'[store[b].res].bench = b
                    /\ store[b].version <= record'[store[b].res].version
  BY DEF StoreInv
<1>1. store[b].res \in Reservation /\ store[b].version \in Nat
  BY DEF Inv, TypeOK, Stored
<1>2. Len(history[b]) \in Nat /\ Len(history'[b]) \in Nat
  BY DEF Inv, TypeOK
<1>3. record \in [Reservation -> Record] /\ record' \in [Reservation -> Record]
  BY DEF Inv, TypeOK
<1>4. record[store[b].res].version \in Nat /\ record'[store[b].res].version \in Nat
  BY <1>1, <1>3 DEF Record
<1>5. /\ store[b].version <= Len(history[b])
      /\ history[b][store[b].version].res = store[b].res
      /\ record[store[b].res].bench = b
      /\ store[b].version <= record[store[b].res].version
  BY DEF Inv, StoreInv
<1>6. /\ Len(history'[b]) >= Len(history[b])
      /\ history'[b][store[b].version].res = history[b][store[b].version].res
  BY <1>1, <1>2, <1>5 DEF Grows, HistoryGrows
<1>7. /\ record'[store[b].res].bench = record[store[b].res].bench
      /\ record'[store[b].res].version >= record[store[b].res].version
  BY <1>1, <1>4, <1>5 DEF Grows, RecordsGrow
<1> QED
  BY <1>1, <1>2, <1>4, <1>5, <1>6, <1>7

\* Records that keep bench (once leased) and version, become current only from current, and
\* become ACTIVE only when the Agent has their version, keep their invariant as
\* long as no history grows.
Settles(r) ==
    /\ \/ record'[r].bench = record[r].bench
       \/ record[r].version = 0 /\ record'[r].state \notin CurrentStates
    /\ record'[r].version = record[r].version
    /\ record'[r].state \in CurrentStates => record[r].state \in CurrentStates
    /\ record'[r].state \in {"NONE", "SCHEDULED"} => record[r].state \in {"NONE", "SCHEDULED"}
    /\ record'[r].state = "ACTIVE"
         => \/ record[r].state = "ACTIVE"
            \/ record[r].version <= store[record[r].bench].version

\* Records that settle keep their invariant.
LEMMA RecordsKept ==
    ASSUME Inv, TypeOK', Grows, \A r \in Reservation : Settles(r),
           \A b \in Bench : Len(history'[b]) = Len(history[b])
    PROVE  RecordInv'
<1> SUFFICES ASSUME NEW r \in Reservation
             PROVE  /\ record'[r].version <= Len(history'[record'[r].bench])
                    /\ record'[r].version > 0
                         => history'[record'[r].bench][record'[r].version].res = r
                    /\ record'[r].state \in CurrentStates
                         => /\ record'[r].version = Len(history'[record'[r].bench])
                            /\ record'[r].version > 0
                    /\ record'[r].state \in {"NONE", "SCHEDULED"} => record'[r].version = 0
                    /\ record'[r].state = "ACTIVE"
                         => record'[r].version <= store'[record'[r].bench].version
  BY DEF RecordInv, Current
<1>1. record \in [Reservation -> Record]
  BY DEF Inv, TypeOK
<1>2. record[r].bench \in Bench /\ record[r].version \in Nat
  BY <1>1 DEF Record
<1>3. /\ record[r].version <= Len(history[record[r].bench])
      /\ record[r].version > 0 => history[record[r].bench][record[r].version].res = r
      /\ record[r].state \in CurrentStates
           => /\ record[r].version = Len(history[record[r].bench])
              /\ record[r].version > 0
      /\ record[r].state \in {"NONE", "SCHEDULED"} => record[r].version = 0
      /\ record[r].state = "ACTIVE" => record[r].version <= store[record[r].bench].version
  BY DEF Inv, RecordInv, Current
<1>4. Len(history[record[r].bench]) \in Nat
  BY <1>2 DEF Inv, TypeOK
<1>5. Settles(r)
  OBVIOUS
<1>6. /\ Len(history'[record[r].bench]) = Len(history[record[r].bench])
      /\ \A v \in 1..Len(history[record[r].bench]) :
           history'[record[r].bench][v].res = history[record[r].bench][v].res
  BY <1>2 DEF Grows, HistoryGrows
<1>7. /\ store'[record[r].bench].version >= store[record[r].bench].version
      /\ store'[record[r].bench].version \in Nat /\ store[record[r].bench].version \in Nat
  BY <1>2 DEF Grows, StoreGrows, Inv, TypeOK, Stored
<1>8. CASE record'[r].bench = record[r].bench
  BY <1>2, <1>3, <1>4, <1>5, <1>6, <1>7, <1>8 DEF Settles
<1>9. CASE record[r].version = 0 /\ record'[r].state \notin CurrentStates
  <2>1. record' \in [Reservation -> Record]
    BY DEF TypeOK
  <2>2. record'[r].bench \in Bench
    BY <2>1 DEF Record
  <2>3. Len(history'[record'[r].bench]) \in Nat
    BY <2>2 DEF TypeOK
  <2>4. record'[r].state # "ACTIVE"
    BY <1>9 DEF CurrentStates
  <2> QED
    BY <1>5, <1>9, <2>3, <2>4 DEF Settles
<1> QED
  BY <1>5, <1>8, <1>9 DEF Settles

\* A step that settles records, keeps the shape of the histories and the store, and
\* adds only messages and handlers that are sound.
RecordsSettle ==
    \A r \in Reservation : /\ Settles(r)
                           /\ \/ record'[r] = record[r]
                              \/ record[r].version = 0
                              \/ record'[r].revision > record[r].revision

HistoryShape ==
    \A b \in Bench :
        /\ Len(history'[b]) = Len(history[b])
        /\ \A v \in 1..Len(history[b]) : history'[b][v].res = history[b][v].res

SettlingStep == RecordsSettle /\ HistoryShape /\ store' = store

\* The invariant after a settling step, from what is left in the queues and handlers.
LEMMA Settled ==
    ASSUME Inv, TypeOK', SettlingStep,
           \A i \in 1..Len(down') : \/ DownOK(down'[i], history, record)
                                    \/ DownOK(down'[i], history', record'),
           \A i \in 1..Len(up') : \/ UpOK(up'[i], history, record, store)
                                  \/ UpOK(up'[i], history', record', store'),
           \A w \in waits' : \/ WaitOK(w, record, store)
                             \/ WaitOK(w, record', store')
    PROVE  Inv'
<1>1. Grows
  <2>1. record \in [Reservation -> Record] /\ record' \in [Reservation -> Record]
    BY DEF Inv, TypeOK
  <2>2. RecordsGrow
    <3>1. \A r \in Reservation : record[r].version \in Nat
      BY <2>1 DEF Record
    <3> QED
      BY <3>1 DEF SettlingStep, RecordsSettle, Settles, RecordsGrow
  <2>3. HistoryGrows
    <3>1. \A b \in Bench : Len(history[b]) \in Nat
      BY DEF Inv, TypeOK
    <3> QED
      BY <3>1 DEF SettlingStep, HistoryShape, HistoryGrows
  <2>4. StoreGrows
    <3>1. \A b \in Bench : store[b].version \in Nat
      BY DEF Inv, TypeOK, Stored
    <3> QED
      BY <3>1 DEF SettlingStep, StoreGrows
  <2> QED
    BY <2>2, <2>3, <2>4 DEF Grows
<1>2. RecordInv'
  BY <1>1, RecordsKept DEF SettlingStep, RecordsSettle, HistoryShape
<1>3. StoreInv'
  BY <1>1, StoreKept DEF SettlingStep
<1> QED
  BY <1>1, <1>2, <1>3, GrowingStep

-----------------------------------------------------------------------------
(* Types of the operators the actions are built from. *)

\* A record stays a record when state, revision and deadline are written.
LEMMA UpdateType ==
    ASSUME NEW rec \in Record, NEW s \in RecordStates, NEW n \in Nat, NEW d \in Nat
    PROVE  [rec EXCEPT !.state = s, !.revision = n, !.deadline = d] \in Record
<1>1. PICK r1 : r1 = [rec EXCEPT !.state = s, !.revision = n]
  OBVIOUS
<1>2. r1 \in Record
  BY <1>1 DEF Record
<1>3. PICK r2 : r2 = [r1 EXCEPT !.deadline = d]
  OBVIOUS
<1>4. r2 \in Record
  BY <1>2, <1>3 DEF Record
<1>5. [rec EXCEPT !.state = s, !.revision = n, !.deadline = d] = [r1 EXCEPT !.deadline = d]
  BY <1>1
<1> QED
  BY <1>3, <1>4, <1>5

\* Advancing a record keeps its type, bench and version and raises its revision.
LEMMA AdvanceType ==
    ASSUME NEW rec \in Record, NEW s \in RecordStates
    PROVE  /\ Advance(rec, s) \in Record
           /\ Advance(rec, s).state = s
           /\ Advance(rec, s).bench = rec.bench
           /\ Advance(rec, s).version = rec.version
           /\ Advance(rec, s).revision > rec.revision
<1>1. rec.revision + 1 \in Nat /\ rec.revision \in Nat
  BY DEF Record
<1>2. Advance(rec, s) \in Record
  BY <1>1, UpdateType DEF Advance
<1>3. /\ Advance(rec, s).state = s
      /\ Advance(rec, s).bench = rec.bench
      /\ Advance(rec, s).version = rec.version
      /\ Advance(rec, s).revision = rec.revision + 1
  BY DEF Advance, Record
<1> QED
  BY <1>1, <1>2, <1>3

\* So does interrupting it.
LEMMA InterruptedType ==
    ASSUME NEW rec \in Record, now \in Nat
    PROVE  /\ Interrupted(rec) \in Record
           /\ Interrupted(rec).state = "UNKNOWN"
           /\ Interrupted(rec).bench = rec.bench
           /\ Interrupted(rec).version = rec.version
           /\ Interrupted(rec).revision > rec.revision
<1>1. /\ rec.ends \in Nat /\ rec.revision \in Nat /\ rec.revision + 1 \in Nat
  BY DEF Record
<1>2. Larger(now, Smaller(now + Grace, rec.ends)) \in Nat
  BY <1>1, ClockAssumption DEF Larger, Smaller
<1>3. "UNKNOWN" \in RecordStates
  BY DEF RecordStates, CurrentStates
<1>4. Interrupted(rec) \in Record
  BY <1>1, <1>2, <1>3, UpdateType DEF Interrupted
<1>5. /\ Interrupted(rec).state = "UNKNOWN"
      /\ Interrupted(rec).bench = rec.bench
      /\ Interrupted(rec).version = rec.version
      /\ Interrupted(rec).revision = rec.revision + 1
  BY DEF Interrupted, Record
<1> QED
  BY <1>1, <1>4, <1>5

\* AgentConnectionHub.send keeps the queue within its size.
LEMMA PostType ==
    ASSUME Inv, NEW msgs \in Seq(DownMsg), Post(msgs)
    PROVE  /\ down' \in Seq(DownMsg) /\ Len(down') <= MaxQueue
           /\ link' \in BOOLEAN
           /\ \A i \in 1..Len(down') : \/ \E j \in 1..Len(down) : down'[i] = down[j]
                                       \/ \E j \in 1..Len(msgs) : down'[i] = msgs[j]
<1>1. down \in Seq(DownMsg) /\ Len(down) <= MaxQueue /\ link \in BOOLEAN
  BY DEF Inv, TypeOK
<1>2. CASE UNCHANGED down
  BY <1>1, <1>2 DEF Post
<1>3. CASE down' = down \o msgs /\ Len(down) + Len(msgs) <= MaxQueue /\ UNCHANGED link
  <2>1. /\ down' \in Seq(DownMsg) /\ Len(down') = Len(down) + Len(msgs)
        /\ Len(down) \in Nat /\ Len(msgs) \in Nat
    BY <1>1, <1>3
  <2>2. \A i \in 1..Len(down') :
          IF i <= Len(down) THEN down'[i] = down[i]
          ELSE i - Len(down) \in 1..Len(msgs) /\ down'[i] = msgs[i - Len(down)]
    BY <1>1, <1>3, <2>1
  <2>3. \A i \in 1..Len(down') : i <= Len(down) => i \in 1..Len(down)
    BY <2>1
  <2> QED
    BY <1>1, <1>3, <2>1, <2>2, <2>3
<1> QED
  BY <1>2, <1>3 DEF Post

\* Removing the head of a queue adds no element.
LEMMA TailFacts ==
    ASSUME NEW S, NEW q \in Seq(S), q # <<>>
    PROVE  /\ Tail(q) \in Seq(S) /\ Len(Tail(q)) <= Len(q)
           /\ Head(q) = q[1] /\ 1 \in 1..Len(q)
           /\ \A i \in 1..Len(Tail(q)) : \E j \in 1..Len(q) : Tail(q)[i] = q[j]
<1>1. /\ Tail(q) \in Seq(S) /\ Len(Tail(q)) = Len(q) - 1 /\ Len(q) \in Nat
      /\ Len(q) > 0 /\ Head(q) = q[1]
  OBVIOUS
<1>2. \A i \in 1..Len(Tail(q)) : i + 1 \in 1..Len(q) /\ Tail(q)[i] = q[i + 1]
  BY <1>1
<1> QED
  BY <1>1, <1>2

\* Appending adds one element.
LEMMA AppendFacts ==
    ASSUME NEW S, NEW q \in Seq(S), NEW m \in S
    PROVE  /\ Append(q, m) \in Seq(S) /\ Len(Append(q, m)) = Len(q) + 1
           /\ Len(q) \in Nat
           /\ \A i \in 1..Len(Append(q, m)) : \/ Append(q, m)[i] = m
                                              \/ \E j \in 1..Len(q) : Append(q, m)[i] = q[j]
  OBVIOUS

\* A suffix of a queue is a queue of its elements.
LEMMA SuffixFacts ==
    ASSUME NEW S, NEW q \in Seq(S), NEW k \in 0..Len(q)
    PROVE  /\ SubSeq(q, k + 1, Len(q)) \in Seq(S)
           /\ Len(SubSeq(q, k + 1, Len(q))) <= Len(q)
           /\ \A i \in 1..Len(SubSeq(q, k + 1, Len(q))) :
                \E j \in 1..Len(q) : SubSeq(q, k + 1, Len(q))[i] = q[j]
<1>1. Len(q) \in Nat /\ k \in Nat
  OBVIOUS
<1>2. /\ SubSeq(q, k + 1, Len(q)) \in Seq(S)
      /\ Len(SubSeq(q, k + 1, Len(q))) = Len(q) - k
  BY <1>1
<1>3. \A i \in 1..(Len(q) - k) :
        k + i \in 1..Len(q) /\ SubSeq(q, k + 1, Len(q))[i] = q[k + i]
  BY <1>1
<1> QED
  BY <1>1, <1>2, <1>3

\* A step that leaves records, histories and store alone settles.
LEMMA SameSettles ==
    ASSUME UNCHANGED <<record, history, store>>
    PROVE  SettlingStep
  BY DEF SettlingStep, RecordsSettle, HistoryShape, Settles

\* A step that leaves records, histories and store alone, keeps old messages and
\* adds no handler.
LEMMA FrameStep ==
    ASSUME Inv, TypeOK', UNCHANGED <<record, history, store>>, waits' \subseteq waits,
           \A i \in 1..Len(down') : \/ down'[i].type = "reconcile"
                                    \/ \E j \in 1..Len(down) : down'[i] = down[j],
           \A i \in 1..Len(up') : \E j \in 1..Len(up) : up'[i] = up[j]
    PROVE  Inv'
<1>1. SettlingStep
  BY SameSettles
<1>2. \A i \in 1..Len(down') : DownOK(down'[i], history, record)
  BY DEF Inv, DownInv, DownOK
<1>3. \A i \in 1..Len(up') : UpOK(up'[i], history, record, store)
  BY DEF Inv, UpInv
<1>4. \A w \in waits' : WaitOK(w, record, store)
  BY DEF Inv, WaitInv
<1> QED
  BY <1>1, <1>2, <1>3, <1>4, Settled

-----------------------------------------------------------------------------
(* One lemma per action. *)

\* The clock is in no other part of the invariant.
LEMMA TickInv == ASSUME Inv, Tick PROVE Inv'
<1>1. TypeOK'
  BY DEF Inv, TypeOK, Tick
<1> QED
  BY <1>1, FrameStep DEF Tick

\* Nor is the health of a bench.
LEMMA HealthChangeInv == ASSUME Inv, NEW b \in Bench, HealthChange(b) PROVE Inv'
<1>1. TypeOK'
  <2>1. healthy' \in [Bench -> BOOLEAN]
    BY DEF Inv, TypeOK, HealthChange
  <2> QED
    BY <2>1 DEF Inv, TypeOK, HealthChange
<1> QED
  BY <1>1, FrameStep DEF HealthChange

\* Nor is the transport.
LEMMA LinkLossInv == ASSUME Inv, LinkLoss PROVE Inv'
<1>1. TypeOK'
  BY DEF Inv, TypeOK, LinkLoss
<1> QED
  BY <1>1, FrameStep DEF LinkLoss

\* The end of a monitor iteration touches no lease.
LEMMA MonitorFinishInv == ASSUME Inv, MonitorFinish PROVE Inv'
<1>1. TypeOK'
  BY DEF Inv, TypeOK, MonitorFinish
<1> QED
  BY <1>1, FrameStep DEF MonitorFinish

\* A restarted Agent loses its outbox and keeps its lease store.
LEMMA AgentRestartInv == ASSUME Inv, AgentRestart PROVE Inv'
<1>1. TypeOK'
  <2>1. up' \in Seq(UpMsg) /\ Len(up') = 0
    BY DEF AgentRestart
  <2>2. /\ link' \in BOOLEAN
        /\ UNCHANGED <<now, record, history, waits, monitor, presence, session, connections,
                       healthy, down, store>>
    BY DEF AgentRestart
  <2>3. Len(up') <= MaxQueue
    BY <2>1, BoundAssumption
  <2> QED
    BY <2>1, <2>2, <2>3 DEF Inv, TypeOK
<1>2. \A i \in 1..Len(up') : \E j \in 1..Len(up) : up'[i] = up[j]
  <2>1. Len(up') = 0
    BY DEF AgentRestart
  <2> QED
    BY <2>1
<1> QED
  BY <1>1, <1>2, FrameStep DEF AgentRestart

\* A restarted control plane loses its suspended handlers and keeps the database.
LEMMA ControlPlaneRestartInv == ASSUME Inv, ControlPlaneRestart PROVE Inv'
<1>1. TypeOK'
  BY DEF Inv, TypeOK, ControlPlaneRestart
<1> QED
  BY <1>1, FrameStep DEF ControlPlaneRestart

\* A new connection starts with a reconciliation request and a suffix of the outbox.
LEMMA ConnectInv == ASSUME Inv, Connect PROVE Inv'
<1>1. PICK k \in 0..Len(up) : up' = SubSeq(up, k + 1, Len(up))
  BY DEF Connect
<1>2. up \in Seq(UpMsg) /\ Len(up) <= MaxQueue /\ Len(up) \in Nat
  BY DEF Inv, TypeOK
<1>3. /\ up' \in Seq(UpMsg) /\ Len(up') <= Len(up) /\ Len(up') \in Nat
      /\ \A i \in 1..Len(up') : \E j \in 1..Len(up) : up'[i] = up[j]
  BY <1>1, <1>2, SuffixFacts
<1>4. [type |-> "reconcile"] \in DownMsg
  BY DEF DownMsg
<1>5. down' \in Seq(DownMsg) /\ Len(down') = 1 /\ down'[1].type = "reconcile"
  BY <1>4 DEF Connect
<1>6. TypeOK'
  BY <1>2, <1>3, <1>5, BoundAssumption DEF Inv, TypeOK, Connect
<1> QED
  BY <1>3, <1>5, <1>6, FrameStep DEF Connect

\* Replacing one record.
LEMMA PutSettles ==
    ASSUME Inv, NEW r \in Reservation, NEW rec \in Record, Put(r, rec),
           rec.version = record[r].version, rec.bench = record[r].bench,
           rec.revision > record[r].revision \/ record[r].version = 0,
           rec.state \in CurrentStates => record[r].state \in CurrentStates,
           rec.state \notin {"NONE", "SCHEDULED"},
           rec.state = "ACTIVE" => record[r].version <= store[record[r].bench].version
    PROVE  record' \in [Reservation -> Record] /\ RecordsSettle
<1>1. record \in [Reservation -> Record]
  BY DEF Inv, TypeOK
<1>2. record' \in [Reservation -> Record]
  BY <1>1 DEF Put
<1>3. record'[r] = rec /\ \A q \in Reservation : q # r => record'[q] = record[q]
  BY <1>1 DEF Put
<1>4. ASSUME NEW q \in Reservation
      PROVE  /\ Settles(q)
             /\ \/ record'[q] = record[q]
                \/ record[q].version = 0
                \/ record'[q].revision > record[q].revision
  <2>1. CASE q = r
    BY <1>3, <2>1 DEF Settles
  <2>2. CASE q # r
    BY <1>3, <2>2 DEF Settles
  <2> QED
    BY <2>1, <2>2
<1> QED
  BY <1>2, <1>4 DEF RecordsSettle

\* Untouched records settle.
LEMMA SameRecords ==
    ASSUME UNCHANGED record
    PROVE  RecordsSettle
  BY DEF RecordsSettle, Settles

\* An untouched history keeps its shape.
LEMMA SameHistory ==
    ASSUME UNCHANGED history
    PROVE  HistoryShape
  BY DEF HistoryShape

\* mark_agent_disconnected() settles records.
LEMMA MarkSettles ==
    ASSUME Inv, MarkDisconnected
    PROVE  record' \in [Reservation -> Record] /\ RecordsSettle
<1> DEFINE open == {r \in Reservation : record[r].state \in {"ACTIVATING", "ACTIVE", "RENEWING"}}
<1>1. PICK done \in SUBSET open :
        record' = [r \in Reservation |->
                     IF r \in done THEN Interrupted(record[r]) ELSE record[r]]
  BY DEF MarkDisconnected
<1>2. record \in [Reservation -> Record] /\ now \in Nat
  BY DEF Inv, TypeOK
<1>3. ASSUME NEW r \in Reservation
      PROVE  /\ record'[r] \in Record
             /\ Settles(r)
             /\ \/ record'[r] = record[r]
                \/ record[r].version = 0
                \/ record'[r].revision > record[r].revision
  <2>1. CASE r \in done
    <3>1. record[r].state \in CurrentStates
      BY <2>1 DEF CurrentStates
    <3>2. record'[r] = Interrupted(record[r])
      BY <1>1, <2>1
    <3> QED
      BY <1>2, <3>1, <3>2, InterruptedType DEF Settles
  <2>2. CASE r \notin done
    BY <1>1, <1>2, <2>2 DEF Settles
  <2> QED
    BY <2>1, <2>2
<1>4. record' \in [Reservation -> Record]
  BY <1>1, <1>3
<1> QED
  BY <1>3, <1>4 DEF RecordsSettle

\* check_timeouts() keeps the invariant.
LEMMA MonitorOfflineInv == ASSUME Inv, MonitorOffline PROVE Inv'
<1>1. record' \in [Reservation -> Record] /\ RecordsSettle
  BY MarkSettles DEF MonitorOffline
<1>2. TypeOK'
  BY <1>1 DEF Inv, TypeOK, MonitorOffline
<1>3. SettlingStep
  BY <1>1, SameHistory DEF SettlingStep, MonitorOffline
<1> QED
  BY <1>2, <1>3, Settled DEF MonitorOffline, Inv, DownInv, UpInv, WaitInv

\* So does the end of AgentGateway.serve().
LEMMA SessionEndsInv == ASSUME Inv, SessionEnds PROVE Inv'
<1>1. record' \in [Reservation -> Record] /\ RecordsSettle
  <2>1. CASE presence
    BY <2>1, MarkSettles DEF SessionEnds
  <2>2. CASE ~presence
    BY <2>2, SameRecords DEF SessionEnds, Inv, TypeOK
  <2> QED
    BY <2>1, <2>2
<1>2. TypeOK'
  BY <1>1 DEF Inv, TypeOK, SessionEnds
<1>3. SettlingStep
  BY <1>1, SameHistory DEF SettlingStep, SessionEnds
<1> QED
  BY <1>2, <1>3, Settled DEF SessionEnds, Inv, DownInv, UpInv, WaitInv

\* cancel_scheduled() ends a reservation that has no lease.
LEMMA CancelScheduledInv ==
    ASSUME Inv, NEW r \in Reservation, CancelScheduled(r)
    PROVE  Inv'
<1>1. record[r] \in Record /\ record[r].version = 0
  <2>1. record \in [Reservation -> Record]
    BY DEF Inv, TypeOK
  <2> QED
    BY <2>1 DEF Inv, RecordInv, CancelScheduled
<1>2. PICK rec : rec = [record[r] EXCEPT !.state = "CANCELLED"]
  OBVIOUS
<1>3. /\ rec \in Record /\ rec.version = record[r].version /\ rec.bench = record[r].bench
      /\ rec.state = "CANCELLED"
  BY <1>1, <1>2 DEF Record, RecordStates
<1>4. rec.state \notin CurrentStates /\ rec.state \notin {"NONE", "SCHEDULED", "ACTIVE"}
  BY <1>3 DEF CurrentStates
<1>5. record' \in [Reservation -> Record] /\ RecordsSettle
  BY <1>1, <1>2, <1>3, <1>4, PutSettles DEF CancelScheduled
<1>6. TypeOK'
  BY <1>5 DEF Inv, TypeOK, CancelScheduled
<1>7. SettlingStep
  BY <1>5, SameHistory DEF SettlingStep, CancelScheduled
<1> QED
  BY <1>6, <1>7, Settled DEF CancelScheduled, Inv, DownInv, UpInv, WaitInv

\* schedule() writes a reservation that has no lease.
LEMMA ScheduleInv ==
    ASSUME Inv, NEW r \in Reservation, NEW b \in Bench, NEW starts \in 1..MaxTime,
           NEW d \in Durations, Schedule(r, b, starts, d)
    PROVE  Inv'
<1>1. record \in [Reservation -> Record] /\ record[r].version = 0 /\ record[r].state = "NONE"
  BY DEF Inv, TypeOK, RecordInv, Schedule
<1>2. PICK rec : rec = [state |-> "SCHEDULED", granted |-> FALSE, bench |-> b, version |-> 0,
                        starts |-> starts, ends |-> starts + d, deadline |-> 0, revision |-> 0]
  OBVIOUS
<1>3. starts \in Nat /\ d \in Nat
  BY DurationsAssumption, ClockAssumption
<1>4. rec \in Record /\ rec.state = "SCHEDULED" /\ rec.version = 0
  BY <1>2, <1>3 DEF Record, RecordStates
<1>5. record' = [record EXCEPT ![r] = rec]
  BY <1>2 DEF Schedule, Put
<1>6. record' \in [Reservation -> Record]
  BY <1>1, <1>4, <1>5
<1>7. "SCHEDULED" \notin CurrentStates
  BY DEF CurrentStates
<1>8. RecordsSettle
  BY <1>1, <1>4, <1>5, <1>7 DEF RecordsSettle, Settles
<1>9. TypeOK'
  BY <1>6 DEF Inv, TypeOK, Schedule
<1>10. SettlingStep
  BY <1>8, SameHistory DEF SettlingStep, Schedule
<1> QED
  BY <1>9, <1>10, Settled DEF Schedule, Inv, DownInv, UpInv, WaitInv

\* The handler that resumes acts on its pending record or not at all; a confirmed
\* one may make it ACTIVE because the Agent has that version.
LEMMA ConcludeInv == ASSUME Inv, NEW w \in waits, Conclude(w) PROVE Inv'
<1>1. /\ w \in Wait /\ w.res \in Reservation /\ w.version \in Nat
      /\ record \in [Reservation -> Record] /\ now \in Nat
      /\ WaitOK(w, record, store)
  BY DEF Inv, TypeOK, Wait, WaitInv
<1>2. record[w.res] \in Record
  BY <1>1
<1>3. record' \in [Reservation -> Record] /\ RecordsSettle
  <2>1. CASE Replaceable(w)
    <3>1. /\ record[w.res].state \in {"ACTIVATING", "RENEWING"}
          /\ record[w.res].version = w.version
          /\ w.version <= store[record[w.res].bench].version
      BY <1>1, <2>1 DEF Conclude, Replaceable, Unchanged, WaitOK
    <3>2. record[w.res].state \in CurrentStates /\ "ACTIVE" \in RecordStates
      BY <3>1 DEF CurrentStates, RecordStates
    <3>3. PICK rec : /\ rec \in {Advance(record[w.res], "ACTIVE"), Interrupted(record[w.res])}
                     /\ record' = [record EXCEPT ![w.res] = rec]
      BY <2>1 DEF Conclude
    <3>4. /\ rec \in Record /\ rec.version = record[w.res].version
          /\ rec.bench = record[w.res].bench /\ rec.revision > record[w.res].revision
          /\ rec.state \in {"ACTIVE", "UNKNOWN"}
      BY <1>1, <1>2, <3>2, <3>3, AdvanceType, InterruptedType
    <3> QED
      BY <1>1, <3>1, <3>2, <3>3, <3>4, PutSettles DEF Put
  <2>2. CASE ~Replaceable(w)
    BY <1>1, <2>2, SameRecords DEF Conclude
  <2> QED
    BY <2>1, <2>2
<1>4. TypeOK'
  BY <1>3 DEF Inv, TypeOK, Conclude, Abandoned
<1>5. SettlingStep
  BY <1>3, SameHistory DEF SettlingStep, Conclude
<1>6. \A u \in waits' : WaitOK(u, record, store)
  BY DEF Conclude, Inv, WaitInv
<1> QED
  BY <1>4, <1>5, <1>6, Settled DEF Conclude, Inv, DownInv, UpInv

\* A timed-out handler interrupts a record only if it is still the pending one.
LEMMA TimeOutInv == ASSUME Inv, NEW w \in waits, TimeOut(w) PROVE Inv'
<1>1. /\ w \in Wait /\ w.res \in Reservation
      /\ record \in [Reservation -> Record] /\ now \in Nat
      /\ WaitOK(w, record, store)
  BY DEF Inv, TypeOK, Wait, WaitInv
<1>2. record[w.res] \in Record
  BY <1>1
<1>3. record' \in [Reservation -> Record] /\ RecordsSettle
  <2>1. CASE Replaceable(w)
    <3>1. record[w.res].state \in CurrentStates
      BY <1>1, <2>1 DEF Replaceable, Unchanged, WaitOK, CurrentStates
    <3>2. Put(w.res, Interrupted(record[w.res]))
      BY <2>1 DEF TimeOut, Put
    <3> QED
      BY <1>1, <1>2, <3>1, <3>2, InterruptedType, PutSettles
  <2>2. CASE ~Replaceable(w)
    BY <1>1, <2>2, SameRecords DEF TimeOut
  <2> QED
    BY <2>1, <2>2
<1>4. TypeOK'
  BY <1>3 DEF Inv, TypeOK, TimeOut, Abandoned
<1>5. SettlingStep
  BY <1>3, SameHistory DEF SettlingStep, TimeOut
<1>6. \A u \in waits' : WaitOK(u, record, store)
  BY DEF TimeOut, Inv, WaitInv
<1> QED
  BY <1>4, <1>5, <1>6, Settled DEF TimeOut, Inv, DownInv, UpInv

\* The lease of a record that has one.
LEMMA LeaseOfBound ==
    ASSUME Inv, NEW r \in Reservation, record[r].version > 0
    PROVE  LeaseOf(r) \in Lease /\ Bound(LeaseOf(r), history, record)
<1>1. record \in [Reservation -> Record]
  BY DEF Inv, TypeOK
<1>2. record[r].bench \in Bench /\ record[r].version \in Nat
  BY <1>1 DEF Record
<1>3. history[record[r].bench] \in Seq(HistoryRow)
  BY <1>2 DEF Inv, TypeOK
<1>4. /\ record[r].version <= Len(history[record[r].bench])
      /\ history[record[r].bench][record[r].version].res = r
  BY DEF Inv, RecordInv
<1>5. record[r].version \in 1..Len(history[record[r].bench])
  BY <1>2, <1>3, <1>4
<1>6. RowOf(r) \in HistoryRow
  BY <1>3, <1>5 DEF RowOf
<1>7. RowOf(r).until \in Nat
  BY <1>6 DEF HistoryRow
<1>8. LeaseOf(r) \in Lease
  BY <1>2, <1>7 DEF LeaseOf, Lease
<1>9. /\ LeaseOf(r).version = record[r].version
      /\ LeaseOf(r).bench = record[r].bench /\ LeaseOf(r).res = r
  BY DEF LeaseOf
<1> QED
  BY <1>2, <1>4, <1>5, <1>8, <1>9 DEF Bound

\* Releasing a row changes neither the length nor the owners of a history.
LEMMA ReleaseRowFacts ==
    ASSUME NEW h \in [Bench -> Seq(HistoryRow)], NEW b \in Bench, NEW v \in 1..Len(h[b])
    PROVE  /\ ReleaseRow(h, b, v) \in [Bench -> Seq(HistoryRow)]
           /\ \A c \in Bench : /\ Len(ReleaseRow(h, b, v)[c]) = Len(h[c])
                               /\ \A i \in 1..Len(h[c]) : ReleaseRow(h, b, v)[c][i].res = h[c][i].res
<1>1. h[b] \in Seq(HistoryRow)
  OBVIOUS
<1>2. h[b][v] \in HistoryRow
  BY <1>1
<1>3. PICK row : row = [h[b][v] EXCEPT !.released = TRUE]
  OBVIOUS
<1>4. row \in HistoryRow /\ row.res = h[b][v].res
  BY <1>2, <1>3 DEF HistoryRow
<1>5. PICK hb : hb = [h[b] EXCEPT ![v] = row]
  OBVIOUS
<1>6. /\ hb \in Seq(HistoryRow) /\ Len(hb) = Len(h[b])
      /\ \A i \in 1..Len(h[b]) : hb[i].res = h[b][i].res
  BY <1>1, <1>4, <1>5
<1>7. ReleaseRow(h, b, v) = [h EXCEPT ![b] = hb]
  BY <1>3, <1>5 DEF ReleaseRow
<1> QED
  BY <1>6, <1>7

\* release() and revoke() keep the invariant.
LEMMA ReleaseInv ==
    ASSUME Inv, NEW r \in Reservation, NEW s \in Endings, Release(r, s)
    PROVE  Inv'
<1>1. /\ record \in [Reservation -> Record] /\ history \in [Bench -> Seq(HistoryRow)]
      /\ record[r].version > 0 /\ record[r].version <= Len(history[record[r].bench])
  BY DEF Inv, TypeOK, RecordInv, Release
<1>2. record[r] \in Record /\ record[r].bench \in Bench /\ record[r].version \in Nat
  BY <1>1 DEF Record
<1>3. LeaseOf(r) \in Lease /\ Bound(LeaseOf(r), history, record)
  BY <1>1, LeaseOfBound
<1>4. s \in RecordStates /\ s \notin CurrentStates /\ s \notin {"NONE", "SCHEDULED", "ACTIVE"}
  BY EndingsAssumption DEF RecordStates, TerminalStates, CurrentStates
<1>5. record' \in [Reservation -> Record] /\ RecordsSettle
  BY <1>2, <1>4, AdvanceType, PutSettles DEF Release
<1>6. record[r].version \in 1..Len(history[record[r].bench])
  BY <1>1, <1>2
<1>7. history' \in [Bench -> Seq(HistoryRow)] /\ HistoryShape
  BY <1>1, <1>2, <1>6, ReleaseRowFacts DEF Release, HistoryShape
<1>8. PICK msgs : msgs = <<[type |-> "released", lease |-> LeaseOf(r)]>>
  OBVIOUS
<1>9. [type |-> "released", lease |-> LeaseOf(r)] \in DownMsg
  BY <1>3 DEF DownMsg
<1>10. /\ msgs \in Seq(DownMsg)
       /\ \A i \in 1..Len(msgs) : DownOK(msgs[i], history, record)
  BY <1>3, <1>8, <1>9 DEF DownOK
<1>11. Post(msgs)
  BY <1>8 DEF Release
<1>12. TypeOK'
  BY <1>5, <1>7, <1>10, <1>11, PostType DEF Inv, TypeOK, Release
<1>13. \A i \in 1..Len(down') : DownOK(down'[i], history, record)
  BY <1>10, <1>11, PostType DEF Inv, DownInv
<1>14. SettlingStep
  BY <1>5, <1>7 DEF SettlingStep, Release
<1> QED
  BY <1>12, <1>13, <1>14, Settled DEF Release, Inv, UpInv, WaitInv

\* A function on 1..n is a sequence.
LEMMA FunctionIsSeq ==
    ASSUME NEW S, NEW n \in Nat, NEW f \in [1..n -> S]
    PROVE  f \in Seq(S) /\ Len(f) = n /\ DOMAIN f = 1..n
  OBVIOUS

\* So is an ordering of a finite set.
LEMMA OrderingIsSeq ==
    ASSUME NEW S, IsFiniteSet(S), NEW f \in Orderings(S)
    PROVE  \E n \in Nat : f \in [1..n -> S]
<1>1. Cardinality(S) \in Nat
  BY FS_CardinalityType
<1> QED
  BY <1>1 DEF Orderings

\* A row of a history has its type.
LEMMA RowFacts ==
    ASSUME NEW row \in HistoryRow, NEW x \in BOOLEAN
    PROVE  /\ [row EXCEPT !.released = x] \in HistoryRow
           /\ [row EXCEPT !.released = x].res = row.res
  BY DEF HistoryRow

\* Histories that are rewritten row by row, each row keeping its owner.
LEMMA RewriteFacts ==
    ASSUME Inv, history' = [b \in Bench |-> history'[b]],
           \A b \in Bench :
              /\ history'[b] \in [1..Len(history[b]) -> HistoryRow]
              /\ \A v \in 1..Len(history[b]) : history'[b][v].res = history[b][v].res
    PROVE  history' \in [Bench -> Seq(HistoryRow)] /\ HistoryShape
<1>1. ASSUME NEW b \in Bench
      PROVE  history'[b] \in Seq(HistoryRow) /\ Len(history'[b]) = Len(history[b])
  <2>1. Len(history[b]) \in Nat
    BY DEF Inv, TypeOK
  <2> QED
    BY <2>1, FunctionIsSeq
<1> QED
  BY <1>1 DEF HistoryShape

\* A step's batch of release messages, in any order.
LEMMA NotifyFacts ==
    ASSUME Inv, NEW L, L \subseteq Lease, IsFiniteSet(L),
           \A l \in L : Bound(l, history, record),
           Notify(L)
    PROVE  /\ down' \in Seq(DownMsg) /\ Len(down') <= MaxQueue
           /\ link' \in BOOLEAN
           /\ \A i \in 1..Len(down') : DownOK(down'[i], history, record)
<1>0. PICK order \in Orderings(L) :
        Post([i \in DOMAIN order |-> [type |-> "released", lease |-> order[i]]])
  BY DEF Notify
<1>1. PICK n \in Nat : order \in [1..n -> L]
  BY OrderingIsSeq
<1>2. PICK msgs : msgs = [i \in 1..n |-> [type |-> "released", lease |-> order[i]]]
  OBVIOUS
<1>3. \A i \in 1..n : msgs[i] \in DownMsg /\ DownOK(msgs[i], history, record)
  BY <1>1, <1>2 DEF DownMsg, DownOK
<1>4. msgs \in [1..n -> DownMsg]
  BY <1>2, <1>3
<1>5. msgs \in Seq(DownMsg) /\ Len(msgs) = n
  BY <1>4, FunctionIsSeq
<1>6. Post(msgs)
  <2>1. DOMAIN order = 1..n
    BY <1>1
  <2> QED
    BY <1>0, <1>2, <2>1
<1> QED
  BY <1>3, <1>5, <1>6, PostType DEF Inv, DownInv

\* expire_due() keeps the invariant, whichever due records it reaches.
LEMMA MonitorExpireInv == ASSUME Inv, MonitorExpire PROVE Inv'
<1> DEFINE due  == {r \in Reservation : DueToExpire(r)}
           good == {r \in due : HistoryMatches(r)}
<1>1. PICK done \in SUBSET good :
        /\ record' = [r \in Reservation |->
                        IF r \in done THEN Advance(record[r], "EXPIRED") ELSE record[r]]
        /\ history' = [b \in Bench |-> [v \in DOMAIN history[b] |->
                         IF \E r \in done : record[r].bench = b /\ record[r].version = v
                           THEN [history[b][v] EXCEPT !.released = TRUE]
                           ELSE history[b][v]]]
        /\ Notify({LeaseOf(r) : r \in done})
  BY DEF MonitorExpire
<1>2. /\ record \in [Reservation -> Record] /\ history \in [Bench -> Seq(HistoryRow)]
      /\ done \subseteq Reservation
  BY DEF Inv, TypeOK
<1>3. \A r \in done : record[r].state \in CurrentStates /\ record[r].version > 0
  BY DEF DueToExpire, Current, Inv, RecordInv
<1>4. "EXPIRED" \in RecordStates /\ "EXPIRED" \notin CurrentStates
  BY DEF RecordStates, TerminalStates, CurrentStates
<1>5. record' \in [Reservation -> Record] /\ RecordsSettle
  <2>1. ASSUME NEW r \in Reservation
        PROVE  /\ record'[r] \in Record
               /\ Settles(r)
               /\ \/ record'[r] = record[r]
                  \/ record'[r].revision > record[r].revision
    <3>1. CASE r \in done
      <4>1. record'[r] = Advance(record[r], "EXPIRED") /\ record[r] \in Record
        BY <1>1, <1>2, <3>1
      <4> QED
        BY <1>4, <4>1, AdvanceType DEF Settles
    <3>2. CASE r \notin done
      BY <1>1, <1>2, <3>2 DEF Settles
    <3> QED
      BY <3>1, <3>2
  <2>2. record' \in [Reservation -> Record]
    BY <1>1, <2>1
  <2> QED
    BY <2>1, <2>2 DEF RecordsSettle
<1>6. history' \in [Bench -> Seq(HistoryRow)] /\ HistoryShape
  <2>1. ASSUME NEW b \in Bench
        PROVE  /\ history'[b] \in [1..Len(history[b]) -> HistoryRow]
               /\ \A v \in 1..Len(history[b]) : history'[b][v].res = history[b][v].res
    <3>1. history[b] \in Seq(HistoryRow) /\ DOMAIN history[b] = 1..Len(history[b])
      BY <1>2
    <3>2. ASSUME NEW v \in 1..Len(history[b])
          PROVE  /\ history[b][v] \in HistoryRow
                 /\ [history[b][v] EXCEPT !.released = TRUE] \in HistoryRow
                 /\ [history[b][v] EXCEPT !.released = TRUE].res = history[b][v].res
      <4>1. history[b][v] \in HistoryRow
        BY <3>1
      <4>2. TRUE \in BOOLEAN
        OBVIOUS
      <4> QED
        BY <4>1, <4>2, RowFacts
    <3>3. history'[b] = [v \in 1..Len(history[b]) |->
                           IF \E r \in done : record[r].bench = b /\ record[r].version = v
                             THEN [history[b][v] EXCEPT !.released = TRUE]
                             ELSE history[b][v]]
      BY <1>1, <3>1
    <3>4. \A v \in 1..Len(history[b]) :
            history'[b][v] \in {[history[b][v] EXCEPT !.released = TRUE], history[b][v]}
      BY <3>3
    <3>5. history'[b] = [v \in 1..Len(history[b]) |-> history'[b][v]]
      BY <3>3
    <3> QED
      BY <3>2, <3>4, <3>5
  <2>2. history' = [b \in Bench |-> history'[b]]
    BY <1>1
  <2> QED
    BY <2>1, <2>2, RewriteFacts
<1>7. /\ down' \in Seq(DownMsg) /\ Len(down') <= MaxQueue
      /\ link' \in BOOLEAN
      /\ \A i \in 1..Len(down') : DownOK(down'[i], history, record)
  <2> DEFINE L == {LeaseOf(r) : r \in done}
  <2>1. IsFiniteSet(done)
    BY <1>2, FiniteAssumption, FS_Subset
  <2>2. IsFiniteSet(L)
    <3>1. [r \in done |-> LeaseOf(r)] \in Surjection(done, L)
      BY DEF Surjection
    <3> QED
      BY <2>1, <3>1, FS_Surjection
  <2>3. L \subseteq Lease /\ \A l \in L : Bound(l, history, record)
    BY <1>2, <1>3, LeaseOfBound
  <2> HIDE DEF L
  <2>4. Notify(L)
    BY <1>1 DEF L
  <2> QED
    BY <2>2, <2>3, <2>4, NotifyFacts
<1>8. TypeOK'
  BY <1>5, <1>6, <1>7 DEF Inv, TypeOK, MonitorExpire
<1>9. SettlingStep
  BY <1>5, <1>6 DEF SettlingStep, MonitorExpire
<1> QED
  BY <1>7, <1>8, <1>9, Settled DEF MonitorExpire, Inv, UpInv, WaitInv

\* The Agent stores a lease of the history that is not older than what it has.
LEMMA AgentStores ==
    ASSUME Inv, TypeOK', UNCHANGED <<record, history>>, NEW l \in Lease, NEW x \in BOOLEAN,
           Bound(l, history, record), l.version >= store[l.bench].version,
           store' = [store EXCEPT ![l.bench] = AsStored(l, x)]
    PROVE  Grows /\ RecordInv' /\ StoreInv'
<1>1. /\ l.bench \in Bench /\ l.version \in Nat /\ l.res \in Reservation
      /\ store \in [Bench -> Stored] /\ history \in [Bench -> Seq(HistoryRow)]
      /\ record \in [Reservation -> Record]
  BY DEF Lease, Inv, TypeOK
<1>2. AsStored(l, x).version = l.version /\ AsStored(l, x).res = l.res
  BY DEF AsStored
<1>3. \A b \in Bench : IF b = l.bench THEN store'[b] = AsStored(l, x) ELSE store'[b] = store[b]
  BY <1>1
<1>4. StoreGrows
  <2>1. \A b \in Bench : store[b].version \in Nat
    BY <1>1 DEF Stored
  <2> QED
    BY <1>1, <1>2, <1>3, <2>1 DEF StoreGrows
<1>5. RecordsSettle /\ HistoryShape
  BY SameRecords, SameHistory
<1>6. Grows
  <2>1. \A r \in Reservation : record[r].version \in Nat
    BY <1>1 DEF Record
  <2>2. \A b \in Bench : Len(history[b]) \in Nat
    BY <1>1
  <2> QED
    BY <1>4, <2>1, <2>2 DEF Grows, RecordsGrow, HistoryGrows
<1>7. RecordInv'
  BY <1>5, <1>6, RecordsKept DEF RecordsSettle, HistoryShape
<1>8. StoreInv'
  <2> SUFFICES ASSUME NEW b \in Bench, store'[b].version > 0
               PROVE  /\ store'[b].version <= Len(history[b])
                      /\ history[b][store'[b].version].res = store'[b].res
                      /\ record[store'[b].res].bench = b
                      /\ store'[b].version <= record[store'[b].res].version
    BY DEF StoreInv
  <2>1. CASE b = l.bench
    <3>1. Len(history[b]) \in Nat
      BY <1>1
    <3> QED
      BY <1>1, <1>2, <1>3, <2>1, <3>1 DEF Bound
  <2>2. CASE b # l.bench
    <3>1. store'[b] = store[b]
      BY <1>3, <2>2
    <3> QED
      BY <3>1 DEF Inv, StoreInv
  <2> QED
    BY <2>1, <2>2
<1> QED
  BY <1>6, <1>7, <1>8

\* The head of the Agent's incoming queue.
LEMMA DownHead ==
    ASSUME Inv, down # <<>>
    PROVE  /\ Tail(down) \in Seq(DownMsg) /\ Len(Tail(down)) <= MaxQueue
           /\ \A i \in 1..Len(Tail(down)) : DownOK(Tail(down)[i], history, record)
           /\ Head(down).type # "reconcile"
                => /\ Head(down).lease \in Lease
                   /\ Bound(Head(down).lease, history, record)
<1>1. /\ down \in Seq(DownMsg) /\ Len(down) <= MaxQueue /\ Len(down) \in Nat
      /\ MaxQueue \in Nat
  BY BoundAssumption DEF Inv, TypeOK
<1>2. /\ Tail(down) \in Seq(DownMsg) /\ Len(Tail(down)) <= Len(down)
      /\ Head(down) = down[1] /\ 1 \in 1..Len(down)
      /\ \A i \in 1..Len(Tail(down)) : \E j \in 1..Len(down) : Tail(down)[i] = down[j]
  BY <1>1, TailFacts
<1>3. Len(Tail(down)) \in Nat
  BY <1>2
<1>4. down[1] \in DownMsg /\ DownOK(down[1], history, record)
  BY <1>1, <1>2 DEF Inv, DownInv
<1>5. down[1].type # "reconcile" => down[1].lease \in Lease
  BY <1>4 DEF DownMsg
<1> QED
  BY <1>1, <1>2, <1>3, <1>4, <1>5 DEF Inv, DownInv, DownOK

\* The Agent's outbox accepts one message or stays as it is.
LEMMA EnqueueFacts ==
    ASSUME Inv, NEW m \in UpMsg,
           (Len(up) < MaxQueue /\ up' = Append(up, m)) \/ UNCHANGED up
    PROVE  /\ up' \in Seq(UpMsg) /\ Len(up') <= MaxQueue
           /\ \A i \in 1..Len(up') : up'[i] = m \/ \E j \in 1..Len(up) : up'[i] = up[j]
<1>1. up \in Seq(UpMsg) /\ Len(up) <= MaxQueue /\ MaxQueue \in Nat /\ Len(up) \in Nat
  BY BoundAssumption DEF Inv, TypeOK
<1>2. CASE UNCHANGED up
  BY <1>1, <1>2
<1>3. CASE Len(up) < MaxQueue /\ up' = Append(up, m)
  <2>1. /\ up' \in Seq(UpMsg) /\ Len(up') = Len(up) + 1
        /\ \A i \in 1..Len(up') : up'[i] = m \/ \E j \in 1..Len(up) : up'[i] = up[j]
    BY <1>1, <1>3, AppendFacts
  <2> QED
    BY <1>1, <1>3, <2>1
<1> QED
  BY <1>2, <1>3

\* The Agent stores a lease of the history and confirms what it stored.
LEMMA AgentAppliesInv == ASSUME Inv, AgentApplies PROVE Inv'
<1>1. PICK l : l = Head(down).lease
  OBVIOUS
<1>2. /\ down # <<>> /\ down' = Tail(down) /\ Head(down).type = "activated"
      /\ UNCHANGED <<now, record, history, waits, monitor, presence, session, connections,
                     healthy>>
  BY DEF AgentApplies
<1>3. /\ l \in Lease /\ Bound(l, history, record)
      /\ down' \in Seq(DownMsg) /\ Len(down') <= MaxQueue
      /\ \A i \in 1..Len(down') : DownOK(down'[i], history, record)
  BY <1>1, <1>2, DownHead
<1>4. CASE ~(AgentNow <= l.until + Skew /\ ApplyAllowed(store[l.bench], l))
  <2>1. link' = FALSE /\ UNCHANGED <<store, up>>
    BY <1>1, <1>4 DEF AgentApplies
  <2>2. TypeOK'
    BY <1>2, <1>3, <2>1 DEF Inv, TypeOK
  <2>3. SettlingStep
    BY <1>2, <2>1, SameSettles
  <2> QED
    BY <1>2, <1>3, <2>1, <2>2, <2>3, Settled DEF Inv, UpInv, WaitInv
<1>5. CASE AgentNow <= l.until + Skew /\ ApplyAllowed(store[l.bench], l)
  <2>1. /\ store' = [store EXCEPT ![l.bench] = AsStored(l, FALSE)]
        /\ \/ /\ Len(up) < MaxQueue
              /\ up' = Append(up, [type |-> "applied", lease |-> l]) /\ UNCHANGED link
           \/ link' = FALSE /\ UNCHANGED up
    BY <1>1, <1>5 DEF AgentApplies
  <2>2. /\ l.bench \in Bench /\ l.version \in Nat /\ l.res \in Reservation /\ l.until \in Nat
        /\ store \in [Bench -> Stored]
    BY <1>3 DEF Lease, Inv, TypeOK
  <2>3. store[l.bench].version \in Nat
    BY <2>2 DEF Stored
  <2>4. l.version >= store[l.bench].version
    BY <1>5, <2>2, <2>3 DEF ApplyAllowed
  <2>5. AsStored(l, FALSE) \in Stored /\ AsStored(l, FALSE).version = l.version
    BY <2>2 DEF AsStored, Stored
  <2>6. store' \in [Bench -> Stored]
    BY <2>1, <2>2, <2>5
  <2>7. PICK m : m = [type |-> "applied", lease |-> l]
    OBVIOUS
  <2>8. m \in UpMsg
    BY <1>3, <2>7 DEF UpMsg
  <2>9. /\ up' \in Seq(UpMsg) /\ Len(up') <= MaxQueue
        /\ \A i \in 1..Len(up') : up'[i] = m \/ \E j \in 1..Len(up) : up'[i] = up[j]
    BY <2>1, <2>7, <2>8, EnqueueFacts
  <2>10. TypeOK'
    BY <1>2, <1>3, <2>1, <2>6, <2>9 DEF Inv, TypeOK
  <2>11. Grows /\ RecordInv' /\ StoreInv'
    BY <1>2, <1>3, <2>1, <2>4, <2>10, AgentStores
  <2>12. Reached(l, store')
    <3>1. store'[l.bench].version = l.version
      BY <2>1, <2>2 DEF AsStored
    <3> QED
      BY <2>2, <3>1 DEF Reached
  <2>13. UpOK(m, history', record', store')
    BY <1>2, <1>3, <2>7, <2>12 DEF UpOK
  <2>14. \A i \in 1..Len(up') : \/ UpOK(up'[i], history, record, store)
                                \/ UpOK(up'[i], history', record', store')
    BY <2>9, <2>13 DEF Inv, UpInv
  <2>15. \A w \in waits' : WaitOK(w, record, store)
    BY <1>2 DEF Inv, WaitInv
  <2> QED
    BY <1>3, <2>10, <2>11, <2>14, <2>15, GrowingStep
<1> QED
  BY <1>4, <1>5

\* The Agent's tombstone is a lease of the history.
LEMMA AgentReleasesInv == ASSUME Inv, AgentReleases PROVE Inv'
<1>1. PICK l : l = Head(down).lease
  OBVIOUS
<1>2. /\ down # <<>> /\ down' = Tail(down) /\ Head(down).type = "released"
      /\ UNCHANGED <<now, record, history, waits, monitor, presence, session, connections,
                     healthy, up>>
  BY DEF AgentReleases
<1>3. /\ l \in Lease /\ Bound(l, history, record)
      /\ down' \in Seq(DownMsg) /\ Len(down') <= MaxQueue
      /\ \A i \in 1..Len(down') : DownOK(down'[i], history, record)
  BY <1>1, <1>2, DownHead
<1>4. CASE ~ReleaseAllowed(store[l.bench], l)
  <2>1. link' = FALSE /\ UNCHANGED store
    BY <1>1, <1>4 DEF AgentReleases
  <2>2. TypeOK'
    BY <1>2, <1>3, <2>1 DEF Inv, TypeOK
  <2>3. SettlingStep
    BY <1>2, <2>1, SameSettles
  <2> QED
    BY <1>2, <1>3, <2>1, <2>2, <2>3, Settled DEF Inv, UpInv, WaitInv
<1>5. CASE ReleaseAllowed(store[l.bench], l)
  <2>1. store' = [store EXCEPT ![l.bench] = AsStored(l, TRUE)] /\ UNCHANGED link
    BY <1>1, <1>5 DEF AgentReleases
  <2>2. /\ l.bench \in Bench /\ l.version \in Nat /\ l.res \in Reservation /\ l.until \in Nat
        /\ store \in [Bench -> Stored]
    BY <1>3 DEF Lease, Inv, TypeOK
  <2>3. store[l.bench].version \in Nat
    BY <2>2 DEF Stored
  <2>4. l.version >= store[l.bench].version
    BY <1>5, <2>2, <2>3 DEF ReleaseAllowed
  <2>5. AsStored(l, TRUE) \in Stored
    BY <2>2 DEF AsStored, Stored
  <2>6. TypeOK'
    BY <1>2, <1>3, <2>1, <2>2, <2>5 DEF Inv, TypeOK
  <2>7. Grows /\ RecordInv' /\ StoreInv'
    BY <1>2, <1>3, <2>1, <2>4, <2>6, AgentStores
  <2>8. \A i \in 1..Len(up') : UpOK(up'[i], history, record, store)
    BY <1>2 DEF Inv, UpInv
  <2>9. \A w \in waits' : WaitOK(w, record, store)
    BY <1>2 DEF Inv, WaitInv
  <2> QED
    BY <1>3, <2>6, <2>7, <2>8, <2>9, GrowingStep
<1> QED
  BY <1>4, <1>5

\* A report lists leases the Agent has stored.
LEMMA HeldFacts ==
    ASSUME Inv
    PROVE  /\ HeldLeases \subseteq Lease /\ IsFiniteSet(HeldLeases)
           /\ \A l \in HeldLeases : Bound(l, history, record) /\ Reached(l, store)
<1> DEFINE held    == {c \in Bench : store[c].version > 0 /\ ~store[c].released}
           stub(b) == [res |-> store[b].res, bench |-> b, version |-> store[b].version,
                       until |-> store[b].until]
<1>1. store \in [Bench -> Stored] /\ history \in [Bench -> Seq(HistoryRow)]
  BY DEF Inv, TypeOK
<1>2. ASSUME NEW b \in held
      PROVE  /\ stub(b) \in Lease
             /\ Bound(stub(b), history, record) /\ Reached(stub(b), store)
  <2>1. /\ store[b].res \in Reservation /\ store[b].version \in Nat /\ store[b].until \in Nat
        /\ Len(history[b]) \in Nat
    BY <1>1 DEF Stored
  <2>2. /\ store[b].version > 0 /\ store[b].version <= Len(history[b])
        /\ history[b][store[b].version].res = store[b].res
        /\ record[store[b].res].bench = b
        /\ store[b].version <= record[store[b].res].version
    BY DEF Inv, StoreInv
  <2> QED
    BY <2>1, <2>2 DEF Lease, Bound, Reached
<1>3. HeldLeases = {stub(b) : b \in held}
  BY DEF HeldLeases
<1>4. IsFiniteSet(held)
  BY FiniteAssumption, FS_Subset
<1>5. [b \in held |-> stub(b)] \in Surjection(held, HeldLeases)
  BY <1>3 DEF Surjection
<1>6. IsFiniteSet(HeldLeases)
  BY <1>4, <1>5, FS_Surjection
<1> QED
  BY <1>2, <1>3, <1>6

\* The Agent reports leases it has stored.
LEMMA AgentReportsInv == ASSUME Inv, AgentReports PROVE Inv'
<1>1. /\ down # <<>> /\ down' = Tail(down)
      /\ UNCHANGED <<now, record, history, waits, monitor, presence, session, connections,
                     healthy, store>>
      /\ \/ /\ Len(up) < MaxQueue
            /\ up' = Append(up, [type |-> "report", leases |-> HeldLeases]) /\ UNCHANGED link
         \/ link' = FALSE /\ UNCHANGED up
  BY DEF AgentReports
<1>2. /\ down' \in Seq(DownMsg) /\ Len(down') <= MaxQueue
      /\ \A i \in 1..Len(down') : DownOK(down'[i], history, record)
  BY <1>1, DownHead
<1>3. PICK m : m = [type |-> "report", leases |-> HeldLeases]
  OBVIOUS
<1>4. m \in UpMsg
  BY <1>3, HeldFacts DEF UpMsg
<1>5. UpOK(m, history, record, store)
  BY <1>3, HeldFacts DEF UpOK
<1>7. /\ up' \in Seq(UpMsg) /\ Len(up') <= MaxQueue
      /\ \A i \in 1..Len(up') : up'[i] = m \/ \E j \in 1..Len(up) : up'[i] = up[j]
  BY <1>1, <1>3, <1>4, EnqueueFacts
<1>8. TypeOK'
  BY <1>1, <1>2, <1>7 DEF Inv, TypeOK
<1>9. \A i \in 1..Len(up') : UpOK(up'[i], history, record, store)
  BY <1>5, <1>7 DEF Inv, UpInv
<1>10. SettlingStep
  BY <1>1, SameSettles
<1>11. \A w \in waits' : WaitOK(w, record, store)
  BY <1>1 DEF Inv, WaitInv
<1> QED
  BY <1>2, <1>8, <1>9, <1>10, <1>11, Settled

\* The head of the control plane's incoming queue.
LEMMA UpHead ==
    ASSUME Inv, up # <<>>
    PROVE  /\ Tail(up) \in Seq(UpMsg) /\ Len(Tail(up)) <= MaxQueue
           /\ \A i \in 1..Len(Tail(up)) : UpOK(Tail(up)[i], history, record, store)
           /\ Head(up) \in UpMsg /\ UpOK(Head(up), history, record, store)
<1>1. /\ up \in Seq(UpMsg) /\ Len(up) <= MaxQueue /\ Len(up) \in Nat
      /\ MaxQueue \in Nat
  BY BoundAssumption DEF Inv, TypeOK
<1>2. /\ Tail(up) \in Seq(UpMsg) /\ Len(Tail(up)) <= Len(up)
      /\ Head(up) = up[1] /\ 1 \in 1..Len(up)
      /\ \A i \in 1..Len(Tail(up)) : \E j \in 1..Len(up) : Tail(up)[i] = up[j]
  BY <1>1, TailFacts
<1>3. Len(Tail(up)) \in Nat
  BY <1>2
<1>4. up[1] \in UpMsg /\ UpOK(up[1], history, record, store)
  BY <1>1, <1>2 DEF Inv, UpInv
<1> QED
  BY <1>1, <1>2, <1>3, <1>4 DEF Inv, UpInv

\* A receipt marks exactly the handlers whose version the Agent has stored.
LEMMA ConfirmInv == ASSUME Inv, Confirm PROVE Inv'
<1>1. PICK l : l = Head(up).lease
  OBVIOUS
<1>2. /\ up # <<>> /\ up' = Tail(up) /\ Head(up).type = "applied"
      /\ waits' = {IF Confirms(l, w) THEN [w EXCEPT !.confirmed = TRUE] ELSE w : w \in waits}
      /\ UNCHANGED <<now, record, history, monitor, presence, session, link, connections,
                     healthy, down, store>>
  BY <1>1 DEF Confirm
<1>3. /\ up' \in Seq(UpMsg) /\ Len(up') <= MaxQueue
      /\ \A i \in 1..Len(up') : UpOK(up'[i], history, record, store)
      /\ Head(up) \in UpMsg /\ UpOK(Head(up), history, record, store)
  BY <1>2, UpHead
<1>4. Bound(l, history, record) /\ Reached(l, store)
  BY <1>1, <1>2, <1>3 DEF UpOK
<1>5. ASSUME NEW u \in waits'
      PROVE  u \in Wait /\ WaitOK(u, record, store)
  <2>1. PICK w \in waits : u = IF Confirms(l, w) THEN [w EXCEPT !.confirmed = TRUE] ELSE w
    BY <1>2
  <2>2. w \in Wait /\ WaitOK(w, record, store)
    BY DEF Inv, TypeOK, WaitInv
  <2>3. CASE ~Confirms(l, w)
    BY <2>1, <2>2, <2>3
  <2>4. CASE Confirms(l, w)
    <3>1. /\ u \in Wait /\ u.res = w.res /\ u.version = w.version /\ u.revision = w.revision
      BY <2>1, <2>2, <2>4 DEF Wait
    <3>2. w.version <= store[record[w.res].bench].version
      BY <1>4, <2>4 DEF Confirms, Bound, Reached
    <3> QED
      BY <2>2, <3>1, <3>2 DEF WaitOK
  <2> QED
    BY <2>3, <2>4
<1>6. TypeOK'
  BY <1>2, <1>3, <1>5 DEF Inv, TypeOK
<1>7. SettlingStep
  BY <1>2, SameSettles
<1>8. \A i \in 1..Len(down') : DownOK(down'[i], history, record)
  BY <1>2 DEF Inv, DownInv
<1> QED
  BY <1>3, <1>5, <1>6, <1>7, <1>8, Settled

\* Reconciliation activates only a record whose version the Agent reported.
LEMMA ReconcileInv == ASSUME Inv, Reconcile PROVE Inv'
<1> DEFINE leases == Head(up).leases
           stale  == {l \in leases : StaleLocal(l)}
           back   == {l \in leases : Restorable(l)}
           good   == {l \in back : Eligible(l.bench)}
<1>1. /\ up # <<>> /\ up' = Tail(up) /\ Head(up).type = "report"
      /\ UNCHANGED <<now, waits, monitor, presence, session, connections, healthy, store>>
  BY DEF Reconcile
<1>2. /\ up' \in Seq(UpMsg) /\ Len(up') <= MaxQueue
      /\ \A i \in 1..Len(up') : UpOK(up'[i], history, record, store)
      /\ Head(up) \in UpMsg /\ UpOK(Head(up), history, record, store)
  BY <1>1, UpHead
<1>3. /\ leases \subseteq Lease /\ IsFiniteSet(leases)
      /\ \A l \in leases : Bound(l, history, record) /\ Reached(l, store)
  BY <1>1, <1>2 DEF UpMsg, UpOK
<1>4. \A w \in waits' : WaitOK(w, record, store)
  BY <1>1 DEF Inv, WaitInv
<1>5. CASE ~presence
  <2>1. link' = FALSE /\ UNCHANGED <<record, history, down>>
    BY <1>5 DEF Reconcile
  <2>2. TypeOK'
    BY <1>1, <1>2, <2>1 DEF Inv, TypeOK
  <2>3. SettlingStep
    BY <1>1, <2>1, SameSettles
  <2>4. \A i \in 1..Len(down') : DownOK(down'[i], history, record)
    BY <2>1 DEF Inv, DownInv
  <2> QED
    BY <1>2, <1>4, <2>2, <2>3, <2>4, Settled
<1>6. CASE presence
  <2>1. /\ history' = [b \in Bench |-> [v \in DOMAIN history[b] |->
                         [history[b][v] EXCEPT !.released = @ \/ history[b][v].until < now]]]
        /\ \E done \in SUBSET good, fenced \in SUBSET stale :
             /\ record' = [r \in Reservation |->
                             IF \E l \in done : l.res = r
                               THEN Advance(record[r], "ACTIVE") ELSE record[r]]
             /\ \/ link' = FALSE /\ UNCHANGED down
                \/ Notify(fenced)
    BY <1>6 DEF Reconcile
  <2>2. PICK done \in SUBSET good, fenced \in SUBSET stale :
          /\ record' = [r \in Reservation |->
                          IF \E l \in done : l.res = r
                            THEN Advance(record[r], "ACTIVE") ELSE record[r]]
          /\ \/ link' = FALSE /\ UNCHANGED down
             \/ Notify(fenced)
    BY <2>1
  <2>3. record \in [Reservation -> Record] /\ history \in [Bench -> Seq(HistoryRow)]
    BY DEF Inv, TypeOK
  <2>4. history' \in [Bench -> Seq(HistoryRow)] /\ HistoryShape
    <3>1. ASSUME NEW b \in Bench
          PROVE  /\ history'[b] \in [1..Len(history[b]) -> HistoryRow]
                 /\ \A v \in 1..Len(history[b]) : history'[b][v].res = history[b][v].res
      <4>1. history[b] \in Seq(HistoryRow) /\ DOMAIN history[b] = 1..Len(history[b])
        BY <2>3
      <4>2. history'[b] = [v \in 1..Len(history[b]) |->
              [history[b][v] EXCEPT !.released = @ \/ history[b][v].until < now]]
        BY <2>1, <4>1
      <4>3. ASSUME NEW v \in 1..Len(history[b])
            PROVE  history'[b][v] \in HistoryRow /\ history'[b][v].res = history[b][v].res
        <5>1. history[b][v] \in HistoryRow
          BY <4>1
        <5>2. PICK x \in BOOLEAN : x = (history[b][v].released \/ history[b][v].until < now)
          OBVIOUS
        <5>3. history'[b][v] = [history[b][v] EXCEPT !.released = x]
          BY <4>2, <5>2
        <5> QED
          BY <5>1, <5>3, RowFacts
      <4>4. history'[b] = [v \in 1..Len(history[b]) |-> history'[b][v]]
        BY <4>2
      <4> QED
        BY <4>3, <4>4
    <3>2. history' = [b \in Bench |-> history'[b]]
      BY <2>1
    <3> QED
      BY <3>1, <3>2, RewriteFacts
  <2>5. record' \in [Reservation -> Record] /\ RecordsSettle
    <3>1. ASSUME NEW r \in Reservation
          PROVE  /\ record'[r] \in Record
                 /\ Settles(r)
                 /\ \/ record'[r] = record[r]
                    \/ record'[r].revision > record[r].revision
      <4>1. CASE \E l \in done : l.res = r
        <5>1. PICK l \in done : l.res = r
          BY <4>1
        <5>2. /\ record[r].state = "UNKNOWN" /\ record[r].bench = l.bench
              /\ record[r].version = l.version
          BY <5>1 DEF Restorable
        <5>3. record[r].version <= store[record[r].bench].version
          BY <1>3, <5>1, <5>2 DEF Reached
        <5>4. record[r].state \in CurrentStates /\ "ACTIVE" \in RecordStates
          BY <5>2 DEF CurrentStates, RecordStates
        <5>5. record'[r] = Advance(record[r], "ACTIVE") /\ record[r] \in Record
          BY <2>2, <2>3, <4>1
        <5> QED
          BY <5>3, <5>4, <5>5, AdvanceType DEF Settles
      <4>2. CASE ~\E l \in done : l.res = r
        BY <2>2, <2>3, <4>2 DEF Settles
      <4> QED
        BY <4>1, <4>2
    <3>2. record' \in [Reservation -> Record]
      BY <2>2, <3>1
    <3> QED
      BY <3>1, <3>2 DEF RecordsSettle
  <2>6. /\ down' \in Seq(DownMsg) /\ Len(down') <= MaxQueue
        /\ link' \in BOOLEAN
        /\ \A i \in 1..Len(down') : DownOK(down'[i], history, record)
    <3>1. CASE link' = FALSE /\ UNCHANGED down
      BY <3>1 DEF Inv, TypeOK, DownInv
    <3>2. CASE Notify(fenced)
      <4>1. fenced \subseteq Lease /\ \A l \in fenced : Bound(l, history, record)
        BY <1>3
      <4>2. IsFiniteSet(fenced)
        BY <1>3, FS_Subset
      <4> QED
        BY <3>2, <4>1, <4>2, NotifyFacts
    <3> QED
      BY <2>2, <3>1, <3>2
  <2>7. TypeOK'
    BY <1>1, <1>2, <2>4, <2>5, <2>6 DEF Inv, TypeOK
  <2>8. SettlingStep
    BY <1>1, <2>4, <2>5 DEF SettlingStep
  <2> QED
    BY <1>2, <1>4, <2>6, <2>7, <2>8, Settled
<1> QED
  BY <1>5, <1>6

\* A suspended handler for lease version v of record r.
Awaits(u, r, rec) ==
    /\ u.res = r /\ u.version = rec.version /\ u.revision = rec.revision
    /\ u.confirmed => \E w \in waits : w.res = r /\ w.version = rec.version /\ w.confirmed

\* What an offer does: the pending record is stored and a handler waits on it, or
\* the record is stored as pending or interrupted and nobody waits.
OfferMade(r, rec, lease) ==
    /\ \/ record' = [record EXCEPT ![r] = rec]
       \/ record' = [record EXCEPT ![r] = Interrupted(rec)]
    /\ record' \in [Reservation -> Record]
    /\ waits' \subseteq Wait
    /\ \A u \in waits' : \/ u \in waits
                         \/ record' = [record EXCEPT ![r] = rec] /\ Awaits(u, r, rec)
    /\ down' \in Seq(DownMsg) /\ Len(down') <= MaxQueue
    /\ \A i \in 1..Len(down') : \/ \E j \in 1..Len(down) : down'[i] = down[j]
                                \/ down'[i] = [type |-> "activated", lease |-> lease]
    /\ link' \in BOOLEAN /\ monitor' \in {"idle", "activating", "dead"}

\* What an offer leaves behind: the pending or interrupted record, a wait, a message.
LEMMA SynchronizeFacts ==
    ASSUME Inv, NEW r \in Reservation, NEW rec \in Record, NEW lease \in Lease,
           NEW sound \in BOOLEAN, NEW who \in {"api", "monitor"},
           Synchronize(r, rec, lease, sound, who)
    PROVE  OfferMade(r, rec, lease)
<1> DEFINE joins == Offered(r, rec.version)
           seen  == \E w \in waits : w.res = r /\ w.version = rec.version /\ w.confirmed
           wait  == [who |-> who, res |-> r, version |-> rec.version,
                     revision |-> rec.revision, confirmed |-> seen]
           msg   == [type |-> "activated", lease |-> lease]
<1>1. /\ record \in [Reservation -> Record] /\ waits \subseteq Wait /\ now \in Nat
      /\ down \in Seq(DownMsg) /\ Len(down) <= MaxQueue /\ Len(down) \in Nat
      /\ MaxQueue \in Nat /\ link \in BOOLEAN /\ session \in BOOLEAN
      /\ monitor \in {"idle", "activating", "dead"}
  BY BoundAssumption DEF Inv, TypeOK
<1>2. rec.version \in Nat /\ rec.revision \in Nat
  BY DEF Record
<1>3. Interrupted(rec) \in Record
  BY <1>1, InterruptedType
<1>4. CASE session /\ (joins \/ Len(down) < MaxQueue)
  <2>1. /\ record' = [record EXCEPT ![r] = rec]
        /\ waits' = waits \cup {wait}
        /\ down' = IF joins THEN down ELSE Append(down, msg)
        /\ UNCHANGED <<link, monitor>>
    BY <1>4 DEF Synchronize, Put
  <2>2. seen \in BOOLEAN
    OBVIOUS
  <2>3. wait \in Wait
    <3> HIDE DEF seen
    <3> QED
      BY <1>2, <2>2 DEF Wait
  <2>4. Awaits(wait, r, rec)
    BY DEF Awaits
  <2>5. msg \in DownMsg
    BY DEF DownMsg
  <2>6. /\ down' \in Seq(DownMsg) /\ Len(down') <= MaxQueue
        /\ \A i \in 1..Len(down') : \/ \E j \in 1..Len(down) : down'[i] = down[j]
                                    \/ down'[i] = msg
    <3>1. CASE joins
      BY <1>1, <2>1, <3>1
    <3>2. CASE ~joins
      <4> HIDE DEF msg
      <4>1. down' = Append(down, msg) /\ Len(down) < MaxQueue
        BY <1>4, <2>1, <3>2
      <4>2. /\ Append(down, msg) \in Seq(DownMsg) /\ Len(Append(down, msg)) = Len(down) + 1
            /\ \A i \in 1..Len(Append(down, msg)) :
                 \/ Append(down, msg)[i] = msg
                 \/ \E j \in 1..Len(down) : Append(down, msg)[i] = down[j]
        BY <1>1, <2>5, AppendFacts
      <4> QED
        BY <1>1, <4>1, <4>2
    <3> QED
      BY <3>1, <3>2
  <2> HIDE DEF wait, msg
  <2>7. \A u \in waits' : u \in waits \/ u = wait
    BY <2>1
  <2>8. record' \in [Reservation -> Record]
    BY <1>1, <2>1
  <2> QED
    BY <1>1, <2>1, <2>3, <2>4, <2>6, <2>7, <2>8 DEF msg, OfferMade
<1>5. CASE ~(session /\ (joins \/ Len(down) < MaxQueue))
  <2>1. /\ record' = [record EXCEPT ![r] = IF sound THEN Interrupted(rec) ELSE rec]
        /\ link' = (link /\ ~session)
        /\ monitor' = IF ~sound /\ who = "monitor" THEN "idle" ELSE monitor
        /\ UNCHANGED <<waits, down>>
    BY <1>5 DEF Synchronize, Put
  <2>2. \/ record' = [record EXCEPT ![r] = rec]
        \/ record' = [record EXCEPT ![r] = Interrupted(rec)]
    BY <2>1
  <2>3. record' \in [Reservation -> Record]
    BY <1>1, <1>3, <2>2
  <2>4. monitor' \in {"idle", "activating", "dead"} /\ link' \in BOOLEAN
    BY <1>1, <2>1
  <2> QED
    BY <1>1, <2>1, <2>2, <2>3, <2>4 DEF OfferMade
<1> QED
  BY <1>4, <1>5

\* A pending record is offered again, by a client's retry or by the monitor.
LEMMA ReofferInv ==
    ASSUME Inv, NEW r \in Reservation, NEW who \in {"api", "monitor"},
           record[r].state \in {"ACTIVATING", "RENEWING"},
           Synchronize(r, record[r], LeaseOf(r), HistoryMatches(r), who),
           UNCHANGED <<now, history, presence, session, connections, healthy, up, store>>
    PROVE  Inv'
<1>1. record \in [Reservation -> Record] /\ now \in Nat
  BY DEF Inv, TypeOK
<1>2. PICK rec : rec = record[r]
  OBVIOUS
<1>3. /\ rec \in Record /\ rec.state \in {"ACTIVATING", "RENEWING"}
      /\ rec.state \in CurrentStates
  BY <1>1, <1>2 DEF CurrentStates
<1>4. rec.version > 0 /\ rec.version \in Nat /\ rec.revision \in Nat
  BY <1>2, <1>3 DEF Inv, RecordInv, Current, Record
<1>5. PICK lease : lease = LeaseOf(r)
  OBVIOUS
<1>6. lease \in Lease /\ Bound(lease, history, record)
  BY <1>2, <1>4, <1>5, LeaseOfBound
<1>7. PICK sound \in BOOLEAN : sound = HistoryMatches(r)
  BY DEF HistoryMatches
<1>8. Synchronize(r, rec, lease, sound, who)
  BY <1>2, <1>5, <1>7
<1>9. OfferMade(r, rec, lease)
  BY <1>3, <1>6, <1>8, SynchronizeFacts
<1>10. RecordsSettle
  <2>1. CASE record' = [record EXCEPT ![r] = rec]
    BY <1>1, <1>2, <2>1, SameRecords
  <2>2. CASE record' = [record EXCEPT ![r] = Interrupted(rec)]
    <3>1. Put(r, Interrupted(record[r]))
      BY <1>2, <2>2 DEF Put
    <3> QED
      BY <1>1, <1>2, <1>3, <3>1, InterruptedType, PutSettles
  <2> QED
    BY <1>9, <2>1, <2>2 DEF OfferMade
<1>11. TypeOK'
  BY <1>9 DEF OfferMade, Inv, TypeOK
<1>12. ASSUME NEW u \in waits'
       PROVE  WaitOK(u, record, store)
  <2>1. CASE u \in waits
    BY <2>1 DEF Inv, WaitInv
  <2>2. CASE Awaits(u, r, rec)
    <3>1. u.confirmed => u.version <= store[record[r].bench].version
      BY <1>2, <2>2 DEF Awaits, Inv, WaitInv, WaitOK
    <3> QED
      BY <1>2, <1>3, <1>4, <2>2, <3>1 DEF Awaits, WaitOK
  <2> QED
    BY <1>9, <2>1, <2>2 DEF OfferMade
<1>13. \A i \in 1..Len(down') : DownOK(down'[i], history, record)
  <2>1. DownOK([type |-> "activated", lease |-> lease], history, record)
    BY <1>6 DEF DownOK
  <2> QED
    BY <1>9, <2>1 DEF OfferMade, Inv, DownInv
<1>14. SettlingStep
  BY <1>10, SameHistory DEF SettlingStep
<1> QED
  BY <1>11, <1>12, <1>13, <1>14, Settled DEF Inv, UpInv

\* A repeated grant() or renew() keeps the invariant.
LEMMA RetryInv == ASSUME Inv, NEW r \in Reservation, Retry(r) PROVE Inv'
  BY ReofferInv DEF Retry

\* h has the owners of bench b's history, row by row.
SameOwners(h, b) ==
    /\ Len(h) = Len(history[b])
    /\ \A v \in 1..Len(h) : h[v].res = history[b][v].res

\* Record new of reservation r is its first lease, or a later state on the same bench.
Supersedes(new, r, b) ==
    \/ record[r].version = 0
    \/ record[r].bench = b /\ new.revision > record[r].revision

\* Nobody but r is current on bench b.
SoleOwner(r, b) == \A q \in Reservation : Current(q) /\ q # r => record[q].bench # b

\* A new version of bench b for reservation r: no other current record is on b.
LEMMA NewLease ==
    ASSUME Inv, TypeOK', NEW r \in Reservation, NEW b \in Bench, NEW new \in Record,
           NEW h \in Seq(HistoryRow), NEW row \in HistoryRow,
           SameOwners(h, b), row.res = r,
           history' = [history EXCEPT ![b] = Append(h, row)],
           record' = [record EXCEPT ![r] = new],
           new.bench = b, new.version = Len(history[b]) + 1,
           new.state \in {"ACTIVATING", "RENEWING", "UNKNOWN"},
           Supersedes(new, r, b), SoleOwner(r, b),
           store' = store
    PROVE  Grows /\ RecordInv' /\ StoreInv'
<1> USE DEF SameOwners, Supersedes, SoleOwner
<1>1. /\ record \in [Reservation -> Record] /\ history \in [Bench -> Seq(HistoryRow)]
      /\ Len(h) \in Nat
  BY DEF Inv, TypeOK
<1>2. /\ history'[b] = Append(h, row) /\ \A c \in Bench : c # b => history'[c] = history[c]
      /\ record'[r] = new /\ \A q \in Reservation : q # r => record'[q] = record[q]
  BY <1>1
<1>3. /\ Len(history'[b]) = Len(h) + 1 /\ history'[b][Len(h) + 1] = row
      /\ \A v \in 1..Len(h) : history'[b][v] = h[v]
  BY <1>1, <1>2
<1>4. HistoryGrows
  <2>1. ASSUME NEW c \in Bench
        PROVE  /\ Len(history'[c]) >= Len(history[c])
               /\ \A v \in 1..Len(history[c]) : history'[c][v].res = history[c][v].res
    <3>1. CASE c = b
      BY <1>1, <1>3, <3>1
    <3>2. CASE c # b
      <4>1. history'[c] = history[c] /\ Len(history[c]) \in Nat
        BY <1>1, <1>2, <3>2
      <4> QED
        BY <4>1
    <3> QED
      BY <3>1, <3>2
  <2> QED
    BY <2>1 DEF HistoryGrows
<1>5. \A q \in Reservation : record[q].version \in Nat /\ record[q].bench \in Bench
  BY <1>1 DEF Record
<1>6. RecordsGrow
  <2>1. ASSUME NEW q \in Reservation
        PROVE  /\ record[q].version > 0 => /\ record'[q].bench = record[q].bench
                                           /\ record'[q].version >= record[q].version
               /\ \/ record'[q] = record[q]
                  \/ record[q].version = 0
                  \/ record'[q].revision > record[q].revision
    <3>1. CASE q = r
      <4>1. record[r].version <= Len(history[record[r].bench])
        BY DEF Inv, RecordInv
      <4> QED
        BY <1>1, <1>2, <1>5, <3>1, <4>1
    <3>2. CASE q # r
      BY <1>2, <1>5, <3>2
    <3> QED
      BY <3>1, <3>2
  <2> QED
    BY <2>1 DEF RecordsGrow
<1>7. StoreGrows
  <2>1. \A c \in Bench : store[c].version \in Nat
    BY DEF Inv, TypeOK, Stored
  <2> QED
    BY <2>1 DEF StoreGrows
<1>8. Grows
  BY <1>4, <1>6, <1>7 DEF Grows
<1>9. RecordInv'
  <2> SUFFICES ASSUME NEW q \in Reservation
               PROVE  /\ record'[q].version <= Len(history'[record'[q].bench])
                      /\ record'[q].version > 0
                           => history'[record'[q].bench][record'[q].version].res = q
                      /\ record'[q].state \in CurrentStates
                           => /\ record'[q].version = Len(history'[record'[q].bench])
                              /\ record'[q].version > 0
                      /\ record'[q].state \in {"NONE", "SCHEDULED"} => record'[q].version = 0
                      /\ record'[q].state = "ACTIVE"
                           => record'[q].version <= store'[record'[q].bench].version
    BY DEF RecordInv, Current
  <2>1. CASE q = r
    BY <1>1, <1>2, <1>3, <2>1
  <2>2. CASE q # r
    <3>1. record'[q] = record[q]
      BY <1>2, <2>2
    <3>2. /\ record[q].version <= Len(history[record[q].bench])
          /\ record[q].version > 0 => history[record[q].bench][record[q].version].res = q
          /\ record[q].state \in CurrentStates
               => /\ record[q].version = Len(history[record[q].bench])
                  /\ record[q].version > 0
          /\ record[q].state \in {"NONE", "SCHEDULED"} => record[q].version = 0
          /\ record[q].state = "ACTIVE" => record[q].version <= store[record[q].bench].version
      BY DEF Inv, RecordInv, Current
    <3>3. CASE record[q].bench # b
      <4>1. history'[record[q].bench] = history[record[q].bench]
        BY <1>2, <1>5, <3>3
      <4> QED
        BY <3>1, <3>2, <4>1
    <3>4. CASE record[q].bench = b
      <4>1. record[q].state \notin CurrentStates
        BY <2>2, <3>4 DEF Current
      <4>2. record[q].state # "ACTIVE"
        BY <4>1 DEF CurrentStates
      <4>3. record[q].version > 0
              => history'[b][record[q].version].res = history[b][record[q].version].res
        BY <1>1, <1>3, <1>5, <3>2, <3>4
      <4> QED
        BY <1>1, <1>3, <1>5, <3>1, <3>2, <3>4, <4>1, <4>2, <4>3
    <3> QED
      BY <3>3, <3>4
  <2> QED
    BY <2>1, <2>2
<1>10. StoreInv'
  BY <1>8, StoreKept
<1> QED
  BY <1>8, <1>9, <1>10

\* Writing a new version and offering it to the Agent keeps the invariant.
LEMMA NewLeaseInv ==
    ASSUME Inv, NEW r \in Reservation, NEW b \in Bench, NEW rec \in Record,
           NEW h \in Seq(HistoryRow), NEW row \in HistoryRow, NEW lease \in Lease,
           SameOwners(h, b), row.res = r,
           history' = [history EXCEPT ![b] = Append(h, row)],
           OfferMade(r, rec, lease),
           rec.bench = b, rec.version = Len(history[b]) + 1,
           rec.state \in {"ACTIVATING", "RENEWING"},
           lease.res = r, lease.bench = b, lease.version = rec.version,
           Supersedes(rec, r, b), SoleOwner(r, b),
           UNCHANGED <<now, presence, session, connections, healthy, up, store>>
    PROVE  Inv'
<1>1. /\ record \in [Reservation -> Record] /\ history \in [Bench -> Seq(HistoryRow)]
      /\ Len(h) \in Nat /\ now \in Nat
  BY DEF Inv, TypeOK
<1>2. Append(h, row) \in Seq(HistoryRow)
  OBVIOUS
<1>3. history' \in [Bench -> Seq(HistoryRow)]
  BY <1>1, <1>2
<1>4. TypeOK'
  BY <1>3 DEF OfferMade, Inv, TypeOK
<1>5. PICK new : new \in {rec, Interrupted(rec)} /\ record' = [record EXCEPT ![r] = new]
  BY DEF OfferMade
<1>6. /\ new \in Record /\ new.bench = b /\ new.version = rec.version
      /\ new.revision >= rec.revision
      /\ new.state \in {"ACTIVATING", "RENEWING", "UNKNOWN"}
      /\ new.revision \in Nat /\ rec.revision \in Nat /\ record[r].revision \in Nat
      /\ record[r].version \in Nat
  <2>1. rec.revision \in Nat
    BY DEF Record
  <2>2. record[r].revision \in Nat /\ record[r].version \in Nat
    BY <1>1 DEF Record
  <2>3. CASE new = rec
    BY <2>1, <2>2, <2>3
  <2>4. CASE new = Interrupted(rec)
    <3>1. new \in Record
      BY <1>1, <2>4, InterruptedType
    <3>2. new.revision \in Nat
      BY <3>1 DEF Record
    <3> QED
      BY <1>1, <2>1, <2>2, <2>4, <3>1, <3>2, InterruptedType
  <2> QED
    BY <1>5, <2>3, <2>4
<1>7. Grows /\ RecordInv' /\ StoreInv'
  <2>1. Supersedes(new, r, b)
    BY <1>6 DEF Supersedes
  <2>2. new.version = Len(history[b]) + 1
    BY <1>6
  <2>3. store' = store
    OBVIOUS
  <2> QED
    BY <1>4, <1>5, <1>6, <2>1, <2>2, <2>3, NewLease
<1>8. Bound(lease, history', record')
  <2>1. history'[b] = Append(h, row) /\ record'[r] = new
    BY <1>1, <1>5
  <2>2. Len(history'[b]) = Len(h) + 1 /\ history'[b][Len(h) + 1] = row
    BY <1>1, <2>1
  <2>3. Len(h) = Len(history[b])
    BY DEF SameOwners
  <2> QED
    BY <1>1, <1>6, <2>1, <2>2, <2>3 DEF Bound
<1>9. \A i \in 1..Len(down') : \/ DownOK(down'[i], history, record)
                               \/ DownOK(down'[i], history', record')
  <2>1. DownOK([type |-> "activated", lease |-> lease], history', record')
    BY <1>8 DEF DownOK
  <2> QED
    BY <2>1 DEF OfferMade, Inv, DownInv
<1>10. ASSUME NEW u \in waits'
       PROVE  WaitOK(u, record, store) \/ WaitOK(u, record', store')
  <2>1. CASE u \in waits
    BY <2>1 DEF Inv, WaitInv
  <2>2. CASE record' = [record EXCEPT ![r] = rec] /\ Awaits(u, r, rec)
    <3>1. record'[r] = rec
      BY <1>1, <2>2
    <3>2. record[r].version <= Len(history[b])
      <4>1. record[r].version = 0 \/ record[r].bench = b
        BY DEF Supersedes
      <4> QED
        BY <1>1, <4>1 DEF Inv, RecordInv
    <3>3. ~u.confirmed
      <4>1. ASSUME NEW w \in waits, w.res = r, w.version = rec.version
            PROVE  FALSE
        <5>1. w.version <= record[r].version
          BY <4>1 DEF Inv, WaitInv, WaitOK
        <5> QED
          BY <1>1, <1>6, <3>2, <4>1, <5>1
      <4> QED
        BY <2>2, <4>1 DEF Awaits
    <3>4. rec.version >= 1 /\ rec.version \in Nat
      BY <1>1
    <3> QED
      BY <1>6, <2>2, <3>1, <3>3, <3>4 DEF Awaits, WaitOK
  <2> QED
    BY <2>1, <2>2 DEF OfferMade
<1>11. \A i \in 1..Len(up') : UpOK(up'[i], history, record, store)
  BY DEF Inv, UpInv
<1> QED
  BY <1>4, <1>7, <1>9, <1>10, <1>11, GrowingStep

\* Activation of a reservation that has no lease yet.
LEMMA ActivateInv ==
    ASSUME Inv, NEW r \in Reservation, NEW rec \in Record, NEW until \in Nat,
           NEW who \in {"api", "monitor"}, Activate(r, rec, until, who),
           record[r].version = 0, rec.state = "ACTIVATING", FreeBench(rec.bench),
           UNCHANGED <<now, presence, session, connections, healthy, up, store>>
    PROVE  Inv'
<1>1. PICK b \in Bench : b = rec.bench
  BY DEF Record
<1>2. PICK h : h = history[b]
  OBVIOUS
<1>3. h \in Seq(HistoryRow) /\ Len(h) \in Nat
  BY <1>2 DEF Inv, TypeOK
<1>4. PICK row : row = [res |-> r, until |-> until, released |-> FALSE]
  OBVIOUS
<1>5. row \in HistoryRow /\ row.res = r
  BY <1>4 DEF HistoryRow
<1>6. PICK new : new = [rec EXCEPT !.version = Len(h) + 1]
  OBVIOUS
<1>7. /\ new \in Record /\ new.bench = b /\ new.version = Len(h) + 1
      /\ new.state = "ACTIVATING"
  BY <1>1, <1>3, <1>6 DEF Record
<1>8. PICK lease : lease = [res |-> r, bench |-> b, version |-> Len(h) + 1, until |-> until]
  OBVIOUS
<1>9. /\ lease \in Lease /\ lease.res = r /\ lease.bench = b /\ lease.version = Len(h) + 1
  BY <1>3, <1>8 DEF Lease
<1>10. /\ history' = [history EXCEPT ![b] = Append(h, row)]
       /\ Synchronize(r, new, lease, TRUE, who)
  BY <1>1, <1>2, <1>4, <1>6, <1>8 DEF Activate
<1>11. TRUE \in BOOLEAN
  OBVIOUS
<1>12. OfferMade(r, new, lease)
  BY <1>7, <1>9, <1>10, <1>11, SynchronizeFacts
<1>13. \A q \in Reservation : Current(q) /\ q # r => record[q].bench # b
  BY <1>1 DEF FreeBench
<1>14. SameOwners(h, b) /\ SoleOwner(r, b) /\ Supersedes(new, r, b)
  BY <1>2, <1>13 DEF SameOwners, SoleOwner, Supersedes
<1>15. new.version = Len(history[b]) + 1
  BY <1>2, <1>7
<1>16. new.state \in {"ACTIVATING", "RENEWING"}
  BY <1>7
<1>17. lease.version = new.version
  BY <1>7, <1>9
<1> QED
  BY <1>3, <1>5, <1>7, <1>9, <1>10, <1>12, <1>14, <1>15, <1>16, <1>17, NewLeaseInv

\* grant() keeps the invariant.
LEMMA GrantInv ==
    ASSUME Inv, NEW r \in Reservation, NEW b \in Bench, NEW d \in Durations, Grant(r, b, d)
    PROVE  Inv'
<1>1. now \in Nat /\ d \in Nat /\ now + d \in Nat
  BY DurationsAssumption DEF Inv, TypeOK
<1>2. PICK rec : rec = [state |-> "ACTIVATING", granted |-> TRUE, bench |-> b, version |-> 0,
                        starts |-> now, ends |-> now + d, deadline |-> 0, revision |-> 1]
  OBVIOUS
<1>3. "ACTIVATING" \in RecordStates
  BY DEF RecordStates, CurrentStates
<1>4. rec \in Record /\ rec.state = "ACTIVATING" /\ rec.bench = b
  BY <1>1, <1>2, <1>3 DEF Record
<1>5. PICK until : until = Smaller(now + d, now + LeaseTTL)
  OBVIOUS
<1>6. until \in Nat
  BY <1>1, <1>5, ClockAssumption DEF Smaller
<1>7. Activate(r, rec, until, "api")
  BY <1>2, <1>5 DEF Grant
<1>8. FreeBench(rec.bench) /\ record[r].version = 0
  BY <1>4 DEF Grant, Inv, RecordInv
<1>9. UNCHANGED <<now, presence, session, connections, healthy, up, store>>
  BY DEF Grant
<1> QED
  BY <1>4, <1>6, <1>7, <1>8, <1>9, ActivateInv

\* process_due_scheduled() keeps the invariant.
LEMMA MonitorActivateInv ==
    ASSUME Inv, NEW r \in Reservation, MonitorActivate(r)
    PROVE  Inv'
<1>1. record \in [Reservation -> Record] /\ now \in Nat
  BY DEF Inv, TypeOK
<1>2. UNCHANGED <<now, presence, session, connections, healthy, up, store>>
  BY DEF MonitorActivate
<1>3. CASE /\ record[r].state = "ACTIVATING"
           /\ Synchronize(r, record[r], LeaseOf(r), HistoryMatches(r), "monitor")
           /\ UNCHANGED history
  BY <1>2, <1>3, ReofferInv
<1>4. CASE /\ Lapsed(r)
           /\ Put(r, [record[r] EXCEPT !.state = "EXPIRED"])
           /\ UNCHANGED <<history, waits, down, link, monitor>>
  <2>1. PICK rec : rec = [record[r] EXCEPT !.state = "EXPIRED"]
    OBVIOUS
  <2>2. "EXPIRED" \in RecordStates /\ "EXPIRED" \notin CurrentStates
    BY DEF RecordStates, TerminalStates, CurrentStates
  <2>3. /\ rec \in Record /\ rec.state = "EXPIRED"
        /\ rec.bench = record[r].bench /\ rec.version = record[r].version
    BY <1>1, <2>1, <2>2 DEF Record
  <2>4. record[r].version = 0
    BY <1>4 DEF Lapsed, Inv, RecordInv
  <2>5. record' = [record EXCEPT ![r] = rec]
    BY <1>4, <2>1 DEF Put
  <2>6. record' \in [Reservation -> Record]
    BY <1>1, <2>3, <2>5
  <2>7. TypeOK'
    BY <1>2, <1>4, <2>6 DEF Inv, TypeOK
  <2>8. ASSUME NEW q \in Reservation
        PROVE  /\ Settles(q)
               /\ \/ record'[q] = record[q]
                  \/ record[q].version = 0
                  \/ record'[q].revision > record[q].revision
    <3>1. CASE q = r
      <4>1. record'[q] = rec
        BY <1>1, <2>5, <3>1
      <4> QED
        BY <2>2, <2>3, <2>4, <3>1, <4>1 DEF Settles
    <3>2. CASE q # r
      <4>1. record'[q] = record[q]
        BY <1>1, <2>5, <3>2
      <4> QED
        BY <4>1 DEF Settles
    <3> QED
      BY <3>1, <3>2
  <2>9. SettlingStep
    BY <1>2, <1>4, <2>8, SameHistory DEF SettlingStep, RecordsSettle
  <2> QED
    BY <1>2, <1>4, <2>7, <2>9, Settled DEF Inv, DownInv, UpInv, WaitInv
<1>5. CASE /\ record[r].state = "SCHEDULED"
           /\ FreeBench(record[r].bench)
           /\ Activate(r, [record[r] EXCEPT !.state = "ACTIVATING", !.revision = 1],
                       Smaller(record[r].ends, now + LeaseTTL), "monitor")
  <2>1. PICK rec : rec = [record[r] EXCEPT !.state = "ACTIVATING", !.revision = 1]
    OBVIOUS
  <2>2. "ACTIVATING" \in RecordStates
    BY DEF RecordStates, CurrentStates
  <2>3. rec \in Record /\ rec.state = "ACTIVATING" /\ rec.bench = record[r].bench
    BY <1>1, <2>1, <2>2 DEF Record
  <2>4. PICK until : until = Smaller(record[r].ends, now + LeaseTTL)
    OBVIOUS
  <2>5. record[r].ends \in Nat
    BY <1>1 DEF Record
  <2>6. until \in Nat
    BY <1>1, <2>4, <2>5, ClockAssumption DEF Smaller
  <2>7. Activate(r, rec, until, "monitor")
    BY <1>5, <2>1, <2>4
  <2>8. FreeBench(rec.bench) /\ record[r].version = 0
    BY <1>5, <2>3 DEF Inv, RecordInv
  <2> QED
    BY <1>2, <2>3, <2>6, <2>7, <2>8, ActivateInv
<1> QED
  BY <1>3, <1>4, <1>5 DEF MonitorActivate

\* A history in which one row was released has the same owners.
LEMMA ReleasedOwners ==
    ASSUME Inv, NEW b \in Bench, NEW v \in 1..Len(history[b])
    PROVE  /\ ReleaseRow(history, b, v)[b] \in Seq(HistoryRow)
           /\ SameOwners(ReleaseRow(history, b, v)[b], b)
<1>1. history \in [Bench -> Seq(HistoryRow)]
  BY DEF Inv, TypeOK
<1>2. PICK h : h = history[b]
  OBVIOUS
<1>3. h \in Seq(HistoryRow) /\ Len(h) \in Nat /\ v \in 1..Len(h)
  BY <1>1, <1>2
<1>4. PICK row : row = [h[v] EXCEPT !.released = TRUE]
  OBVIOUS
<1>5. h[v] \in HistoryRow
  BY <1>3
<1>6. row \in HistoryRow /\ row.res = h[v].res
  BY <1>4, <1>5 DEF HistoryRow
<1>7. ReleaseRow(history, b, v)[b] = [h EXCEPT ![v] = row]
  BY <1>1, <1>2, <1>4 DEF ReleaseRow
<1>8. [h EXCEPT ![v] = row] \in Seq(HistoryRow) /\ Len([h EXCEPT ![v] = row]) = Len(h)
  BY <1>3, <1>6
<1>9. \A u \in 1..Len(h) : [h EXCEPT ![v] = row][u].res = h[u].res
  BY <1>3, <1>6
<1> QED
  BY <1>2, <1>7, <1>8, <1>9 DEF SameOwners

\* renew() keeps the invariant.
LEMMA RenewInv ==
    ASSUME Inv, NEW r \in Reservation, Renew(r)
    PROVE  Inv'
<1>1. /\ record \in [Reservation -> Record] /\ now \in Nat
      /\ history \in [Bench -> Seq(HistoryRow)]
  BY DEF Inv, TypeOK
<1>2. PICK b \in Bench : b = record[r].bench
  BY <1>1 DEF Record
<1>3. /\ record[r].version \in Nat /\ record[r].ends \in Nat /\ record[r].revision \in Nat
      /\ Len(history[b]) \in Nat
  BY <1>1 DEF Record
<1>4. PICK v : v = record[r].version
  OBVIOUS
<1>5. Current(r)
  BY DEF Renew, Current, CurrentStates
<1>6. v = Len(history[b]) /\ v > 0 /\ v \in Nat /\ v \in 1..Len(history[b])
  BY <1>2, <1>3, <1>4, <1>5 DEF Renew, Inv, RecordInv
<1>7. PICK until : until = Smaller(record[r].ends, now + LeaseTTL)
  OBVIOUS
<1>8. until \in Nat
  BY <1>1, <1>3, <1>7, ClockAssumption DEF Smaller
<1>9. PICK h : h = ReleaseRow(history, b, v)[b]
  OBVIOUS
<1>10. h \in Seq(HistoryRow) /\ SameOwners(h, b)
  BY <1>6, <1>9, ReleasedOwners
<1>11. PICK row : row = [res |-> r, until |-> until, released |-> FALSE]
  OBVIOUS
<1>12. row \in HistoryRow /\ row.res = r
  BY <1>8, <1>11 DEF HistoryRow
<1>13. history' = [history EXCEPT ![b] = Append(h, row)]
  <2>1. history' = [ReleaseRow(history, b, v) EXCEPT ![b] = Append(@, row)]
    BY <1>2, <1>4, <1>7, <1>11 DEF Renew
  <2> QED
    BY <1>1, <1>9, <2>1 DEF ReleaseRow
<1>14. PICK adv : adv = Advance(record[r], "RENEWING")
  OBVIOUS
<1>15. /\ adv \in Record /\ adv.state = "RENEWING" /\ adv.bench = b
       /\ adv.revision > record[r].revision
  <2>1. "RENEWING" \in RecordStates
    BY DEF RecordStates, CurrentStates
  <2> QED
    BY <1>1, <1>2, <1>14, <2>1, AdvanceType
<1>16. PICK rec : rec = [adv EXCEPT !.version = v + 1]
  OBVIOUS
<1>17. /\ rec \in Record /\ rec.state = "RENEWING" /\ rec.bench = b
       /\ rec.revision > record[r].revision /\ rec.version = v + 1
  BY <1>6, <1>15, <1>16 DEF Record
<1>18. PICK lease : lease = [res |-> r, bench |-> b, version |-> v + 1, until |-> until]
  OBVIOUS
<1>19. lease \in Lease /\ lease.res = r /\ lease.bench = b /\ lease.version = v + 1
  BY <1>6, <1>8, <1>18 DEF Lease
<1>20. Synchronize(r, rec, lease, TRUE, "api")
  BY <1>2, <1>4, <1>7, <1>14, <1>16, <1>18 DEF Renew
<1>21. TRUE \in BOOLEAN /\ "api" \in {"api", "monitor"}
  OBVIOUS
<1>22. OfferMade(r, rec, lease)
  BY <1>17, <1>19, <1>20, <1>21, SynchronizeFacts
<1>23. Supersedes(rec, r, b)
  BY <1>2, <1>17 DEF Supersedes
<1>24. SoleOwner(r, b)
  <2> SUFFICES ASSUME NEW q \in Reservation, Current(q), q # r, record[q].bench = b
               PROVE  FALSE
    BY DEF SoleOwner
  <2>1. record[q].version = v /\ record[q].version > 0
    BY <1>6 DEF Inv, RecordInv
  <2>2. history[b][v].res = q
    BY <2>1 DEF Inv, RecordInv
  <2>3. history[b][v].res = r
    BY <1>2, <1>4, <1>6 DEF Inv, RecordInv
  <2> QED
    BY <2>2, <2>3
<1>25. rec.version = Len(history[b]) + 1 /\ lease.version = rec.version
  BY <1>6, <1>17, <1>19
<1>26. rec.state \in {"ACTIVATING", "RENEWING"}
  BY <1>17
<1>27. UNCHANGED <<now, presence, session, connections, healthy, up, store>>
  BY DEF Renew
<1> QED
  BY <1>10, <1>12, <1>13, <1>17, <1>19, <1>22, <1>23, <1>24, <1>25, <1>26, <1>27, NewLeaseInv

-----------------------------------------------------------------------------
(* The invariant holds of every behaviour. *)

\* A freshly enrolled Agent has no lease anywhere.
LEMMA InitInv == ASSUME Init PROVE Inv
<1>1. PICK b0 \in Bench :
        record = [r \in Reservation |->
                    [state |-> "NONE", granted |-> FALSE, bench |-> b0, version |-> 0,
                     starts |-> 0, ends |-> 0, deadline |-> 0, revision |-> 0]]
  BY DEF Init
<1>2. PICK r0 \in Reservation :
        store = [b \in Bench |-> [res |-> r0, version |-> 0, until |-> 0, released |-> TRUE]]
  BY DEF Init
<1>3. record \in [Reservation -> Record]
  BY <1>1 DEF Record, RecordStates
<1>4. store \in [Bench -> Stored]
  BY <1>2 DEF Stored
<1>5. /\ history \in [Bench -> Seq(HistoryRow)] /\ \A b \in Bench : Len(history[b]) = 0
      /\ down \in Seq(DownMsg) /\ Len(down) = 0
      /\ up \in Seq(UpMsg) /\ Len(up) = 0
  BY DEF Init
<1>6. healthy \in [Bench -> BOOLEAN]
  BY DEF Init
<1>7. TypeOK
  <2>1. /\ now \in Nat /\ waits \subseteq Wait
        /\ presence \in BOOLEAN /\ session \in BOOLEAN /\ link \in BOOLEAN
        /\ connections \in Nat /\ monitor \in {"idle", "activating", "dead"}
    BY DEF Init
  <2>2. Len(down) <= MaxQueue /\ Len(up) <= MaxQueue
    BY <1>5, BoundAssumption
  <2> QED
    BY <1>3, <1>4, <1>5, <1>6, <2>1, <2>2 DEF TypeOK
<1>8. \A r \in Reservation : record[r].version = 0 /\ record[r].state = "NONE"
                             /\ record[r].bench \in Bench
  BY <1>1
<1>9. RecordInv
  BY <1>5, <1>8 DEF RecordInv, Current, CurrentStates
<1>10. StoreInv
  BY <1>2 DEF StoreInv
<1>11. DownInv /\ UpInv /\ WaitInv
  BY <1>5 DEF DownInv, UpInv, WaitInv, Init
<1> QED
  BY <1>7, <1>9, <1>10, <1>11 DEF Inv

\* Every step of the system, one case per action, keeps the invariant.
LEMMA NextInv == ASSUME Inv, Next PROVE Inv'
<1>1. CASE Api
  <2>1. CASE \E r \in Reservation, b \in Bench, d \in Durations : Grant(r, b, d)
    BY <2>1, GrantInv
  <2>2. CASE \E r \in Reservation, b \in Bench, d \in Durations :
               \E starts \in 1..MaxTime : Schedule(r, b, starts, d)
    BY <2>2, ScheduleInv
  <2>3. CASE \E r \in Reservation : Retry(r)
    BY <2>3, RetryInv
  <2>4. CASE \E r \in Reservation : CancelScheduled(r)
    BY <2>4, CancelScheduledInv
  <2>5. CASE \E r \in Reservation : Renew(r)
    BY <2>5, RenewInv
  <2>6. CASE \E r \in Reservation : \E s \in Endings : Release(r, s)
    BY <2>6, ReleaseInv
  <2> QED
    BY <1>1, <2>1, <2>2, <2>3, <2>4, <2>5, <2>6 DEF Api
<1>2. CASE Resume
  BY <1>2, ConcludeInv, TimeOutInv DEF Resume
<1>3. CASE Monitor
  BY <1>3, MonitorExpireInv, MonitorFinishInv, MonitorOfflineInv, MonitorActivateInv DEF Monitor
<1>4. CASE Network
  BY <1>4, ConnectInv, LinkLossInv, SessionEndsInv, ControlPlaneRestartInv, AgentRestartInv,
     HealthChangeInv DEF Network
<1>5. CASE Deliver
  BY <1>5, AgentAppliesInv, AgentReleasesInv, AgentReportsInv, ConfirmInv, ReconcileInv
     DEF Deliver
<1>6. CASE Tick
  BY <1>6, TickInv
<1> QED
  BY <1>1, <1>2, <1>3, <1>4, <1>5, <1>6 DEF Next

\* Nothing changes in a stuttering step.
LEMMA StutterInv == ASSUME Inv, UNCHANGED vars PROVE Inv'
  BY DEF vars, Inv, TypeOK, RecordInv, Current, StoreInv, DownInv, UpInv, WaitInv

\* The inductive invariant: every lease known to a coordination record, a suspended
\* handler, a message or the Agent is the row of the bench's history with its version.
THEOREM InvariantHolds == Spec => []Inv
<1>1. Init => Inv
  BY InitInv
<1>2. Inv /\ [Next]_vars => Inv'
  BY NextInv, StutterInv
<1> QED
  BY <1>1, <1>2, PTL DEF Spec

\* The service, the hub, the monitor and the Agent keep every variable in its type,
\* and both outgoing queues within outgoing_queue_size.
THEOREM TypeCorrect == Spec => []TypeOK
<1>1. Inv => TypeOK
  BY DEF Inv
<1> QED
  BY <1>1, InvariantHolds, PTL

\* _has_current_coordination and the versioned history are enough: no bench ever has
\* two current owners, for any number of benches, reservations, connections and restarts.
THEOREM SingleOwnerHolds == Spec => []SingleOwner
<1>1. Inv => SingleOwner
  <2> SUFFICES ASSUME Inv, NEW r \in Reservation, NEW q \in Reservation,
                      Current(r), Current(q), record[r].bench = record[q].bench
               PROVE  r = q
    BY DEF SingleOwner
  <2>1. /\ record[r].version = Len(history[record[r].bench]) /\ record[r].version > 0
        /\ history[record[r].bench][record[r].version].res = r
    BY DEF Inv, RecordInv
  <2>2. /\ record[q].version = Len(history[record[q].bench]) /\ record[q].version > 0
        /\ history[record[q].bench][record[q].version].res = q
    BY DEF Inv, RecordInv
  <2> QED
    BY <2>1, <2>2
<1> QED
  BY <1>1, InvariantHolds, PTL

\* The compare-and-set on the revision, the receipt's key and the Agent's versioned
\* store together fence: an ACTIVE record's version is the one the Agent holds.
THEOREM FencedHolds == Spec => []Fenced
<1>1. Inv => Fenced
  <2> SUFFICES ASSUME Inv, NEW r \in Reservation, record[r].state = "ACTIVE"
               PROVE  /\ store[record[r].bench].version = record[r].version
                      /\ store[record[r].bench].res = r
    BY DEF Fenced
  <2>1. PICK b \in Bench : b = record[r].bench
    BY DEF Inv, TypeOK, Record
  <2>2. Current(r)
    BY DEF Current, CurrentStates
  <2>3. /\ record[r].version = Len(history[b]) /\ record[r].version > 0
        /\ history[b][record[r].version].res = r
        /\ record[r].version <= store[b].version
    BY <2>1, <2>2 DEF Inv, RecordInv
  <2>4. record[r].version \in Nat /\ store[b].version \in Nat /\ Len(history[b]) \in Nat
    <3>1. record[r].version \in Nat
      BY DEF Inv, TypeOK, Record
    <3>2. store[b].version \in Nat
      BY DEF Inv, TypeOK, Stored
    <3>3. Len(history[b]) \in Nat
      BY DEF Inv, TypeOK
    <3> QED
      BY <3>1, <3>2, <3>3
  <2>5. /\ store[b].version <= Len(history[b])
        /\ history[b][store[b].version].res = store[b].res
    BY <2>3, <2>4 DEF Inv, StoreInv
  <2> QED
    BY <2>1, <2>3, <2>4, <2>5
<1> QED
  BY <1>1, InvariantHolds, PTL

-----------------------------------------------------------------------------
(* What a step may never do. *)

\* The Agent's record of bench b only moves forward.
Forward(b) ==
    \/ store'[b].version > store[b].version
    \/ /\ store'[b].version = store[b].version /\ store'[b].res = store[b].res
       /\ store[b].released => store'[b].released

\* Applying or releasing a lease that resolve_lease_version() accepts.
LEMMA StoreForward ==
    ASSUME Inv, NEW l \in Lease, NEW t \in BOOLEAN,
           store' = [store EXCEPT ![l.bench] = AsStored(l, t)],
           \/ l.version > store[l.bench].version
           \/ /\ l.version = store[l.bench].version /\ l.res = store[l.bench].res
              /\ store[l.bench].released => t,
           NEW b \in Bench
    PROVE  Forward(b)
<1>1. store \in [Bench -> Stored]
  BY DEF Inv, TypeOK
<1>2. CASE b = l.bench
  BY <1>1, <1>2 DEF Forward, AsStored
<1>3. CASE b # l.bench
  BY <1>1, <1>3 DEF Forward
<1> QED
  BY <1>2, <1>3

\* Every step moves the Agent's records forward.
LEMMA NextForward == ASSUME Inv, Next, NEW b \in Bench PROVE Forward(b)
<1>1. CASE UNCHANGED store
  BY <1>1 DEF Forward
<1>2. CASE AgentApplies
  <2>1. CASE store' = store
    BY <2>1 DEF Forward
  <2>2. CASE store' # store
    <3>1. PICK l : l = Head(down).lease
      OBVIOUS
    <3>2. /\ store' = [store EXCEPT ![l.bench] = AsStored(l, FALSE)]
          /\ ApplyAllowed(store[l.bench], l)
      BY <1>2, <2>2, <3>1 DEF AgentApplies
    <3>3. l \in Lease
      BY <1>2, <3>1, DownHead DEF AgentApplies
    <3>4. FALSE \in BOOLEAN
      OBVIOUS
    <3>5. \/ l.version > store[l.bench].version
          \/ /\ l.version = store[l.bench].version /\ l.res = store[l.bench].res
             /\ store[l.bench].released => FALSE
      BY <3>2 DEF ApplyAllowed
    <3> QED
      BY <3>2, <3>3, <3>4, <3>5, StoreForward
  <2> QED
    BY <2>1, <2>2
<1>3. CASE AgentReleases
  <2>1. CASE store' = store
    BY <2>1 DEF Forward
  <2>2. CASE store' # store
    <3>1. PICK l : l = Head(down).lease
      OBVIOUS
    <3>2. /\ store' = [store EXCEPT ![l.bench] = AsStored(l, TRUE)]
          /\ ReleaseAllowed(store[l.bench], l)
      BY <1>3, <2>2, <3>1 DEF AgentReleases
    <3>3. l \in Lease
      BY <1>3, <3>1, DownHead DEF AgentReleases
    <3>4. TRUE \in BOOLEAN
      OBVIOUS
    <3>5. \/ l.version > store[l.bench].version
          \/ /\ l.version = store[l.bench].version /\ l.res = store[l.bench].res
             /\ store[l.bench].released => TRUE
      BY <3>2 DEF ReleaseAllowed
    <3> QED
      BY <3>2, <3>3, <3>4, <3>5, StoreForward
  <2> QED
    BY <2>1, <2>2
<1>4. UNCHANGED store \/ AgentApplies \/ AgentReleases
  <2>1. CASE Api
    BY <2>1 DEF Api, Grant, Schedule, Retry, CancelScheduled, Renew, Release
  <2>2. CASE Resume
    BY <2>2 DEF Resume, Conclude, TimeOut
  <2>3. CASE Monitor
    BY <2>3 DEF Monitor, MonitorExpire, MonitorFinish, MonitorOffline, MonitorActivate
  <2>4. CASE Network
    BY <2>4 DEF Network, Connect, LinkLoss, SessionEnds, ControlPlaneRestart, AgentRestart,
                HealthChange
  <2>5. CASE Deliver
    BY <2>5 DEF Deliver, AgentReports, Confirm, Reconcile
  <2>6. CASE Tick
    BY <2>6 DEF Tick
  <2> QED
    BY <2>1, <2>2, <2>3, <2>4, <2>5, <2>6 DEF Next
<1> QED
  BY <1>1, <1>2, <1>3, <1>4

\* resolve_lease_version() is enough at the Agent: whatever is replayed, delayed or
\* reordered, a bench's stored version is never lowered, rebound or revived.
THEOREM AgentNeverRegressesHolds == Spec => AgentNeverRegresses
<1> DEFINE Kept == \A b \in Bench :
                     LET old == store[b]
                         new == store'[b]
                     IN \/ new.version > old.version
                        \/ new.version = old.version /\ new.res = old.res
                           /\ (old.released => new.released)
<1>1. Inv /\ Next => Kept
  BY NextForward DEF Forward
<1>2. Inv /\ [Next]_vars => [Kept]_vars
  BY <1>1
<1> HIDE DEF Kept
<1>3. Spec => [][Kept]_vars
  BY <1>2, InvariantHolds, PTL DEF Spec
<1> QED
  BY <1>3 DEF Kept, AgentNeverRegresses

-----------------------------------------------------------------------------
(* The calendar, and the end of a reservation. *)

BookedStates == CurrentStates \cup {"SCHEDULED"}

\* Reservation r is untouched, or is booked and keeps its bench and its interval.
KeepsBooking(r) ==
    \/ record'[r] = record[r]
    \/ /\ record[r].state \in BookedStates
       /\ record'[r].bench = record[r].bench
       /\ record'[r].starts = record[r].starts
       /\ record'[r].ends = record[r].ends

Orderly == \A r \in Reservation : KeepsBooking(r)

\* Advancing and interrupting a record change neither its bench nor its interval.
LEMMA SameInterval ==
    ASSUME NEW rec \in Record, NEW s \in RecordStates, NEW a \in {Advance(rec, s), Interrupted(rec)}
    PROVE  a.bench = rec.bench /\ a.starts = rec.starts /\ a.ends = rec.ends
  BY DEF Advance, Interrupted, Record

\* Writing one booked record back with its bench and interval is orderly.
LEMMA PutOrderly ==
    ASSUME Inv, NEW r \in Reservation, NEW rec, record' = [record EXCEPT ![r] = rec],
           record[r].state \in BookedStates,
           rec.bench = record[r].bench, rec.starts = record[r].starts, rec.ends = record[r].ends
    PROVE  Orderly
<1>1. record \in [Reservation -> Record]
  BY DEF Inv, TypeOK
<1> SUFFICES ASSUME NEW q \in Reservation PROVE KeepsBooking(q)
  BY DEF Orderly
<1>2. CASE q = r
  BY <1>1, <1>2 DEF KeepsBooking
<1>3. CASE q # r
  BY <1>1, <1>3 DEF KeepsBooking
<1> QED
  BY <1>2, <1>3

\* Offering a booked record (or a later version of it) is orderly.
LEMMA OfferOrderly ==
    ASSUME Inv, NEW r \in Reservation, NEW rec \in Record, NEW lease, NEW sound, NEW who,
           Synchronize(r, rec, lease, sound, who), record[r].state \in BookedStates,
           rec.bench = record[r].bench, rec.starts = record[r].starts, rec.ends = record[r].ends
    PROVE  Orderly
<1>1. CASE record' = [record EXCEPT ![r] = rec]
  BY <1>1, PutOrderly
<1>2. CASE record' = [record EXCEPT ![r] = Interrupted(rec)]
  <2>1. PICK new : new = Interrupted(rec)
    OBVIOUS
  <2>2. new.bench = rec.bench /\ new.starts = rec.starts /\ new.ends = rec.ends
    BY <2>1 DEF Interrupted, Record
  <2>3. record' = [record EXCEPT ![r] = new]
    BY <1>2, <2>1
  <2> QED
    BY <2>2, <2>3, PutOrderly
<1> QED
  BY <1>1, <1>2 DEF Synchronize, Put

\* A resumed handler that may replace its record finds it pending, so booked.
LEMMA ReplaceableBooked ==
    ASSUME Inv, NEW w \in waits, Replaceable(w)
    PROVE  w.res \in Reservation /\ record[w.res].state \in BookedStates
<1>1. w.res \in Reservation
  BY DEF Inv, TypeOK, Wait
<1>2. record[w.res].state \in {"ACTIVATING", "RENEWING"}
  BY DEF Inv, WaitInv, WaitOK, Replaceable, Unchanged
<1> QED
  BY <1>1, <1>2 DEF BookedStates, CurrentStates

\* Resumed handlers are orderly.
LEMMA ResumeOrderly == ASSUME Inv, NEW w \in waits, Conclude(w) \/ TimeOut(w) PROVE Orderly
<1>1. CASE ~Replaceable(w)
  BY <1>1 DEF Conclude, TimeOut, Orderly, KeepsBooking
<1>2. CASE Replaceable(w)
  <2>1. PICK r \in Reservation : r = w.res /\ record[r].state \in BookedStates
    BY <1>2, ReplaceableBooked
  <2>2. record[r] \in Record /\ "ACTIVE" \in RecordStates
    BY DEF Inv, TypeOK, RecordStates, CurrentStates
  <2>3. PICK rec \in {Advance(record[r], "ACTIVE"), Interrupted(record[r])} :
          record' = [record EXCEPT ![r] = rec]
    BY <1>2, <2>1 DEF Conclude, TimeOut
  <2> QED
    BY <2>1, <2>2, <2>3, SameInterval, PutOrderly
<1> QED
  BY <1>1, <1>2

\* A handler that advances or interrupts some booked records is orderly.
LEMMA SomeOrderly ==
    ASSUME Inv, NEW done \in SUBSET Reservation, NEW s \in RecordStates,
           \A r \in done : record[r].state \in BookedStates,
           \A r \in Reservation :
              record'[r] \in {record[r]} \cup
                 (IF r \in done THEN {Advance(record[r], s), Interrupted(record[r])} ELSE {})
    PROVE  Orderly
<1> SUFFICES ASSUME NEW r \in Reservation, record'[r] # record[r] PROVE KeepsBooking(r)
  BY DEF Orderly, KeepsBooking
<1>1. record[r] \in Record
  BY DEF Inv, TypeOK
<1>2. r \in done /\ record'[r] \in {Advance(record[r], s), Interrupted(record[r])}
  OBVIOUS
<1>3. /\ record'[r].bench = record[r].bench /\ record'[r].starts = record[r].starts
      /\ record'[r].ends = record[r].ends
  BY <1>1, <1>2, SameInterval
<1> QED
  BY <1>2, <1>3 DEF KeepsBooking

\* mark_agent_disconnected() is orderly.
LEMMA MarkOrderly == ASSUME Inv, MarkDisconnected PROVE Orderly
<1>1. PICK done \in SUBSET {r \in Reservation : record[r].state \in {"ACTIVATING", "ACTIVE", "RENEWING"}} :
        record' = [r \in Reservation |->
                     IF r \in done THEN Interrupted(record[r]) ELSE record[r]]
  BY DEF MarkDisconnected
<1>2. \A r \in done : record[r].state \in BookedStates
  BY <1>1 DEF BookedStates, CurrentStates
<1>3. done \in SUBSET Reservation /\ "UNKNOWN" \in RecordStates
  BY <1>1 DEF RecordStates, CurrentStates
<1>4. \A r \in Reservation :
         record'[r] \in {record[r]} \cup
            (IF r \in done THEN {Advance(record[r], "UNKNOWN"), Interrupted(record[r])} ELSE {})
  BY <1>1
<1> QED
  BY <1>2, <1>3, <1>4, SomeOrderly

\* expire_due() is orderly.
LEMMA ExpireOrderly == ASSUME Inv, MonitorExpire PROVE Orderly
<1>1. PICK done \in SUBSET {r \in Reservation : DueToExpire(r)} :
        record' = [r \in Reservation |->
                     IF r \in done THEN Advance(record[r], "EXPIRED") ELSE record[r]]
  BY DEF MonitorExpire
<1>2. \A r \in done : record[r].state \in BookedStates
  BY <1>1 DEF BookedStates, DueToExpire, Current
<1>3. done \in SUBSET Reservation /\ "EXPIRED" \in RecordStates
  BY <1>1 DEF RecordStates, TerminalStates
<1>4. \A r \in Reservation :
         record'[r] \in {record[r]} \cup
            (IF r \in done THEN {Advance(record[r], "EXPIRED"), Interrupted(record[r])} ELSE {})
  BY <1>1
<1> QED
  BY <1>2, <1>3, <1>4, SomeOrderly

\* Reconciliation is orderly: it restores only interrupted records.
LEMMA ReconcileOrderly == ASSUME Inv, Reconcile PROVE Orderly
<1>1. CASE UNCHANGED record
  BY <1>1 DEF Orderly, KeepsBooking
<1>2. CASE ~UNCHANGED record
  <2>1. PICK lost \in SUBSET {l \in Head(up).leases : Restorable(l)} :
          record' = [r \in Reservation |->
                       IF \E l \in lost : l.res = r
                         THEN Advance(record[r], "ACTIVE") ELSE record[r]]
    BY <1>2 DEF Reconcile
  <2>2. PICK done : done = {r \in Reservation : \E l \in lost : l.res = r}
    OBVIOUS
  <2>3. \A r \in done : record[r].state \in BookedStates
    BY <2>1, <2>2 DEF Restorable, BookedStates, CurrentStates
  <2>4. done \in SUBSET Reservation /\ "ACTIVE" \in RecordStates
    BY <2>2 DEF RecordStates, CurrentStates
  <2>5. \A r \in Reservation :
           record'[r] \in {record[r]} \cup
              (IF r \in done THEN {Advance(record[r], "ACTIVE"), Interrupted(record[r])} ELSE {})
    BY <2>1, <2>2
  <2> QED
    BY <2>3, <2>4, <2>5, SomeOrderly
<1> QED
  BY <1>1, <1>2

\* A pending record offered again is orderly.
LEMMA ReofferOrderly ==
    ASSUME Inv, NEW r \in Reservation, NEW who, record[r].state \in {"ACTIVATING", "RENEWING"},
           Synchronize(r, record[r], LeaseOf(r), HistoryMatches(r), who)
    PROVE  Orderly
<1>1. PICK rec : rec = record[r]
  OBVIOUS
<1>2. rec \in Record /\ record[r].state \in BookedStates
  BY <1>1 DEF Inv, TypeOK, BookedStates, CurrentStates
<1>3. PICK lease, sound : lease = LeaseOf(r) /\ sound = HistoryMatches(r)
  OBVIOUS
<1>4. Synchronize(r, rec, lease, sound, who)
  BY <1>1, <1>3
<1> QED
  BY <1>1, <1>2, <1>4, OfferOrderly

\* renew() is orderly.
LEMMA RenewOrderly == ASSUME Inv, NEW r \in Reservation, Renew(r) PROVE Orderly
<1>1. record[r] \in Record /\ record[r].state \in BookedStates /\ "RENEWING" \in RecordStates
  BY DEF Inv, TypeOK, Renew, BookedStates, CurrentStates, RecordStates
<1>2. PICK adv : adv = Advance(record[r], "RENEWING")
  OBVIOUS
<1>3. /\ adv \in Record /\ adv.bench = record[r].bench
      /\ adv.starts = record[r].starts /\ adv.ends = record[r].ends
  BY <1>1, <1>2, AdvanceType, SameInterval
<1>4. PICK rec : rec = [adv EXCEPT !.version = record[r].version + 1]
  OBVIOUS
<1>5. record[r].version + 1 \in Nat
  BY <1>1 DEF Record
<1>6. /\ rec \in Record /\ rec.bench = record[r].bench
      /\ rec.starts = record[r].starts /\ rec.ends = record[r].ends
  BY <1>3, <1>4, <1>5 DEF Record
<1>7. PICK lease : Synchronize(r, rec, lease, TRUE, "api")
  BY <1>2, <1>4 DEF Renew
<1> QED
  BY <1>1, <1>6, <1>7, OfferOrderly

\* release(), revoke() and cancellation are orderly.
LEMMA EndOrderly ==
    ASSUME Inv, NEW r \in Reservation,
           CancelScheduled(r) \/ \E s \in Endings : Release(r, s)
    PROVE  Orderly
<1>1. record[r] \in Record
  BY DEF Inv, TypeOK
<1>2. CASE CancelScheduled(r)
  <2>1. PICK rec : rec = [record[r] EXCEPT !.state = "CANCELLED"]
    OBVIOUS
  <2>2. /\ rec.bench = record[r].bench /\ rec.starts = record[r].starts
        /\ rec.ends = record[r].ends
    BY <1>1, <2>1 DEF Record
  <2>3. record' = [record EXCEPT ![r] = rec] /\ record[r].state \in BookedStates
    BY <1>2, <2>1 DEF CancelScheduled, Put, BookedStates
  <2> QED
    BY <2>2, <2>3, PutOrderly
<1>3. CASE \E s \in Endings : Release(r, s)
  <2>1. PICK s \in RecordStates : Release(r, s)
    BY <1>3, EndingsAssumption DEF RecordStates, TerminalStates
  <2>2. PICK rec : rec = Advance(record[r], s)
    OBVIOUS
  <2>3. /\ rec.bench = record[r].bench /\ rec.starts = record[r].starts
        /\ rec.ends = record[r].ends
    BY <1>1, <2>2, SameInterval
  <2>4. record' = [record EXCEPT ![r] = rec] /\ record[r].state \in BookedStates
    BY <2>1, <2>2 DEF Release, Put, Current, BookedStates
  <2> QED
    BY <2>3, <2>4, PutOrderly
<1> QED
  BY <1>2, <1>3

\* process_due_scheduled() is orderly.
LEMMA MonitorActivateOrderly ==
    ASSUME Inv, NEW r \in Reservation, MonitorActivate(r)
    PROVE  Orderly
<1>1. record[r] \in Record
  BY DEF Inv, TypeOK
<1>2. CASE /\ record[r].state = "ACTIVATING"
           /\ Synchronize(r, record[r], LeaseOf(r), HistoryMatches(r), "monitor")
  BY <1>2, ReofferOrderly
<1>3. CASE Lapsed(r) /\ Put(r, [record[r] EXCEPT !.state = "EXPIRED"])
  <2>1. PICK rec : rec = [record[r] EXCEPT !.state = "EXPIRED"]
    OBVIOUS
  <2>2. /\ rec.bench = record[r].bench /\ rec.starts = record[r].starts
        /\ rec.ends = record[r].ends
    BY <1>1, <2>1 DEF Record
  <2>3. record' = [record EXCEPT ![r] = rec] /\ record[r].state \in BookedStates
    BY <1>3, <2>1 DEF Lapsed, Put, BookedStates
  <2> QED
    BY <2>2, <2>3, PutOrderly
<1>4. CASE /\ record[r].state = "SCHEDULED"
           /\ Activate(r, [record[r] EXCEPT !.state = "ACTIVATING", !.revision = 1],
                       Smaller(record[r].ends, now + LeaseTTL), "monitor")
  <2>1. PICK rec : rec = [record[r] EXCEPT !.state = "ACTIVATING", !.revision = 1]
    OBVIOUS
  <2>2. /\ rec \in Record /\ rec.bench = record[r].bench /\ rec.starts = record[r].starts
        /\ rec.ends = record[r].ends
    BY <1>1, <2>1 DEF Record, RecordStates, CurrentStates
  <2>3. PICK v, lease : /\ v = Len(history[rec.bench]) + 1
                        /\ Synchronize(r, [rec EXCEPT !.version = v], lease, TRUE, "monitor")
    BY <1>4, <2>1 DEF Activate
  <2>4. v \in Nat
    <3>1. rec.bench \in Bench
      BY <2>2 DEF Record
    <3> QED
      BY <2>3, <3>1 DEF Inv, TypeOK
  <2>5. PICK new : new = [rec EXCEPT !.version = v]
    OBVIOUS
  <2>6. /\ new \in Record /\ new.bench = record[r].bench /\ new.starts = record[r].starts
        /\ new.ends = record[r].ends
    BY <2>2, <2>4, <2>5 DEF Record
  <2>7. Synchronize(r, new, lease, TRUE, "monitor") /\ record[r].state \in BookedStates
    BY <1>4, <2>3, <2>5 DEF BookedStates
  <2> QED
    BY <2>6, <2>7, OfferOrderly
<1> QED
  BY <1>2, <1>3, <1>4 DEF MonitorActivate

\* Only grant() and schedule() book a new interval.
LEMMA NextOrderly ==
    ASSUME Inv, Next
    PROVE  \/ Orderly
           \/ \E r \in Reservation, b \in Bench, d \in Durations :
                \/ Grant(r, b, d)
                \/ \E starts \in 1..MaxTime : Schedule(r, b, starts, d)
<1>1. CASE \E r \in Reservation :
             \/ Retry(r) \/ CancelScheduled(r) \/ Renew(r)
             \/ \E s \in Endings : Release(r, s)
  <2>1. PICK r \in Reservation :
          \/ Retry(r) \/ CancelScheduled(r) \/ Renew(r)
          \/ \E s \in Endings : Release(r, s)
    BY <1>1
  <2>2. CASE Retry(r)
    BY <2>2, ReofferOrderly DEF Retry
  <2> QED
    BY <2>1, <2>2, EndOrderly, RenewOrderly
<1>2. CASE Resume
  BY <1>2, ResumeOrderly DEF Resume
<1>3. CASE UNCHANGED record
  BY <1>3 DEF Orderly, KeepsBooking
<1>4. CASE Monitor
  BY <1>3, <1>4, ExpireOrderly, MarkOrderly, MonitorActivateOrderly
     DEF Monitor, MonitorFinish, MonitorOffline
<1>5. CASE Network
  BY <1>3, <1>5, MarkOrderly
     DEF Network, Connect, LinkLoss, SessionEnds, ControlPlaneRestart, AgentRestart, HealthChange
<1>6. CASE Deliver
  BY <1>3, <1>6, ReconcileOrderly DEF Deliver, AgentApplies, AgentReleases, AgentReports, Confirm
<1>7. CASE Tick
  BY <1>3, <1>7 DEF Tick
<1> QED
  BY <1>1, <1>2, <1>4, <1>5, <1>6, <1>7 DEF Next, Api

\* The step writes rec for reservation r, on bench b, beside every other booking of b.
Books(rec, r, b) ==
    /\ record' = [record EXCEPT ![r] = rec]
    /\ rec.bench = b
    /\ \A q \in Reservation :
         record[q].state \in BookedStates /\ record[q].bench = b
           => record[q].ends <= rec.starts \/ rec.ends <= record[q].starts

\* A new booking is written for a reservation that had no row.
LEMMA NewBooking ==
    ASSUME Inv, NEW r \in Reservation, NEW b \in Bench, NEW d \in Durations,
           Grant(r, b, d) \/ \E starts \in 1..MaxTime : Schedule(r, b, starts, d)
    PROVE  record[r].state = "NONE" /\ \E rec : Books(rec, r, b)
<1>1. /\ now \in Nat /\ d \in Nat /\ Protect \in Nat /\ MaxTime \in Nat
      /\ history[b] \in Seq(HistoryRow)
  BY DurationsAssumption, ClockAssumption DEF Inv, TypeOK
<1>2. \A q \in Reservation : record[q].starts \in Nat /\ record[q].ends \in Nat
  BY DEF Inv, TypeOK, Record
<1>3. CASE Grant(r, b, d)
  <2>1. PICK first : first = [state |-> "ACTIVATING", granted |-> TRUE, bench |-> b,
                              version |-> 0, starts |-> now, ends |-> now + d,
                              deadline |-> 0, revision |-> 1]
    OBVIOUS
  <2>2. first \in Record /\ first.bench = b /\ first.starts = now /\ first.ends = now + d
    BY <1>1, <2>1 DEF Record, RecordStates, CurrentStates
  <2>3. PICK rec, lease : /\ rec = [first EXCEPT !.version = Len(history[b]) + 1]
                          /\ Synchronize(r, rec, lease, TRUE, "api")
    <3>1. PICK until : Activate(r, first, until, "api")
      BY <1>3, <2>1 DEF Grant
    <3> QED
      BY <2>2, <3>1 DEF Activate
  <2>4. rec \in Record /\ rec.bench = b /\ rec.starts = now /\ rec.ends = now + d
    <3>1. Len(history[b]) + 1 \in Nat
      BY <1>1
    <3> QED
      BY <2>2, <2>3, <3>1 DEF Record
  <2>5. PICK new \in {rec, Interrupted(rec)} : record' = [record EXCEPT ![r] = new]
    BY <2>3 DEF Synchronize, Put
  <2>6. new.bench = b /\ new.starts = now /\ new.ends = now + d
    <3>1. CASE new = rec
      BY <2>4, <3>1
    <3>2. CASE new = Interrupted(rec)
      BY <2>4, <3>2 DEF Interrupted, Record
    <3> QED
      BY <3>1, <3>2
  <2>7. ASSUME NEW q \in Reservation, record[q].state \in BookedStates, record[q].bench = b
        PROVE  record[q].ends <= new.starts \/ new.ends <= record[q].starts
    <3>1. record[q].state = "SCHEDULED"
      BY <1>3, <2>7 DEF Grant, FreeBench, Current, BookedStates
    <3>2. ~(record[q].starts < now + d + Protect /\ record[q].ends > now)
      BY <1>3, <2>7, <3>1 DEF Grant, Overlaps
    <3> QED
      BY <1>1, <1>2, <2>6, <3>2
  <2>8. Books(new, r, b)
    BY <2>5, <2>6, <2>7 DEF Books
  <2>9. record[r].state = "NONE"
    BY <1>3 DEF Grant
  <2> QED
    BY <2>8, <2>9
<1>4. CASE \E starts \in 1..MaxTime : Schedule(r, b, starts, d)
  <2>1. PICK starts \in 1..MaxTime : Schedule(r, b, starts, d)
    BY <1>4
  <2>2. PICK rec : rec = [state |-> "SCHEDULED", granted |-> FALSE, bench |-> b, version |-> 0,
                          starts |-> starts, ends |-> starts + d, deadline |-> 0, revision |-> 0]
    OBVIOUS
  <2>3. /\ rec.bench = b /\ rec.starts = starts /\ rec.ends = starts + d
        /\ starts \in Nat /\ starts + d \in Nat
    BY <1>1, <2>2
  <2>4. record' = [record EXCEPT ![r] = rec]
    BY <2>1, <2>2 DEF Schedule, Put
  <2>5. ASSUME NEW q \in Reservation, record[q].state \in BookedStates, record[q].bench = b
        PROVE  record[q].ends <= starts \/ starts + d <= record[q].starts
    <3>1. ~(record[q].starts < starts + d /\ record[q].ends > starts)
      BY <2>1, <2>5 DEF Schedule, Overlaps, BookedStates
    <3> QED
      BY <1>2, <2>3, <3>1
  <2>6. Books(rec, r, b)
    BY <2>3, <2>4, <2>5 DEF Books
  <2>7. record[r].state = "NONE"
    BY <2>1 DEF Schedule
  <2> QED
    BY <2>6, <2>7
<1> QED
  BY <1>3, <1>4

\* Bookings a and c of one bench do not overlap.
Apart(a, c) == a.bench = c.bench => a.ends <= c.starts \/ c.ends <= a.starts

\* CalendarDisjoint over records in a booked state.
Calendar ==
    \A r, q \in Reservation :
        /\ r # q
        /\ record[r].state \in BookedStates
        /\ record[q].state \in BookedStates
        => Apart(record[r], record[q])

\* The calendar stays disjoint in every step.
LEMMA NextCalendar == ASSUME Inv, Calendar, Next PROVE Calendar'
<1>1. record \in [Reservation -> Record]
  BY DEF Inv, TypeOK
<1>2. CASE Orderly
  <2> SUFFICES ASSUME NEW r \in Reservation, NEW q \in Reservation, r # q,
                      record'[r].state \in BookedStates, record'[q].state \in BookedStates
               PROVE  Apart(record'[r], record'[q])
    BY DEF Calendar
  <2>1. ASSUME NEW p \in {r, q}
        PROVE  /\ record[p].state \in BookedStates
               /\ record'[p].bench = record[p].bench
               /\ record'[p].starts = record[p].starts /\ record'[p].ends = record[p].ends
    BY <1>2 DEF Orderly, KeepsBooking
  <2>2. Apart(record[r], record[q])
    BY <2>1 DEF Calendar
  <2> QED
    BY <2>1, <2>2 DEF Apart
<1>3. CASE \E r \in Reservation, b \in Bench, d \in Durations :
             \/ Grant(r, b, d)
             \/ \E starts \in 1..MaxTime : Schedule(r, b, starts, d)
  <2>1. PICK n \in Reservation, b \in Bench, d \in Durations :
             \/ Grant(n, b, d)
             \/ \E starts \in 1..MaxTime : Schedule(n, b, starts, d)
    BY <1>3
  <2>2. PICK rec : Books(rec, n, b)
    BY <2>1, NewBooking
  <2>3. record'[n] = rec /\ \A q \in Reservation : q # n => record'[q] = record[q]
    BY <1>1, <2>2 DEF Books
  <2>4. \A q \in Reservation : record[q].state \in BookedStates
                                 => Apart(rec, record[q]) /\ Apart(record[q], rec)
    BY <2>2 DEF Books, Apart
  <2> SUFFICES ASSUME NEW r \in Reservation, NEW q \in Reservation, r # q,
                      record'[r].state \in BookedStates, record'[q].state \in BookedStates
               PROVE  Apart(record'[r], record'[q])
    BY DEF Calendar
  <2>5. CASE r = n
    BY <2>3, <2>4, <2>5
  <2>6. CASE q = n
    BY <2>3, <2>4, <2>6
  <2>7. CASE r # n /\ q # n
    BY <2>3, <2>7 DEF Calendar
  <2> QED
    BY <2>5, <2>6, <2>7
<1> QED
  BY <1>2, <1>3, NextOrderly

\* grant(), schedule() and the monitor keep the calendar of a bench free of overlaps,
\* whichever came first and however long an activation or an interruption lasts.
THEOREM CalendarDisjointHolds == Spec => []CalendarDisjoint
<1>1. Init => Calendar
  BY DEF Init, Calendar, BookedStates, CurrentStates
<1>2. Inv /\ Calendar /\ [Next]_vars => Calendar'
  BY NextCalendar DEF vars, Calendar
<1>3. Calendar => CalendarDisjoint
  BY DEF Calendar, CalendarDisjoint, Apart, BookedStates, Current
<1> QED
  BY <1>1, <1>2, <1>3, InvariantHolds, PTL DEF Spec

\* replace_if_current()'s comparison of the revision is enough: no handler resumed
\* after its reservation ended, no report and no monitor pass revives it.
THEOREM NoResurrectionHolds == Spec => NoResurrection
<1> DEFINE Ended == \A r \in Reservation :
                       record[r].state \in TerminalStates \cup {"CANCELLED"}
                         => record'[r] = record[r]
<1>1. ASSUME Inv, Next PROVE Ended
  <2> SUFFICES ASSUME NEW r \in Reservation,
                      record[r].state \in TerminalStates \cup {"CANCELLED"}
               PROVE  record'[r] = record[r]
    OBVIOUS
  <2>1. record[r].state \notin BookedStates /\ record[r].state # "NONE"
    BY DEF TerminalStates, BookedStates, CurrentStates
  <2>2. CASE Orderly
    BY <2>1, <2>2 DEF Orderly, KeepsBooking
  <2>3. CASE \E q \in Reservation, b \in Bench, d \in Durations :
               \/ Grant(q, b, d)
               \/ \E starts \in 1..MaxTime : Schedule(q, b, starts, d)
    <3>1. PICK q \in Reservation, b \in Bench, d \in Durations :
               \/ Grant(q, b, d)
               \/ \E starts \in 1..MaxTime : Schedule(q, b, starts, d)
      BY <2>3
    <3>2. record[q].state = "NONE" /\ \E rec : Books(rec, q, b)
      BY <1>1, <3>1, NewBooking
    <3>3. record \in [Reservation -> Record] /\ q # r
      BY <1>1, <2>1, <3>2 DEF Inv, TypeOK
    <3> QED
      BY <3>2, <3>3 DEF Books
  <2> QED
    BY <1>1, <2>2, <2>3, NextOrderly
<1>2. Inv /\ [Next]_vars => [Ended]_vars
  BY <1>1
<1> HIDE DEF Ended
<1>3. Spec => [][Ended]_vars
  BY <1>2, InvariantHolds, PTL DEF Spec
<1> QED
  BY <1>3 DEF Ended, NoResurrection
==========================================================================

------------------------ MODULE RemoteCommandsProofs ------------------------
(***************************************************************************)
(* Proofs about RemoteCommands, for every value of its constants.  The     *)
(* inductive invariant follows a command through the two tables, the       *)
(* messages in both directions and the Agent's journal, buffer and tasks:  *)
(* what the Agent has announced or reported is what its journal still      *)
(* says, and an acknowledgement under way covers exactly the batch in      *)
(* flight.                                                                 *)
(***************************************************************************)
EXTENDS RemoteCommands, SequenceTheorems, TLAPS

\* The Agent: a task follows the journal, and a command the journal does not know
\* has not run.
AgentInv ==
    \A c \in Command :
        /\ runs[c] <= 1
        /\ journal[c] \in {"NONE", "ACCEPTED"} => runs[c] = 0
        /\ task[c] = "ready" <=> journal[c] = "ACCEPTED"
        /\ task[c] = "running" <=> journal[c] = "RUNNING"
        /\ task[c] = "closing" => journal[c] \in Outcomes

\* A command that was never dispatched is unknown to the Agent and to the network,
\* and its operation is as create() left it.
UnsentInv ==
    \A c \in Command : status[c] \in Unsent \cup {"NONE"} =>
        /\ journal[c] = "NONE"
        /\ op[c].status = IF status[c] = "NONE" THEN "NONE" ELSE "CREATED"
        /\ \A i \in 1..Len(down) : down[i].type = "command" => down[i].cmd # c

\* A cancelled command was cancelled on the Agent, or will never get there.
CancelInv ==
    \A c \in Command : status[c] = "CANCELLED" =>
        \/ journal[c] = "CANCELLED"
        \/ /\ journal[c] = "NONE"
           /\ \A i \in 1..Len(down) : down[i].type = "command" => down[i].cmd # c

\* What the Agent has announced ...
EventOK(e, jl) == e.type \in {"SUCCEEDED", "CANCELLED"} => jl[e.cmd] = e.type
EventInv == \A i \in 1..Len(buffer) : EventOK(buffer[i], journal)

\* ... and what it has reported is still in its journal.
ReportOK(m, jl) ==
    m.type = "report" =>
        \A c \in Command : m.states[c] \in {"SUCCEEDED", "CANCELLED"} => jl[c] = m.states[c]
OutboxInv == \A i \in 1..Len(outbox) : ReportOK(outbox[i], journal)
WireInv == \A i \in 1..Len(wire) : ReportOK(wire[i], journal)

\* The batch on the wire is what remains of the batch in flight; the rest was routed.
BatchOK(m, buf, size, done) ==
    m.type = "batch" =>
        LET n == size - Len(m.events)
        IN /\ Len(m.events) \in 1..size
           /\ \A k \in 1..Len(m.events) : m.events[k] = buf[n + k]
           /\ \A k \in 1..n : buf[k] \in done
BatchInv ==
    /\ \A i \in 1..Len(wire) : BatchOK(wire[i], buffer, batch, routed)
    /\ \A i, j \in 1..Len(wire) : wire[i].type = "batch" /\ wire[j].type = "batch" => i = j

\* An acknowledgement under way is the only one, and all of the batch was routed.
AckInv ==
    /\ \A i \in 1..Len(down) : down[i].type = "ack" =>
         /\ batch > 0
         /\ \A k \in 1..batch : buffer[k] \in routed
         /\ \A j \in 1..Len(wire) : wire[j].type # "batch"
    /\ \A i, j \in 1..Len(down) : down[i].type = "ack" /\ down[j].type = "ack" => i = j

Inv == TypeOK /\ AgentInv /\ UnsentInv /\ CancelInv /\ HonestSuccess /\ EventInv
         /\ OutboxInv /\ WireInv /\ BatchInv /\ AckInv

-----------------------------------------------------------------------------
(* What a step may do to one command. *)

\* The rows of a command move: final states stay, success and cancellation come from
\* the journal (cancellation also from a command never sent), and nothing returns to
\* the unsent states but a command just created.
RowStep(s, o, t, p, j) ==
    /\ s \in Terminal => t = s
    /\ o \in Outcomes => p = o
    /\ t = "SUCCEEDED" => s = "SUCCEEDED" \/ j = "SUCCEEDED"
    /\ p = "SUCCEEDED" => o = "SUCCEEDED" \/ j = "SUCCEEDED"
    /\ t = "CANCELLED" => s \in {"CANCELLED"} \cup Unsent \/ j = "CANCELLED"
    /\ t \in Unsent \cup {"NONE"} =>
         \/ t = s /\ p = o
         \/ s = "NONE" /\ t # "NONE" /\ p = "CREATED"

RowsMove ==
    \A c \in Command : RowStep(status[c], op[c].status, status'[c], op'[c].status, journal[c])

\* The Agent learns of a command from a message, and never leaves an outcome.
JournalMoves ==
    \A c \in Command :
        \/ journal'[c] = journal[c]
        \/ /\ journal[c] \notin Outcomes
           /\ journal[c] = "NONE" =>
                \E i \in 1..Len(down) : down[i].type = "command" /\ down[i].cmd = c

\* A command that is neither unsent nor cancelled may be on its way.
CommandsSent ==
    \A i \in 1..Len(down') : down'[i].type = "command" =>
        \/ \E j \in 1..Len(down) : down[j] = down'[i]
        \/ status'[down'[i].cmd] \notin Unsent \cup {"NONE", "CANCELLED"}

Moves == RowsMove /\ JournalMoves /\ CommandsSent

\* A row that is not written makes no move.
LEMMA RowsStay == \A s, o, j : RowStep(s, o, s, o, j)
  BY DEF RowStep

\* Sequences: what Append and Tail leave at each place.
LEMMA AppendPlaces ==
    ASSUME NEW S, NEW s \in Seq(S), NEW e \in S
    PROVE  /\ Append(s, e) \in Seq(S)
           /\ Len(Append(s, e)) = Len(s) + 1
           /\ \A i \in 1..Len(s) : Append(s, e)[i] = s[i]
           /\ Append(s, e)[Len(s) + 1] = e
           /\ \A i \in 1..Len(Append(s, e)) : i \in 1..Len(s) \/ Append(s, e)[i] = e
  BY AppendProperties

\* What Tail leaves at each place, and what Head takes.
LEMMA TailPlaces ==
    ASSUME NEW S, NEW s \in Seq(S), s # <<>>
    PROVE  /\ Tail(s) \in Seq(S) /\ Len(s) \in Nat \ {0}
           /\ Len(Tail(s)) = Len(s) - 1
           /\ \A i \in 1..Len(Tail(s)) : Tail(s)[i] = s[i + 1] /\ i + 1 \in 1..Len(s)
           /\ Head(s) = s[1] /\ Head(s) \in S /\ 1 \in 1..Len(s)
  BY HeadTailProperties, EmptySeq

\* A prefix keeps its places.
LEMMA PrefixPlaces ==
    ASSUME NEW S, NEW s \in Seq(S), NEW n \in 0..Len(s)
    PROVE  /\ SubSeq(s, 1, n) \in Seq(S)
           /\ Len(SubSeq(s, 1, n)) = n
           /\ \A i \in 1..n : SubSeq(s, 1, n)[i] = s[i]
<1>1. Len(s) \in Nat /\ n \in Int /\ \A i \in 1..n : s[i] \in S
  OBVIOUS
<1>2. /\ SubSeq(s, 1, n) \in Seq(S)
      /\ Len(SubSeq(s, 1, n)) = IF 1 <= n THEN n - 1 + 1 ELSE 0
      /\ \A i \in 1..(n - 1 + 1) : SubSeq(s, 1, n)[i] = s[1 + i - 1]
  BY <1>1, SubSeqProperties
<1> QED
  BY <1>1, <1>2

\* A suffix keeps its elements, n places earlier.
LEMMA SuffixPlaces ==
    ASSUME NEW S, NEW s \in Seq(S), NEW n \in 0..Len(s)
    PROVE  /\ SubSeq(s, n + 1, Len(s)) \in Seq(S)
           /\ Len(SubSeq(s, n + 1, Len(s))) = Len(s) - n
           /\ \A i \in 1..(Len(s) - n) : SubSeq(s, n + 1, Len(s))[i] = s[n + i]
<1>1. Len(s) \in Int /\ n + 1 \in Int /\ \A i \in (n + 1)..Len(s) : s[i] \in S
  OBVIOUS
<1>2. /\ SubSeq(s, n + 1, Len(s)) \in Seq(S)
      /\ Len(SubSeq(s, n + 1, Len(s)))
           = IF n + 1 <= Len(s) THEN Len(s) - (n + 1) + 1 ELSE 0
      /\ \A i \in 1..(Len(s) - (n + 1) + 1) :
           SubSeq(s, n + 1, Len(s))[i] = s[(n + 1) + i - 1]
  BY <1>1, SubSeqProperties
<1> QED
  BY <1>1, <1>2

\* The invariant after a step, from its types, its moves, the Agent's tasks and what
\* the step leaves in the buffer, the queues and on the wire.
LEMMA Kept ==
    ASSUME Inv, TypeOK', Moves, AgentInv',
           \A i \in 1..Len(buffer') : \/ \E j \in 1..Len(buffer) : buffer'[i] = buffer[j]
                                      \/ EventOK(buffer'[i], journal'),
           \A i \in 1..Len(outbox') : \/ \E j \in 1..Len(outbox) : outbox'[i] = outbox[j]
                                      \/ ReportOK(outbox'[i], journal'),
           \A i \in 1..Len(wire') : \/ \E j \in 1..Len(wire) : wire'[i] = wire[j]
                                    \/ \E j \in 1..Len(outbox) : wire'[i] = outbox[j]
                                    \/ wire'[i].type = "batch",
           BatchInv', AckInv'
    PROVE  Inv'
<1>1. \A c \in Command : journal[c] \in Outcomes => journal'[c] = journal[c]
  BY DEF Moves, JournalMoves
<1>2. ASSUME NEW c \in Command, journal[c] = "NONE",
             \A i \in 1..Len(down) : down[i].type = "command" => down[i].cmd # c,
             status'[c] \in Unsent \cup {"NONE", "CANCELLED"}
      PROVE  /\ journal'[c] = "NONE"
             /\ \A i \in 1..Len(down') : down'[i].type = "command" => down'[i].cmd # c
  <2>1. journal'[c] = "NONE"
    BY <1>2 DEF Moves, JournalMoves
  <2>2. ASSUME NEW i \in 1..Len(down'), down'[i].type = "command", down'[i].cmd = c
        PROVE  FALSE
    BY <1>2, <2>2 DEF Moves, CommandsSent
  <2> QED
    BY <2>1, <2>2
<1>3. UnsentInv'
  <2> SUFFICES ASSUME NEW c \in Command, status'[c] \in Unsent \cup {"NONE"}
               PROVE  /\ journal'[c] = "NONE"
                      /\ op'[c].status = IF status'[c] = "NONE" THEN "NONE" ELSE "CREATED"
                      /\ \A i \in 1..Len(down') : down'[i].type = "command" => down'[i].cmd # c
    BY DEF UnsentInv
  <2>1. RowStep(status[c], op[c].status, status'[c], op'[c].status, journal[c])
    BY DEF Moves, RowsMove
  <2>2. status[c] \in Unsent \cup {"NONE"}
    BY <2>1 DEF RowStep
  <2>3. /\ journal[c] = "NONE"
        /\ op[c].status = IF status[c] = "NONE" THEN "NONE" ELSE "CREATED"
        /\ \A i \in 1..Len(down) : down[i].type = "command" => down[i].cmd # c
    BY <2>2 DEF Inv, UnsentInv
  <2>4. op'[c].status = IF status'[c] = "NONE" THEN "NONE" ELSE "CREATED"
    BY <2>1, <2>3 DEF RowStep
  <2> QED
    BY <1>2, <2>3, <2>4
<1>4. CancelInv'
  <2> SUFFICES ASSUME NEW c \in Command, status'[c] = "CANCELLED"
               PROVE  \/ journal'[c] = "CANCELLED"
                      \/ /\ journal'[c] = "NONE"
                         /\ \A i \in 1..Len(down') :
                              down'[i].type = "command" => down'[i].cmd # c
    BY DEF CancelInv
  <2>1. status[c] \in {"CANCELLED"} \cup Unsent \/ journal[c] = "CANCELLED"
    BY DEF Moves, RowsMove, RowStep
  <2>2. CASE journal[c] = "CANCELLED"
    BY <1>1, <2>2 DEF Outcomes
  <2>3. CASE journal[c] # "CANCELLED"
    <3>1. /\ journal[c] = "NONE"
          /\ \A i \in 1..Len(down) : down[i].type = "command" => down[i].cmd # c
      BY <2>1, <2>3 DEF Inv, UnsentInv, CancelInv
    <3> QED
      BY <1>2, <3>1
  <2> QED
    BY <2>2, <2>3
<1>5. HonestSuccess'
  BY <1>1 DEF Inv, HonestSuccess, Moves, RowsMove, RowStep, Outcomes
<1>6. EventInv'
  <2> SUFFICES ASSUME NEW i \in 1..Len(buffer'), NEW j \in 1..Len(buffer),
                      buffer'[i] = buffer[j]
               PROVE  EventOK(buffer'[i], journal')
    BY DEF EventInv
  <2>1. EventOK(buffer[j], journal)
    BY DEF Inv, EventInv
  <2>3. buffer \in Seq(Event)
    BY DEF Inv, TypeOK
  <2>4. buffer[j] \in Event
    BY <2>3
  <2>2. buffer[j].cmd \in Command
    BY <2>4 DEF Event
  <2> QED
    BY <1>1, <2>1, <2>2 DEF EventOK, Outcomes
<1>7. ASSUME NEW m, ReportOK(m, journal)
      PROVE  ReportOK(m, journal')
  BY <1>1, <1>7 DEF ReportOK, Outcomes
<1>8. OutboxInv'
  BY <1>7 DEF Inv, OutboxInv
<1>9. WireInv'
  <2> SUFFICES ASSUME NEW i \in 1..Len(wire')
               PROVE  ReportOK(wire'[i], journal')
    BY DEF WireInv
  <2>1. CASE wire'[i].type = "batch"
    BY <2>1 DEF ReportOK
  <2> QED
    BY <1>7, <2>1 DEF Inv, OutboxInv, WireInv
<1> QED
  BY <1>3, <1>4, <1>5, <1>6, <1>8, <1>9 DEF Inv

\* Most steps leave the batch in flight alone: they may add to the buffer, read the
\* head of a queue, add a message that is neither a batch nor an acknowledgement, or
\* break the connection.
BatchShift ==
    \E n \in 0..1 : \A i \in 1..Len(wire') : wire'[i].type = "batch" =>
        i + n \in 1..Len(wire) /\ wire[i + n] = wire'[i]

AckShift ==
    \E n \in 0..1 : \A i \in 1..Len(down') : down'[i].type = "ack" =>
        i + n \in 1..Len(down) /\ down[i + n] = down'[i]

BatchUntouched ==
    /\ batch' = batch
    /\ Len(buffer') >= Len(buffer)
    /\ \A k \in 1..Len(buffer) : buffer'[k] = buffer[k]
    /\ routed' = routed
    /\ BatchShift /\ AckShift

\* A step that leaves the batch in flight and the routed events alone keeps what is said
\* of batches and acknowledgements.
LEMMA BatchStays ==
    ASSUME Inv, TypeOK', BatchUntouched
    PROVE  BatchInv' /\ AckInv'
<1>1. batch \in Nat /\ batch <= Len(buffer) /\ Len(buffer) \in Nat /\ Len(buffer') \in Nat
  <2>1. buffer \in Seq(Event) /\ buffer' \in Seq(Event) /\ batch \in 0..Len(buffer)
    BY DEF Inv, TypeOK
  <2> QED
    BY <2>1
<1>2. PICK n \in 0..1 : \A i \in 1..Len(wire') : wire'[i].type = "batch" =>
         i + n \in 1..Len(wire) /\ wire[i + n] = wire'[i]
  BY DEF BatchUntouched, BatchShift
<1>3. PICK n2 \in 0..1 : \A i \in 1..Len(down') : down'[i].type = "ack" =>
         i + n2 \in 1..Len(down) /\ down[i + n2] = down'[i]
  BY DEF BatchUntouched, AckShift
<1>4. ASSUME NEW i \in 1..Len(wire')
      PROVE  BatchOK(wire'[i], buffer', batch', routed')
  <2> SUFFICES ASSUME wire'[i].type = "batch"
               PROVE  BatchOK(wire'[i], buffer', batch', routed')
    BY DEF BatchOK
  <2>1. wire[i + n] = wire'[i] /\ i + n \in 1..Len(wire)
    BY <1>2
  <2>2. BatchOK(wire'[i], buffer, batch, routed)
    BY <2>1 DEF Inv, BatchInv
  <2>3. wire'[i].events \in Seq(Event)
    BY DEF TypeOK, UpMsg, Report
  <2>4. Len(wire'[i].events) \in Nat
    BY <2>3
  <2>5. PICK m \in Nat : m = Len(wire'[i].events)
    BY <2>4
  <2>11. m \in 1..batch
    BY <2>2, <2>5 DEF BatchOK
  <2>12. batch - m \in Nat
    BY <1>1, <2>11
  <2>6. PICK n0 \in Nat : n0 = batch - m
    BY <2>12
  <2>7. /\ m \in 1..batch
        /\ \A k \in 1..m : wire'[i].events[k] = buffer[n0 + k]
        /\ \A k \in 1..n0 : buffer[k] \in routed
    BY <2>2, <2>5, <2>6 DEF BatchOK
  <2>8. \A k \in 1..batch : buffer'[k] = buffer[k]
    BY <1>1 DEF BatchUntouched
  <2>9. /\ \A k \in 1..m : wire'[i].events[k] = buffer'[n0 + k]
        /\ \A k \in 1..n0 : buffer'[k] \in routed
    <3>1. ASSUME NEW k \in 1..m PROVE n0 + k \in 1..batch
      BY <1>1, <2>6, <2>7
    <3>2. \A k \in 1..n0 : k \in 1..batch
      BY <1>1, <2>6, <2>7
    <3> QED
      BY <2>7, <2>8, <3>1, <3>2
  <2>10. batch' = batch /\ routed' = routed
    BY DEF BatchUntouched
  <2> QED
    BY <2>5, <2>6, <2>7, <2>9, <2>10 DEF BatchOK
<1>5. \A i, j \in 1..Len(wire') : wire'[i].type = "batch" /\ wire'[j].type = "batch" => i = j
  <2> SUFFICES ASSUME NEW i \in 1..Len(wire'), NEW j \in 1..Len(wire'),
                      wire'[i].type = "batch", wire'[j].type = "batch"
               PROVE  i = j
    OBVIOUS
  <2>1. i + n = j + n
    BY <1>2 DEF Inv, BatchInv
  <2> QED
    BY <2>1
<1>6. ASSUME NEW i \in 1..Len(down'), down'[i].type = "ack"
      PROVE  /\ batch' > 0
             /\ \A k \in 1..batch' : buffer'[k] \in routed'
             /\ \A j \in 1..Len(wire') : wire'[j].type # "batch"
  <2>1. i + n2 \in 1..Len(down) /\ down[i + n2].type = "ack"
    BY <1>3, <1>6
  <2>2. /\ batch > 0
        /\ \A k \in 1..batch : buffer[k] \in routed
        /\ \A j \in 1..Len(wire) : wire[j].type # "batch"
    BY <2>1 DEF Inv, AckInv
  <2>3. \A j \in 1..Len(wire') : wire'[j].type # "batch"
    BY <1>2, <2>2
  <2>4. batch' = batch /\ routed' = routed /\ \A k \in 1..batch : buffer'[k] = buffer[k]
    BY <1>1 DEF BatchUntouched
  <2> QED
    BY <2>2, <2>3, <2>4
<1>7. \A i, j \in 1..Len(down') : down'[i].type = "ack" /\ down'[j].type = "ack" => i = j
  <2> SUFFICES ASSUME NEW i \in 1..Len(down'), NEW j \in 1..Len(down'),
                      down'[i].type = "ack", down'[j].type = "ack"
               PROVE  i = j
    OBVIOUS
  <2>1. i + n2 = j + n2
    BY <1>3 DEF Inv, AckInv
  <2> QED
    BY <2>1
<1> QED
  BY <1>4, <1>5, <1>6, <1>7 DEF BatchInv, AckInv

-----------------------------------------------------------------------------
(* The operators the actions are built from. *)

\* An operation record stays one when its fields are written.
LEMMA StatusType ==
    ASSUME NEW o \in Operation, NEW s \in OpStatuses
    PROVE  [o EXCEPT !.status = s] \in Operation /\ [o EXCEPT !.status = s].status = s
  BY DEF Operation

\* Lowering a deadline leaves an operation.
LEMMA DeadlineType ==
    ASSUME NEW o \in Operation, NEW d \in -1..Timeout
    PROVE  /\ [o EXCEPT !.deadline = d] \in Operation
           /\ [o EXCEPT !.deadline = d].status = o.status
  BY DEF Operation

\* Interrupting an operation leaves an operation.
LEMMA UnknownType ==
    ASSUME NEW o \in Operation
    PROVE  /\ [o EXCEPT !.status = "UNKNOWN", !.deadline = Timeout] \in Operation
           /\ [o EXCEPT !.status = "UNKNOWN", !.deadline = Timeout].status = "UNKNOWN"
<1>1. "UNKNOWN" \in OpStatuses /\ Timeout \in -1..Timeout
  BY TimerAssumption DEF OpStatuses
<1>2. PICK a : a = [o EXCEPT !.status = "UNKNOWN"]
  OBVIOUS
<1>3. a \in Operation /\ a.status = "UNKNOWN"
  BY <1>1, <1>2, StatusType
<1>4. [o EXCEPT !.status = "UNKNOWN", !.deadline = Timeout] = [a EXCEPT !.deadline = Timeout]
  BY <1>2
<1> QED
  BY <1>1, <1>3, <1>4, DeadlineType

\* Updating an operation from the Agent leaves an operation.
LEMMA SeenType ==
    ASSUME NEW o \in Operation, NEW s \in OpStatuses, NEW n \in 0..4
    PROVE  /\ [o EXCEPT !.status = s, !.seen = n] \in Operation
           /\ [o EXCEPT !.status = s, !.seen = n].status = s
<1>1. PICK a : a = [o EXCEPT !.status = s]
  OBVIOUS
<1>2. a \in Operation /\ a.status = s
  BY <1>1, StatusType
<1>3. [a EXCEPT !.seen = n] \in Operation /\ [a EXCEPT !.seen = n].status = s
  BY <1>2 DEF Operation
<1>4. [o EXCEPT !.status = s, !.seen = n] = [a EXCEPT !.seen = n]
  BY <1>1
<1> QED
  BY <1>3, <1>4

\* mark_unknown() touches active commands, and their operations, alone.
LEMMA InterruptedEffect ==
    ASSUME NEW st \in [Command -> Statuses], NEW ops \in [Command -> Operation]
    PROVE  /\ Interrupted(st) \in [Command -> Statuses]
           /\ InterruptedOps(st, ops) \in [Command -> Operation]
           /\ \A c \in Command :
                /\ Interrupted(st)[c] = IF st[c] \in Active THEN "UNKNOWN" ELSE st[c]
                /\ InterruptedOps(st, ops)[c].status =
                     IF st[c] \in Active /\ ops[c].status \in Active
                       THEN "UNKNOWN" ELSE ops[c].status
<1>1. "UNKNOWN" \in Statuses /\ "UNKNOWN" \in OpStatuses /\ Timeout \in -1..Timeout
  BY TimerAssumption DEF Statuses, OpStatuses
<1>2. Interrupted(st) \in [Command -> Statuses]
  BY <1>1 DEF Interrupted
<1>3. ASSUME NEW c \in Command
      PROVE  /\ [ops[c] EXCEPT !.status = "UNKNOWN", !.deadline = Timeout] \in Operation
             /\ [ops[c] EXCEPT !.status = "UNKNOWN", !.deadline = Timeout].status = "UNKNOWN"
  <2>1. ops[c] \in Operation
    OBVIOUS
  <2> QED
    BY <2>1, UnknownType
<1>4. InterruptedOps(st, ops) \in [Command -> Operation]
  BY <1>3 DEF InterruptedOps
<1>5. ASSUME NEW c \in Command
      PROVE  InterruptedOps(st, ops)[c].status =
               IF st[c] \in Active /\ ops[c].status \in Active THEN "UNKNOWN" ELSE ops[c].status
  BY <1>3 DEF InterruptedOps
<1>6. \A c \in Command : Interrupted(st)[c] = IF st[c] \in Active THEN "UNKNOWN" ELSE st[c]
  BY DEF Interrupted
<1> QED
  BY <1>2, <1>4, <1>5, <1>6

\* Interrupting moves rows, of the present tables.
LEMMA InterruptedMoves ==
    ASSUME TypeOK, status' = Interrupted(status), op' = InterruptedOps(status, op)
    PROVE  /\ status' \in [Command -> Statuses]
           /\ op' \in [Command -> Operation]
           /\ RowsMove
<1>1. status \in [Command -> Statuses] /\ op \in [Command -> Operation]
  BY DEF TypeOK
<1>2. \A c \in Command :
        /\ status'[c] = IF status[c] \in Active THEN "UNKNOWN" ELSE status[c]
        /\ op'[c].status = IF status[c] \in Active /\ op[c].status \in Active
                             THEN "UNKNOWN" ELSE op[c].status
  BY <1>1, InterruptedEffect
<1>3. RowsMove
  BY <1>2 DEF RowsMove, RowStep, Terminal, Outcomes, Active, Unsent
<1> QED
  BY <1>1, <1>3, InterruptedEffect

\* AgentConnectionHub.send keeps the queue within its size.
LEMMA PostEffect ==
    ASSUME TypeOK, NEW msg \in DownMsg, NEW rest \in Seq(UpMsg), Post(msg, rest)
    PROVE  /\ down' \in Seq(DownMsg) /\ Len(down') <= MaxQueue
           /\ wire' \in Seq(UpMsg) /\ link' \in BOOLEAN
           /\ \/ down' = <<>> /\ wire' = <<>>
              \/ down' = down /\ wire' = rest
              \/ down' = Append(down, msg) /\ wire' = rest
<1>1. /\ down \in Seq(DownMsg) /\ Len(down) \in Nat /\ Len(down) <= MaxQueue
      /\ link \in BOOLEAN /\ MaxQueue \in Nat
  BY BoundAssumption DEF TypeOK
<1>2. CASE link /\ Len(down) >= MaxQueue
  <2>1. down' = <<>> /\ wire' = <<>> /\ link' = FALSE
    BY <1>2 DEF Post, Drop
  <2>2. down' \in Seq(DownMsg) /\ Len(down') = 0 /\ wire' \in Seq(UpMsg)
    BY <2>1
  <2>3. Len(down') <= MaxQueue
    BY <1>1, <2>2
  <2>4. link' \in BOOLEAN
    BY <2>1
  <2> QED
    BY <2>1, <2>2, <2>3, <2>4
<1>3. CASE ~(link /\ Len(down) >= MaxQueue)
  <2>1. /\ down' = IF link THEN Append(down, msg) ELSE down
        /\ wire' = rest /\ link' = link
    BY <1>3 DEF Post
  <2>2. Append(down, msg) \in Seq(DownMsg) /\ Len(Append(down, msg)) = Len(down) + 1
    BY <1>1, AppendPlaces
  <2> QED
    BY <1>1, <1>3, <2>1, <2>2
<1> QED
  BY <1>2, <1>3

\* Dispatching a new, queued or interrupted command: its row is DISPATCHED or UNKNOWN,
\* other rows move only by being interrupted, and no operation ends.
LEMMA SendEffect ==
    ASSUME TypeOK, NEW c \in Command,
           NEW st \in [Command -> Statuses], NEW ops \in [Command -> Operation],
           st[c] \in Unsent \cup {"UNKNOWN"}, Send(c, st, ops)
    PROVE  /\ status' \in [Command -> Statuses]
           /\ op' \in [Command -> Operation]
           /\ down' \in Seq(DownMsg) /\ Len(down') <= MaxQueue
           /\ wire' \in Seq(UpMsg) /\ link' \in BOOLEAN
           /\ \/ down' = <<>> /\ wire' = <<>>
              \/ down' = down /\ wire' = wire
              \/ down' = Append(down, [type |-> "command", cmd |-> c]) /\ wire' = wire
           /\ status'[c] \in {"DISPATCHED", "UNKNOWN"}
           /\ \A d \in Command \ {c} :
                /\ status'[d] = IF st[d] \in Active /\ status'[d] = "UNKNOWN"
                                  THEN "UNKNOWN" ELSE st[d]
                /\ st[d] \notin Active => op'[d].status = ops[d].status
           /\ \A d \in Command :
                \/ op'[d].status = ops[d].status
                \/ /\ ops[d].status \notin Outcomes
                   /\ op'[d].status \in {"DISPATCHED", "UNKNOWN"}
<1> DEFINE st1 == [st EXCEPT ![c] = IF @ = "UNKNOWN" THEN @ ELSE "DISPATCHED"]
           ops1 == [ops EXCEPT ![c].status = IF st[c] # "UNKNOWN" /\ @ = "CREATED"
                                               THEN "DISPATCHED" ELSE @]
           msg == [type |-> "command", cmd |-> c]
<1>1. st1 \in [Command -> Statuses] /\ st1[c] \in {"DISPATCHED", "UNKNOWN"}
  BY DEF Statuses, Active
<1>2. \A d \in Command \ {c} : st1[d] = st[d] /\ ops1[d] = ops[d]
  OBVIOUS
<1>3. /\ ops1 \in [Command -> Operation]
      /\ \/ ops1[c].status = ops[c].status
         \/ ops[c].status = "CREATED" /\ ops1[c].status = "DISPATCHED"
  <2>1. ops[c] \in Operation /\ "DISPATCHED" \in OpStatuses /\ ops[c].status \in OpStatuses
    BY DEF Operation, OpStatuses, Active
  <2>2. PICK s \in OpStatuses : s = IF st[c] # "UNKNOWN" /\ ops[c].status = "CREATED"
                                      THEN "DISPATCHED" ELSE ops[c].status
    BY <2>1
  <2>3. [ops[c] EXCEPT !.status = s] \in Operation /\ [ops[c] EXCEPT !.status = s].status = s
    BY <2>1, StatusType
  <2>4. ops1 = [ops EXCEPT ![c] = [ops[c] EXCEPT !.status = s]]
    BY <2>2
  <2> QED
    BY <2>2, <2>3, <2>4
<1>4. wire \in Seq(UpMsg) /\ msg \in DownMsg
  BY DEF TypeOK, DownMsg
<1>5. Post(msg, wire)
  BY DEF Send
<1>6. /\ down' \in Seq(DownMsg) /\ Len(down') <= MaxQueue
      /\ wire' \in Seq(UpMsg) /\ link' \in BOOLEAN
      /\ \/ down' = <<>> /\ wire' = <<>>
         \/ down' = down /\ wire' = wire
         \/ down' = Append(down, msg) /\ wire' = wire
  BY <1>4, <1>5, PostEffect
<1>7. \/ status' = st1 /\ op' = ops1
      \/ status' = Interrupted(st1) /\ op' = InterruptedOps(st1, ops1)
  BY DEF Send
<1> HIDE DEF st1, ops1
<1>8. /\ Interrupted(st1) \in [Command -> Statuses]
      /\ InterruptedOps(st1, ops1) \in [Command -> Operation]
      /\ \A d \in Command :
           /\ Interrupted(st1)[d] = IF st1[d] \in Active THEN "UNKNOWN" ELSE st1[d]
           /\ InterruptedOps(st1, ops1)[d].status =
                IF st1[d] \in Active /\ ops1[d].status \in Active
                  THEN "UNKNOWN" ELSE ops1[d].status
  BY <1>1, <1>3, InterruptedEffect
<1>9. status' \in [Command -> Statuses] /\ op' \in [Command -> Operation]
  BY <1>1, <1>3, <1>7, <1>8
<1>10. status'[c] \in {"DISPATCHED", "UNKNOWN"}
  BY <1>1, <1>7, <1>8
<1>11. ASSUME NEW d \in Command \ {c}
       PROVE  /\ status'[d] = IF st[d] \in Active /\ status'[d] = "UNKNOWN"
                                THEN "UNKNOWN" ELSE st[d]
              /\ st[d] \notin Active => op'[d].status = ops[d].status
  BY <1>2, <1>7, <1>8
<1>12. ASSUME NEW d \in Command
       PROVE  \/ op'[d].status = ops[d].status
              \/ /\ ops[d].status \notin Outcomes
                 /\ op'[d].status \in {"DISPATCHED", "UNKNOWN"}
  <2>1. \/ ops1[d].status = ops[d].status
        \/ ops[d].status = "CREATED" /\ ops1[d].status = "DISPATCHED"
    BY <1>2, <1>3
  <2>2. \/ op'[d].status = ops1[d].status
        \/ ops1[d].status \in Active /\ op'[d].status = "UNKNOWN"
    BY <1>7, <1>8
  <2> QED
    BY <2>1, <2>2 DEF Outcomes, Active
<1> QED
  BY <1>6, <1>9, <1>10, <1>11, <1>12

\* _expire() on commands that may expire.
LEMMA ExpireEffect ==
    ASSUME TypeOK, NEW S \in SUBSET Command, \A c \in S : status[c] \in Expirable,
           ExpireAll(S)
    PROVE  /\ status' \in [Command -> Statuses]
           /\ op' \in [Command -> Operation]
           /\ RowsMove
<1>1. status \in [Command -> Statuses] /\ op \in [Command -> Operation]
  BY DEF TypeOK
<1>2. "EXPIRED" \in Statuses /\ "FAILED" \in OpStatuses
  BY DEF Statuses, Terminal, OpStatuses, Outcomes
<1> DEFINE Failed(c) == [op[c] EXCEPT !.status = "FAILED"]
<1>3. \A c \in Command : Failed(c) \in Operation /\ Failed(c).status = "FAILED"
  BY <1>1, <1>2, StatusType
<1>4. status' = [c \in Command |-> IF c \in S THEN "EXPIRED" ELSE status[c]]
  BY DEF ExpireAll
<1>5. op' = [c \in Command |->
               IF c \in S /\ op[c].status \in {"CREATED", "DISPATCHED", "UNKNOWN"}
                 THEN Failed(c) ELSE op[c]]
  BY DEF ExpireAll
<1> HIDE DEF Failed
<1>6. status' \in [Command -> Statuses] /\ op' \in [Command -> Operation]
  BY <1>1, <1>2, <1>3, <1>4, <1>5
<1>7. ASSUME NEW c \in Command
      PROVE  RowStep(status[c], op[c].status, status'[c], op'[c].status, journal[c])
  <2>1. CASE c \in S
    <3>1. status'[c] = "EXPIRED" /\ status[c] \in Expirable
      BY <1>4, <2>1
    <3>2. \/ op'[c].status = op[c].status
          \/ /\ op'[c].status = "FAILED"
             /\ op[c].status \in {"CREATED", "DISPATCHED", "UNKNOWN"}
      BY <1>3, <1>5, <2>1
    <3> QED
      BY <3>1, <3>2 DEF RowStep, Expirable, Terminal, Outcomes, Unsent
  <2>2. CASE c \notin S
    BY <1>4, <1>5, <2>2, RowsStay
  <2> QED
    BY <2>1, <2>2
<1> QED
  BY <1>6, <1>7 DEF RowsMove

\* accepted(), rejected() and operation_event(), of an event the journal stands by.
LEMMA HandledEffect ==
    ASSUME Inv, NEW e \in Event, EventOK(e, journal)
    PROVE  /\ Handled(e).status \in Statuses
           /\ Handled(e).op \in Operation
           /\ RowStep(status[e.cmd], op[e.cmd].status, Handled(e).status, Handled(e).op.status,
                      journal[e.cmd])
<1> DEFINE c == e.cmd
           s == status[c]
           o == op[c]
           Write(t) == [o EXCEPT !.status = t, !.seen = Stamp(t)]
           Reject == [o EXCEPT !.status = "FAILED", !.seen = Stamp("REJECTED")]
<1>1. /\ c \in Command /\ s \in Statuses /\ o \in Operation /\ o.status \in OpStatuses
      /\ e.type \in {"REJECTED", "ACCEPTED", "RUNNING"} \cup Outcomes
  BY DEF Event, Inv, TypeOK, Operation
<1>3. \A t : Stamp(t) \in 0..4
  BY DEF Stamp
<1>2. \A t \in OpStatuses : Write(t) \in Operation /\ Write(t).status = t
  BY <1>1, <1>3, SeenType
<1>4. e.type \in {"SUCCEEDED", "CANCELLED"} => journal[c] = e.type
  BY DEF EventOK
<1> HIDE DEF c, Write, Reject
<1>5. CASE e.type = "ACCEPTED"
  <2>1. Handled(e) = Accepted(c)
    BY <1>5 DEF Handled, c
  <2>2. "ACCEPTED" \in Statuses /\ "ACCEPTED" \in OpStatuses
    BY DEF Statuses, OpStatuses, Active
  <2>3. \/ Accepted(c).status = s /\ Accepted(c).op = o
        \/ /\ Accepted(c).status = "ACCEPTED" /\ s \in {"DISPATCHED", "UNKNOWN"}
           /\ \/ Accepted(c).op = o
              \/ /\ o.status \in {"DISPATCHED", "RECONCILING"}
                 /\ Accepted(c).op = Write("ACCEPTED")
    BY DEF Accepted, Rows, Write
  <2>4. Accepted(c).status \in Statuses /\ Accepted(c).op \in Operation
    BY <1>1, <1>2, <1>3, <2>2, <2>3
  <2>5. RowStep(s, o.status, Accepted(c).status, Accepted(c).op.status, journal[c])
    BY <1>2, <1>3, <2>2, <2>3 DEF RowStep, Terminal, Outcomes, Unsent
  <2> QED
    BY <2>1, <2>4, <2>5 DEF c
<1>6. CASE e.type = "REJECTED"
  <2>1. Handled(e) = Rejected(c)
    BY <1>6 DEF Handled, c
  <2>2. "FAILED" \in Statuses /\ "FAILED" \in OpStatuses
    BY DEF Statuses, OpStatuses, Terminal, Outcomes
  <2>3. \/ Rejected(c).status = s /\ Rejected(c).op = o
        \/ /\ Rejected(c).status = "FAILED" /\ s \in Active \cup {"UNKNOWN"}
           /\ \/ Rejected(c).op = o
              \/ /\ "FAILED" \in OperationTransitions(o.status)
                 /\ Rejected(c).op = Reject
    BY DEF Rejected, Rows, Reject
  <2>4. "FAILED" \in OperationTransitions(o.status) => o.status \notin Outcomes
    BY DEF OperationTransitions, Outcomes
  <2>7. Reject \in Operation /\ Reject.status = "FAILED"
    BY <1>1, <1>3, <2>2, SeenType DEF Reject
  <2>5. Rejected(c).status \in Statuses /\ Rejected(c).op \in Operation
    BY <1>1, <2>2, <2>3, <2>7
  <2>6. RowStep(s, o.status, Rejected(c).status, Rejected(c).op.status, journal[c])
    BY <2>3, <2>4, <2>7 DEF RowStep, Terminal, Outcomes, Unsent, Active
  <2> QED
    BY <2>1, <2>5, <2>6 DEF c
<1>7. CASE e.type \notin {"ACCEPTED", "REJECTED"}
  <2> DEFINE t == e.type
  <2>1. Handled(e) = OperationEvent(c, t)
    BY <1>7 DEF Handled, c
  <2>2. t \in {"RUNNING"} \cup Outcomes
    BY <1>1, <1>7
  <2>3. t \in Statuses /\ t \in OpStatuses
    BY <2>2 DEF Statuses, OpStatuses, Terminal, Outcomes, Active
  <2>4. \/ OperationEvent(c, t).status = s /\ OperationEvent(c, t).op = o
        \/ /\ OperationEvent(c, t).status = t /\ (s = t \/ t \in CommandTransitions(s))
           /\ \/ OperationEvent(c, t).op = o
              \/ /\ (o.status = t /\ t = "RUNNING") \/ t \in OperationTransitions(o.status)
                 /\ OperationEvent(c, t).op = Write(t)
    BY DEF OperationEvent, Rows, Write
  <2>5. \A x : x \in Outcomes => OperationTransitions(x) = {}
    BY DEF OperationTransitions, Outcomes
  <2>6. \A x : x \in Terminal => CommandTransitions(x) = {}
    BY DEF CommandTransitions, Terminal, Outcomes
  <2>7. OperationEvent(c, t).status \in Statuses /\ OperationEvent(c, t).op \in Operation
    BY <1>1, <1>2, <1>3, <2>3, <2>4
  <2>8. \/ OperationEvent(c, t).op.status = o.status
        \/ OperationEvent(c, t).op.status = t /\ o.status \notin Outcomes
    BY <1>2, <1>3, <2>3, <2>4, <2>5 DEF Outcomes
  <2>9. RowStep(s, o.status, OperationEvent(c, t).status, OperationEvent(c, t).op.status,
                journal[c])
    <3>1. CASE OperationEvent(c, t).status = s /\ OperationEvent(c, t).op = o
      BY <3>1, RowsStay
    <3>2. CASE OperationEvent(c, t).status = t /\ (s = t \/ t \in CommandTransitions(s))
      BY <1>4, <2>2, <2>6, <2>8, <3>2 DEF RowStep, Terminal, Outcomes, Unsent
    <3> QED
      BY <2>4, <3>1, <3>2
  <2> QED
    BY <2>1, <2>7, <2>9 DEF c
<1> QED
  BY <1>5, <1>6, <1>7

\* Reconciliation of one command with a journal state the Agent still stands by.
LEMMA ReconciledEffect ==
    ASSUME NEW s \in Statuses, NEW o \in Operation, NEW j \in JournalStatuses, NEW k,
           j \in {"SUCCEEDED", "CANCELLED"} => k = j,
           s \in Unsent \cup {"NONE"} => o.status \in {"NONE", "CREATED"}
    PROVE  /\ ReconciledCommand(s, j) \in Statuses
           /\ ReconciledOperation(o, j) \in Operation
           /\ RowStep(s, o.status, ReconciledCommand(s, j), ReconciledOperation(o, j).status, k)
<1>1. o.status \in OpStatuses /\ o.seen \in 0..4
  BY DEF Operation
<1>2. j \in Statuses \cup {"NONE"} /\ j \in OpStatuses \cup {"NONE"} /\ "FAILED" \in Statuses
  BY DEF JournalStatuses, Statuses, OpStatuses, Terminal, Outcomes, Active
<1>3. "RECONCILING" \in OpStatuses /\ "FAILED" \in OpStatuses
  BY DEF OpStatuses, Outcomes
<1> DEFINE Ended(t, n) == [status |-> t, deadline |-> -1, seen |-> n]
<1>4. \A t \in OpStatuses, n \in 0..4 : Ended(t, n) \in Operation /\ Ended(t, n).status = t
  BY TimerAssumption DEF Operation
<1> HIDE DEF Ended
<1>5. Larger(o.seen, Stamp(j)) \in 0..4
  BY <1>1 DEF Larger, Stamp
<1>6. /\ [o EXCEPT !.status = "RECONCILING"] \in Operation
      /\ [o EXCEPT !.status = "RECONCILING"].status = "RECONCILING"
  BY <1>3, StatusType
<1>7. /\ \/ ReconciledCommand(s, j) \in {s, "FAILED", j} \ {"NONE"}
         \/ ReconciledCommand(s, j) = s
      /\ s # "UNKNOWN" => ReconciledCommand(s, j) = s
  BY DEF ReconciledCommand, Outcomes
<1>8. /\ ReconciledOperation(o, j) \in Operation
      /\ \/ ReconciledOperation(o, j) = o
         \/ /\ o.status \in {"UNKNOWN", "RECONCILING"}
            /\ ReconciledOperation(o, j).status \in {"FAILED", "RECONCILING", j} \ {"NONE"}
  <2>1. CASE o.status \notin {"UNKNOWN", "RECONCILING"}
    BY <2>1 DEF ReconciledOperation
  <2>2. CASE o.status \in {"UNKNOWN", "RECONCILING"} /\ Restarted /\ j \notin Outcomes
    <3>1. ReconciledOperation(o, j) = Ended("FAILED", 4)
      BY <2>2 DEF ReconciledOperation, Ended
    <3> QED
      BY <1>3, <1>4, <2>2, <3>1
  <2>3. CASE o.status \in {"UNKNOWN", "RECONCILING"} /\ ~(Restarted /\ j \notin Outcomes)
                 /\ j = "NONE"
    BY <1>6, <2>3 DEF ReconciledOperation
  <2>4. CASE o.status \in {"UNKNOWN", "RECONCILING"} /\ ~(Restarted /\ j \notin Outcomes)
                 /\ j # "NONE"
    <3>1. ReconciledOperation(o, j) = Ended(j, Larger(o.seen, Stamp(j)))
      BY <2>4 DEF ReconciledOperation, Ended
    <3> QED
      BY <1>2, <1>4, <1>5, <2>4, <3>1
  <2> QED
    BY <2>1, <2>2, <2>3, <2>4
<1>9. ReconciledCommand(s, j) \in Statuses
  BY <1>2, <1>7
<1>10. RowStep(s, o.status, ReconciledCommand(s, j), ReconciledOperation(o, j).status, k)
  BY <1>7, <1>8 DEF RowStep, JournalStatuses, Terminal, Outcomes, Unsent
<1> QED
  BY <1>8, <1>9, <1>10

-----------------------------------------------------------------------------
(* Reading and posting messages. *)

DownRead == down' = down \/ down' = <<>> \/ (down # <<>> /\ down' = Tail(down))

WireRead == wire' = wire \/ wire' = <<>> \/ (wire # <<>> /\ wire' = Tail(wire))

\* Reading or losing what is on its way to the Agent sends nothing.
LEMMA DownReadEffect ==
    ASSUME TypeOK, DownRead
    PROVE  /\ down' \in Seq(DownMsg) /\ Len(down') <= MaxQueue
           /\ CommandsSent /\ AckShift
<1>1. down \in Seq(DownMsg) /\ Len(down) \in Nat /\ Len(down) <= MaxQueue /\ MaxQueue \in Nat
  BY BoundAssumption DEF TypeOK
<1>2. CASE down' = down
  <2>1. \A i \in 1..Len(down') : i + 0 \in 1..Len(down) /\ down[i + 0] = down'[i]
    BY <1>1, <1>2
  <2>2. AckShift
    BY <2>1 DEF AckShift
  <2> QED
    BY <1>1, <1>2, <2>2 DEF CommandsSent
<1>3. CASE down' = <<>>
  <2>1. down' \in Seq(DownMsg) /\ Len(down') = 0
    BY <1>3
  <2>2. AckShift /\ CommandsSent
    BY <2>1 DEF AckShift, CommandsSent
  <2> QED
    BY <1>1, <2>1, <2>2
<1>4. CASE down # <<>> /\ down' = Tail(down)
  <2>1. /\ down' \in Seq(DownMsg) /\ Len(down') = Len(down) - 1
        /\ \A i \in 1..Len(down') : i + 1 \in 1..Len(down) /\ down[i + 1] = down'[i]
    BY <1>1, <1>4, TailPlaces
  <2>2. AckShift /\ CommandsSent
    BY <2>1 DEF AckShift, CommandsSent
  <2> QED
    BY <1>1, <2>1, <2>2
<1> QED
  BY <1>2, <1>3, <1>4 DEF DownRead

\* Reading or losing what is on its way to the control plane leaves its batch as it is.
LEMMA WireReadEffect ==
    ASSUME TypeOK, WireRead
    PROVE  /\ wire' \in Seq(UpMsg)
           /\ \A i \in 1..Len(wire') : \E j \in 1..Len(wire) : wire'[i] = wire[j]
           /\ BatchShift
<1>1. wire \in Seq(UpMsg) /\ Len(wire) \in Nat
  BY DEF TypeOK
<1>2. CASE wire' = wire
  <2>1. \A i \in 1..Len(wire') : i + 0 \in 1..Len(wire) /\ wire[i + 0] = wire'[i]
    BY <1>1, <1>2
  <2> QED
    BY <1>1, <1>2, <2>1 DEF BatchShift
<1>3. CASE wire' = <<>>
  <2>1. wire' \in Seq(UpMsg) /\ Len(wire') = 0
    BY <1>3
  <2> QED
    BY <2>1 DEF BatchShift
<1>4. CASE wire # <<>> /\ wire' = Tail(wire)
  <2>1. /\ wire' \in Seq(UpMsg)
        /\ \A i \in 1..Len(wire') : i + 1 \in 1..Len(wire) /\ wire[i + 1] = wire'[i]
    BY <1>1, <1>4, TailPlaces
  <2>2. \A i \in 1..Len(wire') : \E j \in 1..Len(wire) : wire'[i] = wire[j]
    BY <2>1
  <2>3. BatchShift
    BY <2>1, 1 \in 0..1 DEF BatchShift
  <2> QED
    BY <2>1, <2>2, <2>3
<1> QED
  BY <1>2, <1>3, <1>4 DEF WireRead

\* A message that is no acknowledgement, and no command unless one was sent for it.
LEMMA PostedEffect ==
    ASSUME TypeOK, NEW msg \in DownMsg, msg.type # "ack",
           msg.type = "command" => status'[msg.cmd] \notin Unsent \cup {"NONE", "CANCELLED"},
           DownRead \/ down' = Append(down, msg)
    PROVE  CommandsSent /\ AckShift
<1>1. down \in Seq(DownMsg) /\ Len(down) \in Nat
  BY DEF TypeOK
<1>2. CASE DownRead
  BY <1>2, DownReadEffect
<1>3. CASE down' = Append(down, msg)
  <2>1. /\ Len(down') = Len(down) + 1
        /\ \A i \in 1..Len(down') : i \in 1..Len(down) \/ down'[i] = msg
        /\ \A i \in 1..Len(down) : down'[i] = down[i]
    BY <1>1, <1>3, AppendPlaces
  <2>2. \A i \in 1..Len(down') : down'[i].type = "ack" =>
          i + 0 \in 1..Len(down) /\ down[i + 0] = down'[i]
    BY <1>1, <2>1
  <2> QED
    BY <2>1, <2>2 DEF CommandsSent, AckShift
<1> QED
  BY <1>2, <1>3

-----------------------------------------------------------------------------
(* The two kinds of step most actions are. *)

\* A step of the control plane that reads and writes its rows and the queues.
LEMMA CentralStep ==
    ASSUME Inv, TypeOK', RowsMove, CommandsSent, AckShift, WireRead,
           UNCHANGED <<journal, task, runs, buffer, batch, outbox, routed>>
    PROVE  Inv' /\ Moves
<1>1. Moves
  BY DEF Moves, JournalMoves
<1>2. AgentInv'
  BY DEF Inv, AgentInv
<1>3. BatchUntouched
  <2>1. Len(buffer) \in Nat
    BY DEF Inv, TypeOK
  <2> QED
    BY <2>1, WireReadEffect DEF Inv, BatchUntouched
<1>4. BatchInv' /\ AckInv'
  BY <1>3, BatchStays
<1>5. \A i \in 1..Len(wire') : \E j \in 1..Len(wire) : wire'[i] = wire[j]
  BY WireReadEffect DEF Inv
<1>6. Inv'
  BY <1>1, <1>2, <1>4, <1>5, Kept
<1> QED
  BY <1>1, <1>6

\* A step of the Agent that reads a message, moves the journal and announces it.
LEMMA AgentStep ==
    ASSUME Inv, TypeOK', AgentInv', JournalMoves, DownRead, WireRead,
           UNCHANGED <<status, op, batch, outbox, routed>>,
           NEW events \in Seq(Event), buffer' = buffer \o events,
           \A i \in 1..Len(events) : EventOK(events[i], journal')
    PROVE  Inv' /\ Moves
<1>1. Moves
  <2>1. RowsMove
    BY RowsStay DEF RowsMove
  <2> QED
    BY <2>1, DownReadEffect DEF Inv, Moves
<1>2. /\ buffer \in Seq(Event) /\ Len(buffer) \in Nat /\ Len(events) \in Nat
      /\ Len(buffer') = Len(buffer) + Len(events)
      /\ \A i \in 1..Len(buffer) : buffer'[i] = buffer[i]
      /\ \A i \in 1..Len(buffer') : i \notin 1..Len(buffer) =>
           /\ i - Len(buffer) \in 1..Len(events)
           /\ buffer'[i] = events[i - Len(buffer)]
  <2>1. buffer \in Seq(Event)
    BY DEF Inv, TypeOK
  <2> QED
    BY <2>1, ConcatProperties
<1>3. \A i \in 1..Len(buffer') : \/ \E j \in 1..Len(buffer) : buffer'[i] = buffer[j]
                                 \/ EventOK(buffer'[i], journal')
  BY <1>2
<1>4. BatchUntouched
  BY <1>2, WireReadEffect, DownReadEffect DEF Inv, BatchUntouched
<1>5. BatchInv' /\ AckInv'
  BY <1>4, BatchStays
<1>6. \A i \in 1..Len(wire') : \E j \in 1..Len(wire) : wire'[i] = wire[j]
  BY WireReadEffect DEF Inv
<1>7. Inv'
  BY <1>1, <1>3, <1>5, <1>6, Kept
<1> QED
  BY <1>1, <1>7

-----------------------------------------------------------------------------
(* The control plane's steps. *)

\* A new command is not known to the Agent until it is sent.
LEMMA CreateKeeps == ASSUME Inv, NEW c \in Command, Create(c) PROVE Inv' /\ Moves
<1> DEFINE st  == [status EXCEPT ![c] = "CREATED"]
           ops == [op EXCEPT ![c].status = "CREATED"]
           queued == IF QueueOffline THEN [st EXCEPT ![c] = "QUEUED"] ELSE st
           msg == [type |-> "command", cmd |-> c]
<1>1. /\ status \in [Command -> Statuses] /\ op \in [Command -> Operation]
      /\ status[c] = "NONE" /\ op[c].status = "NONE"
  BY DEF Inv, TypeOK, UnsentInv, Create, Unsent
<1>2. /\ st \in [Command -> Statuses] /\ st[c] = "CREATED"
      /\ queued \in [Command -> Statuses] /\ queued[c] \in Unsent
      /\ \A d \in Command \ {c} : st[d] = status[d] /\ queued[d] = status[d]
  BY <1>1 DEF Statuses, Unsent
<1>3. ops \in [Command -> Operation] /\ ops[c].status = "CREATED"
  <2>1. "CREATED" \in OpStatuses /\ op[c] \in Operation
    BY <1>1 DEF OpStatuses
  <2>2. /\ [op[c] EXCEPT !.status = "CREATED"] \in Operation
        /\ [op[c] EXCEPT !.status = "CREATED"].status = "CREATED"
    BY <2>1, StatusType
  <2> QED
    BY <1>1, <2>2
<1>4. \A d \in Command \ {c} : ops[d] = op[d]
  BY <1>1
<1>5. ttl' \in [Command -> (-Skew - 1)..Lifetime]
  <2>1. Lifetime \in (-Skew - 1)..Lifetime /\ ttl \in [Command -> (-Skew - 1)..Lifetime]
    BY TimerAssumption DEF Inv, TypeOK
  <2> QED
    BY <2>1 DEF Create
<1>6. msg \in DownMsg /\ msg.type = "command" /\ msg.cmd = c
  BY DEF DownMsg
<1>7. UNCHANGED <<replay, cancels, journal, task, runs, buffer, boot, batch, outbox, routed,
                  session, presence, connBoot, lastBoot, faults>>
  BY DEF Create, agent, network
<1>8. \/ Send(c, st, ops)
      \/ status' = queued /\ op' = ops /\ UNCHANGED <<down, link, wire>>
  BY DEF Create
<1> HIDE DEF st, ops, queued, msg
<1>9. CASE Send(c, st, ops)
  <2>1. st[c] \in Unsent \cup {"UNKNOWN"}
    BY <1>2 DEF Unsent
  <2>2. /\ status' \in [Command -> Statuses] /\ op' \in [Command -> Operation]
        /\ down' \in Seq(DownMsg) /\ Len(down') <= MaxQueue
        /\ wire' \in Seq(UpMsg) /\ link' \in BOOLEAN
        /\ \/ down' = <<>> /\ wire' = <<>>
           \/ down' = down /\ wire' = wire
           \/ down' = Append(down, msg) /\ wire' = wire
        /\ status'[c] \in {"DISPATCHED", "UNKNOWN"}
        /\ \A d \in Command \ {c} :
             /\ status'[d] = IF st[d] \in Active /\ status'[d] = "UNKNOWN"
                               THEN "UNKNOWN" ELSE st[d]
             /\ st[d] \notin Active => op'[d].status = ops[d].status
        /\ \A d \in Command :
             \/ op'[d].status = ops[d].status
             \/ /\ ops[d].status \notin Outcomes
                /\ op'[d].status \in {"DISPATCHED", "UNKNOWN"}
    BY <1>2, <1>3, <1>9, <2>1, SendEffect DEF Inv, msg
  <2>3. TypeOK'
    BY <1>5, <1>7, <2>2 DEF Inv, TypeOK
  <2>4. ASSUME NEW d \in Command
        PROVE  RowStep(status[d], op[d].status, status'[d], op'[d].status, journal[d])
    <3>1. CASE d = c
      BY <1>1, <1>3, <2>2, <3>1 DEF RowStep, Terminal, Outcomes, Unsent
    <3>2. CASE d # c
      BY <1>2, <1>4, <2>2, <3>2 DEF RowStep, Terminal, Outcomes, Unsent, Active
    <3> QED
      BY <3>1, <3>2
  <2>5. CommandsSent /\ AckShift
    BY <1>6, <2>2, PostedEffect DEF Inv, DownRead, Unsent
  <2> QED
    BY <1>7, <2>2, <2>3, <2>4, <2>5, CentralStep DEF RowsMove, WireRead
<1>10. CASE status' = queued /\ op' = ops /\ UNCHANGED <<down, link, wire>>
  <2>1. TypeOK'
    BY <1>2, <1>3, <1>5, <1>7, <1>10 DEF Inv, TypeOK
  <2>2. ASSUME NEW d \in Command
        PROVE  RowStep(status[d], op[d].status, status'[d], op'[d].status, journal[d])
    <3>1. CASE d = c
      BY <1>1, <1>2, <1>3, <1>10, <3>1 DEF RowStep, Terminal, Outcomes, Unsent
    <3>2. CASE d # c
      BY <1>2, <1>4, <1>10, <3>2, RowsStay
    <3> QED
      BY <3>1, <3>2
  <2>3. CommandsSent /\ AckShift
    BY <1>10, DownReadEffect DEF Inv, DownRead
  <2> QED
    BY <1>7, <1>10, <2>1, <2>2, <2>3, CentralStep DEF RowsMove, WireRead
<1> QED
  BY <1>8, <1>9, <1>10

\* A crash between the two rows leaves one of them behind, and nothing on its way.
LEMMA DispatchCrashKeeps ==
    ASSUME Inv, NEW c \in Command, DispatchCrash(c) PROVE Inv' /\ Moves
<1>1. /\ status \in [Command -> Statuses] /\ op \in [Command -> Operation]
      /\ status[c] \in {"NONE", "QUEUED"}
      /\ op[c].status = IF status[c] = "NONE" THEN "NONE" ELSE "CREATED"
  BY DEF Inv, TypeOK, UnsentInv, DispatchCrash, Unsent
<1>2. PICK s \in {"CREATED", "DISPATCHED"} :
        /\ s = "CREATED" => status[c] = "NONE"
        /\ status' = [status EXCEPT ![c] = s]
  BY DEF DispatchCrash
<1>3. status' \in [Command -> Statuses]
  BY <1>1, <1>2 DEF Statuses, Active
<1>4. op' \in [Command -> Operation] /\ op'[c].status = "CREATED"
  <2>1. "CREATED" \in OpStatuses /\ op[c] \in Operation
    BY <1>1 DEF OpStatuses
  <2>2. /\ [op[c] EXCEPT !.status = "CREATED"] \in Operation
        /\ [op[c] EXCEPT !.status = "CREATED"].status = "CREATED"
    BY <2>1, StatusType
  <2>3. op' = [op EXCEPT ![c] = [op[c] EXCEPT !.status = "CREATED"]]
    BY DEF DispatchCrash
  <2> QED
    BY <1>1, <2>2, <2>3
<1>5. \A d \in Command \ {c} : status'[d] = status[d] /\ op'[d] = op[d]
  BY <1>1, <1>2 DEF DispatchCrash
<1>6. ttl' \in [Command -> (-Skew - 1)..Lifetime]
  <2>1. Lifetime \in (-Skew - 1)..Lifetime /\ ttl \in [Command -> (-Skew - 1)..Lifetime]
    BY TimerAssumption DEF Inv, TypeOK
  <2> QED
    BY <2>1 DEF DispatchCrash
<1>7. /\ UNCHANGED <<cancels, journal, task, runs, buffer, boot, batch, outbox, routed,
                     presence, connBoot, lastBoot>>
      /\ session' = FALSE /\ replay' = {} /\ faults' = faults + 1
      /\ link' = FALSE /\ down' = <<>> /\ wire' = <<>>
  BY DEF DispatchCrash, Drop, agent
<1>8. DownRead /\ WireRead
  BY <1>7 DEF DownRead, WireRead
<1>9. TypeOK'
  <2>1. down' \in Seq(DownMsg) /\ Len(down') <= MaxQueue /\ wire' \in Seq(UpMsg)
    BY <1>8, DownReadEffect, WireReadEffect DEF Inv
  <2>2. session' \in BOOLEAN /\ link' \in BOOLEAN /\ replay' \subseteq Command
    BY <1>7
  <2>3. faults' \in Nat
    BY <1>7 DEF Inv, TypeOK
  <2> QED
    BY <1>3, <1>4, <1>6, <1>7, <2>1, <2>2, <2>3 DEF Inv, TypeOK
<1>10. ASSUME NEW d \in Command
       PROVE  RowStep(status[d], op[d].status, status'[d], op'[d].status, journal[d])
  <2>1. CASE d = c
    BY <1>1, <1>2, <1>4, <2>1 DEF RowStep, Terminal, Outcomes, Unsent
  <2>2. CASE d # c
    BY <1>5, <2>2, RowsStay
  <2> QED
    BY <2>1, <2>2
<1> QED
  BY <1>7, <1>8, <1>9, <1>10, DownReadEffect, CentralStep DEF Inv, RowsMove

\* A command is cancelled at once only if the Agent cannot have heard of it.
LEMMA CancelKeeps == ASSUME Inv, NEW c \in Command, Cancel(c) PROVE Inv' /\ Moves
<1>1. /\ UNCHANGED <<ttl, replay, journal, task, runs, buffer, boot, batch, outbox, routed,
                     session, presence, connBoot, lastBoot, faults>>
      /\ cancels' = cancels \cup {c}
  BY DEF Cancel, agent, network
<1>2. status \in [Command -> Statuses] /\ op \in [Command -> Operation]
  BY DEF Inv, TypeOK
<1>3. CASE /\ status[c] \in Unsent
           /\ status' = [status EXCEPT ![c] = "CANCELLED"]
           /\ op' = [op EXCEPT ![c].status = IF @ = "CREATED" THEN "CANCELLED" ELSE @]
           /\ UNCHANGED <<down, link, wire>>
  <2>1. op[c].status = "CREATED" /\ op[c] \in Operation /\ "CANCELLED" \in OpStatuses
    BY <1>2, <1>3 DEF Inv, UnsentInv, Unsent, OpStatuses, Outcomes
  <2>2. /\ [op[c] EXCEPT !.status = "CANCELLED"] \in Operation
        /\ [op[c] EXCEPT !.status = "CANCELLED"].status = "CANCELLED"
    BY <2>1, StatusType
  <2>3. op' = [op EXCEPT ![c] = [op[c] EXCEPT !.status = "CANCELLED"]]
    BY <1>3, <2>1
  <2>4. /\ op' \in [Command -> Operation] /\ op'[c].status = "CANCELLED"
        /\ status' \in [Command -> Statuses] /\ status'[c] = "CANCELLED"
        /\ \A d \in Command \ {c} : status'[d] = status[d] /\ op'[d] = op[d]
    BY <1>2, <1>3, <2>2, <2>3 DEF Statuses, Terminal, Outcomes
  <2>5. TypeOK'
    BY <1>1, <1>3, <2>4 DEF Inv, TypeOK
  <2>6. ASSUME NEW d \in Command
        PROVE  RowStep(status[d], op[d].status, status'[d], op'[d].status, journal[d])
    <3>1. CASE d = c
      BY <1>3, <2>1, <2>4, <3>1 DEF RowStep, Terminal, Outcomes, Unsent
    <3>2. CASE d # c
      BY <2>4, <3>2, RowsStay
    <3> QED
      BY <3>1, <3>2
  <2>7. DownRead /\ WireRead
    BY <1>3 DEF DownRead, WireRead
  <2> QED
    BY <1>1, <2>5, <2>6, <2>7, DownReadEffect, CentralStep DEF Inv, RowsMove
<1>4. CASE Post([type |-> "cancel", cmd |-> c], wire) /\ UNCHANGED <<status, op>>
  <2>1. PICK msg \in DownMsg : msg = [type |-> "cancel", cmd |-> c]
    BY DEF DownMsg
  <2>2. wire \in Seq(UpMsg)
    BY DEF Inv, TypeOK
  <2>3. /\ down' \in Seq(DownMsg) /\ Len(down') <= MaxQueue
        /\ wire' \in Seq(UpMsg) /\ link' \in BOOLEAN
        /\ \/ down' = <<>> /\ wire' = <<>>
           \/ down' = down /\ wire' = wire
           \/ down' = Append(down, msg) /\ wire' = wire
    BY <1>4, <2>1, <2>2, PostEffect DEF Inv
  <2>4. TypeOK'
    BY <1>1, <1>4, <2>3 DEF Inv, TypeOK
  <2>5. CommandsSent /\ AckShift
    BY <2>1, <2>3, PostedEffect DEF Inv, DownRead
  <2>6. RowsMove
    BY <1>4, RowsStay DEF RowsMove
  <2> QED
    BY <1>1, <2>3, <2>4, <2>5, <2>6, CentralStep DEF WireRead
<1> QED
  BY <1>3, <1>4 DEF Cancel

\* The monitor's steps and the passing of time leave the queues alone.
LEMMA MonitorKeeps == ASSUME Inv, Monitor PROVE Inv' /\ Moves
<1>1. /\ UNCHANGED <<ttl, replay, cancels, journal, task, runs, buffer, boot, batch, outbox,
                     routed, wire, down, link, session, connBoot, lastBoot, faults>>
      /\ presence' \in {presence, FALSE}
  BY DEF Monitor, MonitorExpire, MonitorTimeout, MonitorOffline, agent, network
<1>2. status \in [Command -> Statuses] /\ op \in [Command -> Operation]
  BY DEF Inv, TypeOK
<1>3. /\ status' \in [Command -> Statuses] /\ op' \in [Command -> Operation]
      /\ RowsMove
  <2>1. CASE MonitorExpire
    <3>1. PICK S \in SUBSET Command : /\ S = {c \in Command : status[c] \in Expirable /\ Expired(c)}
                                      /\ ExpireAll(S)
      BY <2>1 DEF MonitorExpire
    <3> QED
      BY <3>1, ExpireEffect DEF Inv
  <2>2. CASE MonitorTimeout
    <3> DEFINE due == {c \in Command : op[c].status \in {"UNKNOWN", "RECONCILING"}
                                         /\ op[c].deadline = 0}
               failed == [status |-> "FAILED", deadline |-> -1, seen |-> 4]
    <3>1. failed \in Operation /\ failed.status = "FAILED" /\ "FAILED" \in Statuses
      BY TimerAssumption DEF Operation, OpStatuses, Statuses, Terminal, Outcomes
    <3>2. /\ op' = [c \in Command |-> IF c \in due THEN failed ELSE op[c]]
          /\ status' = [c \in Command |-> IF c \in due /\ status[c] = "UNKNOWN"
                                            THEN "FAILED" ELSE status[c]]
      BY <2>2 DEF MonitorTimeout
    <3>3. \A c \in due : op[c].status \in {"UNKNOWN", "RECONCILING"} /\ c \in Command
      OBVIOUS
    <3> HIDE DEF due, failed
    <3>4. status' \in [Command -> Statuses] /\ op' \in [Command -> Operation]
      BY <1>2, <3>1, <3>2
    <3>5. ASSUME NEW c \in Command
          PROVE  RowStep(status[c], op[c].status, status'[c], op'[c].status, journal[c])
      <4>1. CASE c \in due
        <5>1. /\ op'[c].status = "FAILED" /\ op[c].status \in {"UNKNOWN", "RECONCILING"}
              /\ status'[c] = IF status[c] = "UNKNOWN" THEN "FAILED" ELSE status[c]
          BY <3>1, <3>2, <3>3, <4>1
        <5>2. status[c] \notin Unsent \cup {"NONE"}
          BY <5>1 DEF Inv, UnsentInv
        <5> QED
          BY <5>1, <5>2 DEF RowStep, Terminal, Outcomes, Unsent
      <4>2. CASE c \notin due
        BY <3>2, <4>2, RowsStay
      <4> QED
        BY <4>1, <4>2
    <3> QED
      BY <3>4, <3>5 DEF RowsMove
  <2>3. CASE MonitorOffline
    <3>1. status' = Interrupted(status) /\ op' = InterruptedOps(status, op)
      BY <2>3 DEF MonitorOffline
    <3> QED
      BY <3>1, InterruptedMoves DEF Inv
  <2> QED
    BY <2>1, <2>2, <2>3 DEF Monitor
<1>4. TypeOK'
  BY <1>1, <1>3 DEF Inv, TypeOK
<1>5. DownRead /\ WireRead
  BY <1>1 DEF DownRead, WireRead
<1> QED
  BY <1>1, <1>3, <1>4, <1>5, DownReadEffect, CentralStep DEF Inv

\* Time changes no row's state.
LEMMA TickKeeps == ASSUME Inv, Tick PROVE Inv' /\ Moves
<1>1. UNCHANGED <<status, replay, cancels, journal, task, runs, buffer, boot, batch, outbox,
                  routed, wire, down, link, session, presence, connBoot, lastBoot, faults>>
  BY DEF Tick, agent, network
<1>2. ttl' \in [Command -> (-Skew - 1)..Lifetime]
  <2>1. /\ ttl \in [Command -> (-Skew - 1)..Lifetime] /\ Skew \in Nat /\ Lifetime \in Nat
        /\ ttl' = [c \in Command |-> IF status[c] = "NONE" THEN ttl[c]
                                     ELSE Larger(ttl[c] - 1, -Skew - 1)]
    BY TimerAssumption DEF Inv, TypeOK, Tick
  <2>2. \A n \in (-Skew - 1)..Lifetime : Larger(n - 1, -Skew - 1) \in (-Skew - 1)..Lifetime
    BY <2>1 DEF Larger
  <2> QED
    BY <2>1, <2>2
<1>3. op' \in [Command -> Operation] /\ \A c \in Command : op'[c].status = op[c].status
  <2> DEFINE Later(o) == [o EXCEPT !.deadline = IF o.deadline > 0 THEN o.deadline - 1
                                                ELSE o.deadline]
  <2>1. ASSUME NEW o \in Operation
        PROVE  Later(o) \in Operation /\ Later(o).status = o.status
    <3>1. o.deadline \in -1..Timeout
      BY DEF Operation
    <3>2. (IF o.deadline > 0 THEN o.deadline - 1 ELSE o.deadline) \in -1..Timeout
      BY <3>1, TimerAssumption
    <3> QED
      BY <3>2, DeadlineType
  <2>2. op' = [c \in Command |-> Later(op[c])] /\ op \in [Command -> Operation]
    BY DEF Tick, Inv, TypeOK
  <2> HIDE DEF Later
  <2> QED
    BY <2>1, <2>2
<1>4. TypeOK'
  BY <1>1, <1>2, <1>3 DEF Inv, TypeOK
<1>5. DownRead /\ WireRead /\ RowsMove
  BY <1>1, <1>3, RowsStay DEF DownRead, WireRead, RowsMove
<1> QED
  BY <1>1, <1>4, <1>5, DownReadEffect, CentralStep DEF Inv

-----------------------------------------------------------------------------
(* Connections and restarts. *)

\* Steps that lose the connection or the session and write at most interrupted rows.
LEMMA ConnectionLostKeeps ==
    ASSUME Inv, LinkLoss \/ SessionEnds \/ ControlPlaneRestart
    PROVE  Inv' /\ Moves
<1>1. /\ UNCHANGED <<ttl, cancels, journal, task, runs, buffer, boot, batch, outbox, routed,
                     connBoot, lastBoot>>
      /\ faults' = faults \/ faults' = faults + 1
      /\ session' = session \/ session' = FALSE
      /\ presence' = presence \/ presence' = FALSE
      /\ replay' = replay \/ replay' = {}
  <2>1. CASE LinkLoss
    BY <2>1 DEF LinkLoss, central, agent, network
  <2>2. CASE SessionEnds
    BY <2>2 DEF SessionEnds, agent
  <2>3. CASE ControlPlaneRestart
    BY <2>3 DEF ControlPlaneRestart, central, agent
  <2> QED
    BY <2>1, <2>2, <2>3
<1>2. /\ \/ down' = <<>> /\ wire' = <<>> /\ link' = FALSE
         \/ UNCHANGED <<down, wire, link>>
      /\ \/ UNCHANGED <<status, op>>
         \/ status' = Interrupted(status) /\ op' = InterruptedOps(status, op)
  BY DEF LinkLoss, SessionEnds, ControlPlaneRestart, Drop, central
<1>3. DownRead /\ WireRead
  BY <1>2 DEF DownRead, WireRead
<1>4. /\ down' \in Seq(DownMsg) /\ Len(down') <= MaxQueue /\ wire' \in Seq(UpMsg)
      /\ CommandsSent /\ AckShift
  BY <1>3, DownReadEffect, WireReadEffect DEF Inv
<1>5. status' \in [Command -> Statuses] /\ op' \in [Command -> Operation] /\ RowsMove
  <2>1. CASE UNCHANGED <<status, op>>
    BY <2>1, RowsStay DEF Inv, TypeOK, RowsMove
  <2>2. CASE status' = Interrupted(status) /\ op' = InterruptedOps(status, op)
    BY <2>2, InterruptedMoves DEF Inv
  <2> QED
    BY <1>2, <2>1, <2>2
<1>6. faults' \in Nat /\ replay' \subseteq Command
  BY <1>1 DEF Inv, TypeOK
<1>7. TypeOK'
  <2>1. session' \in BOOLEAN /\ presence' \in BOOLEAN
    BY <1>1 DEF Inv, TypeOK
  <2>2. link' \in BOOLEAN
    BY <1>2 DEF Inv, TypeOK
  <2> QED
    BY <1>1, <1>4, <1>5, <1>6, <2>1, <2>2 DEF Inv, TypeOK
<1> QED
  BY <1>1, <1>3, <1>4, <1>5, <1>7, CentralStep

\* A new process fails what its predecessor left active and forgets the connection.
LEMMA AgentRestartKeeps == ASSUME Inv, AgentRestart PROVE Inv' /\ Moves
<1>1. /\ UNCHANGED <<status, ttl, op, replay, cancels, runs, buffer, routed, session, presence,
                     connBoot, lastBoot>>
      /\ boot' = boot + 1 /\ faults' = faults + 1
      /\ journal' = [c \in Command |-> Recovered(journal[c])]
      /\ task' = [c \in Command |-> "none"]
      /\ batch' = 0 /\ outbox' = <<>>
      /\ link' = FALSE /\ down' = <<>> /\ wire' = <<>>
  BY DEF AgentRestart, Drop, central, network
<1>2. journal' \in [Command -> JournalStatuses]
  BY <1>1 DEF Inv, TypeOK, JournalStatuses, Outcomes, Recovered
<1>3. TypeOK'
  <2>1. /\ outbox' \in Seq(Report) /\ Len(outbox') <= MaxQueue
        /\ down' \in Seq(DownMsg) /\ Len(down') <= MaxQueue
        /\ wire' \in Seq(UpMsg)
    BY <1>1, BoundAssumption
  <2>2. boot' \in Nat /\ faults' \in Nat /\ batch' \in 0..Len(buffer')
    BY <1>1 DEF Inv, TypeOK
  <2>3. link' \in BOOLEAN
    BY <1>1
  <2> QED
    BY <1>1, <1>2, <2>1, <2>2, <2>3 DEF Inv, TypeOK
<1>4. Moves
  <2>1. RowsMove
    BY <1>1, RowsStay DEF RowsMove
  <2>2. JournalMoves
    BY <1>1 DEF JournalMoves, Recovered, Outcomes
  <2>3. CommandsSent
    BY <1>1 DEF CommandsSent
  <2> QED
    BY <2>1, <2>2, <2>3 DEF Moves
<1>5. AgentInv'
  <2> SUFFICES ASSUME NEW c \in Command
               PROVE  /\ runs'[c] <= 1
                      /\ journal'[c] \in {"NONE", "ACCEPTED"} => runs'[c] = 0
                      /\ task'[c] = "ready" <=> journal'[c] = "ACCEPTED"
                      /\ task'[c] = "running" <=> journal'[c] = "RUNNING"
                      /\ task'[c] = "closing" => journal'[c] \in Outcomes
    BY DEF AgentInv
  <2>1. journal[c] \in JournalStatuses
    BY DEF Inv, TypeOK
  <2>2. journal'[c] = Recovered(journal[c]) /\ task'[c] = "none" /\ runs'[c] = runs[c]
    BY <1>1
  <2>3. journal'[c] \in {"NONE"} \cup Outcomes /\ (journal'[c] = "NONE" => journal[c] = "NONE")
    BY <2>1, <2>2 DEF Recovered, JournalStatuses, Outcomes
  <2>4. runs[c] <= 1 /\ (journal[c] = "NONE" => runs[c] = 0)
    BY DEF Inv, AgentInv
  <2> QED
    BY <2>2, <2>3, <2>4 DEF Outcomes
<1>6. \A i \in 1..Len(buffer') : \E j \in 1..Len(buffer) : buffer'[i] = buffer[j]
  BY <1>1
<1>7. Len(outbox') = 0 /\ Len(wire') = 0 /\ Len(down') = 0
  BY <1>1
<1>8. BatchInv' /\ AckInv'
  BY <1>7 DEF BatchInv, AckInv
<1> QED
  BY <1>3, <1>4, <1>5, <1>6, <1>7, <1>8, Kept

\* The new connection carries nothing but the request for a report and the batch that
\* was in flight, or a new one, from its first event.
LEMMA ConnectKeeps == ASSUME Inv, Connect PROVE Inv' /\ Moves
<1>1. /\ UNCHANGED <<status, ttl, op, cancels, journal, task, runs, buffer, boot, outbox, routed,
                     faults>>
      /\ link' = TRUE /\ session' = TRUE /\ presence' = TRUE
      /\ connBoot' = boot /\ lastBoot' = connBoot /\ replay' = {}
      /\ down' = <<[type |-> "reconcile"]>>
      /\ batch' \in IF batch > 0 THEN {batch} ELSE IF buffer = <<>> THEN {0} ELSE BatchSizes
      /\ wire' = IF batch' = 0 THEN <<>>
                 ELSE <<[type |-> "batch", events |-> SubSeq(buffer, 1, batch')]>>
  BY DEF Connect, central, agent
<1>2. /\ buffer \in Seq(Event) /\ Len(buffer) \in Nat /\ batch \in 0..Len(buffer)
      /\ BatchSize \in Nat \ {0} /\ MaxQueue \in Nat \ {0}
  BY BoundAssumption DEF Inv, TypeOK
<1>3. batch' \in 0..Len(buffer)
  BY <1>1, <1>2 DEF BatchSizes, Smaller
<1>4. batch' # 0 => /\ SubSeq(buffer, 1, batch') \in Seq(Event)
                    /\ Len(SubSeq(buffer, 1, batch')) = batch'
                    /\ \A i \in 1..batch' : SubSeq(buffer, 1, batch')[i] = buffer[i]
  BY <1>2, <1>3, PrefixPlaces
<1>5. PICK reconcile \in DownMsg : reconcile = [type |-> "reconcile"]
  BY DEF DownMsg
<1>6. /\ down' = <<reconcile>> /\ down' \in Seq(DownMsg) /\ Len(down') = 1
      /\ down'[1].type = "reconcile"
  BY <1>1, <1>5
<1>7. \/ wire' = <<>> /\ batch' = 0
      \/ batch' # 0 /\ \E m \in UpMsg : /\ wire' = <<m>> /\ m.type = "batch"
                                       /\ m.events = SubSeq(buffer, 1, batch')
  <2>1. CASE batch' = 0
    BY <1>1, <2>1
  <2>2. CASE batch' # 0
    <3>1. PICK m \in UpMsg : m = [type |-> "batch", events |-> SubSeq(buffer, 1, batch')]
      BY <1>4, <2>2 DEF UpMsg
    <3> QED
      BY <1>1, <2>2, <3>1
  <2> QED
    BY <2>1, <2>2
<1>8. /\ wire' \in Seq(UpMsg) /\ Len(wire') \in 0..1
      /\ \A i \in 1..Len(wire') : /\ i = 1 /\ batch' # 0 /\ wire'[i].type = "batch"
                                  /\ wire'[i].events = SubSeq(buffer, 1, batch')
  <2>1. CASE wire' = <<>> /\ batch' = 0
    BY <2>1
  <2>2. CASE batch' # 0 /\ wire' # <<>>
    <3>1. PICK m \in UpMsg : /\ wire' = <<m>> /\ m.type = "batch"
                             /\ m.events = SubSeq(buffer, 1, batch')
      BY <1>7, <2>2
    <3>2. Len(wire') = 1 /\ wire'[1] = m /\ wire' \in Seq(UpMsg)
      BY <3>1
    <3> QED
      BY <2>2, <3>1, <3>2
  <2> QED
    BY <1>7, <2>1, <2>2
<1>9. TypeOK'
  BY <1>1, <1>2, <1>3, <1>6, <1>8 DEF Inv, TypeOK
<1>10. Moves
  <2>1. RowsMove
    BY <1>1, RowsStay DEF RowsMove
  <2>2. CommandsSent
    BY <1>6 DEF CommandsSent
  <2> QED
    BY <1>1, <2>1, <2>2 DEF Moves, JournalMoves
<1>11. AgentInv'
  BY <1>1 DEF Inv, AgentInv
<1>12. BatchInv'
  <2>1. ASSUME NEW i \in 1..Len(wire')
        PROVE  BatchOK(wire'[i], buffer', batch', routed')
    <3>1. /\ batch' \in 1..Len(buffer) /\ Len(wire'[i].events) = batch'
          /\ \A k \in 1..batch' : wire'[i].events[k] = buffer[k]
      BY <1>2, <1>3, <1>4, <1>8
    <3>4. batch' \in Nat /\ batch' > 0
      BY <1>2, <3>1
    <3>2. batch' - Len(wire'[i].events) = 0
      BY <3>1, <3>4
    <3>3. \A k \in 1..Len(wire'[i].events) : wire'[i].events[k] = buffer'[0 + k]
      BY <1>1, <3>1
    <3>5. Len(wire'[i].events) \in 1..batch'
      BY <3>1, <3>4
    <3>6. \A k \in 1..0 : buffer'[k] \in routed'
      OBVIOUS
    <3> QED
      BY <3>2, <3>3, <3>5, <3>6 DEF BatchOK
  <2> QED
    BY <1>8, <2>1 DEF BatchInv
<1>13. AckInv'
  BY <1>6 DEF AckInv
<1>14. /\ \A i \in 1..Len(buffer') : \E j \in 1..Len(buffer) : buffer'[i] = buffer[j]
       /\ \A i \in 1..Len(outbox') : \E j \in 1..Len(outbox) : outbox'[i] = outbox[j]
  BY <1>1
<1> QED
  BY <1>8, <1>9, <1>10, <1>11, <1>12, <1>13, <1>14, Kept

-----------------------------------------------------------------------------
(* The Agent's steps. *)

\* What the Agent reads is a message of the control plane.
LEMMA ReceivesEffect ==
    ASSUME TypeOK, NEW type, Receives(type)
    PROVE  /\ down # <<>> /\ Head(down) \in DownMsg /\ Head(down).type = type
           /\ Head(down) = down[1] /\ 1 \in 1..Len(down)
           /\ type \in {"command", "cancel"} => Head(down).cmd \in Command
<1>1. /\ down \in Seq(DownMsg) /\ down # <<>> /\ Head(down).type = type
  BY DEF TypeOK, Receives
<1>2. Head(down) \in DownMsg /\ Head(down) = down[1] /\ 1 \in 1..Len(down)
  BY <1>1, TailPlaces
<1> QED
  BY <1>1, <1>2 DEF DownMsg

\* The types of an Agent's step, from those of the journal, the tasks and the events.
LEMMA AgentTypes ==
    ASSUME Inv, DownRead, WireRead,
           UNCHANGED <<status, ttl, op, replay, cancels, boot, batch, outbox, routed,
                       session, presence, connBoot, lastBoot, faults>>,
           journal' \in [Command -> JournalStatuses],
           task' \in [Command -> {"none", "ready", "running", "closing"}],
           runs' \in [Command -> Nat], link' \in BOOLEAN,
           NEW events \in Seq(Event), buffer' = buffer \o events
    PROVE  TypeOK'
<1>1. /\ down' \in Seq(DownMsg) /\ Len(down') <= MaxQueue /\ wire' \in Seq(UpMsg)
  BY DownReadEffect, WireReadEffect DEF Inv
<1>2. buffer \in Seq(Event) /\ batch \in 0..Len(buffer) /\ Len(events) \in Nat
  BY DEF Inv, TypeOK
<1>3. buffer' \in Seq(Event) /\ Len(buffer') = Len(buffer) + Len(events)
  BY <1>2, ConcatProperties
<1>4. batch' \in 0..Len(buffer')
  BY <1>2, <1>3
<1> QED
  BY <1>1, <1>3, <1>4 DEF Inv, TypeOK

\* One or two events of a command.
LEMMA EventTypes ==
    ASSUME NEW c \in Command, NEW t \in {"REJECTED", "ACCEPTED", "RUNNING"} \cup Outcomes
    PROVE  /\ <<Happens(c, t)>> \in Seq(Event)
           /\ <<Happens(c, "ACCEPTED"), Happens(c, t)>> \in Seq(Event)
           /\ Happens(c, t).cmd = c /\ Happens(c, t).type = t
<1>1. Happens(c, t) \in Event /\ Happens(c, "ACCEPTED") \in Event
  BY DEF Happens, Event
<1> QED
  BY <1>1 DEF Happens

\* A command is journaled once; a replay announces what the journal says.
LEMMA AgentCommandKeeps == ASSUME Inv, AgentCommand PROVE Inv' /\ Moves
<1> DEFINE c == Head(down).cmd
<1>1. /\ down # <<>> /\ c \in Command /\ down[1].type = "command" /\ down[1].cmd = c
      /\ 1 \in 1..Len(down) /\ down' = Tail(down)
  BY ReceivesEffect DEF Inv, AgentCommand
<1>2. UNCHANGED <<status, ttl, op, replay, cancels, runs, boot, batch, outbox, routed, wire,
                  link, session, presence, connBoot, lastBoot, faults>>
  BY DEF AgentCommand, central, network
<1>3. /\ journal \in [Command -> JournalStatuses]
      /\ task \in [Command -> {"none", "ready", "running", "closing"}]
      /\ runs' \in [Command -> Nat] /\ link' \in BOOLEAN
  BY <1>2 DEF Inv, TypeOK
<1>4. DownRead /\ WireRead
  BY <1>1, <1>2 DEF DownRead, WireRead
<1>5. \/ FindReplay(c) /\ Emit(StoredState(c)) /\ UNCHANGED <<journal, task>>
      \/ Emit(<<Happens(c, "REJECTED")>>) /\ UNCHANGED <<journal, task>>
      \/ /\ ~FindReplay(c)
         /\ journal' = [journal EXCEPT ![c] = "ACCEPTED"]
         /\ task' = [task EXCEPT ![c] = "ready"]
         /\ Emit(<<Happens(c, "ACCEPTED")>>)
  BY DEF AgentCommand
<1> HIDE DEF c
<1>6. CASE FindReplay(c) /\ Emit(StoredState(c)) /\ UNCHANGED <<journal, task>>
  <2>1. journal[c] \in {"ACCEPTED", "RUNNING"} \cup Outcomes
    BY <1>1, <1>3, <1>6 DEF FindReplay, JournalStatuses
  <2>2. PICK t \in {"ACCEPTED", "RUNNING"} \cup Outcomes : t = journal[c]
    BY <2>1
  <2>3. /\ <<Happens(c, "ACCEPTED")>> \in Seq(Event)
        /\ <<Happens(c, "ACCEPTED"), Happens(c, t)>> \in Seq(Event)
        /\ Happens(c, "ACCEPTED").type = "ACCEPTED"
        /\ Happens(c, t).cmd = c /\ Happens(c, t).type = t
    BY <1>1, EventTypes
  <2>4. StoredState(c) \in Seq(Event)
    BY <2>2, <2>3 DEF StoredState
  <2>5. \A i \in 1..Len(StoredState(c)) :
          StoredState(c)[i] = Happens(c, "ACCEPTED") \/ StoredState(c)[i] = Happens(c, t)
    <3>1. CASE t = "ACCEPTED"
      <4>1. StoredState(c) = <<Happens(c, "ACCEPTED")>>
        BY <2>2, <3>1 DEF StoredState
      <4> QED
        BY <4>1
    <3>2. CASE t # "ACCEPTED"
      <4>1. StoredState(c) = <<Happens(c, "ACCEPTED"), Happens(c, t)>>
        BY <2>2, <3>2 DEF StoredState
      <4> QED
        BY <4>1
    <3> QED
      BY <3>1, <3>2
  <2>6. \A i \in 1..Len(StoredState(c)) : EventOK(StoredState(c)[i], journal')
    BY <1>6, <2>2, <2>3, <2>5 DEF EventOK
  <2>7. buffer' = buffer \o StoredState(c)
    BY <1>6 DEF Emit
  <2>8. TypeOK'
    BY <1>2, <1>3, <1>4, <1>6, <2>4, <2>7, AgentTypes
  <2>9. AgentInv' /\ JournalMoves
    BY <1>2, <1>6 DEF Inv, AgentInv, JournalMoves
  <2> QED
    BY <1>2, <1>4, <2>4, <2>6, <2>7, <2>8, <2>9, AgentStep
<1>7. CASE Emit(<<Happens(c, "REJECTED")>>) /\ UNCHANGED <<journal, task>>
  <2>1. PICK events \in Seq(Event) : events = <<Happens(c, "REJECTED")>>
    BY <1>1, EventTypes
  <2>2. Happens(c, "REJECTED").type = "REJECTED"
    BY <1>1, EventTypes
  <2>3. \A i \in 1..Len(events) : EventOK(events[i], journal')
    BY <2>1, <2>2 DEF EventOK
  <2>4. buffer' = buffer \o events
    BY <1>7, <2>1 DEF Emit
  <2>5. TypeOK'
    BY <1>2, <1>3, <1>4, <1>7, <2>4, AgentTypes
  <2>6. AgentInv' /\ JournalMoves
    BY <1>2, <1>7 DEF Inv, AgentInv, JournalMoves
  <2> QED
    BY <1>2, <1>4, <2>3, <2>4, <2>5, <2>6, AgentStep
<1>8. CASE /\ ~FindReplay(c)
           /\ journal' = [journal EXCEPT ![c] = "ACCEPTED"]
           /\ task' = [task EXCEPT ![c] = "ready"]
           /\ Emit(<<Happens(c, "ACCEPTED")>>)
  <2>1. PICK events \in Seq(Event) : events = <<Happens(c, "ACCEPTED")>>
    BY <1>1, EventTypes
  <2>2. Happens(c, "ACCEPTED").type = "ACCEPTED"
    BY <1>1, EventTypes
  <2>3. \A i \in 1..Len(events) : EventOK(events[i], journal')
    BY <2>1, <2>2 DEF EventOK
  <2>4. buffer' = buffer \o events
    BY <1>8, <2>1 DEF Emit
  <2>5. /\ journal' \in [Command -> JournalStatuses]
        /\ task' \in [Command -> {"none", "ready", "running", "closing"}]
    BY <1>1, <1>3, <1>8 DEF JournalStatuses
  <2>6. TypeOK'
    BY <1>2, <1>3, <1>4, <2>4, <2>5, AgentTypes
  <2>7. journal[c] = "NONE"
    BY <1>8 DEF FindReplay
  <2>8. AgentInv'
    <3> SUFFICES ASSUME NEW d \in Command
                 PROVE  /\ runs'[d] <= 1
                        /\ journal'[d] \in {"NONE", "ACCEPTED"} => runs'[d] = 0
                        /\ task'[d] = "ready" <=> journal'[d] = "ACCEPTED"
                        /\ task'[d] = "running" <=> journal'[d] = "RUNNING"
                        /\ task'[d] = "closing" => journal'[d] \in Outcomes
      BY DEF AgentInv
    <3>1. CASE d = c
      BY <1>1, <1>2, <1>3, <1>8, <2>7, <3>1 DEF Inv, AgentInv
    <3>2. CASE d # c
      <4>1. journal'[d] = journal[d] /\ task'[d] = task[d] /\ runs'[d] = runs[d]
        BY <1>2, <1>3, <1>8, <3>2
      <4> QED
        BY <4>1 DEF Inv, AgentInv
    <3> QED
      BY <3>1, <3>2
  <2>9. JournalMoves
    BY <1>1, <1>3, <1>8, <2>7 DEF JournalMoves, Outcomes
  <2> QED
    BY <1>2, <1>4, <2>3, <2>4, <2>6, <2>8, <2>9, AgentStep
<1> QED
  BY <1>5, <1>6, <1>7, <1>8

\* A step that moves the journal entry and the task of one command the journal knows.
LEMMA TaskStep ==
    ASSUME Inv, NEW c \in Command, NEW j \in JournalStatuses,
           NEW k \in {"none", "ready", "running", "closing"},
           UNCHANGED <<status, ttl, op, replay, cancels, boot, batch, outbox, routed,
                       session, presence, connBoot, lastBoot, faults>>,
           DownRead, WireRead, link' \in BOOLEAN,
           journal' = [journal EXCEPT ![c] = j], task' = [task EXCEPT ![c] = k],
           runs' \in [Command -> Nat], \A d \in Command \ {c} : runs'[d] = runs[d],
           journal[c] # "NONE", journal[c] \in Outcomes => j = journal[c],
           runs'[c] <= 1, j \notin {"NONE", "ACCEPTED"},
           k = "running" <=> j = "RUNNING", k # "ready",
           k = "closing" => j \in Outcomes,
           NEW events \in Seq(Event), buffer' = buffer \o events,
           \A i \in 1..Len(events) : EventOK(events[i], journal')
    PROVE  Inv' /\ Moves
<1>1. /\ journal \in [Command -> JournalStatuses]
      /\ task \in [Command -> {"none", "ready", "running", "closing"}]
  BY DEF Inv, TypeOK
<1>2. /\ journal' \in [Command -> JournalStatuses]
      /\ task' \in [Command -> {"none", "ready", "running", "closing"}]
      /\ journal'[c] = j /\ task'[c] = k
      /\ \A d \in Command \ {c} : journal'[d] = journal[d] /\ task'[d] = task[d]
  BY <1>1
<1>3. TypeOK'
  BY <1>2, AgentTypes
<1>4. AgentInv'
  <2> SUFFICES ASSUME NEW d \in Command
               PROVE  /\ runs'[d] <= 1
                      /\ journal'[d] \in {"NONE", "ACCEPTED"} => runs'[d] = 0
                      /\ task'[d] = "ready" <=> journal'[d] = "ACCEPTED"
                      /\ task'[d] = "running" <=> journal'[d] = "RUNNING"
                      /\ task'[d] = "closing" => journal'[d] \in Outcomes
    BY DEF AgentInv
  <2>1. CASE d = c
    BY <1>2, <2>1
  <2>2. CASE d # c
    <3>1. journal'[d] = journal[d] /\ task'[d] = task[d] /\ runs'[d] = runs[d]
      BY <1>2, <2>2
    <3> QED
      BY <3>1 DEF Inv, AgentInv
  <2> QED
    BY <2>1, <2>2
<1>5. JournalMoves
  BY <1>2 DEF JournalMoves
<1> QED
  BY <1>3, <1>4, <1>5, AgentStep

\* The executor is called once, for a command just accepted.
LEMMA AgentStartKeeps == ASSUME Inv, NEW c \in Command, AgentStart(c) PROVE Inv' /\ Moves
<1>1. /\ UNCHANGED <<status, ttl, op, replay, cancels, boot, batch, outbox, routed, wire, down,
                     link, session, presence, connBoot, lastBoot, faults>>
      /\ task[c] = "ready"
      /\ task' = [task EXCEPT ![c] = "running"]
      /\ journal' = [journal EXCEPT ![c] = "RUNNING"]
      /\ runs' = [runs EXCEPT ![c] = @ + 1]
      /\ buffer' = buffer \o <<Happens(c, "RUNNING")>>
  BY DEF AgentStart, Emit, central, network
<1>2. journal[c] = "ACCEPTED" /\ runs[c] = 0 /\ runs \in [Command -> Nat]
  BY <1>1 DEF Inv, AgentInv, TypeOK
<1>3. /\ runs' \in [Command -> Nat] /\ runs'[c] = 1
      /\ \A d \in Command \ {c} : runs'[d] = runs[d]
  BY <1>1, <1>2
<1>4. PICK events \in Seq(Event) : events = <<Happens(c, "RUNNING")>>
  BY EventTypes
<1>5. Happens(c, "RUNNING").type = "RUNNING"
  BY EventTypes
<1>6. \A i \in 1..Len(events) : EventOK(events[i], journal')
  BY <1>4, <1>5 DEF EventOK
<1>7. DownRead /\ WireRead
  BY <1>1 DEF DownRead, WireRead
<1>8. link' \in BOOLEAN
  BY <1>1 DEF Inv, TypeOK
<1>9. "RUNNING" \in JournalStatuses /\ "RUNNING" \notin Outcomes /\ "ACCEPTED" \notin Outcomes
  BY DEF JournalStatuses, Outcomes
<1>10. buffer' = buffer \o events
  BY <1>1, <1>4
<1>11. /\ journal[c] # "NONE" /\ journal[c] \notin Outcomes /\ runs'[c] <= 1
  BY <1>2, <1>3, <1>9
<1> QED
  BY <1>1, <1>3, <1>6, <1>7, <1>8, <1>9, <1>10, <1>11, TaskStep

\* The journal entry of a running command ends.
LEMMA AgentCompleteKeeps ==
    ASSUME Inv, NEW c \in Command, NEW o \in Outcomes, AgentComplete(c, o)
    PROVE  Inv' /\ Moves
<1>1. /\ UNCHANGED <<status, ttl, op, replay, cancels, runs, buffer, boot, batch, outbox, routed,
                     wire, down, link, session, presence, connBoot, lastBoot, faults>>
      /\ task[c] = "running"
      /\ task' = [task EXCEPT ![c] = "closing"]
      /\ journal' = [journal EXCEPT ![c] = o]
  BY DEF AgentComplete, central, network
<1>2. journal[c] = "RUNNING" /\ runs[c] <= 1 /\ runs' \in [Command -> Nat]
  BY <1>1 DEF Inv, AgentInv, TypeOK
<1>3. <<>> \in Seq(Event) /\ buffer' = buffer \o <<>> /\ Len(<<>>) = 0
  BY <1>1, ConcatEmptySeq DEF Inv, TypeOK
<1>4. DownRead /\ WireRead
  BY <1>1 DEF DownRead, WireRead
<1>5. link' \in BOOLEAN
  BY <1>1 DEF Inv, TypeOK
<1>6. o \in JournalStatuses /\ "RUNNING" \notin Outcomes /\ o \notin {"NONE", "ACCEPTED"}
  BY DEF JournalStatuses, Outcomes
<1>7. \A i \in 1..Len(<<>>) : EventOK(<<>>[i], journal')
  BY <1>3
<1> QED
  BY <1>1, <1>2, <1>3, <1>4, <1>5, <1>6, <1>7, TaskStep

\* The outcome is announced as the journal has it.
LEMMA AgentEmitKeeps == ASSUME Inv, NEW c \in Command, AgentEmit(c) PROVE Inv' /\ Moves
<1>1. /\ UNCHANGED <<status, ttl, op, replay, cancels, journal, runs, boot, batch, outbox, routed,
                     wire, down, link, session, presence, connBoot, lastBoot, faults>>
      /\ task[c] = "closing"
      /\ task' = [task EXCEPT ![c] = "none"]
      /\ buffer' = buffer \o <<Happens(c, journal[c])>>
  BY DEF AgentEmit, Emit, central, network
<1>2. journal[c] \in Outcomes /\ runs[c] <= 1 /\ runs' \in [Command -> Nat]
  BY <1>1 DEF Inv, AgentInv, TypeOK
<1>3. PICK j \in Outcomes : j = journal[c]
  BY <1>2
<1>4. journal' = [journal EXCEPT ![c] = j]
  BY <1>1, <1>3 DEF Inv, TypeOK
<1>5. PICK events \in Seq(Event) : events = <<Happens(c, j)>>
  BY EventTypes
<1>6. Happens(c, j).type = j /\ Happens(c, j).cmd = c
  BY EventTypes
<1>7. \A i \in 1..Len(events) : EventOK(events[i], journal')
  BY <1>1, <1>3, <1>5, <1>6 DEF EventOK
<1>8. DownRead /\ WireRead
  BY <1>1 DEF DownRead, WireRead
<1>9. link' \in BOOLEAN
  BY <1>1 DEF Inv, TypeOK
<1>10. j \in JournalStatuses /\ j \notin {"NONE", "ACCEPTED", "RUNNING"}
  BY DEF JournalStatuses, Outcomes
<1> QED
  BY <1>1, <1>2, <1>3, <1>4, <1>5, <1>7, <1>8, <1>9, <1>10, TaskStep

\* Only an unfinished command is cancelled, and announced afterwards.
LEMMA AgentCancelKeeps == ASSUME Inv, AgentCancel PROVE Inv' /\ Moves
<1> DEFINE c == Head(down).cmd
<1>1. c \in Command /\ down # <<>>
  BY ReceivesEffect DEF Inv, AgentCancel
<1>2. /\ UNCHANGED <<status, ttl, op, replay, cancels, runs, buffer, boot, batch, outbox, routed,
                     session, presence, connBoot, lastBoot, faults>>
      /\ \/ link' = FALSE /\ down' = <<>> /\ wire' = <<>>
         \/ down' = Tail(down) /\ UNCHANGED <<wire, link>>
      /\ \/ /\ journal[c] \in {"ACCEPTED", "RUNNING"}
            /\ journal' = [journal EXCEPT ![c] = "CANCELLED"]
            /\ task' = [task EXCEPT ![c] = "closing"]
         \/ UNCHANGED <<journal, task>>
  BY DEF AgentCancel, Drop, central, network
<1> HIDE DEF c
<1>3. DownRead /\ WireRead
  BY <1>1, <1>2 DEF DownRead, WireRead
<1>4. link' \in BOOLEAN
  BY <1>2 DEF Inv, TypeOK
<1>5. <<>> \in Seq(Event) /\ buffer' = buffer \o <<>> /\ Len(<<>>) = 0
  BY <1>2, ConcatEmptySeq DEF Inv, TypeOK
<1>6. \A i \in 1..Len(<<>>) : EventOK(<<>>[i], journal')
  BY <1>5
<1>7. CASE /\ journal[c] \in {"ACCEPTED", "RUNNING"}
           /\ journal' = [journal EXCEPT ![c] = "CANCELLED"]
           /\ task' = [task EXCEPT ![c] = "closing"]
  <2>1. runs' \in [Command -> Nat] /\ runs'[c] <= 1
    BY <1>1, <1>2 DEF Inv, AgentInv, TypeOK
  <2>2. /\ "CANCELLED" \in JournalStatuses /\ "CANCELLED" \in Outcomes
        /\ "ACCEPTED" \notin Outcomes /\ "RUNNING" \notin Outcomes
    BY DEF JournalStatuses, Outcomes
  <2> QED
    BY <1>1, <1>2, <1>3, <1>4, <1>5, <1>6, <1>7, <2>1, <2>2, TaskStep
<1>8. CASE UNCHANGED <<journal, task>>
  <2>1. /\ journal' \in [Command -> JournalStatuses]
        /\ task' \in [Command -> {"none", "ready", "running", "closing"}]
        /\ runs' \in [Command -> Nat]
    BY <1>2, <1>8 DEF Inv, TypeOK
  <2>2. TypeOK'
    BY <1>2, <1>3, <1>4, <1>5, <2>1, AgentTypes
  <2>3. AgentInv' /\ JournalMoves
    BY <1>2, <1>8 DEF Inv, AgentInv, JournalMoves
  <2> QED
    BY <1>2, <1>3, <1>5, <1>6, <2>2, <2>3, AgentStep
<1> QED
  BY <1>2, <1>7, <1>8

-----------------------------------------------------------------------------
(* Batches, reports and acknowledgements. *)

\* The acknowledged batch leaves the buffer, and nothing of it is under way any more.
LEMMA AgentAckKeeps == ASSUME Inv, AgentAck PROVE Inv' /\ Moves
<1>1. /\ UNCHANGED <<status, ttl, op, replay, cancels, journal, task, runs, boot, outbox, routed,
                     wire, link, session, presence, connBoot, lastBoot, faults>>
      /\ down' = Tail(down) /\ batch' = 0
      /\ buffer' = SubSeq(buffer, batch + 1, Len(buffer))
  BY DEF AgentAck, Acknowledged, central, network
<1>2. down # <<>> /\ down[1].type = "ack" /\ 1 \in 1..Len(down)
  BY ReceivesEffect DEF Inv, AgentAck
<1>3. down \in Seq(DownMsg) /\ buffer \in Seq(Event) /\ batch \in 0..Len(buffer)
  BY DEF Inv, TypeOK
<1>4. /\ buffer' \in Seq(Event) /\ Len(buffer') = Len(buffer) - batch
      /\ \A i \in 1..Len(buffer') : buffer'[i] = buffer[batch + i]
  BY <1>1, <1>3, SuffixPlaces
<1>5. \A i \in 1..Len(buffer') : \E j \in 1..Len(buffer) : buffer'[i] = buffer[j]
  <2>1. \A i \in 1..Len(buffer') : batch + i \in 1..Len(buffer)
    BY <1>3, <1>4
  <2> QED
    BY <1>4, <2>1
<1>6. DownRead
  BY <1>1, <1>2 DEF DownRead
<1>7. down' \in Seq(DownMsg) /\ Len(down') <= MaxQueue /\ CommandsSent
  BY <1>6, DownReadEffect DEF Inv
<1>8. batch' \in 0..Len(buffer')
  BY <1>1, <1>3, <1>4
<1>9. TypeOK'
  BY <1>1, <1>4, <1>7, <1>8 DEF Inv, TypeOK
<1>10. Moves
  BY <1>1, <1>7, RowsStay DEF Moves, RowsMove, JournalMoves
<1>11. AgentInv'
  BY <1>1 DEF Inv, AgentInv
<1>12. \A j \in 1..Len(wire') : wire'[j].type # "batch"
  BY <1>1, <1>2 DEF Inv, AckInv
<1>13. BatchInv'
  BY <1>12 DEF BatchInv, BatchOK
<1>14. \A i \in 1..Len(down') : down'[i].type # "ack"
  <2> SUFFICES ASSUME NEW i \in 1..Len(down'), down'[i].type = "ack" PROVE FALSE
    OBVIOUS
  <2>1. down'[i] = down[i + 1] /\ i + 1 \in 1..Len(down)
    BY <1>1, <1>2, <1>3, TailPlaces
  <2>2. i + 1 = 1
    BY <1>2, <2>1 DEF Inv, AckInv
  <2> QED
    BY <2>2
<1>15. AckInv'
  BY <1>14 DEF AckInv
<1>16. /\ \A i \in 1..Len(outbox') : \E j \in 1..Len(outbox) : outbox'[i] = outbox[j]
       /\ \A i \in 1..Len(wire') : \E j \in 1..Len(wire) : wire'[i] = wire[j]
  BY <1>1
<1> QED
  BY <1>5, <1>9, <1>10, <1>11, <1>13, <1>15, <1>16, Kept

\* A report is a copy of the journal.
LEMMA AgentReportKeeps == ASSUME Inv, AgentReport PROVE Inv' /\ Moves
<1>1. /\ UNCHANGED <<status, ttl, op, replay, cancels, journal, task, runs, buffer, boot, batch,
                     routed, session, presence, connBoot, lastBoot, faults>>
      /\ \/ /\ Len(outbox) < MaxQueue
            /\ outbox' = Append(outbox, [type |-> "report", states |-> journal])
            /\ down' = Tail(down) /\ UNCHANGED <<wire, link>>
         \/ /\ outbox' = outbox
            /\ link' = FALSE /\ down' = <<>> /\ wire' = <<>>
  BY DEF AgentReport, Drop, central, agent, network
<1>2. down # <<>>
  BY ReceivesEffect DEF Inv, AgentReport
<1>3. DownRead /\ WireRead
  BY <1>1, <1>2 DEF DownRead, WireRead
<1>4. /\ down' \in Seq(DownMsg) /\ Len(down') <= MaxQueue /\ CommandsSent /\ AckShift
      /\ wire' \in Seq(UpMsg) /\ BatchShift
      /\ \A i \in 1..Len(wire') : \E j \in 1..Len(wire) : wire'[i] = wire[j]
  BY <1>3, DownReadEffect, WireReadEffect DEF Inv
<1>5. /\ outbox \in Seq(Report) /\ Len(outbox) \in Nat /\ Len(outbox) <= MaxQueue
      /\ MaxQueue \in Nat
  BY BoundAssumption DEF Inv, TypeOK
<1>6. PICK report \in Report : report = [type |-> "report", states |-> journal]
  BY DEF Report, Inv, TypeOK
<1>7. ReportOK(report, journal)
  BY <1>6 DEF ReportOK
<1>8. /\ outbox' \in Seq(Report) /\ Len(outbox') <= MaxQueue
      /\ \A i \in 1..Len(outbox') : \/ \E j \in 1..Len(outbox) : outbox'[i] = outbox[j]
                                    \/ ReportOK(outbox'[i], journal')
  <2>1. CASE outbox' = outbox
    BY <1>5, <2>1
  <2>2. CASE Len(outbox) < MaxQueue /\ outbox' = Append(outbox, report)
    <3>1. /\ outbox' \in Seq(Report) /\ Len(outbox') = Len(outbox) + 1
          /\ \A i \in 1..Len(outbox) : outbox'[i] = outbox[i]
          /\ \A i \in 1..Len(outbox') : i \in 1..Len(outbox) \/ outbox'[i] = report
      BY <1>5, <2>2, AppendPlaces
    <3>2. Len(outbox') <= MaxQueue
      BY <1>5, <2>2, <3>1
    <3> QED
      BY <1>1, <1>7, <3>1, <3>2
  <2> QED
    BY <1>1, <1>6, <2>1, <2>2
<1>9. link' \in BOOLEAN
  BY <1>1 DEF Inv, TypeOK
<1>10. TypeOK'
  BY <1>1, <1>4, <1>8, <1>9 DEF Inv, TypeOK
<1>11. Moves
  BY <1>1, <1>4, RowsStay DEF Moves, RowsMove, JournalMoves
<1>12. AgentInv'
  BY <1>1 DEF Inv, AgentInv
<1>13. BatchUntouched
  BY <1>1, <1>4 DEF BatchUntouched, Inv, TypeOK
<1>14. BatchInv' /\ AckInv'
  BY <1>10, <1>13, BatchStays
<1>15. \A i \in 1..Len(buffer') : \E j \in 1..Len(buffer) : buffer'[i] = buffer[j]
  BY <1>1
<1> QED
  BY <1>4, <1>8, <1>10, <1>11, <1>12, <1>14, <1>15, Kept

\* A new batch starts at the head of the buffer; no other is under way.
LEMMA SendBatchKeeps == ASSUME Inv, SendBatch PROVE Inv' /\ Moves
<1>1. /\ UNCHANGED <<status, ttl, op, replay, cancels, journal, task, runs, buffer, boot, outbox,
                     routed, down, link, session, presence, connBoot, lastBoot, faults>>
      /\ batch = 0 /\ buffer # <<>> /\ batch' \in BatchSizes
      /\ wire' = Append(wire, [type |-> "batch", events |-> SubSeq(buffer, 1, batch')])
  BY DEF SendBatch, central, agent, network
<1>2. /\ buffer \in Seq(Event) /\ Len(buffer) \in Nat /\ wire \in Seq(UpMsg)
      /\ Len(wire) \in Nat /\ BatchSize \in Nat
  BY BoundAssumption DEF Inv, TypeOK
<1>3. batch' \in 1..Len(buffer)
  BY <1>1, <1>2 DEF BatchSizes, Smaller
<1>4. /\ SubSeq(buffer, 1, batch') \in Seq(Event) /\ Len(SubSeq(buffer, 1, batch')) = batch'
      /\ \A i \in 1..batch' : SubSeq(buffer, 1, batch')[i] = buffer[i]
  <2>1. batch' \in 0..Len(buffer)
    BY <1>3
  <2> QED
    BY <1>2, <2>1, PrefixPlaces
<1>5. PICK m \in UpMsg : m = [type |-> "batch", events |-> SubSeq(buffer, 1, batch')]
  BY <1>4 DEF UpMsg
<1>6. m.type = "batch" /\ m.events = SubSeq(buffer, 1, batch')
  BY <1>5
<1>7. /\ wire' \in Seq(UpMsg) /\ Len(wire') = Len(wire) + 1
      /\ \A i \in 1..Len(wire) : wire'[i] = wire[i]
      /\ \A i \in 1..Len(wire') : i \in 1..Len(wire) \/ wire'[i] = m
      /\ wire'[Len(wire) + 1] = m
  <2>1. wire' = Append(wire, m)
    BY <1>1, <1>5
  <2>2. wire \in Seq(UpMsg) /\ m \in UpMsg
    BY <1>2
  <2> QED
    BY <2>1, <2>2, AppendPlaces
<1>8. TypeOK'
  <2>1. batch' \in 0..Len(buffer')
    BY <1>1, <1>3
  <2> QED
    BY <1>1, <1>7, <2>1 DEF Inv, TypeOK
<1>9. Moves
  <2>1. CommandsSent
    BY <1>1 DEF CommandsSent
  <2> QED
    BY <1>1, <2>1, RowsStay DEF Moves, RowsMove, JournalMoves
<1>10. AgentInv'
  BY <1>1 DEF Inv, AgentInv
<1>11. \A i \in 1..Len(wire) : wire[i].type # "batch"
  <2> SUFFICES ASSUME NEW i \in 1..Len(wire), wire[i].type = "batch" PROVE FALSE
    OBVIOUS
  <2>1. BatchOK(wire[i], buffer, batch, routed)
    BY DEF Inv, BatchInv
  <2>2. Len(wire[i].events) \in 1..0
    BY <1>1, <2>1 DEF BatchOK
  <2> QED
    BY <2>2
<1>12. \A i \in 1..Len(down) : down[i].type # "ack"
  <2> SUFFICES ASSUME NEW i \in 1..Len(down), down[i].type = "ack" PROVE FALSE
    OBVIOUS
  <2>1. batch > 0
    BY DEF Inv, AckInv
  <2> QED
    BY <1>1, <2>1
<1>13. BatchInv'
  <2>1. BatchOK(m, buffer', batch', routed')
    <3>0. batch' \in Nat /\ batch' > 0
      BY <1>2, <1>3
    <3>1. Len(m.events) = batch'
      BY <1>4, <1>6
    <3>7. batch' \in Nat
      BY <3>0
    <3>8. \A n \in Nat : n - n = 0
      OBVIOUS
    <3>4. batch' - batch' = 0
      BY <3>7, <3>8, Zenon
    <3>2. batch' - Len(m.events) = 0
      BY <3>1, <3>4, Zenon
    <3>5. Len(m.events) \in 1..batch'
      BY <3>0, <3>1
    <3>6. \A k \in 1..0 : buffer'[k] \in routed'
      OBVIOUS
    <3>3. \A k \in 1..Len(m.events) : m.events[k] = buffer'[0 + k]
      BY <1>1, <1>4, <1>6, <3>1
    <3> QED
      BY <3>2, <3>3, <3>5, <3>6 DEF BatchOK
  <2>2. ASSUME NEW i \in 1..Len(wire')
        PROVE  BatchOK(wire'[i], buffer', batch', routed')
    <3>1. CASE i \in 1..Len(wire)
      BY <1>7, <1>11, <3>1 DEF BatchOK
    <3>2. CASE wire'[i] = m
      BY <2>1, <3>2
    <3> QED
      BY <1>7, <3>1, <3>2
  <2>3. ASSUME NEW i \in 1..Len(wire'), wire'[i].type = "batch"
        PROVE  i = Len(wire) + 1
    <3>1. i \notin 1..Len(wire)
      BY <1>7, <1>11, <2>3
    <3> QED
      BY <1>2, <1>7, <3>1
  <2> QED
    BY <2>2, <2>3 DEF BatchInv
<1>14. AckInv'
  BY <1>1, <1>12 DEF AckInv
<1>15. /\ \A i \in 1..Len(buffer') : \E j \in 1..Len(buffer) : buffer'[i] = buffer[j]
       /\ \A i \in 1..Len(outbox') : \E j \in 1..Len(outbox) : outbox'[i] = outbox[j]
       /\ \A i \in 1..Len(wire') : \/ \E j \in 1..Len(wire) : wire'[i] = wire[j]
                                   \/ wire'[i].type = "batch"
  BY <1>1, <1>6, <1>7
<1> QED
  BY <1>8, <1>9, <1>10, <1>13, <1>14, <1>15, Kept

\* A queued report goes on the wire.
LEMMA SendReportKeeps == ASSUME Inv, SendReport PROVE Inv' /\ Moves
<1>1. /\ UNCHANGED <<status, ttl, op, replay, cancels, journal, task, runs, buffer, boot, batch,
                     routed, down, link, session, presence, connBoot, lastBoot, faults>>
      /\ outbox # <<>> /\ outbox' = Tail(outbox) /\ wire' = Append(wire, Head(outbox))
  BY DEF SendReport, central, agent, network
<1>2. /\ outbox \in Seq(Report) /\ Len(outbox) <= MaxQueue /\ MaxQueue \in Nat
      /\ wire \in Seq(UpMsg) /\ Len(wire) \in Nat
  BY BoundAssumption DEF Inv, TypeOK
<1>3. /\ outbox' \in Seq(Report) /\ Len(outbox') = Len(outbox) - 1 /\ Len(outbox) \in Nat
      /\ \A i \in 1..Len(outbox') : outbox'[i] = outbox[i + 1] /\ i + 1 \in 1..Len(outbox)
      /\ Head(outbox) = outbox[1] /\ Head(outbox) \in Report /\ 1 \in 1..Len(outbox)
  BY <1>1, <1>2, TailPlaces
<1>4. PICK m \in Report : m = Head(outbox)
  BY <1>3
<1>5. m \in UpMsg /\ m.type = "report" /\ m = outbox[1]
  BY <1>3, <1>4 DEF UpMsg, Report
<1>6. /\ wire' \in Seq(UpMsg)
      /\ \A i \in 1..Len(wire) : wire'[i] = wire[i]
      /\ \A i \in 1..Len(wire') : i \in 1..Len(wire) \/ wire'[i] = m
  BY <1>1, <1>2, <1>4, <1>5, AppendPlaces
<1>7. TypeOK'
  <2>1. Len(outbox') <= MaxQueue
    BY <1>2, <1>3
  <2> QED
    BY <1>1, <1>3, <1>6, <2>1 DEF Inv, TypeOK
<1>8. Moves
  <2>1. CommandsSent
    BY <1>1 DEF CommandsSent
  <2> QED
    BY <1>1, <2>1, RowsStay DEF Moves, RowsMove, JournalMoves
<1>9. AgentInv'
  BY <1>1 DEF Inv, AgentInv
<1>10. BatchUntouched
  <2>1. \A i \in 1..Len(wire') : wire'[i].type = "batch" =>
          i + 0 \in 1..Len(wire) /\ wire[i + 0] = wire'[i]
    BY <1>2, <1>5, <1>6
  <2>2. BatchShift
    BY <2>1 DEF BatchShift
  <2>3. DownRead
    BY <1>1 DEF DownRead
  <2> QED
    BY <1>1, <2>2, <2>3, DownReadEffect DEF BatchUntouched, Inv, TypeOK
<1>11. BatchInv' /\ AckInv'
  BY <1>7, <1>10, BatchStays
<1>12. /\ \A i \in 1..Len(buffer') : \E j \in 1..Len(buffer) : buffer'[i] = buffer[j]
       /\ \A i \in 1..Len(outbox') : \E j \in 1..Len(outbox) : outbox'[i] = outbox[j]
       /\ \A i \in 1..Len(wire') : \/ \E j \in 1..Len(wire) : wire'[i] = wire[j]
                                   \/ \E j \in 1..Len(outbox) : wire'[i] = outbox[j]
  BY <1>1, <1>3, <1>5, <1>6
<1> QED
  BY <1>7, <1>8, <1>9, <1>11, <1>12, Kept

-----------------------------------------------------------------------------
(* What the control plane receives. *)

\* The message at the head of the wire.
LEMMA ArrivesEffect ==
    ASSUME TypeOK, NEW type, Arrives(type)
    PROVE  /\ wire # <<>> /\ wire[1].type = type /\ wire[1] \in UpMsg /\ 1 \in 1..Len(wire)
           /\ Head(wire) = wire[1] /\ wire \in Seq(UpMsg) /\ Len(wire) \in Nat
<1>1. wire \in Seq(UpMsg) /\ wire # <<>> /\ Head(wire).type = type
  BY DEF TypeOK, Arrives
<1> QED
  BY <1>1, TailPlaces

\* An event of the batch on the wire is the next of the batch in flight: it is announced
\* truthfully, what comes before it was routed, and no acknowledgement is under way.
LEMMA NextEvent ==
    ASSUME Inv, Arrives("batch")
    PROVE  LET m == wire[1]
               e == Head(Head(wire).events)
               n == batch - Len(m.events)
           IN /\ m.events \in Seq(Event) /\ m.events # <<>> /\ m = Head(wire)
              /\ Len(m.events) \in 1..batch /\ n \in Nat /\ n + 1 \in 1..batch
              /\ \A k \in 1..Len(m.events) : m.events[k] = buffer[n + k]
              /\ \A k \in 1..n : buffer[k] \in routed
              /\ e \in Event /\ e = buffer[n + 1] /\ EventOK(e, journal)
              /\ \A i \in 1..Len(down) : down[i].type # "ack"
              /\ \A i \in 1..Len(wire) : wire[i].type = "batch" => i = 1
<1>1. /\ wire[1].type = "batch" /\ wire[1] \in UpMsg /\ 1 \in 1..Len(wire)
      /\ Head(wire) = wire[1]
  BY ArrivesEffect DEF Inv
<1>2. wire[1].events \in Seq(Event)
  BY <1>1 DEF UpMsg, Report
<1>3. PICK s \in Seq(Event) : s = wire[1].events
  BY <1>2
<1>4. /\ Len(s) \in 1..batch
      /\ \A k \in 1..Len(s) : s[k] = buffer[batch - Len(s) + k]
      /\ \A k \in 1..(batch - Len(s)) : buffer[k] \in routed
  BY <1>1, <1>3 DEF Inv, BatchInv, BatchOK
<1>5. batch \in Nat /\ batch \in 0..Len(buffer) /\ Len(buffer) \in Nat /\ Len(s) \in Nat
  BY <1>3 DEF Inv, TypeOK
<1>6. batch - Len(s) \in Nat /\ batch - Len(s) + 1 \in 1..batch
  BY <1>4, <1>5
<1>7. s # <<>>
  BY <1>4
<1>8. Head(s) = s[1] /\ Head(s) \in Event /\ 1 \in 1..Len(s)
  BY <1>7, TailPlaces
<1>9. Head(s) = buffer[batch - Len(s) + 1]
  BY <1>4, <1>8
<1>10. EventOK(Head(s), journal)
  <2>1. batch - Len(s) + 1 \in 1..Len(buffer)
    BY <1>5, <1>6
  <2> QED
    BY <1>9, <2>1 DEF Inv, EventInv
<1>11. \A i \in 1..Len(down) : down[i].type # "ack"
  BY <1>1 DEF Inv, AckInv
<1>12. \A i \in 1..Len(wire) : wire[i].type = "batch" => i = 1
  BY <1>1 DEF Inv, BatchInv
<1> QED
  BY <1>1, <1>3, <1>4, <1>6, <1>7, <1>8, <1>9, <1>10, <1>11, <1>12

\* The rows after an event.
LEMMA EventRows ==
    ASSUME Inv, ReceiveEvent
    PROVE  /\ status' \in [Command -> Statuses] /\ op' \in [Command -> Operation]
           /\ RowsMove
<1> DEFINE e == Head(Head(wire).events)
<1>1. /\ Arrives("batch")
      /\ status' = [status EXCEPT ![e.cmd] = Handled(e).status]
      /\ op' = [op EXCEPT ![e.cmd] = Handled(e).op]
  BY DEF ReceiveEvent
<1>2. e \in Event /\ EventOK(e, journal)
  BY <1>1, NextEvent
<1> HIDE DEF e
<1>3. /\ Handled(e).status \in Statuses /\ Handled(e).op \in Operation
      /\ RowStep(status[e.cmd], op[e.cmd].status, Handled(e).status, Handled(e).op.status,
                 journal[e.cmd])
  BY <1>2, HandledEffect
<1>4. /\ status \in [Command -> Statuses] /\ op \in [Command -> Operation]
      /\ e.cmd \in Command
  BY <1>2 DEF Inv, TypeOK, Event
<1>5. /\ status'[e.cmd] = Handled(e).status /\ op'[e.cmd] = Handled(e).op
      /\ \A c \in Command \ {e.cmd} : status'[c] = status[c] /\ op'[c] = op[c]
  BY <1>1, <1>4
<1>6. ASSUME NEW c \in Command
      PROVE  RowStep(status[c], op[c].status, status'[c], op'[c].status, journal[c])
  <2>1. CASE c = e.cmd
    BY <1>3, <1>5, <2>1
  <2>2. CASE c # e.cmd
    BY <1>5, <2>2, RowsStay
  <2> QED
    BY <2>1, <2>2
<1> QED
  BY <1>1, <1>3, <1>4, <1>6 DEF RowsMove

\* An event that is not the last leaves the rest of its batch on the wire.
LEMMA RestOfBatch ==
    ASSUME Inv, Arrives("batch"), Len(Head(wire).events) # 1
    PROVE  LET m    == wire[1]
               rest == [wire EXCEPT ![1].events = Tail(@)]
           IN /\ rest \in Seq(UpMsg) /\ Len(rest) = Len(wire)
              /\ \A i \in 1..Len(wire) : i # 1 => rest[i] = wire[i]
              /\ rest[1].type = "batch" /\ rest[1].events = Tail(m.events)
<1>1. /\ wire[1].type = "batch" /\ wire[1] \in UpMsg /\ 1 \in 1..Len(wire)
      /\ wire \in Seq(UpMsg)
  BY ArrivesEffect DEF Inv
<1>2. wire[1] \in [type : {"batch"}, events : Seq(Event)]
  BY <1>1 DEF UpMsg, Report
<1>3. Tail(wire[1].events) \in Seq(Event)
  BY NextEvent, TailPlaces
<1>4. PICK r \in UpMsg : /\ r = [wire[1] EXCEPT !.events = Tail(wire[1].events)]
                         /\ r.type = "batch" /\ r.events = Tail(wire[1].events)
  <2>1. \A b \in [type : {"batch"}, events : Seq(Event)], s \in Seq(Event) :
          /\ [b EXCEPT !.events = s] \in [type : {"batch"}, events : Seq(Event)]
          /\ [b EXCEPT !.events = s].type = "batch" /\ [b EXCEPT !.events = s].events = s
    OBVIOUS
  <2>2. PICK r : r = [wire[1] EXCEPT !.events = Tail(wire[1].events)]
    OBVIOUS
  <2>3. /\ r \in [type : {"batch"}, events : Seq(Event)] /\ r.type = "batch"
        /\ r.events = Tail(wire[1].events)
    BY <1>2, <1>3, <2>1, <2>2
  <2> QED
    BY <2>2, <2>3 DEF UpMsg
<1>5. [wire EXCEPT ![1].events = Tail(@)] = [wire EXCEPT ![1] = r]
  BY <1>4
<1> QED
  BY <1>1, <1>4, <1>5, ExceptSeq

\* An event is routed, and its batch goes on, is acknowledged or is lost with the
\* connection.
LEMMA ReceiveEventKeeps == ASSUME Inv, ReceiveEvent PROVE Inv' /\ Moves
<1> DEFINE m == wire[1]
           e == Head(Head(wire).events)
           n == batch - Len(m.events)
           rest == IF Len(m.events) = 1 THEN Tail(wire)
                   ELSE [wire EXCEPT ![1].events = Tail(@)]
<1>1. /\ UNCHANGED <<ttl, replay, cancels, journal, task, runs, buffer, boot, batch, outbox,
                     session, presence, connBoot, lastBoot, faults>>
      /\ Arrives("batch")
  BY DEF ReceiveEvent, agent, network
<1>2. /\ m.events \in Seq(Event) /\ m.events # <<>> /\ m = Head(wire)
      /\ Len(m.events) \in 1..batch /\ n \in Nat /\ n + 1 \in 1..batch
      /\ \A k \in 1..Len(m.events) : m.events[k] = buffer[n + k]
      /\ \A k \in 1..n : buffer[k] \in routed
      /\ e \in Event /\ e = buffer[n + 1]
      /\ \A i \in 1..Len(down) : down[i].type # "ack"
      /\ \A i \in 1..Len(wire) : wire[i].type = "batch" => i = 1
  BY <1>1, NextEvent
<1>3. /\ status' \in [Command -> Statuses] /\ op' \in [Command -> Operation]
      /\ RowsMove
  BY EventRows
<1>4. /\ wire \in Seq(UpMsg) /\ wire # <<>> /\ Len(wire) \in Nat /\ 1 \in 1..Len(wire)
      /\ m.type = "batch"
  BY <1>1, ArrivesEffect DEF Inv
<1>5. \/ Drop /\ routed' = routed
      \/ /\ routed' = routed \cup {e}
         /\ \/ Len(m.events) = 1 /\ Post([type |-> "ack"], Tail(wire))
            \/ /\ Len(m.events) # 1
               /\ wire' = [wire EXCEPT ![1].events = Tail(@)] /\ UNCHANGED <<down, link>>
  BY <1>2 DEF ReceiveEvent
<1>10. PICK len \in Nat : len = Len(m.events)
  BY <1>2
<1>11. batch \in Nat /\ n = batch - len /\ n \in Nat /\ len \in 1..batch
  BY <1>2, <1>10 DEF Inv, TypeOK
<1> HIDE DEF n, m, e
<1>6. ASSUME TypeOK', CommandsSent, BatchInv', AckInv',
             \A i \in 1..Len(wire') : \/ \E j \in 1..Len(wire) : wire'[i] = wire[j]
                                      \/ wire'[i].type = "batch"
      PROVE  Inv' /\ Moves
  <2>1. Moves
    BY <1>1, <1>3, <1>6 DEF Moves, JournalMoves
  <2>2. AgentInv'
    BY <1>1 DEF Inv, AgentInv
  <2>3. /\ \A i \in 1..Len(buffer') : \E j \in 1..Len(buffer) : buffer'[i] = buffer[j]
        /\ \A i \in 1..Len(outbox') : \E j \in 1..Len(outbox) : outbox'[i] = outbox[j]
    BY <1>1
  <2> QED
    BY <1>6, <2>1, <2>2, <2>3, Kept
<1>7. CASE Drop /\ routed' = routed
  <2>1. down' = <<>> /\ wire' = <<>> /\ link' = FALSE
    BY <1>7 DEF Drop
  <2>2. DownRead /\ WireRead
    BY <2>1 DEF DownRead, WireRead
  <2>3. /\ down' \in Seq(DownMsg) /\ Len(down') <= MaxQueue /\ wire' \in Seq(UpMsg)
        /\ CommandsSent /\ AckShift
    BY <2>2, DownReadEffect, WireReadEffect DEF Inv
  <2>4. link' \in BOOLEAN
    BY <2>1
  <2>5. TypeOK'
    BY <1>1, <1>3, <1>7, <2>3, <2>4 DEF Inv, TypeOK
  <2> QED
    BY <1>1, <1>3, <1>7, <2>2, <2>3, <2>5, CentralStep
<1>8. CASE /\ routed' = routed \cup {e}
           /\ Len(m.events) = 1 /\ Post([type |-> "ack"], Tail(wire))
  <2>1. PICK ack \in DownMsg : ack = [type |-> "ack"]
    BY DEF DownMsg
  <2>2. /\ Tail(wire) \in Seq(UpMsg) /\ Len(Tail(wire)) = Len(wire) - 1
        /\ \A i \in 1..Len(Tail(wire)) : Tail(wire)[i] = wire[i + 1] /\ i + 1 \in 1..Len(wire)
    BY <1>4, TailPlaces
  <2>3. /\ down' \in Seq(DownMsg) /\ Len(down') <= MaxQueue
        /\ wire' \in Seq(UpMsg) /\ link' \in BOOLEAN
        /\ \/ down' = <<>> /\ wire' = <<>>
           \/ down' = down /\ wire' = Tail(wire)
           \/ down' = Append(down, ack) /\ wire' = Tail(wire)
    BY <1>8, <2>1, <2>2, PostEffect DEF Inv
  <2>4. routed' \subseteq Event
    BY <1>2, <1>8 DEF Inv, TypeOK
  <2>5. TypeOK'
    BY <1>1, <1>3, <2>3, <2>4 DEF Inv, TypeOK
  <2>6. \A i \in 1..Len(wire') : /\ \E j \in 1..Len(wire) : wire'[i] = wire[j]
                                 /\ wire'[i].type # "batch"
    <3>1. CASE wire' = <<>>
      BY <3>1
    <3>2. CASE wire' = Tail(wire)
      <4>1. \A i \in 1..Len(wire') : /\ wire'[i] = wire[i + 1] /\ i + 1 \in 1..Len(wire)
                                     /\ i + 1 # 1
        BY <1>4, <2>2, <3>2
      <4> QED
        BY <1>2, <4>1
    <3> QED
      BY <2>3, <3>1, <3>2
  <2>7. BatchInv'
    BY <2>6 DEF BatchInv, BatchOK
  <2>8. \A i \in 1..Len(down') : \/ i \in 1..Len(down) /\ down'[i] = down[i]
                                 \/ i = Len(down) + 1 /\ down'[i] = ack
    <3>1. down \in Seq(DownMsg) /\ Len(down) \in Nat
      BY DEF Inv, TypeOK
    <3>2. CASE down' = Append(down, ack)
      <4>1. /\ Len(down') = Len(down) + 1
            /\ \A i \in 1..Len(down) : down'[i] = down[i]
            /\ down'[Len(down) + 1] = ack
        BY <3>1, <3>2, AppendPlaces
      <4>2. \A i \in 1..(Len(down) + 1) : i \in 1..Len(down) \/ i = Len(down) + 1
        BY <3>1
      <4> QED
        BY <4>1, <4>2
    <3>3. CASE down' = <<>>
      BY <3>3
    <3>4. CASE down' = down
      BY <3>4
    <3> QED
      BY <2>3, <3>2, <3>3, <3>4
  <2>9. CommandsSent
    BY <2>1, <2>8 DEF CommandsSent
  <2>10. n + 1 = batch
    BY <1>8, <1>10, <1>11
  <2>11. \A k \in 1..batch : buffer[k] \in routed'
    <3>1. \A k \in 1..batch : k \in 1..n \/ k = n + 1
      BY <1>2, <2>10
    <3> QED
      BY <1>2, <1>8, <3>1
  <2>12. AckInv'
    <3>1. \A i \in 1..Len(down') : down'[i].type = "ack" => i = Len(down) + 1
      BY <1>2, <2>8
    <3>2. batch' > 0 /\ \A k \in 1..batch' : buffer'[k] \in routed'
      BY <1>1, <1>11, <2>10, <2>11
    <3> QED
      BY <2>6, <3>1, <3>2 DEF AckInv
  <2> QED
    BY <1>6, <2>5, <2>6, <2>7, <2>9, <2>12
<1>9. CASE /\ routed' = routed \cup {e} /\ Len(m.events) # 1
           /\ wire' = [wire EXCEPT ![1].events = Tail(@)] /\ UNCHANGED <<down, link>>
  <2>1. /\ wire' \in Seq(UpMsg) /\ Len(wire') = Len(wire)
        /\ \A i \in 1..Len(wire) : i # 1 => wire'[i] = wire[i]
        /\ wire'[1].type = "batch" /\ wire'[1].events = Tail(m.events)
    BY <1>1, <1>2, <1>9, RestOfBatch
  <2>2. routed' \subseteq Event
    BY <1>2, <1>9 DEF Inv, TypeOK
  <2>3. TypeOK'
    BY <1>1, <1>3, <1>9, <2>1, <2>2 DEF Inv, TypeOK
  <2>4. \A i \in 1..Len(wire') : \/ \E j \in 1..Len(wire) : wire'[i] = wire[j]
                                 \/ wire'[i].type = "batch"
    BY <2>1
  <2>5. CommandsSent
    BY <1>9 DEF CommandsSent
  <2>6. AckInv'
    BY <1>2, <1>9 DEF AckInv
  <2>7. BatchOK(wire'[1], buffer', batch', routed')
    <3>1. PICK s \in Seq(Event) : s = m.events
      BY <1>2
    <3>2. /\ Len(Tail(s)) = Len(s) - 1
          /\ \A k \in 1..Len(Tail(s)) : Tail(s)[k] = s[k + 1] /\ k + 1 \in 1..Len(s)
      BY <1>2, <3>1, TailPlaces
    <3>3. Len(s) = len /\ len \in 2..batch /\ batch' = batch
      <4>1. Len(s) = len /\ len # 1 /\ batch' = batch
        BY <1>1, <1>9, <1>10, <3>1, Zenon
      <4> QED
        BY <1>11, <4>1
    <3>8. Len(Tail(s)) = len - 1 /\ batch' - Len(Tail(s)) = n + 1
      <4>1. Len(Tail(s)) = len - 1
        BY <3>2, <3>3
      <4>2. batch - (len - 1) = n + 1
        BY <1>11
      <4> QED
        BY <3>3, <4>1, <4>2, Zenon
    <3>4. wire'[1].events = Tail(s)
      BY <2>1, <3>1
    <3>5. Len(Tail(s)) \in 1..batch'
      BY <1>11, <3>3, <3>8
    <3>6. \A k \in 1..Len(Tail(s)) : Tail(s)[k] = buffer'[n + 1 + k]
      <4> SUFFICES ASSUME NEW k \in 1..Len(Tail(s)) PROVE Tail(s)[k] = buffer[n + 1 + k]
        BY <1>1
      <4>1. Tail(s)[k] = s[k + 1] /\ k + 1 \in 1..Len(s)
        BY <3>2
      <4>2. s[k + 1] = buffer[n + (k + 1)]
        BY <1>2, <3>1, <4>1
      <4>3. n + (k + 1) = n + 1 + k
        BY <1>11, <3>8
      <4> QED
        BY <4>1, <4>2, <4>3
    <3>7. \A k \in 1..(n + 1) : buffer'[k] \in routed'
      <4>1. \A k \in 1..(n + 1) : k \in 1..n \/ k = n + 1
        BY <1>2
      <4> QED
        BY <1>1, <1>2, <1>9, <4>1
    <3> QED
      BY <3>4, <3>5, <3>6, <3>7, <3>8 DEF BatchOK
  <2>8. BatchInv'
    <3>1. \A i \in 1..Len(wire') : wire'[i].type = "batch" => i = 1
      BY <1>2, <2>1
    <3>2. \A i \in 1..Len(wire') : BatchOK(wire'[i], buffer', batch', routed')
      BY <2>7, <3>1 DEF BatchOK
    <3> QED
      BY <3>1, <3>2 DEF BatchInv
  <2> QED
    BY <1>6, <2>3, <2>4, <2>5, <2>6, <2>8
<1> QED
  BY <1>5, <1>7, <1>8, <1>9 DEF m

\* A report fails nothing the Agent's journal calls a success, and ends nothing that had
\* ended; what it says is still true.
LEMMA ReceiveReportKeeps == ASSUME Inv, ReceiveReport PROVE Inv' /\ Moves
<1>1. /\ UNCHANGED <<ttl, cancels, journal, task, runs, buffer, boot, batch, outbox, routed,
                     session, presence, connBoot, lastBoot>>
      /\ Arrives("report")
  BY DEF ReceiveReport, agent, network
<1>2. /\ wire[1].type = "report" /\ wire[1] \in UpMsg /\ 1 \in 1..Len(wire)
      /\ wire # <<>> /\ Head(wire) = wire[1]
  BY <1>1, ArrivesEffect DEF Inv
<1>3. PICK states \in [Command -> JournalStatuses] : states = Head(wire).states
  BY <1>2 DEF UpMsg, Report
<1>4. \A c \in Command : states[c] \in {"SUCCEEDED", "CANCELLED"} => journal[c] = states[c]
  BY <1>2, <1>3 DEF Inv, WireInv, ReportOK
<1>5. /\ \/ UNCHANGED <<status, op>>
         \/ /\ status' = [c \in Command |-> ReconciledCommand(status[c], states[c])]
            /\ op' = [c \in Command |-> ReconciledOperation(op[c], states[c])]
      /\ replay' = replay \/ replay' \subseteq Command
      /\ faults' = faults \/ faults' = faults + 1
      /\ \/ Drop
         \/ wire' = Tail(wire) /\ UNCHANGED <<down, link>>
  BY <1>3 DEF ReceiveReport
<1>6. status' \in [Command -> Statuses] /\ op' \in [Command -> Operation] /\ RowsMove
  <2>1. status \in [Command -> Statuses] /\ op \in [Command -> Operation]
    BY DEF Inv, TypeOK
  <2>2. CASE UNCHANGED <<status, op>>
    BY <2>1, <2>2, RowsStay DEF RowsMove
  <2>3. CASE /\ status' = [c \in Command |-> ReconciledCommand(status[c], states[c])]
             /\ op' = [c \in Command |-> ReconciledOperation(op[c], states[c])]
    <3>1. ASSUME NEW c \in Command
          PROVE  /\ ReconciledCommand(status[c], states[c]) \in Statuses
                 /\ ReconciledOperation(op[c], states[c]) \in Operation
                 /\ RowStep(status[c], op[c].status, ReconciledCommand(status[c], states[c]),
                            ReconciledOperation(op[c], states[c]).status, journal[c])
      <4>1. /\ status[c] \in Statuses /\ op[c] \in Operation
            /\ states[c] \in JournalStatuses
        BY <2>1
      <4>2. status[c] \in Unsent \cup {"NONE"} => op[c].status \in {"NONE", "CREATED"}
        BY DEF Inv, UnsentInv
      <4> QED
        BY <1>4, <4>1, <4>2, ReconciledEffect
    <3> QED
      BY <2>3, <3>1 DEF RowsMove
  <2> QED
    BY <1>5, <2>2, <2>3
<1>7. DownRead /\ WireRead
  BY <1>2, <1>5 DEF Drop, DownRead, WireRead
<1>8. /\ down' \in Seq(DownMsg) /\ Len(down') <= MaxQueue /\ wire' \in Seq(UpMsg)
      /\ CommandsSent /\ AckShift
  BY <1>7, DownReadEffect, WireReadEffect DEF Inv
<1>9. TypeOK'
  <2>1. link' \in BOOLEAN
    BY <1>5 DEF Inv, TypeOK, Drop
  <2>2. faults' \in Nat /\ replay' \subseteq Command
    BY <1>5 DEF Inv, TypeOK
  <2> QED
    BY <1>1, <1>6, <1>8, <2>1, <2>2 DEF Inv, TypeOK
<1> QED
  BY <1>1, <1>6, <1>7, <1>8, <1>9, CentralStep

\* A command is sent again only while its row still is QUEUED or UNKNOWN.
LEMMA RedispatchKeeps == ASSUME Inv, NEW c \in Command, Redispatch(c) PROVE Inv' /\ Moves
<1> DEFINE msg == [type |-> "command", cmd |-> c]
<1>1. /\ UNCHANGED <<ttl, cancels, journal, task, runs, buffer, boot, batch, outbox, routed,
                     session, presence, connBoot, lastBoot, faults>>
      /\ replay' = replay \ {c}
      /\ \/ Dispatchable(c) /\ Send(c, status, op)
         \/ /\ Dispatchable(c) /\ ExpireAll({c})
            /\ UNCHANGED <<down, link, wire>>
         \/ UNCHANGED <<status, op, down, link, wire>>
  BY DEF Redispatch, agent, network
<1>2. status \in [Command -> Statuses] /\ op \in [Command -> Operation]
  BY DEF Inv, TypeOK
<1>3. replay' \subseteq Command
  BY <1>1 DEF Inv, TypeOK
<1>4. msg \in DownMsg /\ msg.type = "command" /\ msg.cmd = c
  BY DEF DownMsg
<1> HIDE DEF msg
<1>5. CASE Dispatchable(c) /\ Send(c, status, op)
  <2>1. status[c] \in Unsent \cup {"UNKNOWN"}
    BY <1>5 DEF Dispatchable, Unsent
  <2>2. /\ status' \in [Command -> Statuses] /\ op' \in [Command -> Operation]
        /\ down' \in Seq(DownMsg) /\ Len(down') <= MaxQueue
        /\ wire' \in Seq(UpMsg) /\ link' \in BOOLEAN
        /\ \/ down' = <<>> /\ wire' = <<>>
           \/ down' = down /\ wire' = wire
           \/ down' = Append(down, msg) /\ wire' = wire
        /\ status'[c] \in {"DISPATCHED", "UNKNOWN"}
        /\ \A d \in Command \ {c} :
             /\ status'[d] = IF status[d] \in Active /\ status'[d] = "UNKNOWN"
                               THEN "UNKNOWN" ELSE status[d]
             /\ status[d] \notin Active => op'[d].status = op[d].status
        /\ \A d \in Command :
             \/ op'[d].status = op[d].status
             \/ /\ op[d].status \notin Outcomes
                /\ op'[d].status \in {"DISPATCHED", "UNKNOWN"}
    BY <1>2, <1>5, <2>1, SendEffect DEF Inv, msg
  <2>3. TypeOK'
    BY <1>1, <1>3, <2>2 DEF Inv, TypeOK
  <2>4. ASSUME NEW d \in Command
        PROVE  RowStep(status[d], op[d].status, status'[d], op'[d].status, journal[d])
    <3>1. CASE d = c
      BY <2>1, <2>2, <3>1 DEF RowStep, Terminal, Outcomes, Unsent
    <3>2. CASE d # c
      BY <2>2, <3>2 DEF RowStep, Terminal, Outcomes, Unsent, Active
    <3> QED
      BY <3>1, <3>2
  <2>5. CommandsSent /\ AckShift
    BY <1>4, <2>2, PostedEffect DEF Inv, DownRead, Unsent
  <2> QED
    BY <1>1, <2>2, <2>3, <2>4, <2>5, CentralStep DEF RowsMove, WireRead
<1>6. CASE \/ /\ Dispatchable(c) /\ ExpireAll({c})
              /\ UNCHANGED <<down, link, wire>>
           \/ UNCHANGED <<status, op, down, link, wire>>
  <2>1. status' \in [Command -> Statuses] /\ op' \in [Command -> Operation] /\ RowsMove
    <3>1. CASE Dispatchable(c) /\ ExpireAll({c})
      BY <3>1, ExpireEffect DEF Inv, Dispatchable, Expirable
    <3>2. CASE UNCHANGED <<status, op>>
      BY <1>2, <3>2, RowsStay DEF RowsMove
    <3> QED
      BY <1>6, <3>1, <3>2
  <2>2. UNCHANGED <<down, link, wire>>
    BY <1>6
  <2>3. TypeOK'
    BY <1>1, <1>3, <2>1, <2>2 DEF Inv, TypeOK
  <2>4. DownRead /\ WireRead
    BY <2>2 DEF DownRead, WireRead
  <2> QED
    BY <1>1, <2>1, <2>3, <2>4, DownReadEffect, CentralStep DEF Inv
<1> QED
  BY <1>1, <1>5, <1>6

-----------------------------------------------------------------------------
(* The invariant. *)

\* The initial state: no row, no entry, no message.
LEMMA InitInv == Init => Inv
<1> SUFFICES ASSUME Init PROVE Inv
  OBVIOUS
<1>1. /\ buffer = <<>> /\ outbox = <<>> /\ wire = <<>> /\ down = <<>> /\ routed = {}
      /\ Len(buffer) = 0 /\ Len(outbox) = 0 /\ Len(wire) = 0 /\ Len(down) = 0 /\ batch = 0
      /\ status = [c \in Command |-> "NONE"] /\ journal = [c \in Command |-> "NONE"]
      /\ task = [c \in Command |-> "none"] /\ runs = [c \in Command |-> 0]
      /\ \A c \in Command : op[c].status = "NONE"
  BY DEF Init
<1>2. op \in [Command -> Operation]
  <2>1. [status |-> "NONE", deadline |-> -1, seen |-> 0] \in Operation
    BY TimerAssumption DEF Operation, OpStatuses
  <2> QED
    BY <2>1 DEF Init
<1>3. ttl \in [Command -> (-Skew - 1)..Lifetime]
  BY TimerAssumption DEF Init
<1>4. /\ buffer \in Seq(Event) /\ batch \in 0..Len(buffer)
      /\ outbox \in Seq(Report) /\ Len(outbox) <= MaxQueue
      /\ wire \in Seq(UpMsg) /\ down \in Seq(DownMsg) /\ Len(down) <= MaxQueue
  BY <1>1, BoundAssumption
<1>5. link \in BOOLEAN /\ session \in BOOLEAN /\ presence \in BOOLEAN
  BY DEF Init
<1>6. boot \in Nat /\ connBoot \in Nat /\ lastBoot \in Nat /\ faults \in Nat
  BY DEF Init
<1>7. replay \subseteq Command /\ cancels \subseteq Command /\ routed \subseteq Event
  BY DEF Init
<1>8. TypeOK
  BY <1>1, <1>2, <1>3, <1>4, <1>5, <1>6, <1>7 DEF TypeOK, Statuses, JournalStatuses
<1>9. AgentInv
  BY <1>1 DEF AgentInv, Outcomes
<1>10. UnsentInv /\ CancelInv
  BY <1>1 DEF UnsentInv, CancelInv
<1>11. HonestSuccess
  BY <1>1 DEF HonestSuccess
<1>12. EventInv /\ OutboxInv /\ WireInv
  BY <1>1 DEF EventInv, OutboxInv, WireInv
<1>13. BatchInv /\ AckInv
  BY <1>1 DEF BatchInv, AckInv
<1> QED
  BY <1>8, <1>9, <1>10, <1>11, <1>12, <1>13 DEF Inv

\* A step that changes no variable.
LEMMA StutterInv == ASSUME Inv, UNCHANGED vars PROVE Inv'
<1>1. UNCHANGED <<status, ttl, op, replay, cancels, journal, task, runs, buffer, boot, batch,
                  outbox, routed, wire, down, link, session, presence, connBoot, lastBoot,
                  faults>>
  BY DEF vars, central, agent, network
<1>2. TypeOK' /\ AgentInv' /\ UnsentInv' /\ CancelInv'
  BY <1>1 DEF Inv, TypeOK, AgentInv, UnsentInv, CancelInv
<1>3. HonestSuccess' /\ EventInv' /\ OutboxInv' /\ WireInv'
  BY <1>1 DEF Inv, HonestSuccess, EventInv, OutboxInv, WireInv, EventOK, ReportOK
<1>4. BatchInv' /\ AckInv'
  BY <1>1 DEF Inv, BatchInv, AckInv, BatchOK
<1> QED
  BY <1>2, <1>3, <1>4 DEF Inv

\* Every action of the system.
LEMMA NextKeeps == ASSUME Inv, Next PROVE Inv' /\ Moves
<1>1. CASE Api
  BY <1>1, CreateKeeps, DispatchCrashKeeps, CancelKeeps DEF Api
<1>2. CASE Monitor
  BY <1>2, MonitorKeeps DEF Monitor
<1>3. CASE Network
  BY <1>3, ConnectKeeps, ConnectionLostKeeps, AgentRestartKeeps DEF Network
<1>4. CASE AgentReads
  BY <1>4, AgentCommandKeeps, AgentCancelKeeps, AgentAckKeeps, AgentReportKeeps DEF AgentReads
<1>5. CASE Routes
  BY <1>5, ReceiveEventKeeps, ReceiveReportKeeps, RedispatchKeeps DEF Routes
<1>6. CASE \E c \in Command : Execute(c)
  BY <1>6, AgentStartKeeps, AgentEmitKeeps, AgentCompleteKeeps DEF Execute
<1> QED
  BY <1>1, <1>2, <1>3, <1>4, <1>5, <1>6, SendBatchKeeps, SendReportKeeps, TickKeeps DEF Next

\* A step keeps the invariant and makes no move but the allowed ones.
LEMMA StepKeeps == ASSUME Inv, [Next]_vars PROVE Inv' /\ Moves
<1>1. CASE Next
  BY <1>1, NextKeeps
<1>2. CASE UNCHANGED vars
  <2>1. UNCHANGED <<status, op, journal, down>>
    BY <1>2 DEF vars, central, agent
  <2>2. Moves
    BY <2>1, RowsStay DEF Moves, RowsMove, JournalMoves, CommandsSent
  <2> QED
    BY <1>2, <2>2, StutterInv
<1> QED
  BY <1>1, <1>2

\* The state the control plane, the Agent and the network share satisfies Inv always.
THEOREM InvariantHolds == Spec => []Inv
<1>1. Init => Inv
  BY InitInv
<1>2. Inv /\ [Next]_vars => Inv'
  BY StepKeeps
<1> QED
  BY <1>1, <1>2, PTL DEF Spec

-----------------------------------------------------------------------------
(* The properties. *)

\* Every row, journal entry, queue and counter stays in its range, the queues within
\* outgoing_queue_size.
THEOREM TypeCorrect == Spec => []TypeOK
<1>1. Inv => TypeOK
  BY DEF Inv
<1> QED
  BY <1>1, InvariantHolds, PTL

\* The Agent's executor is called at most once for a command: the journal entry written
\* before the call is never removed, and a known command is not started again.
THEOREM AtMostOnceHolds == Spec => []AtMostOnce
<1>1. Inv => AtMostOnce
  BY DEF Inv, AgentInv, AtMostOnce
<1> QED
  BY <1>1, InvariantHolds, PTL

\* A success in remote_commands or distributed_operations has a SUCCEEDED journal entry
\* on the Agent behind it, whichever of event and report told the control plane.
THEOREM HonestSuccessHolds == Spec => []HonestSuccess
<1>1. Inv => HonestSuccess
  BY DEF Inv
<1> QED
  BY <1>1, InvariantHolds, PTL

\* A command cancelled by request_cancel(), by an event or by a report never has another
\* outcome in the Agent's journal.
THEOREM CancelledIsFinalHolds == Spec => []CancelledIsFinal
<1>1. Inv => CancelledIsFinal
  BY DEF Inv, CancelInv, CancelledIsFinal
<1> QED
  BY <1>1, InvariantHolds, PTL

\* No handler takes a command, an operation or a journal entry out of a final state.
THEOREM TerminalStableHolds == Spec => TerminalStable
<1> DEFINE Stays == \A c \in Command :
                      /\ status[c] \in Terminal => status'[c] = status[c]
                      /\ op[c].status \in Outcomes => op'[c].status = op[c].status
                      /\ journal[c] \in Outcomes => journal'[c] = journal[c]
<1>1. Inv /\ [Next]_vars => Stays
  BY StepKeeps DEF Moves, RowsMove, RowStep, JournalMoves
<1>2. Inv /\ [Next]_vars => [Stays]_vars
  BY <1>1
<1> QED
  BY <1>2, InvariantHolds, PTL DEF Spec, TerminalStable

\* Only an acknowledgement takes events out of the buffer, and only after the whole of
\* its batch was routed.
LEMMA EventsLeaveRouted ==
    ASSUME Inv, [Next]_vars, Len(buffer') < Len(buffer)
    PROVE  \A i \in 1..(Len(buffer) - Len(buffer')) : buffer[i] \in routed
<1>1. buffer \in Seq(Event) /\ Len(buffer) \in Nat /\ batch \in 0..Len(buffer)
  BY DEF Inv, TypeOK
<1>2. buffer' # buffer
  BY <1>1
<1>3. \A events \in Seq(Event) : buffer' # buffer \o events
  BY <1>1, ConcatProperties
<1>4. ASSUME NEW c \in Command, NEW t \in {"REJECTED", "ACCEPTED", "RUNNING"} \cup Outcomes
      PROVE  ~Emit(<<Happens(c, t)>>) /\ ~Emit(<<Happens(c, "ACCEPTED"), Happens(c, t)>>)
  BY <1>3, EventTypes DEF Emit
<1>5. CASE AgentAck
  <2>1. buffer' = SubSeq(buffer, batch + 1, Len(buffer)) /\ down[1].type = "ack"
        /\ 1 \in 1..Len(down)
    BY <1>5, ReceivesEffect DEF Inv, AgentAck, Acknowledged
  <2>2. Len(buffer) - Len(buffer') = batch
    <3>1. Len(buffer') = Len(buffer) - batch
      BY <1>1, <2>1, SuffixPlaces
    <3> QED
      BY <1>1, <3>1
  <2>3. \A k \in 1..batch : buffer[k] \in routed
    BY <2>1 DEF Inv, AckInv
  <2> QED
    BY <2>2, <2>3
<1>6. ASSUME ~AgentAck PROVE FALSE
  <2>1. ~AgentCommand
    <3> SUFFICES ASSUME AgentCommand PROVE FALSE
      OBVIOUS
    <3>1. Head(down).cmd \in Command
      BY ReceivesEffect DEF Inv, AgentCommand
    <3>2. PICK c \in Command : c = Head(down).cmd
      BY <3>1
    <3>3. ~Emit(<<Happens(c, "REJECTED")>>) /\ ~Emit(<<Happens(c, "ACCEPTED")>>)
      BY <1>4
    <3>4. FindReplay(c) => ~Emit(StoredState(c))
      <4> SUFFICES ASSUME FindReplay(c), journal[c] # "ACCEPTED"
                   PROVE  ~Emit(<<Happens(c, "ACCEPTED"), Happens(c, journal[c])>>)
        BY <3>3 DEF StoredState
      <4>1. journal[c] \in {"RUNNING"} \cup Outcomes
        BY DEF Inv, TypeOK, JournalStatuses, FindReplay
      <4> QED
        BY <1>4, <4>1
    <3> QED
      BY <3>2, <3>3, <3>4 DEF AgentCommand
  <2>2. ASSUME NEW c \in Command PROVE ~Execute(c)
    <3>1. ~AgentStart(c)
      BY <1>4 DEF AgentStart
    <3>2. ~AgentEmit(c)
      <4>1. task[c] = "closing" => journal[c] \in Outcomes
        BY DEF Inv, AgentInv
      <4> QED
        BY <1>4, <4>1 DEF AgentEmit
    <3>3. \A o \in Outcomes : ~AgentComplete(c, o)
      BY <1>2 DEF AgentComplete
    <3> QED
      BY <3>1, <3>2, <3>3 DEF Execute
  <2>3. ~Api
    BY <1>2 DEF Api, Create, DispatchCrash, Cancel, agent
  <2>4. ~Monitor
    BY <1>2 DEF Monitor, MonitorExpire, MonitorTimeout, MonitorOffline, agent
  <2>5. ~Network
    BY <1>2 DEF Network, Connect, LinkLoss, SessionEnds, ControlPlaneRestart, AgentRestart, agent
  <2>6. ~AgentReads
    BY <1>2, <1>6, <2>1 DEF AgentReads, AgentCancel, AgentReport, agent
  <2>7. ~Routes
    BY <1>2 DEF Routes, ReceiveEvent, ReceiveReport, Redispatch, agent
  <2>8. ~SendBatch /\ ~SendReport /\ ~Tick
    BY <1>2 DEF SendBatch, SendReport, Tick, agent
  <2>9. buffer' = buffer \/ Next
    BY DEF vars, agent
  <2> QED
    BY <1>2, <2>2, <2>3, <2>4, <2>5, <2>6, <2>7, <2>8, <2>9 DEF Next
<1> QED
  BY <1>5, <1>6

\* An event leaves agent_event_buffer only after the control plane routed it: through
\* link losses, batches cut short by an exception, and restarts of either side.
THEOREM NoEventLostHolds == Spec => NoEventLost
<1> DEFINE Routed == Len(buffer') < Len(buffer) =>
                      \A i \in 1..(Len(buffer) - Len(buffer')) : buffer[i] \in routed
<1>1. Inv /\ [Next]_vars => [Routed]_vars
  BY EventsLeaveRouted
<1> QED
  BY <1>1, InvariantHolds, PTL DEF Spec, NoEventLost
=============================================================================

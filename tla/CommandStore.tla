---------------------------- MODULE CommandStore ----------------------------
(***************************************************************************)
(* The control plane's rows of remote commands, of the operation each      *)
(* carries and of its delivery attempts.  Every repository method is one   *)
(* immediate transaction, but a service reads a row, suspends (a send to   *)
(* the Agent, an authorisation) and writes a changed copy of what it read. *)
(* The module shows what the compare-and-set rules of the repository keep  *)
(* true whatever copies its callers write and in whatever order.           *)
(***************************************************************************)
EXTENDS Naturals, FiniteSets

CONSTANTS
    CommandId,      \* identifiers the callers generate
    RequestKey,     \* idempotency keys
    Content,        \* what is asked: type, payload, reservation, principal
    Writer,         \* coroutines that hold a copy of a row
    MaxCount,       \* bound: delivery attempts of one command
    MaxStamp        \* bound: Agent timestamps, 1..MaxStamp

ASSUME StoreAssumption ==
    /\ IsFiniteSet(CommandId) /\ IsFiniteSet(Writer)
    /\ MaxCount \in Nat \ {0} /\ MaxStamp \in Nat \ {0}

VARIABLES
    commandRows,    \* remote_commands, by identifier
    operationRows,  \* distributed_operations, by their command
    attemptRows,    \* remote_command_attempts
    copies          \* what each writer last read and has not yet written back

storeVars == <<commandRows, operationRows, attemptRows, copies>>

NoRecord == [status |-> "NONE"]

CommandTerminal == {"SUCCEEDED", "FAILED", "CANCELLED", "EXPIRED"}

OperationTerminal == {"SUCCEEDED", "FAILED", "CANCELLED"}

\* The statuses a command may take after each status that is not terminal.
CommandFollows ==
    [CREATED    |-> {"QUEUED", "DISPATCHED", "EXPIRED", "CANCELLED"},
     QUEUED     |-> {"DISPATCHED", "EXPIRED", "CANCELLED"},
     DISPATCHED |-> {"ACCEPTED", "CANCELLED", "FAILED", "EXPIRED", "UNKNOWN"},
     ACCEPTED   |-> {"RUNNING", "SUCCEEDED", "FAILED", "CANCELLED", "UNKNOWN"},
     RUNNING    |-> {"SUCCEEDED", "FAILED", "CANCELLED", "UNKNOWN"},
     UNKNOWN    |-> {"ACCEPTED", "RUNNING"} \cup CommandTerminal]

OperationFollows ==
    [CREATED     |-> {"DISPATCHED", "CANCELLED", "FAILED"},
     DISPATCHED  |-> {"ACCEPTED", "UNKNOWN", "CANCELLED", "FAILED"},
     ACCEPTED    |-> {"RUNNING", "UNKNOWN"} \cup OperationTerminal,
     RUNNING     |-> {"UNKNOWN"} \cup OperationTerminal,
     UNKNOWN     |-> {"RECONCILING"} \cup OperationTerminal,
     RECONCILING |-> {"ACCEPTED", "RUNNING"} \cup OperationTerminal]

CommandStatus == DOMAIN CommandFollows \cup CommandTerminal

OperationStatus == DOMAIN OperationFollows \cup OperationTerminal

\* _require_remote_command_transition: a row may be written again with the
\* status it has, and otherwise moves along the table.
CommandTransition(old, new) ==
    new = old \/ (old \in DOMAIN CommandFollows /\ new \in CommandFollows[old])

OperationTransition(old, new) ==
    new = old \/ (old \in DOMAIN OperationFollows /\ new \in OperationFollows[old])

StoreInit ==
    /\ commandRows = [c \in CommandId |-> NoRecord]
    /\ operationRows = [c \in CommandId |-> NoRecord]
    /\ attemptRows = {}
    /\ copies = [w \in Writer |-> NoRecord]

-----------------------------------------------------------------------------
\* The row a new command collides with: the one with its identifier, or the
\* one with its idempotency key at the same Agent.
Colliding(id, key) ==
    {c \in CommandId : /\ commandRows[c] # NoRecord
                       /\ c = id \/ commandRows[c].key = key}

\* _require_same_command_request
SameRequest(c, key, content) ==
    commandRows[c].key = key /\ commandRows[c].content = content

Copy(c, rows) == [status |-> "READ", id |-> c, row |-> rows[c]]

\* create_bundle: one transaction inserts the command and the operation it
\* carries, if any, or hands back the rows an identical request created.  A
\* different request under the same key is refused.
CreateBundle(w, id, key, content, carries) ==
    \/ /\ Colliding(id, key) = {}
       /\ commandRows' = [commandRows EXCEPT ![id] =
            [status |-> "CREATED", key |-> key, content |-> content,
             count |-> 0, carries |-> carries]]
       /\ operationRows' = [operationRows EXCEPT ![id] =
            IF carries THEN [status |-> "CREATED", stamp |-> 0] ELSE NoRecord]
       /\ copies' = [copies EXCEPT ![w] = Copy(id, commandRows')]
       /\ UNCHANGED attemptRows
    \/ \E c \in Colliding(id, key) :
       /\ SameRequest(c, key, content)
       /\ copies' = [copies EXCEPT ![w] = Copy(c, commandRows)]
       /\ UNCHANGED <<commandRows, operationRows, attemptRows>>

\* get_command and get_operation_for_command
ReadRows(w, c) ==
    /\ \E rows \in {commandRows, operationRows} :
         /\ rows[c] # NoRecord
         /\ copies' = [copies EXCEPT ![w] = Copy(c, rows)]
    /\ UNCHANGED <<commandRows, operationRows, attemptRows>>

\* What a writer holds is a copy of a command, or of an operation.
HoldsCommand(w) == copies[w] # NoRecord /\ "key" \in DOMAIN copies[w].row

HoldsOperation(w) == copies[w] # NoRecord /\ "stamp" \in DOMAIN copies[w].row

-----------------------------------------------------------------------------
\* Mutant: the transition is checked against the caller's own copy only
CommandCurrentUnchecked(copy) == TRUE

\* SQLiteRemoteCommandRepository.update: nothing is written unless the row
\* still has the status the caller read and the number of attempts it read.
CommandCurrent(copy) ==
    /\ commandRows[copy.id].status = copy.row.status
    /\ commandRows[copy.id].count = copy.row.count

UpdateCommand(w, status) ==
    /\ HoldsCommand(w)
    /\ CommandTransition(copies[w].row.status, status)
    /\ CommandCurrent(copies[w])
    /\ commandRows' = [commandRows EXCEPT ![copies[w].id] =
                          [copies[w].row EXCEPT !.status = status]]
    /\ copies' = [copies EXCEPT ![w] = NoRecord]
    /\ UNCHANGED <<operationRows, attemptRows>>

\* Mutant: a late report of the Agent is written over a newer one
OperationCurrentAnyStamp(copy, stamp) ==
    operationRows[copy.id].status = copy.row.status

\* SQLiteDistributedOperationRepository.update: the expected status again, and
\* an Agent timestamp older than the one recorded is dropped.  Only a write
\* that carries a timestamp is compared (0 is no timestamp).
OperationCurrent(copy, stamp) ==
    LET row == operationRows[copy.id] IN
    /\ row.status = copy.row.status
    /\ row.stamp # 0 /\ stamp # 0 => stamp >= row.stamp

UpdateOperation(w, status, stamp) ==
    /\ HoldsOperation(w)
    /\ OperationTransition(copies[w].row.status, status)
    /\ OperationCurrent(copies[w], stamp)
    /\ operationRows' = [operationRows EXCEPT ![copies[w].id] =
                            [status |-> status, stamp |-> stamp]]
    /\ copies' = [copies EXCEPT ![w] = NoRecord]
    /\ UNCHANGED <<commandRows, attemptRows>>

-----------------------------------------------------------------------------
AttemptsOf(c) == {a \in attemptRows : a.id = c}

\* Mutant: the count is incremented whatever the caller read
AttemptFollowsAny(copy) == TRUE

\* add_attempt counts an attempt and inserts it in one transaction, when the
\* number of attempts is still the one the caller read; record_attempt raises
\* otherwise.  The same attempt number from another writer is another row, so
\* it is refused.
AttemptFollows(copy) ==
    /\ ~ \E a \in AttemptsOf(copy.id) : a.number = copy.row.count + 1
    /\ commandRows[copy.id].count = copy.row.count

AddAttempt(w) ==
    /\ HoldsCommand(w)
    /\ copies[w].row.count < MaxCount
    /\ AttemptFollows(copies[w])
    /\ LET c == copies[w].id IN
       /\ commandRows' = [commandRows EXCEPT ![c].count = @ + 1]
       /\ attemptRows' = attemptRows \cup
            {[id |-> c, number |-> copies[w].row.count + 1, end |-> "OPEN"]}
       /\ copies' = [copies EXCEPT ![w] = NoRecord]
    /\ UNCHANGED operationRows

\* acknowledge_latest_attempt looks at the attempt with the highest number.
LatestAttempt(c) ==
    {a \in AttemptsOf(c) : \A b \in AttemptsOf(c) : b.number <= a.number}

\* finish_attempt: an attempt that has an end keeps it.
FinishAttempt(c, end) ==
    /\ \E a \in LatestAttempt(c) :
         /\ a.end = "OPEN"
         /\ attemptRows' = (attemptRows \ {a}) \cup {[a EXCEPT !.end = end]}
    /\ UNCHANGED <<commandRows, operationRows, copies>>

StoreNext ==
    \/ \E w \in Writer, id \in CommandId, key \in RequestKey, content \in Content,
          carries \in BOOLEAN : CreateBundle(w, id, key, content, carries)
    \/ \E w \in Writer, c \in CommandId : ReadRows(w, c)
    \/ \E w \in Writer, s \in CommandStatus : UpdateCommand(w, s)
    \/ \E w \in Writer, s \in OperationStatus, t \in 0..MaxStamp : UpdateOperation(w, s, t)
    \/ \E w \in Writer : AddAttempt(w)
    \/ \E c \in CommandId, end \in {"ACKNOWLEDGED", "FAILED"} : FinishAttempt(c, end)

StoreSpec == StoreInit /\ [][StoreNext]_storeVars

-----------------------------------------------------------------------------
StoreTypeOK ==
    /\ commandRows \in [CommandId -> {NoRecord} \cup
         [status : CommandStatus, key : RequestKey, content : Content,
          count : 0..MaxCount, carries : BOOLEAN]]
    /\ operationRows \in [CommandId -> {NoRecord} \cup
         [status : OperationStatus, stamp : 0..MaxStamp]]
    /\ attemptRows \subseteq
         [id : CommandId, number : 1..MaxCount,
          end : {"OPEN", "ACKNOWLEDGED", "FAILED"}]
    /\ \A w \in Writer : copies[w] = NoRecord \/ copies[w].id \in CommandId

\* However many callers retry with one idempotency key, one command exists for
\* it; a command and the operation it carries exist together; and the attempts
\* of a command are exactly those numbered 1 to its attempt_count
\* (distributed_adapters.create_bundle, distributed.add_attempt).
StoreConsistent ==
    /\ \A c, d \in CommandId :
         commandRows[c] # NoRecord /\ commandRows[d] # NoRecord
           /\ commandRows[c].key = commandRows[d].key => c = d
    /\ \A c \in CommandId :
         (operationRows[c] # NoRecord)
           <=> (commandRows[c] # NoRecord /\ commandRows[c].carries)
    /\ \A c \in CommandId :
         /\ commandRows[c] = NoRecord => AttemptsOf(c) = {}
         /\ commandRows[c] # NoRecord =>
              /\ {a.number : a \in AttemptsOf(c)} = 1..commandRows[c].count
              /\ Cardinality(AttemptsOf(c)) = commandRows[c].count

\* Whatever copy a writer held and however long, a terminal command or
\* operation never leaves its status, a request is never rewritten under its
\* identifier, the Agent's newest timestamp is never replaced by an older one,
\* attempts are never uncounted and a finished attempt keeps its end (the expected_status and attempt_count checks of distributed.update).
SettledRowsStay ==
    [][/\ \A c \in CommandId :
            commandRows[c] # NoRecord =>
              /\ commandRows[c].status \in CommandTerminal =>
                   commandRows'[c].status = commandRows[c].status
              /\ commandRows'[c].content = commandRows[c].content
              /\ commandRows'[c].count >= commandRows[c].count
       /\ \A c \in CommandId :
            operationRows[c].status \in OperationTerminal =>
              operationRows'[c].status = operationRows[c].status
       /\ \A c \in CommandId :
            operationRows[c] # NoRecord /\ operationRows'[c].stamp # 0 =>
              operationRows'[c].stamp >= operationRows[c].stamp
       /\ \A a \in attemptRows : a.end # "OPEN" => a \in attemptRows'
      ]_storeVars
=============================================================================

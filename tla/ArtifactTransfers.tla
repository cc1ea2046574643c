---------------------------- MODULE ArtifactTransfers ----------------------------
(***************************************************************************)
(* How a file an Agent produced reaches the control plane's immutable      *)
(* store (control_plane_core/artifacts.py, the routes of api.py, the       *)
(* upload request of runtime.py, the Agent's _AuxiliaryAdapter).           *)
(*                                                                         *)
(* The Agent announces the file with an ARTIFACT_CREATED event, kept in    *)
(* its durable buffer until the control plane acknowledges it.  Handling   *)
(* the event registers the file and pushes an upload request that carries  *)
(* a capability: a transfer row and a secret kept in memory only.  The     *)
(* Agent's reader performs the upload before it reads its next message,    *)
(* in a thread that outlives the connection, so two uploads may run with   *)
(* one capability.  CI maintenance repeats the request until it gives up.  *)
(***************************************************************************)
EXTENDS SideBySide, Naturals, Sequences, FiniteSets, SequencesExt

CONSTANTS
    Artifact,           \* the files Agents produce
    MaxTransfers,       \* bound: transfer rows ever issued
    MaxPuts,            \* bound: uploads the Agent starts
    OutboxLimit,        \* messages queued for the Agent
    MaxTransferFaults   \* bound: drops, crashes, failed writes, expiries

ASSUME TransferAssumption ==
    /\ MaxTransfers \in Nat /\ MaxPuts \in Nat
    /\ OutboxLimit \in Nat \ {0} /\ MaxTransferFaults \in Nat

VARIABLES
    buffered,    \* artifacts whose ARTIFACT_CREATED event awaits its EVENT_ACK
    connected,   \* the Agent's socket is attached to the hub
    outbox,      \* messages pushed to the Agent and not yet read
    awaiting,    \* the upload the Agent's reader waits for, 0 when it reads
    remote,      \* the remote_artifacts row of each artifact
    stored,      \* artifacts whose verified content is in the store
    transfers,   \* the artifact_transfers rows, in the order they were issued
    capability,  \* memory: the transfer whose secret the control plane holds
    recent,      \* memory: artifacts asked for within the last five seconds
    puts,        \* the HTTP uploads under way
    putCount,    \* uploads ever started
    givenUp,     \* artifacts CI maintenance no longer asks for
    transferFaults

transferVars == <<buffered, connected, outbox, awaiting, remote, stored, transfers,
                  capability, recent, puts, putCount, givenUp, transferFaults>>

agentVars == <<buffered, connected, outbox, awaiting>>

TransferStatus == {"PENDING", "IN_PROGRESS", "FAILED", "COMPLETED", "EXPIRED"}
Open == {"PENDING", "IN_PROGRESS", "FAILED"}
Direction == {"upload", "download"}

NewTransfer(a, direction) ==
    [artifact |-> a, direction |-> direction, status |-> "PENDING", count |-> 0, late |-> FALSE]

TransferRows == [artifact : Artifact, direction : Direction, status : TransferStatus,
                 count : Nat, late : BOOLEAN]
Put == [id : 1..MaxPuts, transfer : 1..MaxTransfers, number : Nat,
        stage : {"sent", "writing", "ok", "error"}]
PutMessage(t) == [kind |-> "request", transfer |-> t]
AckMessage(a) == [kind |-> "ack", artifact |-> a]
PushMessage == {PutMessage(t) : t \in 1..MaxTransfers} \cup {AckMessage(a) : a \in Artifact}

----------------------------------------------------------------------------
(* The transfer rows. *)

\* A row changes status only along these arrows; COMPLETED and EXPIRED are final.
Transitions(from) ==
    CASE from = "PENDING"     -> {"IN_PROGRESS", "FAILED", "EXPIRED"}
      [] from = "IN_PROGRESS" -> {"COMPLETED", "FAILED", "EXPIRED"}
      [] from = "FAILED"      -> {"IN_PROGRESS", "EXPIRED"}
      [] OTHER                -> {}

\* update_transfer: the row moves to status when it is in one of the expected
\* ones, and is left alone when it is not.
Moved(rows, t, expected, status) ==
    IF rows[t].status \in expected /\ status \in Transitions(rows[t].status) \cup {rows[t].status}
    THEN [rows EXCEPT ![t].status = status] ELSE rows

\* add_attempt: an attempt is recorded when no other has taken its number.
AttemptFits(t, number) == transfers[t].count = number - 1

Counted(rows, t) == [rows EXCEPT ![t].count = @ + 1]

\* Mutant: only the rows whose time has passed are closed.
SupersedeLate(a) ==
    [t \in DOMAIN transfers |->
        IF transfers[t].artifact = a /\ transfers[t].direction = "upload" /\ transfers[t].status \in Open
           /\ transfers[t].late
        THEN [transfers[t] EXCEPT !.status = "EXPIRED"] ELSE transfers[t]]

\* Rows of an earlier capability whose secret is lost are closed.
Supersede(a) ==
    [t \in DOMAIN transfers |->
        IF transfers[t].artifact = a /\ transfers[t].direction = "upload" /\ transfers[t].status \in Open
        THEN [transfers[t] EXCEPT !.status = "EXPIRED"] ELSE transfers[t]]

----------------------------------------------------------------------------
(* The connection. *)

Disconnect == connected' = FALSE /\ outbox' = <<>> /\ awaiting' = 0

\* The Agent dials again and reconciles.
Connect ==
    /\ ~connected
    /\ connected' = TRUE
    /\ UNCHANGED <<buffered, outbox, awaiting, remote, stored, transfers, capability, recent,
                   puts, putCount, givenUp, transferFaults>>

Fault == transferFaults < MaxTransferFaults /\ transferFaults' = transferFaults + 1

\* The socket is lost; the thread that uploads goes on.
DropLink ==
    /\ connected /\ Fault
    /\ Disconnect
    /\ UNCHANGED <<buffered, remote, stored, transfers, capability, recent, puts, putCount, givenUp>>

----------------------------------------------------------------------------
(* Asking for an upload. *)

\* Mutant: a capability is reused whatever its age.
LiveForever(a) == capability[a] # 0

\* The secret is in memory and its time has not passed.
Live(a) == capability[a] # 0 /\ ~transfers[capability[a]].late

CanIssue(a) == Live(a) \/ Len(transfers) < MaxTransfers

\* request_artifact_upload, up to the push: a dead capability is replaced.
Issue(a) ==
    IF Live(a) THEN UNCHANGED <<transfers, capability>>
    ELSE /\ transfers' = Append(Supersede(a), NewTransfer(a, "upload"))
         /\ capability' = [capability EXCEPT ![a] = Len(transfers) + 1]

\* Within one process a live capability is pushed at most once in five seconds.
Throttled(a) == Live(a) /\ a \in recent

Pushable == connected /\ Len(outbox) < OutboxLimit

\* register_remote_artifact through the SQLite repository: a file already
\* marked uploaded cannot be registered again, the call raises.
Registers(a) == remote[a] # "uploaded"

\* The Agent's command publishes the file it made.
Publish(a) ==
    /\ remote[a] = "none" /\ a \notin buffered
    /\ buffered' = buffered \cup {a}
    /\ UNCHANGED <<connected, outbox, awaiting, remote, stored, transfers, capability, recent,
                   puts, putCount, givenUp, transferFaults>>

\* The batch with the event reaches the gateway: the file is registered, the
\* upload is asked for, and the acknowledgement is queued behind the request.
HandleArtifactCreated(a) ==
    /\ connected /\ a \in buffered /\ AckMessage(a) \notin Range(outbox)
    /\ Registers(a) /\ CanIssue(a)
    /\ Throttled(a) \/ Pushable
    /\ remote' = [remote EXCEPT ![a] = "registered"]
    /\ Issue(a)
    /\ outbox' = IF Throttled(a) THEN Append(outbox, AckMessage(a))
                 ELSE outbox \o <<PutMessage(capability'[a]), AckMessage(a)>>
    /\ recent' = recent \cup {a}
    /\ UNCHANGED <<buffered, connected, awaiting, stored, puts, putCount, givenUp, transferFaults>>

\* A handler that raises ends the connection: the event stays in the buffer.
RejectArtifactCreated(a) ==
    /\ connected /\ a \in buffered /\ AckMessage(a) \notin Range(outbox)
    /\ IF Registers(a)
       THEN /\ ~Throttled(a) /\ ~Pushable /\ CanIssue(a)
            /\ remote' = [remote EXCEPT ![a] = "registered"]
            /\ Issue(a)
       ELSE UNCHANGED <<remote, transfers, capability>>
    /\ Disconnect
    /\ UNCHANGED <<buffered, stored, recent, puts, putCount, givenUp, transferFaults>>

\* CI maintenance asks again for the files of its session's command.  A push
\* that fails is swallowed, the capability it was issued stays.
AskAgain(a) ==
    /\ remote[a] = "registered" /\ a \notin givenUp
    /\ CanIssue(a) /\ ~Throttled(a)
    /\ Issue(a)
    /\ IF Pushable
       THEN outbox' = Append(outbox, PutMessage(capability'[a])) /\ recent' = recent \cup {a}
       ELSE ~Live(a) /\ UNCHANGED <<outbox, recent>>
    /\ UNCHANGED <<buffered, connected, awaiting, remote, stored, puts, putCount, givenUp,
                   transferFaults>>

\* The finalization timeout of the session passes.
GiveUp(a) ==
    /\ remote[a] = "registered" /\ a \notin givenUp
    /\ givenUp' = givenUp \cup {a}
    /\ UNCHANGED <<buffered, connected, outbox, awaiting, remote, stored, transfers, capability,
                   recent, puts, putCount, transferFaults>>

\* Five seconds pass since the last request.
CoolDown(a) ==
    /\ a \in recent
    /\ recent' = recent \ {a}
    /\ UNCHANGED <<buffered, connected, outbox, awaiting, remote, stored, transfers, capability,
                   puts, putCount, givenUp, transferFaults>>

\* The life of a token ends.
TokenExpires(t) ==
    /\ t \in DOMAIN transfers /\ ~transfers[t].late /\ Fault
    /\ transfers' = [transfers EXCEPT ![t].late = TRUE]
    /\ UNCHANGED <<buffered, connected, outbox, awaiting, remote, stored, capability, recent,
                   puts, putCount, givenUp>>

----------------------------------------------------------------------------
(* The Agent's reader. *)

Next1 == Head(outbox)
Reading(kind) == connected /\ awaiting = 0 /\ outbox # <<>> /\ Next1.kind = kind

\* The upload request starts a thread; the reader waits for it.
StartPut ==
    /\ Reading("request") /\ putCount < MaxPuts
    /\ ~transfers[Next1.transfer].late
    /\ putCount' = putCount + 1
    /\ awaiting' = putCount + 1
    /\ puts' = puts \cup {[id |-> putCount + 1, transfer |-> Next1.transfer, number |-> 0,
                           stage |-> "sent"]}
    /\ outbox' = Tail(outbox)
    /\ UNCHANGED <<buffered, connected, remote, stored, transfers, capability, recent, givenUp,
                   transferFaults>>

\* A request that names a capability past its time ends the connection.
RefuseRequest ==
    /\ Reading("request") /\ transfers[Next1.transfer].late
    /\ Disconnect
    /\ UNCHANGED <<buffered, remote, stored, transfers, capability, recent, puts, putCount,
                   givenUp, transferFaults>>

ReadAck ==
    /\ Reading("ack")
    /\ buffered' = buffered \ {Next1.artifact}
    /\ outbox' = Tail(outbox)
    /\ UNCHANGED <<connected, awaiting, remote, stored, transfers, capability, recent, puts,
                   putCount, givenUp, transferFaults>>

\* The answer of an upload: an error raises out of the reader that waits for
\* it, and nobody hears the answer of an upload whose connection is gone.
Answered(p) ==
    /\ puts' = puts \ {p}
    /\ IF awaiting # p.id THEN UNCHANGED <<connected, outbox, awaiting>>
       ELSE IF p.stage = "ok" THEN awaiting' = 0 /\ UNCHANGED <<connected, outbox>>
       ELSE Disconnect

HearAnswer(p) ==
    /\ p.stage \in {"ok", "error"}
    /\ Answered(p)
    /\ UNCHANGED <<buffered, remote, stored, transfers, capability, recent, putCount, givenUp,
                   transferFaults>>

\* The client's socket times out while the control plane still works.
LoseAnswer(p) ==
    /\ awaiting = p.id /\ Fault
    /\ Disconnect
    /\ UNCHANGED <<buffered, remote, stored, transfers, capability, recent, puts, putCount, givenUp>>

----------------------------------------------------------------------------
(* The control plane's upload handler. *)

Becomes(p, q) == puts' = (puts \ {p}) \cup {q}

\* authorize: a token past its time, or a row already closed, is refused.
Usable(t) == ~transfers[t].late /\ transfers[t].status # "EXPIRED"

\* authorize closes the row of a token past its time.
Expire(t) == Moved(transfers, t, Open, "EXPIRED")

RefusePut(p) ==
    /\ p.stage = "sent" /\ ~Usable(p.transfer)
    /\ transfers' = Expire(p.transfer)
    /\ Becomes(p, [p EXCEPT !.stage = "error"])
    /\ UNCHANGED <<agentVars, remote, stored, capability, recent, putCount, givenUp, transferFaults>>

\* A repeated upload of a completed transfer answers with the artifact, or
\* fails when a crash kept its metadata from being marked.
RepeatPut(p) ==
    /\ p.stage = "sent" /\ Usable(p.transfer)
    /\ transfers[p.transfer].status = "COMPLETED"
    /\ Becomes(p, [p EXCEPT !.stage =
            IF remote[transfers[p.transfer].artifact] = "uploaded" THEN "ok" ELSE "error"])
    /\ UNCHANGED <<agentVars, remote, stored, transfers, capability, recent, putCount, givenUp,
                   transferFaults>>

BeginPut(p) ==
    /\ p.stage = "sent" /\ Usable(p.transfer)
    /\ transfers[p.transfer].status \in Open
    /\ transfers' = Moved(transfers, p.transfer, Open, "IN_PROGRESS")
    /\ Becomes(p, [p EXCEPT !.stage = "writing", !.number = transfers[p.transfer].count + 1])
    /\ UNCHANGED <<agentVars, remote, stored, capability, recent, putCount, givenUp, transferFaults>>

\* The attempt and the end of the transfer, when the attempt's number is free.
\* Moved finds the row EXPIRED when a newer capability replaced it meanwhile.
Completed(p) == Moved(Counted(transfers, p.transfer), p.transfer, {"IN_PROGRESS"}, "COMPLETED")

\* put_remote_artifact: a second upload cannot change the time of the first.
MarksUploaded(p) ==
    AttemptFits(p.transfer, p.number) /\ remote[transfers[p.transfer].artifact] = "registered"

\* The content is verified and in place; the rows follow without a pause.
FinishPut(p) ==
    /\ p.stage = "writing"
    /\ stored' = stored \cup {transfers[p.transfer].artifact}
    /\ transfers' = IF AttemptFits(p.transfer, p.number) THEN Completed(p) ELSE transfers
    /\ remote' = IF MarksUploaded(p)
                 THEN [remote EXCEPT ![transfers[p.transfer].artifact] = "uploaded"] ELSE remote
    /\ Becomes(p, [p EXCEPT !.stage = IF MarksUploaded(p) THEN "ok" ELSE "error"])
    /\ UNCHANGED <<agentVars, capability, recent, putCount, givenUp, transferFaults>>

\* Mutant: the handler marks the artifact whatever the body was.
FailPutUnchecked(p) ==
    /\ p.stage = "writing" /\ Fault
    /\ transfers' = IF AttemptFits(p.transfer, p.number) THEN Completed(p) ELSE transfers
    /\ remote' = IF MarksUploaded(p)
                 THEN [remote EXCEPT ![transfers[p.transfer].artifact] = "uploaded"] ELSE remote
    /\ Becomes(p, [p EXCEPT !.stage = "ok"])
    /\ UNCHANGED <<agentVars, stored, capability, recent, putCount, givenUp>>

\* The body is short, long or corrupt: nothing is published, the attempt is
\* recorded and the row waits for a retry.
FailPut(p) ==
    /\ p.stage = "writing" /\ Fault
    /\ transfers' = IF AttemptFits(p.transfer, p.number)
                    THEN Moved(Counted(transfers, p.transfer), p.transfer, {"IN_PROGRESS"}, "FAILED")
                    ELSE transfers
    /\ Becomes(p, [p EXCEPT !.stage = "error"])
    /\ UNCHANGED <<agentVars, remote, stored, capability, recent, putCount, givenUp>>

\* The control plane dies: its secrets, its throttle and its requests are gone,
\* and the uploads under way fail at the Agent.
Forgets ==
    /\ Disconnect
    /\ capability' = [a \in Artifact |-> 0]
    /\ recent' = {}
    /\ puts' = {}

CrashControlPlane ==
    /\ Fault /\ Forgets
    /\ UNCHANGED <<buffered, remote, stored, transfers, putCount, givenUp>>

\* It dies after the row is completed and before the artifact is marked.
CrashBeforeMark(p) ==
    /\ p.stage = "writing" /\ AttemptFits(p.transfer, p.number) /\ Fault
    /\ stored' = stored \cup {transfers[p.transfer].artifact}
    /\ transfers' = Completed(p)
    /\ Forgets
    /\ UNCHANGED <<buffered, remote, putCount, givenUp>>

----------------------------------------------------------------------------
(* Downloads: an Agent fetches the input of a workflow. *)

IssueDownload(a) ==
    /\ a \in stored
    /\ Len(transfers) < MaxTransfers
    /\ \A t \in DOMAIN transfers : transfers[t].direction # "download"
    /\ transfers' = Append(transfers, NewTransfer(a, "download"))
    /\ UNCHANGED <<agentVars, remote, stored, capability, recent, puts, putCount, givenUp,
                   transferFaults>>

\* The stream is opened from verified content, then the row is completed.
Download(t) ==
    /\ t \in DOMAIN transfers /\ transfers[t].direction = "download"
    /\ transfers[t].status # "COMPLETED"
    /\ transfers' = IF ~Usable(t) THEN Expire(t)
                    ELSE Moved(Moved(Counted(transfers, t), t, Open, "IN_PROGRESS"),
                               t, {"IN_PROGRESS"}, "COMPLETED")
    /\ UNCHANGED <<agentVars, remote, stored, capability, recent, puts, putCount, givenUp,
                   transferFaults>>

----------------------------------------------------------------------------
TransferInit ==
    /\ buffered = {} /\ connected = FALSE /\ outbox = <<>> /\ awaiting = 0
    /\ remote = [a \in Artifact |-> "none"]
    /\ stored = {} /\ transfers = <<>>
    /\ capability = [a \in Artifact |-> 0]
    /\ recent = {} /\ puts = {} /\ putCount = 0 /\ givenUp = {} /\ transferFaults = 0

TransferNext ==
    \/ Connect \/ DropLink \/ CrashControlPlane
    \/ StartPut \/ RefuseRequest \/ ReadAck
    \/ \E a \in Artifact : \/ Publish(a) \/ HandleArtifactCreated(a) \/ RejectArtifactCreated(a)
                           \/ AskAgain(a) \/ GiveUp(a) \/ CoolDown(a) \/ IssueDownload(a)
    \/ \E t \in 1..MaxTransfers : TokenExpires(t) \/ Download(t)
    \/ \E p \in puts : \/ HearAnswer(p) \/ LoseAnswer(p) \/ RefusePut(p) \/ RepeatPut(p)
                       \/ BeginPut(p) \/ FinishPut(p) \/ FailPut(p) \/ CrashBeforeMark(p)

TransferSpec == TransferInit /\ [][TransferNext]_transferVars

TransferTurn == focus = "transfers"

\* The reconnect loop, the Agent's reader and threads, the gateway, the HTTP
\* handlers, CI maintenance and time keep running; faults need not happen.
TransferFairness ==
    /\ WF_transferVars(TransferTurn /\ Connect)
    /\ SF_transferVars(TransferTurn /\ (StartPut \/ RefuseRequest \/ ReadAck))
    /\ \A a \in Artifact :
        /\ WF_transferVars(TransferTurn /\ (HandleArtifactCreated(a) \/ RejectArtifactCreated(a)))
        /\ WF_transferVars(TransferTurn /\ AskAgain(a))
        /\ WF_transferVars(TransferTurn /\ CoolDown(a))
    /\ WF_transferVars(TransferTurn /\ \E p \in puts :
           HearAnswer(p) \/ RefusePut(p) \/ RepeatPut(p) \/ BeginPut(p) \/ FinishPut(p))

----------------------------------------------------------------------------
TransferTypeOK ==
    /\ buffered \subseteq Artifact /\ connected \in BOOLEAN
    /\ outbox \in Seq(PushMessage) /\ Len(outbox) <= OutboxLimit + 1
    /\ awaiting \in 0..MaxPuts
    /\ remote \in [Artifact -> {"none", "registered", "uploaded"}]
    /\ stored \subseteq Artifact
    /\ transfers \in Seq(TransferRows) /\ Len(transfers) <= MaxTransfers
    /\ capability \in [Artifact -> 0..MaxTransfers]
    /\ recent \subseteq Artifact /\ puts \subseteq Put /\ putCount \in 0..MaxPuts
    /\ givenUp \subseteq Artifact /\ transferFaults \in 0..MaxTransferFaults

\* An artifact marked uploaded, and one whose transfer is COMPLETED, has its
\* verified content in the store, whatever uploads with one token overlap,
\* fail or die half way (DistributedArtifactService.upload).
UploadedIsStored ==
    /\ \A a \in Artifact : remote[a] = "uploaded" => a \in stored
    /\ \A t \in DOMAIN transfers :
        transfers[t].status = "COMPLETED" => transfers[t].artifact \in stored

\* At most one upload token of an artifact can still write: the one issued
\* last.  A restart that loses the secrets closes the rows it cannot use again
\* (runtime.request_artifact_upload).
OneOpenUpload ==
    \A t, u \in DOMAIN transfers :
        /\ transfers[t].artifact = transfers[u].artifact
        /\ transfers[t].direction = "upload" /\ transfers[u].direction = "upload"
        /\ t < u
        => transfers[t].status \notin Open

\* Every registered file is uploaded, unless its session gave up or the model's
\* own bounds on rows and uploads are reached.  A lost answer, a token that
\* expires, a crash that forgets the secret are all repaired by asking again
\* (distributed_ci._artifacts_finalized, runtime.request_artifact_upload).
RegisteredAreUploaded ==
    \A a \in Artifact :
        \/ remote[a] # "registered" \/ a \in givenUp
        \/ Len(transfers) = MaxTransfers \/ putCount = MaxPuts

=============================================================================

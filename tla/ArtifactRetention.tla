---------------------------- MODULE ArtifactRetention ----------------------------
(***************************************************************************)
(* Platform artifacts: uploads that may be retried with one idempotency    *)
(* key, deletion by a user, and retention (core/artifacts.py,              *)
(* core/artifact_storage.py, core/retention.py, persistence/artifacts.py,  *)
(* the writes of artifact_access.py).                                      *)
(*                                                                         *)
(* Every upload makes an object of its own, so an artifact is named by the *)
(* upload that stored it.  All uploads of the model share one owner and    *)
(* one key.  On the control plane retention workers claim, delete and      *)
(* tombstone; a standalone Agent sweeps with expire_due instead.           *)
(***************************************************************************)
EXTENDS SideBySide, Naturals, FiniteSets

CONSTANTS
    Upload,             \* upload requests with the same owner and key
    Worker,             \* retention workers: processes of the control plane
    MaxClaims,          \* bound: claims of one artifact
    MaxRetentionFaults  \* bound: crashes and failing stores

ASSUME RetentionAssumption == MaxClaims \in Nat \ {0} /\ MaxRetentionFaults \in Nat

VARIABLES
    site,        \* "control_plane" or "agent"
    request,     \* where each upload request stands
    answer,      \* the artifact each finished request returned
    row,         \* retention_state of the artifact's row
    object,      \* artifacts whose content is in the store
    copied,      \* artifacts with a second copy in the transfer store
    expired,     \* artifacts past expires_at
    ownerActive, \* the owning session, run or operation has not ended
    claims,      \* retention_attempt_count, which also names the claim's token
    held,        \* artifacts whose claim is younger than the claim's TTL
    worker,      \* what each worker does
    removing,    \* artifacts a user or the sweep is removing
    removed,     \* artifacts somebody asked to remove
    tombstones,  \* successful RETENTION_DELETION audit rows
    retentionFaults

retentionVars == <<site, request, answer, row, object, copied, expired, ownerActive, claims,
                   held, worker, removing, removed, tombstones, retentionFaults>>

None == "none"
RowState == {None, "active", "pending_deletion", "tombstoned"}
Idle == [stage |-> "idle"]
Busy(stage, u, token) == [stage |-> stage, artifact |-> u, token |-> token]

RetentionFault == retentionFaults < MaxRetentionFaults /\ retentionFaults' = retentionFaults + 1

----------------------------------------------------------------------------
(* Uploads. *)

\* get_by_idempotency_key sees active rows only ...
Active == {u \in Upload : row[u] = "active"}

\* ... while the unique index covers the rows of every state.
KeyTaken == \E u \in Upload : row[u] # None

\* On the control plane the stored content is then copied for Agents.
Stored == IF site = "control_plane" THEN "copying" ELSE "done"

\* A request whose key has an active record returns it without reading the body.
StartUpload(u) ==
    /\ request[u] = "new"
    /\ IF Active # {}
       THEN /\ request' = [request EXCEPT ![u] = Stored]
            /\ \E v \in Active : answer' = [answer EXCEPT ![u] = v]
       ELSE request' = [request EXCEPT ![u] = "storing"] /\ UNCHANGED answer
    /\ UNCHANGED <<site, row, object, copied, expired, ownerActive, claims, held, worker,
                   removing, removed, tombstones, retentionFaults>>

\* save: the winner inserts the row; a loser finds the winner's, or fails when
\* the row that holds the key is no longer active.
Saved(u) == IF KeyTaken THEN row ELSE [row EXCEPT ![u] = "active"]

\* What the request leaves in the store: its object, if the row is its own.
Kept(u) == IF Saved(u)[u] = "active" THEN object \cup {u} ELSE object

\* The object is in place and verified; the row and the loser's clean-up follow.
StoreUpload(u) ==
    /\ request[u] = "storing"
    /\ row' = Saved(u)
    /\ object' = Kept(u)
    /\ IF Saved(u)[u] = "active"
       THEN /\ request' = [request EXCEPT ![u] = Stored]
            /\ answer' = [answer EXCEPT ![u] = u]
       ELSE IF Active # {}
       THEN /\ request' = [request EXCEPT ![u] = Stored]
            /\ \E v \in Active : answer' = [answer EXCEPT ![u] = v]
       ELSE request' = [request EXCEPT ![u] = "failed"] /\ UNCHANGED answer
    /\ UNCHANGED <<site, copied, expired, ownerActive, claims, held, worker, removing, removed,
                   tombstones, retentionFaults>>

\* The body is refused or the store fails: the temporary file is removed.
FailUpload(u) ==
    /\ request[u] = "storing"
    /\ request' = [request EXCEPT ![u] = "failed"]
    /\ UNCHANGED <<site, answer, row, object, copied, expired, ownerActive, claims, held, worker,
                   removing, removed, tombstones, retentionFaults>>

\* The process dies with the object in place and no row.
CrashUpload(u) ==
    /\ request[u] = "storing" /\ RetentionFault
    /\ object' = object \cup {u}
    /\ removed' = removed \cup {u}
    /\ request' = [request EXCEPT ![u] = "failed"]
    /\ UNCHANGED <<site, answer, row, copied, expired, ownerActive, claims, held, worker,
                   removing, tombstones>>

\* _store_upload: the content is read back, verified, and copied for Agents.
CopyUpload(u) ==
    /\ request[u] = "copying"
    /\ IF row[answer[u]] = "active" /\ answer[u] \in object
       THEN /\ copied' = copied \cup {answer[u]}
            /\ request' = [request EXCEPT ![u] = "done"]
       ELSE request' = [request EXCEPT ![u] = "failed"] /\ UNCHANGED copied
    /\ UNCHANGED <<site, answer, row, object, expired, ownerActive, claims, held, worker,
                   removing, removed, tombstones, retentionFaults>>

----------------------------------------------------------------------------
(* Time and owners. *)

Expires(u) ==
    /\ row[u] # None /\ u \notin expired
    /\ expired' = expired \cup {u}
    /\ UNCHANGED <<site, request, answer, row, object, copied, ownerActive, claims, held, worker,
                   removing, removed, tombstones, retentionFaults>>

OwnerEnds ==
    /\ ownerActive
    /\ ownerActive' = FALSE
    /\ UNCHANGED <<site, request, answer, row, object, copied, expired, claims, held, worker,
                   removing, removed, tombstones, retentionFaults>>

\* The TTL of a claim passes.
ClaimAges(u) ==
    /\ u \in held
    /\ held' = held \ {u}
    /\ UNCHANGED <<site, request, answer, row, object, copied, expired, ownerActive, claims,
                   worker, removing, removed, tombstones, retentionFaults>>

----------------------------------------------------------------------------
(* The retention worker. *)

\* Mutant: an abandoned claim is not taken over.
DueActive(u) == u \in expired /\ ~ownerActive /\ row[u] = "active"

\* Mutant: the owner is not looked up.
DueAnyOwner(u) ==
    /\ u \in expired
    /\ row[u] = "active" \/ (row[u] = "pending_deletion" /\ u \notin held)

\* claim_due: expired, not held by a younger claim, and the owner has ended.
ArtifactDue(u) ==
    /\ u \in expired /\ ~ownerActive
    /\ row[u] = "active" \/ (row[u] = "pending_deletion" /\ u \notin held)

ClaimDue(w, u) ==
    /\ site = "control_plane" /\ worker[w] = Idle
    /\ ArtifactDue(u) /\ claims[u] < MaxClaims
    /\ row' = [row EXCEPT ![u] = "pending_deletion"]
    /\ claims' = [claims EXCEPT ![u] = @ + 1]
    /\ held' = held \cup {u}
    /\ worker' = [worker EXCEPT ![w] = Busy("deleting", u, claims[u] + 1)]
    /\ UNCHANGED <<site, request, answer, object, copied, expired, ownerActive, removing,
                   removed, tombstones, retentionFaults>>

\* Deleting an object that is already gone succeeds.
DeleteObject(w) ==
    /\ worker[w].stage = "deleting"
    /\ object' = object \ {worker[w].artifact}
    /\ worker' = [worker EXCEPT ![w].stage = "marking"]
    /\ UNCHANGED <<site, request, answer, row, copied, expired, ownerActive, claims, held,
                   removing, removed, tombstones, retentionFaults>>

\* Mutant: the token is not compared.
HoldsAny(w) == row[worker[w].artifact] \in {"pending_deletion", "tombstoned"}

\* The row still carries the worker's token.
Holds(w) == row[worker[w].artifact] = "pending_deletion" /\ claims[worker[w].artifact] = worker[w].token

\* mark_tombstoned, and mark_failed when the claim was lost: neither touches a
\* row another worker has claimed since.
MarkTombstoned(w) ==
    /\ worker[w].stage = "marking"
    /\ IF Holds(w)
       THEN /\ row' = [row EXCEPT ![worker[w].artifact] = "tombstoned"]
            /\ held' = held \ {worker[w].artifact}
            /\ tombstones' = [tombstones EXCEPT ![worker[w].artifact] = @ + 1]
       ELSE UNCHANGED <<row, held, tombstones>>
    /\ worker' = [worker EXCEPT ![w] = Idle]
    /\ UNCHANGED <<site, request, answer, object, copied, expired, ownerActive, claims, removing,
                   removed, retentionFaults>>

\* The store fails.  The error is recorded under the time at which the run
\* began, which is the time of the claim: its TTL does not count anew.
MarkFailed(w) ==
    /\ worker[w].stage = "deleting" /\ RetentionFault
    /\ worker' = [worker EXCEPT ![w] = Idle]
    /\ UNCHANGED <<site, request, answer, row, object, copied, expired, ownerActive, claims, held,
                   removing, removed, tombstones>>

CrashWorker(w) ==
    /\ worker[w] # Idle /\ RetentionFault
    /\ worker' = [worker EXCEPT ![w] = Idle]
    /\ UNCHANGED <<site, request, answer, row, object, copied, expired, ownerActive, claims,
                   held, removing, removed, tombstones>>

----------------------------------------------------------------------------
(* Removal by a user, and the sweep of a standalone Agent: the content goes
   first, then the row, if it is still active. *)

RemoveContent(u) ==
    /\ row[u] = "active" /\ u \notin removing
    /\ object' = object \ {u}
    /\ removing' = removing \cup {u} /\ removed' = removed \cup {u}
    /\ UNCHANGED <<site, request, answer, row, copied, expired, ownerActive, claims, held,
                   worker, tombstones, retentionFaults>>

DeleteArtifact(u) == site = "control_plane" /\ u \notin removed /\ RemoveContent(u)

\* expire_due asks for the expiry only, whatever the owner does.
ExpireDue(u) == site = "agent" /\ u \in expired /\ RemoveContent(u)

DeleteRow(u) ==
    /\ u \in removing
    /\ row' = IF row[u] = "active" THEN [row EXCEPT ![u] = None] ELSE row
    /\ removing' = removing \ {u}
    /\ UNCHANGED <<site, request, answer, object, copied, expired, ownerActive, claims, held,
                   worker, removed, tombstones, retentionFaults>>

\* The process dies between the two: the row stays, its content is gone.
CrashRemoval(u) ==
    /\ u \in removing /\ RetentionFault
    /\ removing' = removing \ {u}
    /\ UNCHANGED <<site, request, answer, row, object, copied, expired, ownerActive, claims,
                   held, worker, removed, tombstones>>

----------------------------------------------------------------------------
RetentionInit ==
    /\ site \in {"control_plane", "agent"}
    /\ request = [u \in Upload |-> "new"]
    /\ answer = [u \in Upload |-> None]
    /\ row = [u \in Upload |-> None]
    /\ object = {} /\ copied = {} /\ expired = {} /\ ownerActive = TRUE
    /\ claims = [u \in Upload |-> 0] /\ held = {}
    /\ worker = [w \in Worker |-> Idle]
    /\ removing = {} /\ removed = {}
    /\ tombstones = [u \in Upload |-> 0] /\ retentionFaults = 0

RetentionNext ==
    \/ OwnerEnds
    \/ \E u \in Upload : \/ StartUpload(u) \/ StoreUpload(u) \/ FailUpload(u) \/ CrashUpload(u)
                         \/ CopyUpload(u) \/ Expires(u) \/ ClaimAges(u)
                         \/ DeleteArtifact(u) \/ ExpireDue(u) \/ DeleteRow(u) \/ CrashRemoval(u)
    \/ \E w \in Worker : \/ DeleteObject(w) \/ MarkTombstoned(w) \/ MarkFailed(w) \/ CrashWorker(w)
                         \/ \E u \in Upload : ClaimDue(w, u)

RetentionSpec == RetentionInit /\ [][RetentionNext]_retentionVars

RetentionTurn == focus = "retention"

\* The maintenance loops come round again and the claim's TTL passes.
RetentionFairness ==
    /\ \A u \in Upload :
        /\ WF_retentionVars(RetentionTurn /\ ClaimAges(u))
        /\ WF_retentionVars(RetentionTurn /\ (ExpireDue(u) \/ DeleteRow(u)))
        /\ WF_retentionVars(RetentionTurn /\ \E w \in Worker : ClaimDue(w, u))
    /\ \A w \in Worker : WF_retentionVars(RetentionTurn /\ (DeleteObject(w) \/ MarkTombstoned(w)))

----------------------------------------------------------------------------
RetentionTypeOK ==
    /\ site \in {"control_plane", "agent"}
    /\ request \in [Upload -> {"new", "storing", "copying", "done", "failed"}]
    /\ answer \in [Upload -> Upload \cup {None}]
    /\ row \in [Upload -> RowState]
    /\ object \subseteq Upload /\ copied \subseteq Upload /\ expired \subseteq Upload
    /\ ownerActive \in BOOLEAN
    /\ claims \in [Upload -> 0..MaxClaims] /\ held \subseteq Upload
    /\ \A w \in Worker : worker[w] = Idle
          \/ worker[w] \in {Busy(s, u, n) : s \in {"deleting", "marking"}, u \in Upload, n \in 1..MaxClaims}
    /\ removing \subseteq Upload /\ removed \subseteq Upload
    /\ tombstones \in [Upload -> Nat] /\ retentionFaults \in 0..MaxRetentionFaults

\* A listed artifact has its content until somebody asks to remove it, however
\* retried uploads, workers and crashes overlap; and content is never left
\* without a row, except by a crash or by a removal (ArtifactService.upload,
\* RetentionWorker.run_once).
ListedHasContent ==
    \A u \in Upload :
        /\ row[u] = "active" => u \in object \/ u \in removed
        /\ u \in object => row[u] # None \/ u \in removed

\* Retention on the control plane never takes content its owner still uses: the
\* owner is active and nobody asked, so the content stays (claim_due).
OwnerKeepsContent ==
    \A u \in Upload :
        site = "control_plane" /\ ownerActive /\ row[u] \in {"active", "pending_deletion"}
        => u \in object \/ u \in removed

\* A tombstone is written once, with one audit row, and only for content that
\* is gone; a worker whose claim was taken over writes none (mark_tombstoned).
TombstonedOnce ==
    \A u \in Upload :
        /\ tombstones[u] = (IF row[u] = "tombstoned" THEN 1 ELSE 0)
        /\ row[u] = "tombstoned" => u \notin object

\* One key names one artifact: two requests that both succeed return the same
\* one, unless the first was removed by a user or expired on an Agent.
OneArtifactPerKey ==
    \A u, v \in Upload :
        request[u] = "done" /\ request[v] = "done" /\ answer[u] # answer[v]
        => answer[u] \in removed \/ answer[v] \in removed

\* The three together.
ArtifactsKept == ListedHasContent /\ OwnerKeepsContent /\ OneArtifactPerKey

\* Every expired artifact whose owner has ended has left the listing for good,
\* or the model's bound on claims is reached (RetentionWorker, expire_due).
ExpiredAreGone ==
    \A u \in Upload :
        u \in expired /\ ~ownerActive => row[u] \in {None, "tombstoned"} \/ claims[u] = MaxClaims
=============================================================================

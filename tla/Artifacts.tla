------------------------------ MODULE Artifacts ------------------------------
(***************************************************************************)
(* What the Agents' transfers and the stores' retention promise together   *)
(* about an artifact's row, its content and its tombstone.                 *)
(***************************************************************************)
EXTENDS ArtifactTransfers, ArtifactRetention

\* An uploaded row has its content, an artifact has one open upload, what active
\* work refers to is kept, and what goes is tombstoned once.
ArtifactsSound == UploadedIsStored /\ OneOpenUpload /\ ArtifactsKept /\ TombstonedOnce
=============================================================================

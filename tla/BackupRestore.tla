------------------------------ MODULE BackupRestore ------------------------------
(***************************************************************************)
(* Backup and restore of the control plane (backup.py, the backup commands *)
(* of its cli.py): a database dump and a snapshot of the artifact store in *)
(* one verified archive, restored into an SQLite or PostgreSQL database    *)
(* and a local directory or an S3 prefix.                                  *)
(*                                                                         *)
(* The database is the set of artifacts its rows refer to.  Content is     *)
(* immutable; a file or object is "old" when it was there before a         *)
(* restore and "new" when a restore put it there.                          *)
(***************************************************************************)
EXTENDS Naturals, FiniteSets, Functions

CONSTANTS
    Item,            \* artifacts
    MaxBackupFaults  \* bound: failing steps and killed processes

ASSUME BackupAssumption == IsFiniteSet(Item) /\ MaxBackupFaults \in Nat

VARIABLES
    store,      \* "local" or "s3"
    engine,     \* "sqlite" or "postgresql"
    serverUp,   \* the control plane is running
    referred,   \* artifacts the database refers to
    files,      \* [Item -> "none" | "old" | "new"]: the artifact store
    gone,       \* artifacts whose content was not there when the backup listed the store
    backup,     \* the backup command: its stage, dump, listing and copies
    archive,    \* the file at the destination
    restore,    \* the restore command
    aside,      \* old files in directories of restores that were killed
    before,     \* the store when the latest restore began
    previous,   \* old files when the first restore began, until one installed its last
    asked,      \* archives were taken with the artifacts
    backupFaults

backupVars == <<store, engine, serverUp, referred, files, gone, backup, archive, restore, aside,
                before, previous, asked, backupFaults>>

NoBackup == [stage |-> "idle", dump |-> {}, listed |-> {}, copied |-> {}]
NoArchive == [state |-> "none", dump |-> {}, items |-> {}]
NoRestore == [stage |-> "idle", overwrite |-> FALSE, installed |-> {}, saved |-> {},
              apart |-> {}]

Present(v) == {i \in Item : files[i] = v}
StoredItems == {i \in Item : files[i] # "none"}

BackupFault == backupFaults < MaxBackupFaults /\ backupFaults' = backupFaults + 1

----------------------------------------------------------------------------
(* The running server. *)

\* An upload stores its content before its row.
StoreContent(i) ==
    /\ serverUp /\ files[i] = "none" /\ i \notin referred
    /\ files' = [files EXCEPT ![i] = "old"]
    /\ UNCHANGED <<store, engine, serverUp, referred, gone, backup, archive, restore, aside,
                   before, previous, asked, backupFaults>>

SaveRow(i) ==
    /\ serverUp /\ files[i] # "none" /\ i \notin referred
    /\ referred' = referred \cup {i}
    /\ UNCHANGED <<store, engine, serverUp, files, gone, backup, archive, restore, aside,
                   before, previous, asked, backupFaults>>

\* A deletion, and retention, removes the content first and the row in a later
\* step: the server may stop, or a backup begin, between the two.
RemoveContent(i) ==
    /\ serverUp /\ files[i] # "none"
    /\ files' = [files EXCEPT ![i] = "none"]
    /\ gone' = IF backup.stage = "listing" THEN gone \cup {i} ELSE gone
    /\ UNCHANGED <<store, engine, serverUp, referred, backup, archive, restore, aside, before,
                   previous, asked, backupFaults>>

RemoveRow(i) ==
    /\ serverUp /\ files[i] = "none" /\ i \in referred
    /\ referred' = referred \ {i}
    /\ UNCHANGED <<store, engine, serverUp, files, gone, backup, archive, restore, aside,
                   before, previous, asked, backupFaults>>

StopServer ==
    /\ serverUp /\ serverUp' = FALSE
    /\ UNCHANGED <<store, engine, referred, files, gone, backup, archive, restore, aside,
                   before, previous, asked, backupFaults>>

----------------------------------------------------------------------------
(* BackupService.create *)

\* create_dump and verify_dump: a consistent copy of the database.
CreateDump == referred

\* The command refuses to replace an archive.
CreateBackup ==
    /\ backup.stage = "idle" /\ restore.stage = "idle" /\ archive.state = "none"
    /\ backup' = [NoBackup EXCEPT !.stage = "listing", !.dump = CreateDump]
    /\ asked' \in BOOLEAN
    /\ gone' = CreateDump \ StoredItems
    /\ UNCHANGED <<store, engine, serverUp, referred, files, archive, restore, aside, before,
                   previous, backupFaults>>

\* snapshot: the store is listed, then each file is copied.  Abandoned restore
\* directories are skipped.
Listed == [backup EXCEPT !.stage = "copying", !.listed = IF asked THEN StoredItems ELSE {}]

ListItems ==
    /\ backup.stage = "listing"
    /\ backup' = Listed
    /\ UNCHANGED <<store, engine, serverUp, referred, files, gone, archive, restore, aside,
                   before, previous, asked, backupFaults>>

Copied(i) ==
    /\ backup.stage = "copying" /\ i \in backup.listed \ backup.copied
    /\ files[i] # "none"
    /\ backup' = [backup EXCEPT !.copied = @ \cup {i}]
    /\ UNCHANGED <<store, engine, serverUp, referred, files, gone, archive, restore, aside,
                   before, previous, asked, backupFaults>>

\* A local file must not change while it is read; an object's size, ETag and
\* checksum are compared before and after.
CopyFile(i) == store = "local" /\ Copied(i)
CopyObject(i) == store = "s3" /\ Copied(i)

\* Mutant: the database is dumped after the artifacts are copied.
ArchivedDumpLate == referred

ArchivedDump == backup.dump

\* _write_archive writes at the destination itself; verify reads it back.
WriteArchive ==
    /\ backup.stage = "copying" /\ backup.listed = backup.copied
    /\ backup' = [backup EXCEPT !.stage = "verifying"]
    /\ archive' = [state |-> "partial", dump |-> ArchivedDump, items |-> backup.copied]
    /\ UNCHANGED <<store, engine, serverUp, referred, files, gone, restore, aside, before,
                   previous, asked, backupFaults>>

VerifyBackup ==
    /\ backup.stage = "verifying"
    /\ archive' = [archive EXCEPT !.state = "full"]
    /\ backup' = NoBackup
    /\ UNCHANGED <<store, engine, serverUp, referred, files, gone, restore, aside, before,
                   previous, asked, backupFaults>>

\* A copy fails because the file has gone, or any step fails: what was written is
\* removed.
FailBackup ==
    /\ backup.stage # "idle"
    /\ \/ backup.stage = "copying" /\ UNCHANGED backupFaults
          /\ \E i \in backup.listed \ backup.copied : files[i] = "none"
       \/ BackupFault
    /\ backup' = NoBackup /\ archive' = NoArchive
    /\ UNCHANGED <<store, engine, serverUp, referred, files, gone, restore, aside, before,
                   previous, asked>>

\* A killed command leaves what it wrote, which may be all of it.
KillBackup ==
    /\ backup.stage # "idle" /\ BackupFault
    /\ backup' = NoBackup
    /\ \/ UNCHANGED archive
       \/ backup.stage = "verifying" /\ archive' = [archive EXCEPT !.state = "full"]
    /\ UNCHANGED <<store, engine, serverUp, referred, files, gone, restore, aside, before,
                   previous, asked>>

DeleteArchive ==
    /\ archive.state = "partial" /\ backup.stage = "idle" /\ restore.stage = "idle"
    /\ archive' = NoArchive
    /\ UNCHANGED <<store, engine, serverUp, referred, files, gone, backup, restore, aside,
                   before, previous, asked, backupFaults>>

----------------------------------------------------------------------------
(* BackupService.restore *)

\* verify refuses a truncated archive.
Verified(a) == a.state = "full"

\* A database with tables and a directory with files, abandoned ones too, are not
\* empty.
TargetsEmpty == referred = {} /\ (archive.items # {} => StoredItems = {} /\ aside = {})

\* The operator runs it with the server stopped, and again after a failure.
StartRestore ==
    /\ restore.stage \in {"idle", "failed", "killed"} /\ backup.stage = "idle" /\ ~serverUp
    /\ Verified(archive)
    /\ \E overwrite \in BOOLEAN :
          /\ overwrite \/ TargetsEmpty
          /\ restore' = [NoRestore EXCEPT !.stage = "database", !.overwrite = overwrite]
    /\ before' = files
    /\ previous' = IF restore.stage = "idle" THEN Present("old") ELSE previous
    /\ UNCHANGED <<store, engine, serverUp, referred, files, gone, backup, archive, aside,
                   asked, backupFaults>>

\* restore_dump: SQLite replaces the file in one step; a pg_restore that fails or is
\* killed leaves what it had restored.  A database-only archive ends here.
PartlyRestored ==
    IF restore.stage = "database" /\ engine = "postgresql"
    THEN referred' \in {referred} \cup SUBSET archive.dump ELSE UNCHANGED referred

RestoreDatabase ==
    /\ restore.stage = "database"
    /\ referred' = archive.dump
    /\ restore' = [restore EXCEPT !.stage = IF archive.items = {} THEN "done" ELSE "staging"]
    /\ UNCHANGED <<store, engine, serverUp, files, gone, backup, archive, aside, before,
                   previous, asked, backupFaults>>

\* Local: every file is first copied into the transaction directory.  S3: every
\* source is checked and the prefix is listed.
StageItems ==
    /\ restore.stage = "staging"
    /\ restore' = [restore EXCEPT !.stage = "displacing"]
    /\ UNCHANGED <<store, engine, serverUp, referred, files, gone, backup, archive, aside,
                   before, previous, asked, backupFaults>>

\* A file moves into the transaction directory; an object is deleted.
Displaced(i) ==
    /\ restore.stage = "displacing" /\ files[i] # "none"
    /\ files' = [files EXCEPT ![i] = "none"]
    /\ UNCHANGED <<store, engine, serverUp, referred, gone, backup, archive, aside, before,
                   previous, asked, backupFaults>>

DisplaceFile(i) ==
    /\ store = "local" /\ Displaced(i)
    /\ restore' = [restore EXCEPT !.saved = @ \cup {<<i, files[i]>>}]

DeleteArchived(i) == store = "s3" /\ Displaced(i) /\ UNCHANGED restore

\* The directories of killed restores are entries of the root like any other.
DisplaceAside ==
    /\ restore.stage = "displacing" /\ aside # {}
    /\ restore' = [restore EXCEPT !.apart = aside]
    /\ aside' = {}
    /\ UNCHANGED <<store, engine, serverUp, referred, files, gone, backup, archive, before,
                   previous, asked, backupFaults>>

Installed(i) ==
    /\ \/ restore.stage = "displacing" /\ StoredItems = {} /\ aside = {}
       \/ restore.stage = "installing"
    /\ i \in archive.items \ restore.installed
    /\ files' = [files EXCEPT ![i] = "new"]
    /\ restore' = [restore EXCEPT !.installed = @ \cup {i}, !.stage =
         IF store = "local" /\ archive.items \ restore.installed = {i}
         THEN "removing" ELSE "installing"]
    /\ previous' = IF restore'.stage = "removing" THEN {} ELSE previous
    /\ UNCHANGED <<store, engine, serverUp, referred, gone, backup, archive, aside, before,
                   asked, backupFaults>>

\* A staged file takes its place, and the last one ends what can be undone; an
\* object is uploaded and its checksum compared.
InstallFile(i) == store = "local" /\ Installed(i)
UploadObject(i) == store = "s3" /\ Installed(i)

\* shutil.rmtree takes what was there before the restore entry by entry.
RemovePrevious ==
    /\ restore.stage = "removing"
    /\ \/ \E f \in restore.saved : restore' = [restore EXCEPT !.saved = @ \ {f}]
       \/ \E i \in restore.apart : restore' = [restore EXCEPT !.apart = @ \ {i}]
    /\ UNCHANGED <<store, engine, serverUp, referred, files, gone, backup, archive, aside,
                   before, previous, asked, backupFaults>>

FinishRestore ==
    /\ \/ store = "s3" /\ restore.stage = "installing" /\ restore.installed = archive.items
       \/ restore.stage = "removing" /\ restore.saved = {} /\ restore.apart = {}
    /\ restore' = [NoRestore EXCEPT !.stage = "done"]
    /\ UNCHANGED <<store, engine, serverUp, referred, files, gone, backup, archive, aside,
                   before, previous, asked, backupFaults>>

\* What stays in the transaction directory of a restore that does not remove it.
LeftBehind == aside \cup restore.apart \cup {i \in Item : <<i, "old">> \in restore.saved}

\* The removal is outside the try statement: when it raises, nothing is rolled back.
FailRemoval ==
    /\ restore.stage = "removing" /\ BackupFault
    /\ restore' = [NoRestore EXCEPT !.stage = "failed"]
    /\ aside' = LeftBehind
    /\ UNCHANGED <<store, engine, serverUp, referred, files, gone, backup, archive, before,
                   previous, asked>>

\* A step raises.  Before the first file has moved there is nothing to undo; S3
\* deletes outside its try statement, so a failing deletion is not undone either.
RaisesAt(stage) ==
    IF stage = "database" \/ (store = "s3" /\ stage # "installing") THEN "failed" ELSE "undoing"

FailRestore ==
    /\ restore.stage \in {"database", "staging", "displacing", "installing"} /\ BackupFault
    /\ restore' = [restore EXCEPT !.stage = RaisesAt(restore.stage)]
    /\ PartlyRestored
    /\ UNCHANGED <<store, engine, serverUp, files, gone, backup, archive, aside, before,
                   previous, asked>>

\* The rollback has moved its last file back.
RolledBack == [NoRestore EXCEPT !.stage = "failed"]

\* Mutant: the transaction directory is removed before the displaced files are back.
UndoDisplacementForgotten ==
    /\ restore.installed = {}
    /\ restore' = RolledBack /\ UNCHANGED <<files, aside>>

\* Displaced entries go back once the installed ones have left.
UndoDisplacement ==
    /\ restore.installed = {}
    /\ IF restore.saved # {}
       THEN \E f \in restore.saved :
               /\ files' = [files EXCEPT ![f[1]] = f[2]]
               /\ restore' = [restore EXCEPT !.saved = @ \ {f}]
               /\ UNCHANGED aside
       ELSE restore' = RolledBack /\ aside' = aside \cup restore.apart /\ UNCHANGED files

\* _delete_keys of S3, the first loop of the local rollback.
UndoInstallation ==
    \E i \in restore.installed :
        /\ files' = [files EXCEPT ![i] = "none"]
        /\ restore' = [restore EXCEPT !.installed = @ \ {i}]
        /\ UNCHANGED aside

UndoRestore ==
    /\ restore.stage = "undoing"
    /\ UndoInstallation \/ UndoDisplacement
    /\ UNCHANGED <<store, engine, serverUp, referred, gone, backup, archive, before, previous,
                   asked, backupFaults>>

\* The process is killed, or its rollback fails: the transaction directory stays.
KillRestore ==
    /\ restore.stage \notin {"idle", "done", "failed", "killed"} /\ BackupFault
    /\ restore' = [NoRestore EXCEPT !.stage = "killed"]
    /\ aside' = LeftBehind
    /\ PartlyRestored
    /\ UNCHANGED <<store, engine, serverUp, files, gone, backup, archive, before,
                   previous, asked>>

----------------------------------------------------------------------------
(* The specification. *)

BackupInit ==
    /\ store \in {"local", "s3"}
    /\ engine \in {"sqlite", "postgresql"}
    /\ referred \in SUBSET Item
    /\ files = [i \in Item |-> IF i \in referred THEN "old" ELSE "none"]
    /\ before = files
    /\ serverUp = TRUE /\ gone = {} /\ asked = TRUE
    /\ backup = NoBackup /\ archive = NoArchive /\ restore = NoRestore
    /\ aside = {} /\ previous = {} /\ backupFaults = 0

BackupNext ==
    \/ \E i \in Item : StoreContent(i) \/ SaveRow(i) \/ RemoveContent(i) \/ RemoveRow(i)
    \/ StopServer
    \/ CreateBackup
    \/ ListItems
    \/ \E i \in Item : CopyFile(i) \/ CopyObject(i)
    \/ WriteArchive
    \/ VerifyBackup
    \/ FailBackup
    \/ KillBackup
    \/ DeleteArchive
    \/ StartRestore
    \/ RestoreDatabase
    \/ StageItems
    \/ \E i \in Item : DisplaceFile(i) \/ DeleteArchived(i)
    \/ DisplaceAside
    \/ \E i \in Item : InstallFile(i) \/ UploadObject(i)
    \/ RemovePrevious
    \/ FinishRestore
    \/ FailRemoval
    \/ FailRestore
    \/ UndoRestore
    \/ KillRestore

BackupSpec == BackupInit /\ [][BackupNext]_backupVars

----------------------------------------------------------------------------
(* Properties. *)

\* Stages, sets and tags are well formed.
BackupTypeOK ==
    /\ store \in {"local", "s3"} /\ engine \in {"sqlite", "postgresql"}
    /\ serverUp \in BOOLEAN /\ asked \in BOOLEAN
    /\ referred \subseteq Item /\ gone \subseteq Item /\ previous \subseteq Item
    /\ {files, before} \subseteq [Item -> {"none", "old", "new"}]
    /\ backup \in [stage : {"idle", "listing", "copying", "verifying"}, dump : SUBSET Item,
                   listed : SUBSET Item, copied : SUBSET Item]
    /\ archive \in [state : {"none", "partial", "full"}, dump : SUBSET Item, items : SUBSET Item]
    /\ restore.stage \in {"idle", "database", "staging", "displacing", "installing", "removing",
                          "undoing", "done", "failed", "killed"}
    /\ restore.saved \subseteq Item \X {"old", "new"} /\ restore.installed \subseteq archive.items
    /\ aside \subseteq Item /\ restore.apart \subseteq Item
    /\ backupFaults \in 0 .. MaxBackupFaults

\* An archive that can be restored and was taken with its artifacts holds every
\* artifact its database refers to, even beside a running server, but those whose
\* content was not there when the store was listed: deleted earlier with the row
\* still there, or between the dump and the listing.  None is lost that was removed
\* or uploaded later: create dumps the database before it lists the store.
ArchiveIsWhole ==
    archive.state = "full" /\ asked => archive.dump \ archive.items \subseteq gone

\* A restore that ends has put back exactly the archive, whatever earlier attempts
\* left.  Into a local directory, one that raises, its rollback included where there
\* is one, leaves the store as it found it or holding exactly the archive, never a
\* mixture; and until an attempt has installed its last file, every file that was
\* there before the first is still on disk.
RestoreIsSafe ==
    /\ restore.stage = "done" =>
          /\ referred = archive.dump
          /\ archive.items # {} => StoredItems = archive.items /\ Present("old") = {} /\ aside = {}
    /\ store = "local" /\ restore.stage = "failed" =>
          files = before \/ (StoredItems = archive.items /\ Present("old") = {})
    /\ store = "local" =>
          previous \subseteq Present("old") \cup aside \cup restore.apart
                                \cup {i \in Item : <<i, "old">> \in restore.saved}

============================================================================

----------------------------- MODULE BackupPart -----------------------------
(***************************************************************************)
(* Backup and restore as the subject of a behaviour of FileParts.          *)
(***************************************************************************)
EXTENDS FileState

B == INSTANCE BackupRestore WITH N <- Count

backupRest == <<live, running, lock, snaps, run, tx, promised, req, harm, fault>>

BackupInit ==
    subject = "backup" /\ B!Init /\ live = None /\ running = None /\
    lock = None /\ snaps = None /\ run = None /\ tx = None /\ promised = None /\
    req = None /\ harm = None /\ fault = None

BackupNext == subject = "backup" /\ subject' = subject /\ B!Next /\ UNCHANGED backupRest

BackupSpec == BackupInit /\ [][BackupNext]_vars

-----------------------------------------------------------------------------

\* A backup the history calls succeeded can be restored, although files changed,
\* came and went while it was collected and archived, and the services a restore
\* stopped run again however it ended, unless systemctl itself failed or the updater
\* was killed (Create of internal/backup/engine.go, Restore of restore.go).
RestoreIsSound == subject = "backup" => B!TypeOK /\ B!SucceededIsIntact /\ B!ServicesReturn
=============================================================================

----------------------------- MODULE BackupFile ------------------------------
(***************************************************************************)
(* The publication of a backup (interchange/src/backup.rs): the envelope   *)
(* is encoded with its counts and its digest, written to a staged file,    *)
(* flushed, renamed, the directory flushed, and the file read again and    *)
(* verified before the export is acknowledged.  The power may fail at any  *)
(* step, and any step may fail; what was not flushed may then be there or  *)
(* not, whole or torn.  A second export under the same name (a safety      *)
(* backup of the same file in the same millisecond) writes over the first. *)
(***************************************************************************)
EXTENDS Integers

CONSTANTS
    Exports,            \* exports under one name, one after the other
    Large,              \* those whose envelope is over the bound
    MaxBackupFaults     \* steps that fail, and power failures

VARIABLES
    staged,         \* the staged file: NoBackup, "torn" or the export it holds
    backup,         \* the file under the final name, likewise
    flushed,        \* whether the staged content is on the disk
    lasting,        \* whether the content of the file is
    settled,        \* what the final name holds on the disk
    doing,          \* the export under way, or NoBackup
    publishing,     \* its next step
    confirmed,      \* the export that was acknowledged last, or NoBackup
    readBack,       \* what a reader made of the file: NoBackup, "refused" or an export
    backupFaults

backupvars ==
    <<staged, backup, flushed, lasting, settled, doing, publishing, confirmed, readBack,
      backupFaults>>

NoBackup == "absent"

ASSUME BackupAssumption ==
    /\ Exports \cap {"torn", "refused", NoBackup} = {}
    /\ MaxBackupFaults \in Nat

BackupInit ==
    /\ staged = NoBackup /\ backup = NoBackup /\ settled = NoBackup
    /\ flushed = FALSE /\ lasting = TRUE
    /\ doing = NoBackup /\ publishing = "idle"
    /\ confirmed = NoBackup /\ readBack = NoBackup
    /\ backupFaults = 0

\* encode_backup: nothing is written of an envelope over the bound.
Encode(e) ==
    /\ publishing = "idle"
    /\ e \notin Large
    /\ doing' = e
    /\ publishing' = "stage"
    /\ UNCHANGED <<staged, backup, flushed, lasting, settled, confirmed, readBack, backupFaults>>

\* export_backup_to: the staged file is created, or emptied.
Stage ==
    /\ publishing = "stage"
    /\ staged' = "torn" /\ flushed' = FALSE
    /\ publishing' = "write"
    /\ UNCHANGED <<backup, lasting, settled, doing, confirmed, readBack, backupFaults>>

WriteAll ==
    /\ publishing = "write"
    /\ staged' = doing
    /\ publishing' = "sync"
    /\ UNCHANGED <<backup, flushed, lasting, settled, doing, confirmed, readBack, backupFaults>>

SyncAll ==
    /\ publishing = "sync"
    /\ flushed' = TRUE
    /\ publishing' = "rename"
    /\ UNCHANGED <<staged, backup, lasting, settled, doing, confirmed, readBack, backupFaults>>

\* Mutant: the staged file gets its name before it is flushed.
RenameEarly ==
    /\ publishing = "sync"
    /\ backup' = staged /\ lasting' = flushed /\ staged' = NoBackup
    /\ publishing' = "pin"
    /\ UNCHANGED <<flushed, settled, doing, confirmed, readBack, backupFaults>>

RenameStaged ==
    /\ publishing = "rename"
    /\ backup' = staged /\ lasting' = flushed /\ staged' = NoBackup
    /\ publishing' = "pin"
    /\ UNCHANGED <<flushed, settled, doing, confirmed, readBack, backupFaults>>

\* The flush of the directory, which makes the new name last.
SyncParent ==
    /\ publishing = "pin"
    /\ settled' = IF lasting THEN backup ELSE "torn"
    /\ publishing' = "verify"
    /\ UNCHANGED <<staged, backup, flushed, lasting, doing, confirmed, readBack, backupFaults>>

\* verify_backup_file: the bound, the format, the digest of the snapshot and the counts.
Verified == IF backup \in Exports THEN backup ELSE "refused"

\* The export reads its file again, and is acknowledged.
Acknowledge ==
    /\ publishing = "verify"
    /\ confirmed' = IF Verified = doing THEN doing ELSE confirmed
    /\ doing' = NoBackup /\ publishing' = "idle"
    /\ UNCHANGED <<staged, backup, flushed, lasting, settled, readBack, backupFaults>>

\* A step fails: the export ends there, with what it has left.
StepFails ==
    /\ backupFaults < MaxBackupFaults
    /\ publishing # "idle"
    /\ backupFaults' = backupFaults + 1
    /\ doing' = NoBackup /\ publishing' = "idle"
    /\ UNCHANGED <<staged, backup, flushed, lasting, settled, confirmed, readBack>>

\* The power fails: a name that was not flushed is the old one or the new one, content
\* that was not flushed is torn.
PowerFails ==
    /\ backupFaults < MaxBackupFaults
    /\ backupFaults' = backupFaults + 1
    /\ backup' \in {settled, IF lasting THEN backup ELSE "torn"}
    /\ settled' = backup'
    /\ staged' = NoBackup
    /\ flushed' = FALSE /\ lasting' = TRUE
    /\ doing' = NoBackup /\ publishing' = "idle"
    /\ UNCHANGED <<confirmed, readBack>>

\* Someone previews or restores the file.
ReadFile ==
    /\ backup # NoBackup
    /\ readBack' = Verified
    /\ UNCHANGED <<staged, backup, flushed, lasting, settled, doing, publishing, confirmed,
                   backupFaults>>

BackupNext ==
    \/ \E e \in Exports : Encode(e)
    \/ Stage \/ WriteAll \/ SyncAll \/ RenameStaged \/ SyncParent \/ Acknowledge
    \/ StepFails \/ PowerFails \/ ReadFile

BackupSpec == BackupInit /\ [][BackupNext]_backupvars

-----------------------------------------------------------------------------
(* Correctness                                                             *)

\* Every variable keeps its type.
BackupTypeOK ==
    /\ {staged, backup, settled} \subseteq Exports \cup {"torn", NoBackup}
    /\ flushed \in BOOLEAN /\ lasting \in BOOLEAN
    /\ doing \in Exports \cup {NoBackup} /\ confirmed \in Exports \cup {NoBackup}
    /\ readBack \in Exports \cup {"refused", NoBackup}
    /\ backupFaults \in 0..MaxBackupFaults

\* The file of a backup is whole from the moment it has its name, across failures of the
\* power, and once one was acknowledged there is one.
PublishedIsWhole ==
    /\ backup \in Exports \cup {NoBackup}
    /\ confirmed # NoBackup => backup # NoBackup /\ settled # NoBackup
    /\ readBack # "refused"
=============================================================================

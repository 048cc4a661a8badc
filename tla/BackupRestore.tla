---------------------------- MODULE BackupRestore ----------------------------
(***************************************************************************)
(* Backups and restores of a database other parts of the console use at the *)
(* same time.  The process has one backup and one restore at a time.  A     *)
(* restore reads the backup document of the system database.                *)
(***************************************************************************)
EXTENDS Backup, Restore

CONSTANT MaxSeq  \* nobody else writes, and nothing is started, beyond it

ASSUME MaxSeqAssumption == MaxSeq \in Nat

vars == <<store, seq, backupVars, restoreVars>>

TypeOK == StoreTypeOK /\ BackupTypeOK /\ RestoreTypeOK

\* A database with some documents.
Init ==
  /\ seq = 1
  /\ store \in [Ids -> {[rev |-> 0, val |-> Gone], [rev |-> 1, val |-> 1]}]
  /\ BackupInit
  /\ RestoreInit

\* The rest of the console writes or deletes a document.
OthersWrite(d) ==
  /\ seq < MaxSeq
  /\ OtherWrites(d) \/ OtherDeletes(d)
  /\ Race(d)
  /\ UNCHANGED <<backupVars, restoring, rest, docs_arr, pos, errors, iter, written>>

\* athena_restore_by_doc.
RestoreBackup ==
  /\ seq < MaxSeq
  /\ backup # NoBackup
  /\ StartRestore(backup)
  /\ UNCHANGED <<store, seq, backupVars>>

\* The process of the backup and the restore dies and is started again.
Crash == Faults /\ BackupCrash /\ RestoreCrash /\ UNCHANGED <<store, seq>>

Backing == BackupStep /\ UNCHANGED <<store, seq, restoreVars>>

\* WriteDoc is the only step of a restore that writes to the database.
Restoring ==
  /\ \/ WriteDoc
     \/ /\ PickBatch \/ EndRestore \/ EndBatch \/ BatchFails \/ CopyRevs
        /\ UNCHANGED <<store, seq>>
  /\ UNCHANGED backupVars

Next ==
  \/ seq < MaxSeq /\ StartBackup /\ UNCHANGED <<store, seq, restoreVars>>
  \/ Backing \/ RestoreBackup \/ Restoring \/ Crash
  \/ \E d \in Ids : OthersWrite(d)

Spec == Init /\ [][Next]_vars
=============================================================================

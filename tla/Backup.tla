------------------------------- MODULE Backup -------------------------------
(***************************************************************************)
(* Backing up a database, libs/db_backup.js: async_backup and backup_db.    *)
(* The database is in use meanwhile.  A pass asks _changes for the ids      *)
(* written since the pass before, reads them, appends them to the backup in *)
(* memory, and asks _changes again: if there are more, another pass         *)
(* follows.  So a document may be in the backup several times, in the order *)
(* the passes read it.                                                      *)
(*                                                                          *)
(* The documents of a pass are read one at a time, in any order: a batch of *)
(* _bulk_get is no snapshot.  One that is answered with an error is left    *)
(* out, and so are all that are left when an answer has no results: this is *)
(* only logged, and the pass is complete without them.                      *)
(*                                                                          *)
(* The copy on the file system, which only get_backup reads, is left out of *)
(* the model, but writing it may fail.                                      *)
(***************************************************************************)
EXTENDS CouchDocs, Sequences

CONSTANTS
  Blacklisted,  \* documents of types that are not backed up
  MaxPasses,    \* passes over the database (4 in the code: outer_iter 0 to 3)
  Faults,       \* whether requests and file writes fail and processes die
  NoBackup      \* the backup has no document in the system database

ASSUME BackupAssumption ==
  /\ Blacklisted \subseteq Ids
  /\ MaxPasses \in Nat \ {0}
  /\ Faults \in BOOLEAN

\* An element of the docs of a backup.
Entries == [id : Ids, val : Nat]

VARIABLES
  step,           \* where the backup is
  in_progress,    \* the_backup.in_progress
  docs,           \* the documents in the backup, in memory
  last_sequence,  \* the sequence the last complete pass went up to
  upto,           \* the sequence the last answer of _changes ended with
  ids2lookup,     \* the documents of that answer still to be read
  ret,            \* the documents read in this pass
  passes,         \* outer_iter
  missed,         \* history: the documents left out when they were read last
  failed,         \* history: a request of this backup failed
  backup          \* the docs of the backup document in the system database

pass == <<upto, ids2lookup, ret, passes>>
backupVars == <<step, in_progress, docs, last_sequence, upto, ids2lookup, ret, passes,
                missed, failed, backup>>

BackupTypeOK ==
  /\ step \in {"idle", "changes", "reading", "checking", "saving"}
  /\ in_progress \in BOOLEAN
  /\ docs \in Seq(Entries)
  /\ last_sequence \in 0..seq
  /\ upto \in 0..seq
  /\ ids2lookup \subseteq Ids
  /\ ret \in Seq(Entries)
  /\ passes \in 0..(MaxPasses - 1)
  /\ missed \subseteq Ids
  /\ failed \in BOOLEAN
  /\ backup \in Seq(Entries) \cup {NoBackup}

BackupInit ==
  /\ step = "idle"
  /\ in_progress = FALSE
  /\ docs = << >>
  /\ last_sequence = 0
  /\ upto = 0
  /\ ids2lookup = {}
  /\ ret = << >>
  /\ passes = 0
  /\ missed = {}
  /\ failed = FALSE
  /\ backup = NoBackup

-----------------------------------------------------------------------------
\* No backup is under way.
NoneInMemory ==
  /\ step' = "idle"
  /\ in_progress' = FALSE
  /\ docs' = << >>
  /\ last_sequence' = 0
  /\ upto' = 0
  /\ ids2lookup' = {}
  /\ ret' = << >>
  /\ passes' = 0
  /\ missed' = {}
  /\ failed' = FALSE

\* async_backup: refused while in_progress.  If the file cannot be created the
\* backup ends here, and in_progress stays.
StartBackup ==
  /\ ~in_progress
  /\ in_progress' = TRUE
  /\ backup' = NoBackup
  /\ step' = "changes" \/ (Faults /\ UNCHANGED step)
  /\ UNCHANGED <<docs, last_sequence, pass, missed, failed>>

\* outer_loop [1]: ask for the documents written since the pass before.  Deleted
\* ones are not looked up.  A request that fails is taken for an answer without
\* documents; after such an answer the next pass asks for everything.
GetChanges ==
  /\ step = "changes"
  /\ \/ /\ upto' = IF ChangedSince(upto) = {} THEN 0 ELSE seq
        /\ ids2lookup' = Live(ChangedSince(upto))
        /\ UNCHANGED failed
     \/ /\ Faults
        /\ upto' = 0
        /\ ids2lookup' = {}
        /\ failed' = TRUE
  /\ ret' = << >>
  /\ step' = "reading"
  /\ UNCHANGED <<in_progress, docs, last_sequence, passes, missed, backup>>

\* get_docs [2]: read one of them, as it is by now (Gone for a tombstone).  It
\* may be answered with an error, or not at all: then it is left out.
GetDoc(d) ==
  /\ step = "reading"
  /\ d \in ids2lookup
  /\ ids2lookup' = ids2lookup \ {d}
  /\ \/ /\ ret' = IF d \in Blacklisted THEN ret
                    ELSE Append(ret, [id |-> d, val |-> store[d].val])
        /\ missed' = missed \ {d}
     \/ /\ Faults
        /\ missed' = missed \cup {d}
        /\ UNCHANGED ret
  /\ UNCHANGED <<step, in_progress, docs, last_sequence, upto, passes, failed, backup>>

\* get_docs: when a _bulk_get fails the database is done, without this pass.
GetDocsFails ==
  /\ Faults
  /\ step = "reading"
  /\ ids2lookup # {}
  /\ step' = "saving"
  /\ failed' = TRUE
  /\ UNCHANGED <<in_progress, docs, last_sequence, pass, missed, backup>>

\* Mutant of UpdateBackup: later passes replace the documents of earlier ones.
UpdateLastPass ==
  /\ step = "reading"
  /\ ids2lookup = {}
  /\ docs' = ret
  /\ last_sequence' = upto
  /\ step' = "checking"
  /\ UNCHANGED <<in_progress, pass, missed, failed, backup>>

\* update_backup_obj [3]: the pass is complete.
UpdateBackup ==
  /\ step = "reading"
  /\ ids2lookup = {}
  /\ docs' = docs \o ret
  /\ last_sequence' = upto
  /\ step' = "checking"
  /\ UNCHANGED <<in_progress, pass, missed, failed, backup>>

\* Mutant of CheckChanges: the second look at _changes is left out.
NoCheckChanges ==
  /\ step = "checking"
  /\ step' = "saving"
  /\ UNCHANGED <<in_progress, docs, last_sequence, pass, missed, failed, backup>>

\* Mutant of CheckChanges: one pass more than the code allows.
CheckChangesOnceMore ==
  /\ step = "checking"
  /\ \/ /\ Live(ChangedSince(upto)) # {}
        /\ passes' = passes + 1
        /\ step' = "changes"
     \/ Live(ChangedSince(upto)) = {} /\ step' = "saving" /\ UNCHANGED passes
  /\ UNCHANGED <<in_progress, docs, last_sequence, upto, ids2lookup, ret, missed, failed, backup>>

\* [4]: ask again.  If documents were written since [1] there is another pass,
\* unless this was the last one.  (Then record_error finds no document yet.)
\* A request that fails is taken for an answer without documents.
CheckChanges ==
  /\ step = "checking"
  /\ \/ /\ Live(ChangedSince(upto)) # {}
        /\ passes < MaxPasses - 1
        /\ passes' = passes + 1
        /\ step' = "changes"
        /\ UNCHANGED failed
     \/ /\ Live(ChangedSince(upto)) = {} \/ passes = MaxPasses - 1
        /\ step' = "saving"
        /\ UNCHANGED <<passes, failed>>
     \/ /\ Faults
        /\ step' = "saving"
        /\ failed' = TRUE
        /\ UNCHANGED passes
  /\ UNCHANGED <<in_progress, docs, last_sequence, upto, ids2lookup, ret, missed, backup>>

\* async_backup, its end: in_progress is reset and couch_write_backup_doc sends
\* the backup as it is then.  The document is one of this backup alone, so it
\* does not matter here that it lands a little later.  The write may fail.
SaveBackup ==
  /\ step = "saving"
  /\ NoneInMemory
  /\ backup' = docs \/ (Faults /\ UNCHANGED backup)

\* The process dies, and its backup with it.
BackupCrash == NoneInMemory /\ UNCHANGED backup

BackupStep ==
  \/ GetChanges \/ GetDocsFails \/ UpdateBackup \/ CheckChanges \/ SaveBackup
  \/ \E d \in Ids : GetDoc(d)

-----------------------------------------------------------------------------
\* The last entry of d in a list is value v.
LastOf(list, d, v) ==
  \E i \in 1..Len(list) :
    /\ list[i] = [id |-> d, val |-> v]
    /\ \A j \in (i + 1)..Len(list) : list[j].id # d

\* Documents that are backed up, and exist.
Wanted == Live(Ids \ Blacklisted)

\* A backup says how far it goes: of each document that was not written after
\* last_sequence, its last entry in the backup is the document, whatever was
\* written while the passes read it and whichever requests failed, unless it was
\* left out, which the backup does not say (db_backup.js:446, :454).
UpToLastSequence ==
  \A d \in Wanted \ missed :
    store[d].rev <= last_sequence => LastOf(docs, d, store[d].val)

\* "loop on db _changes until we do not see any changes" (db_backup.js:260): a
\* backup that ends without a failed request before its last pass is a snapshot
\* of the database at that moment, but for documents that were left out.
EndsAsSnapshot ==
  [][step = "checking" /\ step' = "saving" /\ ~failed' /\ passes < MaxPasses - 1
     => \A d \in Wanted \ missed : LastOf(docs, d, store[d].val)]_<<store, seq, backupVars>>
=============================================================================

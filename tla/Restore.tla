------------------------------- MODULE Restore -------------------------------
(***************************************************************************)
(* Restoring a database, libs/db_backup.js: async_restore and restore_db.   *)
(* The documents of a backup are written batch by batch, first without a    *)
(* _rev.  Those answered with a conflict are read for their _rev and        *)
(* written again, up to MaxTries times; then the next batch follows.  The   *)
(* database is in use meanwhile.                                            *)
(*                                                                          *)
(* The writes of a _bulk_docs are single writes: CouchDB makes no           *)
(* transaction of them.  The watchdog that ends the restore after           *)
(* MAX_DOC_ITER batches is left out: the backups here have fewer.           *)
(***************************************************************************)
EXTENDS CouchDocs, Sequences

CONSTANTS
  BatchSize,  \* opts.BATCH
  MaxTries,   \* bulk writes of a batch (4 in the code: iter 0 to 3)
  Skip,       \* the skip_system or skip_components parameter
  Failures    \* whether requests fail

ASSUME RestoreAssumption ==
  /\ BatchSize \in Nat \ {0}
  /\ MaxTries \in Nat \ {0}
  /\ Skip \subseteq Ids
  /\ Failures \in BOOLEAN

\* A document as it is sent.
Sent == [id : Ids, val : Nat, rev : Nat]

VARIABLES
  restoring,  \* restore_in_progress, and what it is doing
  rest,       \* the documents of the backup from the current batch on
  docs_arr,   \* the documents of the bulk write
  pos,        \* the next of them to be written
  errors,     \* ids_with_errors: the documents answered with a conflict
  iter,       \* how often conflicts were read and written again
  written,    \* history: the documents this batch has written
  raced       \* history: how often others wrote each document in this batch

restoreVars == <<restoring, rest, docs_arr, pos, errors, iter, written, raced>>

RestoreTypeOK ==
  /\ restoring \in {"no", "picking", "writing"}
  /\ rest \in Seq([id : Ids, val : Nat])
  /\ docs_arr \in Seq(Sent)
  /\ pos \in Nat \ {0}
  /\ errors \in Seq(Ids)
  /\ iter \in 0..(MaxTries - 1)
  /\ written \subseteq Ids
  /\ raced \in [Ids -> Nat]

RestoreInit ==
  /\ restoring = "no"
  /\ rest = << >>
  /\ docs_arr = << >>
  /\ pos = 1
  /\ errors = << >>
  /\ iter = 0
  /\ written = {}
  /\ raced = [d \in Ids |-> 0]

-----------------------------------------------------------------------------
\* The positions filter_skip_docs removes.  It splices the array it iterates
\* over, so the document after a removed one is not looked at: of a run of
\* listed documents every other one stays.
Skipped(arr) ==
  {k \in 1..Len(arr) : \E j \in 0..(k - 1) :
     /\ (k - j) % 2 = 1
     /\ \A i \in (j + 1)..k : arr[i].id \in Skip
     /\ j > 0 => arr[j].id \notin Skip}

\* Where copy_rev finds the document d: its first position.
FirstOf(arr, d) ==
  CHOOSE k \in (1..Len(arr)) \ Skipped(arr) :
    /\ arr[k].id = d
    /\ \A j \in (1..(k - 1)) \ Skipped(arr) : arr[j].id # d

\* The documents of the current batch.
BatchLength == IF Len(rest) < BatchSize THEN Len(rest) ELSE BatchSize
Batch == SubSeq(rest, 1, BatchLength)

\* No batch is under way.
NoBatch ==
  /\ docs_arr' = << >>
  /\ pos' = 1
  /\ errors' = << >>
  /\ iter' = 0
  /\ written' = {}
  /\ raced' = [d \in Ids |-> 0]

\* async_restore: refused while a restore is in progress.
StartRestore(list) ==
  /\ restoring = "no"
  /\ restoring' = "picking"
  /\ rest' = list
  /\ UNCHANGED <<docs_arr, pos, errors, iter, written, raced>>

\* outer_loop: the next batch, without _revs.
PickBatch ==
  /\ restoring = "picking"
  /\ rest # << >>
  /\ restoring' = "writing"
  /\ docs_arr' = [i \in 1..BatchLength |-> [id |-> rest[i].id, val |-> rest[i].val, rev |-> NoRev]]
  /\ UNCHANGED <<rest, pos, errors, iter, written, raced>>

\* async_restore, its end: the webhook is set to success in any case.
EndRestore ==
  /\ restoring = "picking"
  /\ rest = << >>
  /\ restoring' = "no"
  /\ UNCHANGED <<rest, docs_arr, pos, errors, iter, written, raced>>

\* A document of the bulk write, unless filter_skip_docs took it out.
WriteDoc ==
  /\ restoring = "writing"
  /\ pos <= Len(docs_arr)
  /\ pos' = pos + 1
  /\ LET e == docs_arr[pos] IN
       \/ /\ pos \in Skipped(docs_arr)
          /\ UNCHANGED <<store, seq, errors, written>>
       \/ /\ pos \notin Skipped(docs_arr)
          /\ Accepts(e.id, e.rev)
          /\ Put(e.id, e.val)
          /\ written' = written \cup {e.id}
          /\ UNCHANGED errors
       \/ /\ pos \notin Skipped(docs_arr)
          /\ ~Accepts(e.id, e.rev)
          /\ errors' = Append(errors, e.id)
          /\ UNCHANGED <<store, seq, written>>
  /\ UNCHANGED <<restoring, rest, docs_arr, iter, raced>>

\* Back to outer_loop, for the batch after this one.
LeaveBatch ==
  /\ restoring' = "picking"
  /\ rest' = SubSeq(rest, BatchLength + 1, Len(rest))
  /\ NoBatch

\* bulk_doc_overwrite: no conflicts, or too many iterations.
EndBatch ==
  /\ restoring = "writing"
  /\ pos > Len(docs_arr)
  /\ errors = << >> \/ iter = MaxTries - 1
  /\ LeaveBatch

\* A bulk request fails: nobody looks at the error the batch ends with.
BatchFails ==
  /\ Failures
  /\ restoring = "writing"
  /\ LeaveBatch

\* Mutant of CopyRevs: the conflicts are dropped.
NoCopyRevs ==
  /\ restoring = "writing"
  /\ pos > Len(docs_arr)
  /\ errors # << >>
  /\ iter < MaxTries - 1
  /\ iter' = iter + 1
  /\ docs_arr' = << >>
  /\ pos' = 1
  /\ errors' = << >>
  /\ UNCHANGED <<restoring, rest, written, raced>>

\* simple_bulk_get, copy_rev and the next bulk_doc_overwrite: each conflict is
\* written again with the _rev the document has now.
CopyRevs ==
  /\ restoring = "writing"
  /\ pos > Len(docs_arr)
  /\ errors # << >>
  /\ iter < MaxTries - 1
  /\ iter' = iter + 1
  /\ docs_arr' = [x \in 1..Len(errors) |->
                    [docs_arr[FirstOf(docs_arr, errors[x])] EXCEPT !.rev = store[errors[x]].rev]]
  /\ pos' = 1
  /\ errors' = << >>
  /\ UNCHANGED <<restoring, rest, written, raced>>

\* The process dies.
RestoreCrash ==
  /\ restoring' = "no"
  /\ rest' = << >>
  /\ NoBatch

\* Somebody else writes d.
Race(d) ==
  raced' = IF restoring = "writing" THEN [raced EXCEPT ![d] = @ + 1] ELSE raced

-----------------------------------------------------------------------------
BatchDone ==
  /\ restoring = "writing"
  /\ pos > Len(docs_arr)
  /\ errors = << >> \/ iter = MaxTries - 1

BatchIds == {Batch[i].id : i \in 1..BatchLength}

\* The conflict loop gives no document up too early: when a batch ends, each of
\* its documents was written, unless others wrote it between every two tries.
EveryDocRestored ==
  BatchDone => \A d \in BatchIds \ Skip : d \in written \/ raced[d] >= MaxTries - 1
=============================================================================

----------------------------- MODULE CouchDocs -----------------------------
(***************************************************************************)
(* One CouchDB database as libs/couchdb.js uses it for whole-database work: *)
(* every document has the update sequence of its last write, which also     *)
(* stands for its _rev, and a value.  A value is the sequence of the write  *)
(* that brought it into the database first, so that two versions of one     *)
(* document differ; Gone is the value of a document that was deleted or     *)
(* never existed.                                                           *)
(***************************************************************************)
EXTENDS Integers

CONSTANT Ids  \* the ids of documents

VARIABLES
  store,  \* store[d]: document d in the database
  seq     \* the database's update sequence

\* Gone is a value; NoRev is the _rev of a document sent without one.
Gone == 0
NoRev == 0

Documents == [rev : Nat, val : Nat]

StoreTypeOK ==
  /\ store \in [Ids -> Documents]
  /\ seq \in Nat
  /\ \A d \in Ids : store[d].rev <= seq /\ (store[d].val # Gone => store[d].rev > 0)

\* get_changes: the documents written since a sequence, deleted ones included.
ChangedSince(since) == {d \in Ids : store[d].rev > since}

\* Those of a set that exist.
Live(ds) == {d \in ds : store[d].val # Gone}

\* A PUT with a revision lands, or is answered 409.  A document that does not
\* exist takes one without a revision.
Accepts(d, rev) ==
  \/ rev = store[d].rev
  \/ rev = NoRev /\ store[d].val = Gone

Put(d, val) ==
  /\ seq' = seq + 1
  /\ store' = [store EXCEPT ![d] = [rev |-> seq + 1, val |-> val]]

\* Anybody else writes or deletes a document.
OtherWrites(d) == Put(d, seq + 1)
OtherDeletes(d) == store[d].val # Gone /\ Put(d, Gone)

=============================================================================

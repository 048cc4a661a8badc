------------------------ MODULE BackupRestore_proofs ------------------------
(***************************************************************************)
(* Proofs about BackupRestore, for any documents, bounds and faults: what a *)
(* backup holds while the database is in use, and what a restore has        *)
(* written when it leaves a batch.                                          *)
(***************************************************************************)
EXTENDS BackupRestore, SequenceTheorems, WellFoundedInduction, TLAPS

\* The passes so far cover what was written up to the sequence they reached: of
\* every document but those still to be looked up and those left out, the last
\* entry is current.  What is still to be looked up was written after the last
\* complete pass.
PassCovers ==
  /\ step = "reading" =>
       /\ \A d \in (Wanted \ ids2lookup) \ missed :
            store[d].rev <= upto => LastOf(docs \o ret, d, store[d].val)
       /\ \A d \in ids2lookup : ~(store[d].rev <= last_sequence)
  /\ step \in {"idle", "changes", "checking"} => upto = last_sequence

\* No second backup can start over one that is running.
OneBackup == step # "idle" => in_progress

BackupInv == StoreTypeOK /\ BackupTypeOK /\ UpToLastSequence /\ PassCovers /\ OneBackup

\* The document at position p of the bulk write lands unless somebody wrote d in
\* each of the tries so far and since its _rev was read.
Lands(d, p) ==
  \/ iter = 0
  \/ raced[d] >= iter
  \/ raced[d] >= iter - 1 /\ docs_arr[p].rev = store[d].rev

\* Every document of the batch was written, is about to be, or was answered with
\* a conflict, which in the later tries is somebody else's doing.
NoneForgotten ==
  restoring = "writing" =>
    \A d \in BatchIds \ Skip :
      \/ d \in written
      \/ \E p \in pos..Len(docs_arr) : docs_arr[p].id = d /\ Lands(d, p)
      \/ raced[d] >= iter /\ \E x \in 1..Len(errors) : errors[x] = d

\* What was answered with a conflict had been sent.
ErrorsWereSent ==
  \A x \in 1..Len(errors) :
    \E k \in (1..Len(docs_arr)) \ Skipped(docs_arr) : docs_arr[k].id = errors[x]

\* Between two batches nothing of the last one is left.
NothingLeft == restoring # "writing" => pos = 1 /\ iter = 0 /\ errors = << >>

RestoreInv == RestoreTypeOK /\ NoneForgotten /\ ErrorsWereSent /\ NothingLeft

-----------------------------------------------------------------------------
\* A write moves the document past every sequence seen so far.
LEMMA PutType ==
  ASSUME StoreTypeOK, NEW d \in Ids, NEW v \in Nat, Put(d, v)
  PROVE  /\ StoreTypeOK'
         /\ seq' = seq + 1
         /\ store'[d] = [rev |-> seq + 1, val |-> v]
         /\ \A e \in Ids \ {d} : store'[e] = store[e]
BY DEF StoreTypeOK, Documents, Put

\* What the last entry of a document is depends on the entries only.
LEMMA LastOfAppended ==
  ASSUME NEW list \in Seq(Entries), NEW d \in Ids, NEW v \in Nat
  PROVE  /\ LastOf(Append(list, [id |-> d, val |-> v]), d, v)
         /\ \A e \in Ids \ {d}, w \in Nat :
              LastOf(list, e, w) => LastOf(Append(list, [id |-> d, val |-> v]), e, w)
<1> DEFINE new == [id |-> d, val |-> v]
           list2 == Append(list, new)
<1>1. /\ Len(list2) = Len(list) + 1
      /\ list2[Len(list) + 1] = new
      /\ \A i \in 1..Len(list) : list2[i] = list[i]
  BY DEF Entries
<1>2. LastOf(list2, d, v)
  BY <1>1 DEF LastOf
<1>3. ASSUME NEW e \in Ids \ {d}, NEW w \in Nat, LastOf(list, e, w)
      PROVE  LastOf(list2, e, w)
  <2>1. PICK i \in 1..Len(list) : /\ list[i] = [id |-> e, val |-> w]
                                  /\ \A j \in (i + 1)..Len(list) : list[j].id # e
    BY <1>3 DEF LastOf
  <2>2. \A j \in (i + 1)..Len(list2) : list2[j].id # e
    BY <1>1, <2>1
  <2>. QED BY <1>1, <2>1, <2>2 DEF LastOf
<1>. QED BY <1>2, <1>3

\* Appending to the second of two concatenated lists.
LEMMA AppendToConcat ==
  ASSUME NEW s \in Seq(Entries), NEW t \in Seq(Entries), NEW e \in Entries
  PROVE  s \o Append(t, e) = Append(s \o t, e)
<1>1. /\ s \o t \in Seq(Entries)
      /\ Len(s \o t) = Len(s) + Len(t)
      /\ \A i \in 1..(Len(s) + Len(t)) :
           (s \o t)[i] = IF i <= Len(s) THEN s[i] ELSE t[i - Len(s)]
  BY ConcatProperties
<1>2. /\ Append(t, e) \in Seq(Entries)
      /\ Len(Append(t, e)) = Len(t) + 1
      /\ \A i \in 1..Len(t) : Append(t, e)[i] = t[i]
      /\ Append(t, e)[Len(t) + 1] = e
  OBVIOUS
<1>3. /\ s \o Append(t, e) \in Seq(Entries)
      /\ Len(s \o Append(t, e)) = Len(s) + Len(t) + 1
      /\ \A i \in 1..(Len(s) + Len(t) + 1) :
           (s \o Append(t, e))[i] = IF i <= Len(s) THEN s[i] ELSE Append(t, e)[i - Len(s)]
  <2>1. Len(s) \in Nat /\ Len(t) \in Nat
    OBVIOUS
  <2>. QED BY <1>2, <2>1, ConcatProperties
<1>4. /\ Append(s \o t, e) \in Seq(Entries)
      /\ Len(Append(s \o t, e)) = Len(s) + Len(t) + 1
      /\ \A i \in 1..(Len(s) + Len(t)) : Append(s \o t, e)[i] = (s \o t)[i]
      /\ Append(s \o t, e)[Len(s) + Len(t) + 1] = e
  BY <1>1
<1>5. ASSUME NEW i \in 1..(Len(s) + Len(t) + 1)
      PROVE  (s \o Append(t, e))[i] = Append(s \o t, e)[i]
  <2>1. Len(s) \in Nat /\ Len(t) \in Nat
    OBVIOUS
  <2>2. CASE i <= Len(s)
    BY <1>1, <1>3, <1>4, <2>1, <2>2
  <2>3. CASE i > Len(s) /\ i <= Len(s) + Len(t)
    BY <1>1, <1>2, <1>3, <1>4, <2>1, <2>3
  <2>4. CASE i = Len(s) + Len(t) + 1
    BY <1>2, <1>3, <1>4, <2>1, <2>4
  <2>. QED BY <2>1, <2>2, <2>3, <2>4
<1>. QED BY <1>3, <1>4, <1>5, SeqEqual

-----------------------------------------------------------------------------
\* A write of a value, by whomever, keeps what backups say: the document is past
\* their last sequence now.
LEMMA PutKeepsBackup ==
  ASSUME BackupInv, NEW d \in Ids, NEW v \in Nat, Put(d, v), UNCHANGED backupVars
  PROVE  BackupInv'
<1> USE DEF BackupInv
<1>1. /\ StoreTypeOK'
      /\ seq' = seq + 1
      /\ store'[d].rev = seq + 1
      /\ \A e \in Ids \ {d} : store'[e] = store[e]
  <2>1. /\ StoreTypeOK'
        /\ seq' = seq + 1
        /\ store'[d] = [rev |-> seq + 1, val |-> v]
        /\ \A e \in Ids \ {d} : store'[e] = store[e]
    BY PutType
  <2>2. store'[d].rev = seq + 1
    BY <2>1
  <2>. QED BY <2>1, <2>2
<1>2. /\ step' = step /\ docs' = docs /\ last_sequence' = last_sequence /\ upto' = upto
      /\ ids2lookup' = ids2lookup /\ ret' = ret /\ passes' = passes /\ backup' = backup
      /\ missed' = missed
  BY DEF backupVars
<1>7. in_progress' \in BOOLEAN /\ failed' \in BOOLEAN
  BY DEF backupVars, BackupTypeOK
<1>6. BackupTypeOK'
  <2>1. last_sequence' \in 0..seq' /\ upto' \in 0..seq'
    BY <1>1, <1>2 DEF BackupTypeOK, StoreTypeOK
  <2>. QED BY <1>2, <1>7, <2>1 DEF BackupTypeOK
<1>3. \A e \in Wanted' : e = d \/ e \in Wanted
  BY <1>1 DEF Wanted, Live
<1>4. UpToLastSequence'
  <2>1. ASSUME NEW e \in Wanted', store'[e].rev <= last_sequence
        PROVE  e \in Wanted /\ store'[e] = store[e]
    BY <1>1, <1>3, <2>1 DEF BackupTypeOK, StoreTypeOK, Wanted, Live
  <2>. QED BY <1>2, <2>1 DEF UpToLastSequence
<1>5. PassCovers'
  <2>1. ASSUME NEW e \in Wanted', store'[e].rev <= upto
        PROVE  e \in Wanted /\ store'[e] = store[e]
    BY <1>1, <1>3, <2>1 DEF BackupTypeOK, StoreTypeOK, Wanted, Live
  <2>2. ASSUME step = "reading", NEW e \in ids2lookup
        PROVE  ~(store'[e].rev <= last_sequence)
    <3>1. e \in Ids /\ last_sequence \in Nat /\ seq \in Nat /\ last_sequence <= seq
      BY <2>2 DEF BackupTypeOK, StoreTypeOK
    <3>2. CASE e = d
      BY <1>1, <3>1, <3>2
    <3>3. CASE e # d
      BY <1>1, <2>2, <3>1, <3>3 DEF PassCovers
    <3>. QED BY <3>2, <3>3
  <2>. QED BY <1>2, <2>1, <2>2 DEF PassCovers
<1>8. OneBackup'
  BY Zenon DEF backupVars, OneBackup
<1>. QED BY <1>1, <1>4, <1>5, <1>6, <1>8

\* Only the step of a backup itself can disturb what it says.
LEMMA BackingKeeps ==
  ASSUME BackupInv, BackupStep, UNCHANGED <<store, seq>>
  PROVE  BackupInv'
<1> USE BackupAssumption DEF BackupInv
<1>8. OneBackup'
  BY DEF BackupStep, GetChanges, GetDoc, GetDocsFails, UpdateBackup, CheckChanges, SaveBackup,
         NoneInMemory, OneBackup, BackupTypeOK
<1>. SUFFICES BackupTypeOK' /\ UpToLastSequence' /\ PassCovers'
  BY <1>8 DEF StoreTypeOK
<1>1. Wanted' = Wanted /\ Wanted \subseteq Ids
  BY DEF Wanted, Live
<1>2. CASE GetChanges
  <2>1. BackupTypeOK'
    <3>1. /\ upto' \in 0..seq /\ seq' = seq /\ seq \in Nat
          /\ ret' = << >> /\ step' = "reading"
      BY <1>2 DEF GetChanges, StoreTypeOK
    <3>2. ids2lookup' \subseteq Ids
      BY <1>2 DEF GetChanges, Live, ChangedSince
    <3>3. failed' \in BOOLEAN
      BY <1>2 DEF GetChanges, BackupTypeOK
    <3>4. << >> \in Seq(Entries)
      OBVIOUS
    <3>5. /\ in_progress' = in_progress /\ docs' = docs /\ last_sequence' = last_sequence
          /\ passes' = passes /\ backup' = backup /\ missed' = missed
      BY <1>2 DEF GetChanges
    <3>. QED BY <3>1, <3>2, <3>3, <3>4, <3>5 DEF BackupTypeOK
  <2>2. UpToLastSequence'
    BY <1>1, <1>2 DEF GetChanges, UpToLastSequence
  <2>3. docs \o << >> = docs
    BY ConcatEmptySeq DEF BackupTypeOK
  <2>4. ASSUME NEW d \in Wanted, d \notin ids2lookup', d \notin missed, store[d].rev <= upto'
        PROVE  LastOf(docs, d, store[d].val)
    <3>1. store[d].rev \in Nat /\ upto \in Nat /\ store[d].rev <= seq
      BY <1>1 DEF StoreTypeOK, Documents, BackupTypeOK
    <3>2. CASE upto' = 0
      <4>1. store[d].rev <= last_sequence
        BY <2>4, <3>1, <3>2 DEF BackupTypeOK
      <4>. QED BY <2>4, <4>1 DEF UpToLastSequence
    <3>3. CASE ids2lookup' = Live(ChangedSince(upto))
      <4>1. store[d].rev <= upto
        BY <1>1, <2>4, <3>1, <3>3 DEF Live, ChangedSince, Wanted
      <4>2. upto = last_sequence
        BY <1>2 DEF GetChanges, PassCovers
      <4>. QED BY <2>4, <4>1, <4>2 DEF UpToLastSequence
    <3>. QED BY <1>2, <3>2, <3>3 DEF GetChanges
  <2>6. ASSUME NEW d \in ids2lookup'
        PROVE  ~(store[d].rev <= last_sequence)
    <3>1. CASE ids2lookup' = {}
      BY <2>6, <3>1
    <3>2. CASE ids2lookup' = Live(ChangedSince(upto))
      <4>1. d \in Ids /\ store[d].rev > upto
        BY <2>6, <3>2 DEF Live, ChangedSince
      <4>2. upto = last_sequence /\ upto \in Nat /\ store[d].rev \in Nat
        BY <1>2, <4>1 DEF GetChanges, PassCovers, StoreTypeOK, Documents, BackupTypeOK
      <4>. QED BY <4>1, <4>2
    <3>. QED BY <1>2, <3>1, <3>2 DEF GetChanges
  <2>5. PassCovers'
    BY <1>1, <1>2, <2>3, <2>4, <2>6 DEF GetChanges, PassCovers
  <2>. QED BY <2>1, <2>2, <2>5
<1>3. ASSUME NEW d \in Ids, GetDoc(d)
      PROVE  BackupTypeOK' /\ UpToLastSequence' /\ PassCovers'
  <2>1. store[d].val \in Nat
    BY DEF StoreTypeOK, Documents
  <2>2. BackupTypeOK'
    <3>0. [id |-> d, val |-> store[d].val] \in Entries
      BY <2>1 DEF Entries
    <3>1. ret' \in Seq(Entries) /\ ids2lookup' \subseteq Ids /\ missed' \subseteq Ids
      BY <1>3, <3>0 DEF GetDoc, BackupTypeOK
    <3>2. /\ step' = "reading" /\ docs' = docs /\ last_sequence' = last_sequence
          /\ upto' = upto /\ passes' = passes /\ backup' = backup /\ seq' = seq
      BY <1>3 DEF GetDoc
    <3>3. in_progress' \in BOOLEAN /\ failed' \in BOOLEAN
      BY <1>3 DEF GetDoc, BackupTypeOK
    <3>. QED BY <3>1, <3>2, <3>3 DEF BackupTypeOK
  <2>0. /\ step = "reading" /\ step' = "reading" /\ upto' = upto /\ docs' = docs
        /\ ids2lookup' = ids2lookup \ {d} /\ store' = store /\ d \in ids2lookup
        /\ last_sequence' = last_sequence
    BY <1>3 DEF GetDoc
  <2>9. missed' = missed \ {d} \/ missed' = missed \cup {d}
    BY <1>3 DEF GetDoc
  <2>3. UpToLastSequence'
    <3>1. ~(store[d].rev <= last_sequence)
      BY <2>0 DEF PassCovers
    <3>2. ASSUME NEW e \in Wanted, e \notin missed', store[e].rev <= last_sequence
          PROVE  LastOf(docs, e, store[e].val)
      BY <2>9, <3>1, <3>2 DEF UpToLastSequence
    <3>. QED BY <1>1, <2>0, <3>2 DEF UpToLastSequence
  <2>6. \A e \in ids2lookup' : ~(store'[e].rev <= last_sequence')
    BY <2>0 DEF PassCovers
  <2>4. ASSUME ret' = ret, d \in Blacklisted \/ d \in missed'
        PROVE  PassCovers'
    <3>2. ASSUME NEW e \in Wanted, e \notin ids2lookup', e \notin missed'
          PROVE  e \notin ids2lookup /\ e \notin missed
      BY <2>0, <2>4, <2>9, <3>2 DEF Wanted, Live
    <3>3. ASSUME NEW e \in Wanted', e \notin ids2lookup', e \notin missed', store'[e].rev <= upto'
          PROVE  LastOf(docs' \o ret', e, store'[e].val)
      BY <1>1, <2>0, <2>4, <3>2, <3>3 DEF PassCovers
    <3>. QED BY <2>0, <2>6, <3>3 DEF PassCovers
  <2>5. ASSUME d \notin Blacklisted, ret' = Append(ret, [id |-> d, val |-> store[d].val]),
               missed' = missed \ {d}
        PROVE  PassCovers'
    <3>1. /\ docs \o ret \in Seq(Entries)
          /\ docs \o ret' = Append(docs \o ret, [id |-> d, val |-> store[d].val])
      BY <2>1, <2>5, ConcatProperties, AppendToConcat DEF BackupTypeOK, Entries
    <3>2. LastOf(docs \o ret', d, store[d].val)
      BY <2>1, <3>1, LastOfAppended
    <3>3. ASSUME NEW e \in Wanted, e # d, LastOf(docs \o ret, e, store[e].val)
          PROVE  LastOf(docs \o ret', e, store[e].val)
      <4>1. store[e].val \in Nat /\ e \in Ids \ {d}
        BY <1>1, <3>3 DEF StoreTypeOK, Documents
      <4>. QED BY <2>1, <3>1, <3>3, <4>1, LastOfAppended
    <3>4. ASSUME NEW e \in Wanted, e \notin ids2lookup', e \notin missed', store[e].rev <= upto
          PROVE  LastOf(docs \o ret', e, store[e].val)
      <4>1. CASE e = d
        BY <3>2, <4>1
      <4>2. CASE e # d
        <5>1. e \notin ids2lookup /\ e \notin missed
          BY <2>0, <2>5, <3>4, <4>2
        <5>. QED BY <2>0, <3>3, <3>4, <4>2, <5>1 DEF PassCovers
      <4>. QED BY <4>1, <4>2
    <3>5. ASSUME NEW e \in Wanted', e \notin ids2lookup', e \notin missed', store'[e].rev <= upto'
          PROVE  LastOf(docs' \o ret', e, store'[e].val)
      BY <1>1, <2>0, <3>4, <3>5
    <3>. QED BY <2>0, <2>6, <3>5 DEF PassCovers
  <2>7. \/ ret' = ret /\ (d \in Blacklisted \/ d \in missed')
        \/ /\ d \notin Blacklisted /\ missed' = missed \ {d}
           /\ ret' = Append(ret, [id |-> d, val |-> store[d].val])
    BY <1>3 DEF GetDoc
  <2>. QED BY <2>2, <2>3, <2>4, <2>5, <2>7
<1>4. CASE UpdateBackup
  <2>0. /\ step = "reading" /\ step' = "checking" /\ ids2lookup = {} /\ docs' = docs \o ret
        /\ last_sequence' = upto /\ upto' = upto /\ ids2lookup' = ids2lookup /\ ret' = ret
        /\ passes' = passes /\ in_progress' = in_progress /\ failed' = failed /\ missed' = missed
        /\ backup' = backup /\ store' = store /\ seq' = seq
    BY <1>4 DEF UpdateBackup, pass
  <2>1. BackupTypeOK'
    BY <2>0, ConcatProperties DEF BackupTypeOK
  <2>2. UpToLastSequence'
    BY <1>1, <2>0 DEF UpToLastSequence, PassCovers
  <2>. QED BY <2>0, <2>1, <2>2 DEF PassCovers
<1>5. CASE CheckChanges
  <2>1. BackupTypeOK'
    <3>1. passes' \in 0..(MaxPasses - 1)
      BY <1>5 DEF CheckChanges, BackupTypeOK
    <3>2. failed' \in BOOLEAN
      BY <1>5 DEF CheckChanges, BackupTypeOK
    <3>. QED BY <1>5, <3>1, <3>2 DEF CheckChanges, BackupTypeOK
  <2>2. UpToLastSequence'
    BY <1>1, <1>5 DEF CheckChanges, UpToLastSequence
  <2>3. PassCovers'
    BY <1>5 DEF CheckChanges, PassCovers
  <2>. QED BY <2>1, <2>2, <2>3
<1>6. CASE GetDocsFails
  BY <1>1, <1>6 DEF GetDocsFails, BackupTypeOK, UpToLastSequence, PassCovers, pass
<1>7. CASE SaveBackup
  <2>1. << >> \in Seq(Entries)
    OBVIOUS
  <2>2. BackupTypeOK'
    <3>1. backup' \in Seq(Entries) \cup {NoBackup}
      BY <1>7 DEF SaveBackup, BackupTypeOK
    <3>2. 0 \in 0..seq' /\ 0 \in 0..(MaxPasses - 1)
      BY DEF StoreTypeOK
    <3>. QED BY <1>7, <2>1, <3>1, <3>2 DEF SaveBackup, NoneInMemory, BackupTypeOK
  <2>3. \A d \in Wanted : store[d].rev > 0
    BY DEF Wanted, Live, StoreTypeOK
  <2>4. \A d \in Wanted : ~(store[d].rev <= 0)
    BY <1>1, <2>3 DEF StoreTypeOK, Documents
  <2>. QED BY <1>1, <1>7, <2>2, <2>4 DEF SaveBackup, NoneInMemory, UpToLastSequence, PassCovers
<1>. QED BY <1>2, <1>3, <1>4, <1>5, <1>6, <1>7 DEF BackupStep

\* What another component's step leaves alone.
LEMMA BackupUnchanged ==
  ASSUME BackupInv, UNCHANGED <<store, seq, backupVars>>
  PROVE  BackupInv'
<1> USE DEF BackupInv
<1>1. UNCHANGED <<store, seq>> /\ UNCHANGED backupVars
  OBVIOUS
<1>2. /\ step' = step /\ docs' = docs /\ last_sequence' = last_sequence /\ upto' = upto
      /\ ids2lookup' = ids2lookup /\ ret' = ret /\ passes' = passes /\ backup' = backup
      /\ missed' = missed
      /\ store' = store /\ seq' = seq
  BY <1>1 DEF backupVars
<1>3. in_progress' \in BOOLEAN /\ failed' \in BOOLEAN
  BY <1>1 DEF backupVars, BackupTypeOK
<1>4. StoreTypeOK' /\ BackupTypeOK'
  BY <1>2, <1>3 DEF StoreTypeOK, BackupTypeOK
<1>5. Wanted' = Wanted
  BY <1>2 DEF Wanted, Live
<1>6. UpToLastSequence' /\ PassCovers'
  BY <1>2, <1>5 DEF UpToLastSequence, PassCovers
<1>7. OneBackup'
  <2>1. UNCHANGED backupVars
    BY <1>1
  <2>2. step' = step
    BY <1>2
  <2>3. in_progress' = in_progress
    BY <2>1, Zenon DEF backupVars
  <2>. QED BY <2>2, <2>3, Zenon DEF OneBackup
<1>. QED BY <1>4, <1>6, <1>7

\* Nothing in memory claims nothing: no document has been written at sequence 0.
LEMMA NoneKeepsBackup ==
  ASSUME BackupInv, NoneInMemory, UNCHANGED <<store, seq, backup>>
  PROVE  BackupInv'
<1> USE BackupAssumption DEF BackupInv
<1>1. /\ step' = "idle" /\ docs' = << >> /\ last_sequence' = 0 /\ upto' = 0
      /\ ids2lookup' = {} /\ ret' = << >> /\ passes' = 0 /\ backup' = backup
      /\ missed' = {} /\ store' = store /\ seq' = seq /\ seq \in Nat
  BY DEF NoneInMemory, StoreTypeOK
<1>2. in_progress' \in BOOLEAN /\ failed' \in BOOLEAN
  BY DEF NoneInMemory
<1>3. << >> \in Seq(Entries) /\ 0 \in 0..seq' /\ 0 \in 0..(MaxPasses - 1)
  BY <1>1
<1>4. StoreTypeOK' /\ BackupTypeOK'
  BY <1>1, <1>2, <1>3 DEF StoreTypeOK, BackupTypeOK
<1>5. Wanted' = Wanted
  BY <1>1 DEF Wanted, Live
<1>6. \A d \in Wanted : store[d].rev > 0
  BY DEF Wanted, Live, StoreTypeOK
<1>7. \A d \in Wanted : ~(store[d].rev <= 0)
  BY <1>6 DEF StoreTypeOK, Documents, Wanted, Live
<1>8. UpToLastSequence'
  BY <1>1, <1>5, <1>7 DEF UpToLastSequence
<1>9. PassCovers'
  BY <1>1 DEF PassCovers
<1>10. OneBackup'
  BY <1>1 DEF OneBackup
<1>. QED BY <1>4, <1>8, <1>9, <1>10

\* A backup that starts has nothing in memory yet.
LEMMA StartKeepsBackup ==
  ASSUME BackupInv, StartBackup, UNCHANGED <<store, seq>>
  PROVE  BackupInv'
<1> USE DEF BackupInv
<1>1. /\ docs' = docs /\ last_sequence' = last_sequence /\ upto' = upto
      /\ ids2lookup' = ids2lookup /\ ret' = ret /\ passes' = passes
      /\ missed' = missed /\ store' = store /\ seq' = seq
  BY DEF StartBackup, pass
<1>2. in_progress' \in BOOLEAN /\ failed' \in BOOLEAN /\ backup' = NoBackup
  BY DEF StartBackup, BackupTypeOK
<1>3. step' = "changes" \/ step' = step
  BY DEF StartBackup
<1>4. StoreTypeOK' /\ BackupTypeOK'
  BY <1>1, <1>2, <1>3 DEF StoreTypeOK, BackupTypeOK
<1>5. Wanted' = Wanted
  BY <1>1 DEF Wanted, Live
<1>6. UpToLastSequence'
  BY <1>1, <1>5 DEF UpToLastSequence
<1>7. PassCovers'
  BY <1>1, <1>3 DEF StartBackup, PassCovers, OneBackup
<1>8. OneBackup'
  BY DEF StartBackup, OneBackup
<1>. QED BY <1>4, <1>6, <1>7, <1>8

-----------------------------------------------------------------------------
\* Every nonempty set of positions has a first one.
LEMMA FirstPosition ==
  ASSUME NEW S, S \subseteq Nat, S # {}
  PROVE  \E k \in S : \A j \in S : ~(j < k)
<1>1. \E k \in S : \A j \in S : ~(<<j, k>> \in OpToRel(<, Nat))
  BY WFMin, NatLessThanWellFounded
<1>2. \A j, k \in Nat : <<j, k>> \in OpToRel(<, Nat) <=> j < k
  BY DEF OpToRel
<1>. QED BY <1>1, <1>2

\* copy_rev finds a document that was sent.
LEMMA FirstOfFound ==
  ASSUME NEW arr \in Seq(Sent), NEW d \in Ids,
         \E k \in (1..Len(arr)) \ Skipped(arr) : arr[k].id = d
  PROVE  FirstOf(arr, d) \in 1..Len(arr) /\ arr[FirstOf(arr, d)].id = d
<1> DEFINE Sure == {k \in (1..Len(arr)) \ Skipped(arr) : arr[k].id = d}
<1>1. Sure # {} /\ Sure \subseteq Nat
  OBVIOUS
<1>2. PICK k \in Sure : \A j \in Sure : ~(j < k)
  BY <1>1, FirstPosition
<1>3. ASSUME NEW j \in (1..(k - 1)) \ Skipped(arr)
      PROVE  arr[j].id # d
  <2>1. j \in 1..Len(arr) /\ j < k
    OBVIOUS
  <2>. QED BY <1>2, <2>1
<1>4. \E i \in (1..Len(arr)) \ Skipped(arr) :
        arr[i].id = d /\ \A j \in (1..(i - 1)) \ Skipped(arr) : arr[j].id # d
  BY <1>3
<1>. QED BY <1>4 DEF FirstOf

\* filter_skip_docs removes listed documents only.
LEMMA SkippedAreListed ==
  ASSUME NEW arr \in Seq(Sent), NEW k \in 1..Len(arr), arr[k].id \notin Skip
  PROVE  k \notin Skipped(arr)
BY DEF Skipped

\* The current batch.
LEMMA BatchType ==
  ASSUME RestoreTypeOK
  PROVE  /\ BatchLength \in 0..Len(rest)
         /\ \A i \in 1..BatchLength : Batch[i] = rest[i] /\ rest[i] \in [id : Ids, val : Nat]
         /\ SubSeq(rest, BatchLength + 1, Len(rest)) \in Seq([id : Ids, val : Nat])
<1>1. BatchLength \in 0..Len(rest)
  BY RestoreAssumption DEF RestoreTypeOK, BatchLength
<1>2. /\ Len(rest) \in Nat /\ BatchLength \in Nat /\ BatchLength <= Len(rest)
      /\ 1 \in 1..(Len(rest) + 1) /\ BatchLength \in 0..Len(rest)
      /\ BatchLength + 1 \in 1..(Len(rest) + 1) /\ Len(rest) \in 0..Len(rest)
  BY <1>1 DEF RestoreTypeOK
<1> DEFINE T == [id : Ids, val : Nat]
<1>4. rest \in Seq(T)
  BY DEF RestoreTypeOK
<1> HIDE DEF T
<1>5. /\ \A i \in 1..BatchLength : Batch[i] = rest[i]
      /\ \A i \in 1..BatchLength : rest[i] \in T
      /\ SubSeq(rest, BatchLength + 1, Len(rest)) \in Seq(T)
  <2>1. \A i \in 1..BatchLength : rest[i] \in T
    BY <1>2, <1>4, ElementOfSeq
  <2>2. SubSeq(rest, BatchLength + 1, Len(rest)) \in Seq(T)
    BY <1>2, <1>4, SubSeqProperties
  <2>3. \A i \in 1..BatchLength : SubSeq(rest, 1, BatchLength)[i] = rest[1 + i - 1]
    BY <1>2, <1>4, SubSeqProperties
  <2>. QED BY <1>2, <2>1, <2>2, <2>3 DEF Batch
<1>. QED BY <1>1, <1>5 DEF T

-----------------------------------------------------------------------------
\* A batch that is left leaves nothing behind.
LEMMA LeaveKeepsRestore ==
  ASSUME RestoreTypeOK, restoring' \in {"no", "picking"}, NoBatch,
         rest' \in Seq([id : Ids, val : Nat])
  PROVE  RestoreInv'
<1> USE RestoreAssumption
<1>1. /\ docs_arr' = << >> /\ pos' = 1 /\ errors' = << >> /\ iter' = 0 /\ written' = {}
      /\ raced' = [d \in Ids |-> 0]
  BY DEF NoBatch
<1>2. << >> \in Seq(Sent) /\ << >> \in Seq(Ids)
  OBVIOUS
<1>3. RestoreTypeOK'
  BY <1>1, <1>2 DEF RestoreTypeOK
<1>4. NoneForgotten' /\ NothingLeft'
  BY <1>1 DEF NoneForgotten, NothingLeft
<1>5. ErrorsWereSent'
  BY <1>1 DEF ErrorsWereSent
<1>. QED BY <1>3, <1>4, <1>5 DEF RestoreInv

\* What another component's step leaves alone.
LEMMA RestoreUnchanged ==
  ASSUME RestoreInv, UNCHANGED <<store, seq, restoreVars>>
  PROVE  RestoreInv'
<1>1. /\ restoring' = restoring /\ rest' = rest /\ docs_arr' = docs_arr /\ pos' = pos
      /\ errors' = errors /\ iter' = iter /\ written' = written /\ raced' = raced
      /\ store' = store
  BY DEF restoreVars
<1>2. BatchLength' = BatchLength /\ BatchIds' = BatchIds
  BY <1>1 DEF BatchLength, BatchIds, Batch
<1>3. \A d \in Ids, q \in Nat : Lands(d, q)' = Lands(d, q)
  BY <1>1 DEF Lands
<1>4. RestoreTypeOK' /\ NothingLeft'
  BY <1>1 DEF RestoreInv, RestoreTypeOK, NothingLeft
<1>5. ErrorsWereSent'
  BY <1>1 DEF RestoreInv, ErrorsWereSent, Skipped
<1>6. NoneForgotten'
  BY <1>1, <1>2 DEF RestoreInv, NoneForgotten, Lands
<1>. QED BY <1>4, <1>5, <1>6 DEF RestoreInv

\* Another writer of d makes the next try of d one that may fail.
LEMMA RaceKeepsRestore ==
  ASSUME StoreTypeOK, RestoreInv, NEW d \in Ids, NEW v \in Nat, Put(d, v), Race(d),
         UNCHANGED <<restoring, rest, docs_arr, pos, errors, iter, written>>
  PROVE  RestoreInv'
<1>1. /\ restoring' = restoring /\ rest' = rest /\ docs_arr' = docs_arr /\ pos' = pos
      /\ errors' = errors /\ iter' = iter /\ written' = written
  OBVIOUS
<1>2. BatchLength' = BatchLength /\ BatchIds' = BatchIds
  BY <1>1 DEF BatchLength, BatchIds, Batch
<1>3. RestoreTypeOK' /\ NothingLeft'
  <2>1. raced' \in [Ids -> Nat]
    BY DEF Race, RestoreInv, RestoreTypeOK
  <2>. QED BY <1>1, <2>1 DEF RestoreInv, RestoreTypeOK, NothingLeft
<1>4. ErrorsWereSent'
  BY <1>1 DEF RestoreInv, ErrorsWereSent, Skipped
<1>5. NoneForgotten'
  <2>. SUFFICES ASSUME restoring = "writing", NEW e \in BatchIds, e \notin Skip, e \notin written
                PROVE  \/ \E p \in pos..Len(docs_arr) : docs_arr[p].id = e /\ Lands(e, p)'
                       \/ raced'[e] >= iter /\ \E x \in 1..Len(errors) : errors[x] = e
    BY <1>1, <1>2 DEF NoneForgotten
  <2>1. /\ e \in Ids /\ iter \in Nat
        /\ raced[e] \in Nat /\ raced'[e] \in Nat /\ raced'[e] >= raced[e]
        /\ e = d => raced'[e] = raced[e] + 1
        /\ e # d => store'[e] = store[e] /\ raced'[e] = raced[e]
    <3>1. e \in Ids
      BY BatchType DEF BatchIds, RestoreInv
    <3>2. raced' = [raced EXCEPT ![d] = @ + 1] /\ raced \in [Ids -> Nat] /\ iter \in Nat
      BY RestoreAssumption DEF Race, RestoreInv, RestoreTypeOK
    <3>3. e # d => store'[e] = store[e]
      BY <3>1, PutType
    <3>. QED BY <3>1, <3>2, <3>3
  <2>2. CASE raced[e] >= iter /\ \E x \in 1..Len(errors) : errors[x] = e
    BY <2>1, <2>2
  <2>3. ASSUME NEW p \in pos..Len(docs_arr), docs_arr[p].id = e, Lands(e, p)
        PROVE  Lands(e, p)'
    <3>1. CASE iter = 0
      BY <1>1, <3>1 DEF Lands
    <3>2. CASE raced[e] >= iter
      <4>1. raced'[e] >= iter'
        BY <1>1, <2>1, <3>2
      <4>. QED BY <4>1 DEF Lands
    <3>3. CASE raced[e] >= iter - 1 /\ docs_arr[p].rev = store[e].rev
      <4>1. CASE e = d
        <5>1. raced'[e] >= iter'
          BY <1>1, <2>1, <3>3, <4>1
        <5>. QED BY <5>1 DEF Lands
      <4>2. CASE e # d
        BY <1>1, <2>1, <3>3, <4>2 DEF Lands
      <4>. QED BY <4>1, <4>2
    <3>. QED BY <2>3, <3>1, <3>2, <3>3 DEF Lands
  <2>. QED BY <2>2, <2>3 DEF NoneForgotten, RestoreInv
<1>. QED BY <1>3, <1>4, <1>5 DEF RestoreInv

\* A batch that is picked is sent whole.
LEMMA PickKeepsRestore ==
  ASSUME RestoreInv, PickBatch
  PROVE  RestoreInv'
<1>1. /\ restoring' = "writing" /\ rest' = rest /\ pos' = 1 /\ iter' = 0 /\ errors' = << >>
      /\ written' = written /\ raced' = raced
      /\ docs_arr' = [i \in 1..BatchLength |->
                        [id |-> rest[i].id, val |-> rest[i].val, rev |-> NoRev]]
  BY DEF PickBatch, RestoreInv, NothingLeft
<1>2. /\ BatchLength \in Nat
      /\ \A i \in 1..BatchLength : Batch[i] = rest[i] /\ rest[i] \in [id : Ids, val : Nat]
  BY BatchType DEF RestoreInv, RestoreTypeOK
<1>3. docs_arr' \in Seq(Sent) /\ Len(docs_arr') = BatchLength
  <2>1. \A i \in 1..BatchLength : docs_arr'[i] \in Sent
    BY <1>1, <1>2 DEF Sent, NoRev
  <2>2. docs_arr' \in [1..BatchLength -> Sent]
    BY <1>1, <2>1
  <2>. QED BY <1>2, <2>2
<1>4. RestoreTypeOK'
  <2>1. << >> \in Seq(Ids) /\ 0 \in 0..(MaxTries - 1)
    BY RestoreAssumption
  <2>. QED BY <1>1, <1>3, <2>1 DEF RestoreInv, RestoreTypeOK
<1>5. ErrorsWereSent' /\ NothingLeft'
  BY <1>1 DEF ErrorsWereSent, NothingLeft
<1>6. NoneForgotten'
  <2>1. BatchIds' = BatchIds
    BY <1>1 DEF BatchIds, Batch, BatchLength
  <2>2. ASSUME NEW d \in BatchIds
        PROVE  \E i \in pos'..Len(docs_arr') : docs_arr'[i].id = d /\ Lands(d, i)'
    <3>1. PICK i \in 1..BatchLength : d = rest[i].id
      BY <1>2 DEF BatchIds
    <3>2. docs_arr'[i].id = d /\ i \in pos'..Len(docs_arr')
      BY <1>1, <1>2, <1>3, <3>1
    <3>3. Lands(d, i)'
      BY <1>1 DEF Lands
    <3>. QED BY <3>2, <3>3
  <2>. QED BY <2>1, <2>2 DEF NoneForgotten
<1>. QED BY <1>4, <1>5, <1>6 DEF RestoreInv

\* A document that is written, removed by the filter, or answered with a conflict.
LEMMA WriteKeepsRestore ==
  ASSUME StoreTypeOK, RestoreInv, WriteDoc
  PROVE  RestoreInv'
<1> DEFINE e == docs_arr[pos]
<1>1. /\ restoring = "writing" /\ pos \in 1..Len(docs_arr) /\ e \in Sent
      /\ pos' = pos + 1 /\ restoring' = restoring /\ rest' = rest /\ docs_arr' = docs_arr
      /\ iter' = iter /\ raced' = raced
  <2>1. pos \in Nat /\ pos > 0 /\ pos <= Len(docs_arr)
    BY DEF WriteDoc, RestoreInv, RestoreTypeOK
  <2>2. e \in Sent
    BY <2>1, ElementOfSeq DEF RestoreInv, RestoreTypeOK
  <2>. QED BY <2>1, <2>2 DEF WriteDoc
<1>2. /\ docs_arr \in Seq(Sent) /\ errors \in Seq(Ids) /\ written \subseteq Ids
      /\ e.id \in Ids /\ e.val \in Nat
  BY <1>1 DEF RestoreInv, RestoreTypeOK, Sent
<1>3. \/ pos \in Skipped(docs_arr) /\ store' = store /\ errors' = errors /\ written' = written
      \/ /\ pos \notin Skipped(docs_arr) /\ Accepts(e.id, e.rev) /\ errors' = errors
         /\ written' = written \cup {e.id}
         /\ \A d \in Ids \ {e.id} : store'[d] = store[d]
      \/ /\ pos \notin Skipped(docs_arr) /\ ~Accepts(e.id, e.rev) /\ store' = store
         /\ written' = written /\ errors' = Append(errors, e.id)
  <2>1. Put(e.id, e.val) => \A d \in Ids \ {e.id} : store'[d] = store[d]
    BY <1>2, PutType
  <2>. QED BY <2>1 DEF WriteDoc
<1>8. written \subseteq written' /\ written' \subseteq Ids
  BY <1>2, <1>3
<1>9. errors' = errors \/ errors' = Append(errors, e.id)
  BY <1>3
<1>4. /\ errors' \in Seq(Ids)
      /\ \A x \in 1..Len(errors) : x \in 1..Len(errors') /\ errors'[x] = errors[x]
      /\ \A x \in 1..Len(errors') : x \in 1..Len(errors) \/ (errors' # errors /\ errors'[x] = e.id)
  <2>1. CASE errors' = errors
    BY <1>2, <2>1
  <2>2. CASE errors' = Append(errors, e.id)
    <3>1. /\ Len(errors') = Len(errors) + 1 /\ errors'[Len(errors) + 1] = e.id
          /\ \A x \in 1..Len(errors) : errors'[x] = errors[x]
          /\ Len(errors) \in Nat /\ errors' \in Seq(Ids)
      BY <1>2, <2>2
    <3>2. errors' # errors
      BY <3>1
    <3>3. \A x \in 1..Len(errors') : x \in 1..Len(errors) \/ x = Len(errors) + 1
      BY <3>1
    <3>4. \A x \in 1..Len(errors) : x \in 1..Len(errors')
      BY <3>1
    <3>5. \A x \in 1..Len(errors') : x \in 1..Len(errors) \/ errors'[x] = e.id
      BY <3>1, <3>3
    <3>. QED BY <3>1, <3>2, <3>4, <3>5
  <2>. QED BY <1>9, <2>1, <2>2
<1>5. RestoreTypeOK' /\ NothingLeft'
  BY <1>1, <1>4, <1>8 DEF RestoreInv, RestoreTypeOK, NothingLeft
<1>6. ErrorsWereSent'
  <2>1. errors' # errors => pos \notin Skipped(docs_arr)
    BY <1>3
  <2>2. Skipped(docs_arr)' = Skipped(docs_arr)
    BY <1>1 DEF Skipped
  <2>3. ASSUME NEW x \in 1..Len(errors')
        PROVE  \E k \in (1..Len(docs_arr)) \ Skipped(docs_arr) : docs_arr[k].id = errors'[x]
    <3>1. CASE x \in 1..Len(errors)
      BY <1>4, <3>1 DEF RestoreInv, ErrorsWereSent
    <3>2. CASE errors' # errors /\ errors'[x] = e.id
      BY <1>1, <2>1, <3>2
    <3>. QED BY <1>4, <2>3, <3>1, <3>2
  <2>. QED BY <1>1, <2>2, <2>3 DEF ErrorsWereSent
<1>7. NoneForgotten'
  <2>. SUFFICES ASSUME NEW d \in BatchIds, d \notin Skip
                PROVE  \/ d \in written'
                       \/ \E p \in pos'..Len(docs_arr) : docs_arr[p].id = d /\ Lands(d, p)'
                       \/ raced[d] >= iter /\ \E x \in 1..Len(errors') : errors'[x] = d
    <3>1. BatchIds' = BatchIds
      BY <1>1 DEF BatchIds, Batch, BatchLength
    <3>. QED BY <1>1, <3>1 DEF NoneForgotten
  <2>1. d \in Ids /\ iter \in Nat /\ raced[d] \in Nat
    <3>1. d \in Ids
      BY BatchType DEF BatchIds, RestoreInv
    <3>. QED BY <3>1, RestoreAssumption DEF RestoreInv, RestoreTypeOK
  <2>2. CASE d \in written
    BY <1>8, <2>2
  <2>3. CASE raced[d] >= iter /\ \E x \in 1..Len(errors) : errors[x] = d
    BY <1>4, <2>3
  <2>4. ASSUME NEW p \in pos..Len(docs_arr), docs_arr[p].id = d, Lands(d, p), p # pos,
               d \notin written'
        PROVE  p \in pos'..Len(docs_arr) /\ Lands(d, p)'
    <3>1. store'[d] = store[d]
      BY <1>3, <2>1, <2>4
    <3>2. Lands(d, p)'
      BY <1>1, <2>4, <3>1 DEF Lands
    <3>. QED BY <1>1, <2>4, <3>2
  <2>5. ASSUME e.id = d, Lands(d, pos), d \notin written'
        PROVE  raced[d] >= iter /\ \E x \in 1..Len(errors') : errors'[x] = d
    <3>1. pos \notin Skipped(docs_arr)
      BY <1>1, <1>2, <2>5, SkippedAreListed
    <3>2. ~Accepts(d, e.rev) /\ errors' = Append(errors, d)
      BY <1>3, <2>5, <3>1
    <3>3. raced[d] >= iter
      BY <2>1, <2>5, <3>2 DEF Lands, Accepts
    <3>4. Len(errors) + 1 \in 1..Len(errors') /\ errors'[Len(errors) + 1] = d
      BY <1>2, <2>5, <3>2
    <3>. QED BY <3>3, <3>4
  <2>. QED BY <1>1, <2>2, <2>3, <2>4, <2>5 DEF RestoreInv, NoneForgotten
<1>. QED BY <1>5, <1>6, <1>7 DEF RestoreInv

\* The conflicts are sent again, each with the _rev its document has now.
LEMMA CopyKeepsRestore ==
  ASSUME StoreTypeOK, RestoreInv, CopyRevs, UNCHANGED <<store, seq>>
  PROVE  RestoreInv'
<1> USE RestoreAssumption
<1> DEFINE Again(x) == [docs_arr[FirstOf(docs_arr, errors[x])] EXCEPT !.rev = store[errors[x]].rev]
<1>1. /\ restoring = "writing" /\ restoring' = restoring /\ pos > Len(docs_arr)
      /\ rest' = rest /\ pos' = 1 /\ errors' = << >> /\ iter' = iter + 1
      /\ iter' \in 0..(MaxTries - 1) /\ written' = written /\ raced' = raced
      /\ docs_arr' = [x \in 1..Len(errors) |-> Again(x)] /\ store' = store
  BY DEF CopyRevs, RestoreInv, RestoreTypeOK
<1>2. /\ docs_arr \in Seq(Sent) /\ errors \in Seq(Ids) /\ pos \in Nat /\ iter \in Nat
      /\ Len(docs_arr) \in Nat /\ Len(errors) \in Nat
  BY DEF RestoreInv, RestoreTypeOK
<1>3. ASSUME NEW x \in 1..Len(errors)
      PROVE  /\ Again(x) \in Sent
             /\ Again(x).id = errors[x] /\ Again(x).rev = store[errors[x]].rev
  <2>1. errors[x] \in Ids
    BY <1>2
  <2>2. \E k \in (1..Len(docs_arr)) \ Skipped(docs_arr) : docs_arr[k].id = errors[x]
    BY DEF RestoreInv, ErrorsWereSent
  <2> DEFINE k == FirstOf(docs_arr, errors[x])
  <2>3. k \in 1..Len(docs_arr) /\ docs_arr[k].id = errors[x]
    BY <1>2, <2>1, <2>2, FirstOfFound
  <2> HIDE DEF k
  <2>4. docs_arr[k] \in Sent /\ store[errors[x]].rev \in Nat
    BY <1>2, <2>1, <2>3 DEF StoreTypeOK, Documents
  <2>5. [docs_arr[k] EXCEPT !.rev = store[errors[x]].rev] \in Sent
        /\ [docs_arr[k] EXCEPT !.rev = store[errors[x]].rev].id = errors[x]
        /\ [docs_arr[k] EXCEPT !.rev = store[errors[x]].rev].rev = store[errors[x]].rev
    BY <2>3, <2>4 DEF Sent
  <2>. QED BY <2>5 DEF k
<1>4. docs_arr' \in Seq(Sent) /\ Len(docs_arr') = Len(errors)
  <2> HIDE DEF Again
  <2>1. docs_arr' \in [1..Len(errors) -> Sent]
    BY <1>1, <1>3
  <2>. QED BY <1>2, <2>1
<1>5. RestoreTypeOK'
  <2> HIDE DEF Again
  <2>1. << >> \in Seq(Ids) /\ 1 \in Nat \ {0}
    OBVIOUS
  <2>2. restoring' \in {"no", "picking", "writing"} /\ rest' \in Seq([id : Ids, val : Nat])
    BY <1>1 DEF RestoreInv, RestoreTypeOK
  <2>3. pos' \in Nat \ {0} /\ errors' \in Seq(Ids)
    BY <1>1, <2>1
  <2>4. written' \subseteq Ids /\ raced' \in [Ids -> Nat]
    BY <1>1 DEF RestoreInv, RestoreTypeOK
  <2>. QED BY <1>1, <1>4, <2>2, <2>3, <2>4 DEF RestoreTypeOK
<1>6. ErrorsWereSent' /\ NothingLeft'
  BY <1>1 DEF ErrorsWereSent, NothingLeft
<1>7. NoneForgotten'
  <2>1. BatchIds' = BatchIds
    BY <1>1 DEF BatchIds, Batch, BatchLength
  <2>2. ASSUME NEW d \in BatchIds, d \notin Skip
        PROVE  \/ d \in written
               \/ \E p \in pos'..Len(docs_arr') : docs_arr'[p].id = d /\ Lands(d, p)'
    <3>1. CASE d \in written
      BY <3>1
    <3>2. ASSUME NEW x \in 1..Len(errors), raced[d] >= iter, errors[x] = d
          PROVE  /\ x \in pos'..Len(docs_arr')
                 /\ docs_arr'[x].id = d /\ Lands(d, x)'
      <4> HIDE DEF Again
      <4>1. docs_arr'[x] = Again(x) /\ x \in pos'..Len(docs_arr')
        BY <1>1, <1>2, <1>4
      <4>2. docs_arr'[x].id = d /\ docs_arr'[x].rev = store'[d].rev
        BY <1>1, <1>3, <3>2, <4>1
      <4>3. d \in Ids /\ raced[d] \in Nat
        BY <1>2, <3>2 DEF RestoreInv, RestoreTypeOK
      <4>4. raced'[d] >= iter' - 1
        BY <1>1, <1>2, <3>2, <4>3
      <4>. QED BY <4>1, <4>2, <4>4 DEF Lands
    <3>3. ~ \E p \in pos..Len(docs_arr) : docs_arr[p].id = d /\ Lands(d, p)
      BY <1>1, <1>2
    <3>. QED BY <1>1, <2>2, <3>1, <3>2, <3>3 DEF RestoreInv, NoneForgotten
  <2>. QED BY <1>1, <2>1, <2>2 DEF NoneForgotten
<1>. QED BY <1>5, <1>6, <1>7 DEF RestoreInv

-----------------------------------------------------------------------------
IInv == BackupInv /\ RestoreInv

LEMMA InitIInv == Init => IInv
<1> USE BackupAssumption, RestoreAssumption
<1>. SUFFICES ASSUME Init PROVE IInv
  OBVIOUS
<1>1. StoreTypeOK
  BY DEF Init, StoreTypeOK, Documents, Gone
<1>2. BackupTypeOK /\ OneBackup
  <2>1. << >> \in Seq(Entries) /\ 0 \in 0..(MaxPasses - 1) /\ 0 \in 0..1
    OBVIOUS
  <2>2. BackupTypeOK
    BY <2>1 DEF Init, BackupInit, BackupTypeOK
  <2>3. OneBackup
    BY DEF Init, BackupInit, OneBackup
  <2>. QED BY <2>2, <2>3
<1>3. \A d \in Wanted : store[d].rev \in Nat /\ store[d].rev > 0
  BY <1>1 DEF StoreTypeOK, Documents, Wanted, Live
<1>4. UpToLastSequence
  BY <1>3 DEF Init, BackupInit, UpToLastSequence
<1>5. PassCovers
  BY DEF Init, BackupInit, PassCovers
<1>6. RestoreTypeOK
  BY DEF Init, RestoreInit, RestoreTypeOK
<1>7. NoneForgotten /\ ErrorsWereSent /\ NothingLeft
  BY DEF Init, RestoreInit, NoneForgotten, ErrorsWereSent, NothingLeft
<1>. QED BY <1>1, <1>2, <1>4, <1>5, <1>6, <1>7 DEF IInv, BackupInv, RestoreInv

LEMMA StepIInv == IInv /\ [Next]_vars => IInv'
<1>. SUFFICES ASSUME IInv, [Next]_vars PROVE IInv'
  OBVIOUS
<1> USE DEF IInv
<1>0. StoreTypeOK /\ BackupTypeOK /\ RestoreTypeOK
  BY DEF BackupInv, RestoreInv
<1>1. CASE StartBackup /\ UNCHANGED <<store, seq, restoreVars>>
  BY <1>1, StartKeepsBackup, RestoreUnchanged
<1>2. CASE Backing
  BY <1>2, BackingKeeps, RestoreUnchanged DEF Backing
<1>3. CASE RestoreBackup
  <2>1. BackupInv'
    BY <1>3, BackupUnchanged DEF RestoreBackup
  <2>2. /\ backup \in Seq([id : Ids, val : Nat]) /\ restoring = "no" /\ restoring' = "picking"
        /\ rest' = backup /\ docs_arr' = docs_arr /\ pos' = pos /\ errors' = errors
        /\ iter' = iter /\ written' = written /\ raced' = raced
    BY <1>0, <1>3 DEF RestoreBackup, StartRestore, BackupTypeOK, Entries
  <2>3. RestoreTypeOK' /\ NoneForgotten' /\ NothingLeft'
    BY <2>2 DEF RestoreInv, RestoreTypeOK, NoneForgotten, NothingLeft
  <2>4. ErrorsWereSent'
    BY <2>2 DEF RestoreInv, ErrorsWereSent, Skipped
  <2>. QED BY <2>1, <2>3, <2>4 DEF RestoreInv
<1>4. CASE Restoring
  <2>1. UNCHANGED backupVars
    BY <1>4 DEF Restoring
  <2>2. CASE WriteDoc
    <3>1. BackupInv'
      <4>1. CASE UNCHANGED <<store, seq>>
        BY <2>1, <4>1, BackupUnchanged
      <4>2. CASE Put(docs_arr[pos].id, docs_arr[pos].val)
        <5>1. docs_arr[pos] \in Sent
          <6>1. pos \in 1..Len(docs_arr)
            BY <1>0, <2>2 DEF WriteDoc, RestoreTypeOK
          <6>. QED BY <1>0, <6>1, ElementOfSeq DEF RestoreTypeOK
        <5>2. docs_arr[pos].id \in Ids /\ docs_arr[pos].val \in Nat
          BY <5>1 DEF Sent
        <5>. QED BY <2>1, <4>2, <5>2, PutKeepsBackup
      <4>. QED BY <2>2, <4>1, <4>2 DEF WriteDoc
    <3>. QED BY <1>0, <2>2, <3>1, WriteKeepsRestore
  <2>3. CASE UNCHANGED <<store, seq>> /\ (PickBatch \/ EndRestore \/ EndBatch \/ BatchFails \/ CopyRevs)
    <3>1. BackupInv'
      BY <2>1, <2>3, BackupUnchanged
    <3>2. RestoreInv'
      <4>1. CASE PickBatch
        BY <4>1, PickKeepsRestore
      <4>2. CASE EndRestore
        <5>1. /\ restoring # "writing" /\ restoring' = "no" /\ rest' = rest
              /\ docs_arr' = docs_arr /\ pos' = pos /\ errors' = errors /\ iter' = iter
              /\ written' = written /\ raced' = raced
          BY <4>2 DEF EndRestore
        <5>2. RestoreTypeOK' /\ NoneForgotten' /\ NothingLeft'
          BY <5>1 DEF RestoreInv, RestoreTypeOK, NoneForgotten, NothingLeft
        <5>3. ErrorsWereSent'
          BY <5>1 DEF RestoreInv, ErrorsWereSent, Skipped
        <5>. QED BY <5>2, <5>3 DEF RestoreInv
      <4>3. CASE LeaveBatch
        BY <1>0, <4>3, BatchType, LeaveKeepsRestore DEF LeaveBatch
      <4>4. CASE CopyRevs
        BY <1>0, <2>3, <4>4, CopyKeepsRestore
      <4>. QED BY <2>3, <4>1, <4>2, <4>3, <4>4 DEF EndBatch, BatchFails
    <3>. QED BY <3>1, <3>2
  <2>. QED BY <1>4, <2>2, <2>3 DEF Restoring
<1>5. CASE Crash
  <2>1. BackupInv'
    BY <1>5, NoneKeepsBackup DEF Crash, BackupCrash
  <2>2. << >> \in Seq([id : Ids, val : Nat])
    OBVIOUS
  <2>3. RestoreInv'
    BY <1>0, <1>5, <2>2, LeaveKeepsRestore DEF Crash, RestoreCrash
  <2>. QED BY <2>1, <2>3
<1>6. ASSUME NEW d \in Ids, OthersWrite(d)
      PROVE  IInv'
  <2>1. PICK v \in Nat : Put(d, v)
    BY <1>0, <1>6 DEF OthersWrite, OtherWrites, OtherDeletes, StoreTypeOK, Gone
  <2>2. /\ UNCHANGED backupVars /\ Race(d)
        /\ UNCHANGED <<restoring, rest, docs_arr, pos, errors, iter, written>>
    BY <1>6 DEF OthersWrite
  <2>. QED BY <1>0, <2>1, <2>2, PutKeepsBackup, RaceKeepsRestore
<1>7. CASE UNCHANGED vars
  <2>1. UNCHANGED <<store, seq, backupVars>> /\ UNCHANGED <<store, seq, restoreVars>>
    BY <1>7 DEF vars
  <2>. QED BY <2>1, BackupUnchanged, RestoreUnchanged
<1>. QED BY <1>1, <1>2, <1>3, <1>4, <1>5, <1>6, <1>7 DEF Next

THEOREM IInvHolds == Spec => []IInv
BY InitIInv, StepIInv, PTL DEF Spec

\* The variables of a backup and of a restore, and the database, keep their types.
THEOREM TypeCorrect == Spec => []TypeOK
<1>1. IInv => TypeOK
  BY DEF IInv, BackupInv, RestoreInv, TypeOK
<1>. QED BY <1>1, IInvHolds, PTL

\* Whatever is written while the passes of a backup read the database, and
\* whichever requests fail, the backup is current up to its last_sequence, but
\* for the documents that were left out and not read since.
THEOREM BackupIsCurrent == Spec => []UpToLastSequence
<1>1. IInv => UpToLastSequence
  BY DEF IInv, BackupInv
<1>. QED BY <1>1, IInvHolds, PTL

\* A batch of a restore that ends has written each of its documents that is not
\* to be skipped, unless others wrote that document between every two tries.
THEOREM BatchIsRestored == Spec => []EveryDocRestored
<1>1. IInv => EveryDocRestored
  <2>. SUFFICES ASSUME IInv, BatchDone, NEW d \in BatchIds \ Skip
                PROVE  d \in written \/ raced[d] >= MaxTries - 1
    BY DEF EveryDocRestored
  <2>1. pos \in Nat /\ Len(docs_arr) \in Nat /\ pos > Len(docs_arr) /\ restoring = "writing"
    BY DEF IInv, RestoreInv, RestoreTypeOK, BatchDone
  <2>2. ~ \E p \in pos..Len(docs_arr) : docs_arr[p].id = d /\ Lands(d, p)
    BY <2>1
  <2>3. d \in written \/ (raced[d] >= iter /\ \E x \in 1..Len(errors) : errors[x] = d)
    BY <2>1, <2>2 DEF IInv, RestoreInv, NoneForgotten
  <2>4. (\E x \in 1..Len(errors) : errors[x] = d) => errors # << >>
    OBVIOUS
  <2>. QED BY <2>3, <2>4 DEF BatchDone
<1>. QED BY <1>1, IInvHolds, PTL

\* A backup that ends without a failed request, before its last pass, is a
\* snapshot of the database but for documents that were left out when they were
\* read: the second look at _changes has missed nothing.
THEOREM BackupEndsAsSnapshot == Spec => EndsAsSnapshot
<1>1. IInv /\ [Next]_vars =>
        [step = "checking" /\ step' = "saving" /\ ~failed' /\ passes < MaxPasses - 1
           => \A d \in Wanted \ missed : LastOf(docs, d, store[d].val)]_<<store, seq, backupVars>>
  <2>. SUFFICES ASSUME IInv, [Next]_vars, step = "checking", step' = "saving", ~failed',
                       passes < MaxPasses - 1, NEW d \in Wanted \ missed
                PROVE  LastOf(docs, d, store[d].val)
    OBVIOUS
  <2>1. CheckChanges
    BY DEF Next, vars, backupVars, StartBackup, Backing, BackupStep, GetChanges, GetDoc,
           GetDocsFails, UpdateBackup, SaveBackup, NoneInMemory, RestoreBackup, Restoring,
           Crash, BackupCrash, OthersWrite
  <2>2. Live(ChangedSince(upto)) = {}
    BY <2>1 DEF CheckChanges, IInv, BackupInv, BackupTypeOK
  <2>3. store[d].rev \in Nat /\ upto \in Nat /\ upto = last_sequence
    BY BackupAssumption DEF IInv, BackupInv, StoreTypeOK, Documents, BackupTypeOK, PassCovers, Wanted, Live
  <2>4. store[d].rev <= last_sequence
    BY <2>2, <2>3 DEF Wanted, Live, ChangedSince
  <2>. QED BY <2>4 DEF IInv, BackupInv, UpToLastSequence
<1>. QED BY <1>1, IInvHolds, PTL DEF Spec, EndsAsSnapshot
=============================================================================

-------------------------- MODULE Lochness_proofs --------------------------
(***************************************************************************)
(* Proofs about Lochness, for any tasks, processes, clocks and leases.      *)
(* The first invariant needs no assumption on the callers; the second one,  *)
(* mutual exclusion, needs LeaseCoversWork.                                 *)
(***************************************************************************)
EXTENDS Lochness, TLAPS

\* What CouchDB's revision check gives: copies, and checks made on them, are
\* either good or unusable.
CheckInv == TypeOK /\ CopiesAreOfTheDoc /\ ChecksStillGood

\* A release has the effect its caller means only on a document it owns.
OwnerInv == CheckInv /\ OwnersWroteTheDoc

\* The document written by apply_for_lock is a lock document.
LEMMA AwardType ==
  ASSUME NEW t \in Tasks, TypeOK
  PROVE  Award(t) \in PrevOwner
BY ConstantsAssumption DEF TypeOK, Award, PrevOwner, Limits

\* So is the one check_lock_doc creates.
LEMMA NewLockDocType == NewLockDoc \in PrevOwner
BY ConstantsAssumption DEF NewLockDoc, PrevOwner, Limits

\* A document that exists is a lock document.
LEMMA DocIsRecord ==
  ASSUME TypeOK, lockDoc # NoDoc
  PROVE  lockDoc \in PrevOwner
BY DEF TypeOK

\* A new document is free for everyone.
LEMMA NewLockDocIsFree ==
  ASSUME NEW t \in Tasks
  PROVE  ~LeaseValid(t, NewLockDoc)
BY DEF NewLockDoc, LeaseValid

\* Marking a document released leaves a lock document.
LEMMA ReleasedType ==
  ASSUME NEW d \in PrevOwner
  PROVE  [d EXCEPT !.released = TRUE] \in PrevOwner
BY DEF PrevOwner

\* A document below the age cap can age.
LEMMA AgedType ==
  ASSUME NEW d \in PrevOwner, d.age < MaxAge
  PROVE  [d EXCEPT !.age = @ + 1] \in PrevOwner
BY ConstantsAssumption DEF PrevOwner

\* Time never makes a free lock taken again.
LEMMA AgedStaysFree ==
  ASSUME NEW d \in PrevOwner, NEW t \in Tasks, ~LeaseValid(t, d)
  PROVE  ~LeaseValid(t, [d EXCEPT !.age = @ + 1])
BY ConstantsAssumption DEF PrevOwner, Limits, LeaseValid, Elapsed

-----------------------------------------------------------------------------
\* The three conjuncts of CheckInv through GoTo, which every step of a task uses.
LEMMA GoToType ==
  ASSUME TypeOK, NEW t \in Tasks, NEW step \in Steps, GoTo(t, step)
  PROVE  /\ pc' \in [Tasks -> Steps]
         /\ stamp' \in [Tasks -> 0..MaxAge]
         /\ \A u \in Tasks \ {t} : pc'[u] = pc[u] /\ stamp'[u] = stamp[u]
         /\ pc'[t] = step
BY ConstantsAssumption DEF TypeOK, GoTo

\* CheckInv holds before the first apply.
LEMMA CheckInvInit == Init => CheckInv
BY ConstantsAssumption DEF Init, CheckInv, TypeOK, CopiesAreOfTheDoc, ChecksStillGood, Steps

\* A PUT keeps CheckInv: it empties current, or drops only its task from it.
LEMMA PutKeepsCheckInv ==
  ASSUME CheckInv, NEW t \in Tasks, NEW doc, NEW next \in {"held", "idle"},
         t \in current => doc \in PrevOwner,
         Put(t, doc, next)
  PROVE  CheckInv'
<1> USE DEF CheckInv
<1>0. PICK step \in Steps : GoTo(t, step)
  BY DEF Put, Steps
<1>1. CASE t \in current /\ lockDoc' = doc /\ current' = {}
  BY <1>0, <1>1, GoToType DEF TypeOK, CopiesAreOfTheDoc, ChecksStillGood
<1>2. CASE current' = current \ {t} /\ UNCHANGED lockDoc
  BY <1>0, <1>2, GoToType DEF TypeOK, CopiesAreOfTheDoc, ChecksStillGood, Taken
<1>. QED BY <1>1, <1>2 DEF Put

\* Every step keeps CheckInv: a read makes the copy current, a write that lands
\* makes all others old, a check is made on a current copy, and time only expires.
LEMMA CheckInvStep == CheckInv /\ [Next]_vars => CheckInv'
<1> SUFFICES ASSUME CheckInv, [Next]_vars
             PROVE  CheckInv'
  OBVIOUS
<1> USE DEF CheckInv
<1>1. ASSUME NEW t \in Tasks, Apply(t)
      PROVE  CheckInv'
  <2>1. GoTo(t, "applying") /\ UNCHANGED <<lockDoc, current>>
    BY <1>1 DEF Apply
  <2>. QED BY <1>1, <2>1, GoToType
           DEF Apply, TypeOK, CopiesAreOfTheDoc, ChecksStillGood, Taken, Steps
<1>2. ASSUME NEW t \in Tasks, CheckLockDoc(t)
      PROVE  CheckInv'
  <2>1. CASE lockDoc # NoDoc /\ GoTo(t, "checking") /\ current' = current \cup {t} /\ UNCHANGED lockDoc
    BY <2>1, GoToType DEF TypeOK, CopiesAreOfTheDoc, ChecksStillGood, Taken, Steps
  <2>2. CASE (GoTo(t, "creating") \/ GoTo(t, "idle")) /\ UNCHANGED <<lockDoc, current>>
    BY <1>2, <2>2, GoToType DEF CheckLockDoc, TypeOK, CopiesAreOfTheDoc, ChecksStillGood, Taken, Steps
  <2>. QED BY <1>2, <2>1, <2>2 DEF CheckLockDoc, Fails
<1>3. ASSUME NEW t \in Tasks, CreateLockDoc(t)
      PROVE  CheckInv'
  <2>1. CASE lockDoc' = NewLockDoc /\ GoTo(t, "checking") /\ current' = {t}
    BY <2>1, GoToType, NewLockDocType, NoDocAssumption
       DEF TypeOK, CopiesAreOfTheDoc, ChecksStillGood, Steps
  <2>2. CASE lockDoc' = NewLockDoc /\ GoTo(t, "idle") /\ current' = {}
    BY <2>2, GoToType, NewLockDocType DEF TypeOK, CopiesAreOfTheDoc, ChecksStillGood, Steps
  <2>3. CASE GoTo(t, "idle") /\ UNCHANGED <<lockDoc, current>>
    BY <1>3, <2>3, GoToType
       DEF CreateLockDoc, TypeOK, CopiesAreOfTheDoc, ChecksStillGood, Taken, Steps
  <2>. QED BY <1>3, <2>1, <2>2, <2>3 DEF CreateLockDoc, Fails
<1>4. ASSUME NEW t \in Tasks, ApplyForLock(t)
      PROVE  CheckInv'
  <2>1. CASE GoTo(t, "idle") /\ current' = current \ {t} /\ UNCHANGED lockDoc
    BY <2>1, GoToType DEF TypeOK, CopiesAreOfTheDoc, ChecksStillGood, Taken, Steps
  <2>2. CASE /\ t \in Forced \/ (t \in current => ~LeaseValid(t, lockDoc))
             /\ GoTo(t, "writing") /\ UNCHANGED <<lockDoc, current>>
    BY <2>2, GoToType DEF TypeOK, CopiesAreOfTheDoc, ChecksStillGood, Taken, Steps
  <2>. QED BY <1>4, <2>1, <2>2 DEF ApplyForLock
<1>5. ASSUME NEW t \in Tasks, WriteLock(t)
      PROVE  CheckInv'
  BY <1>5, AwardType, PutKeepsCheckInv DEF WriteLock
<1>6. ASSUME NEW t \in Tasks, FinishWork(t)
      PROVE  CheckInv'
  <2>1. GoTo(t, "releasing") /\ UNCHANGED <<lockDoc, current>>
    BY <1>6 DEF FinishWork
  <2>. QED BY <1>6, <2>1, GoToType
           DEF FinishWork, TypeOK, CopiesAreOfTheDoc, ChecksStillGood, Taken, Steps
<1>7. ASSUME NEW t \in Tasks, ReadForRelease(t)
      PROVE  CheckInv'
  <2>1. CASE GoTo(t, "unlocking") /\ current' = current \cup {t} /\ UNCHANGED lockDoc /\ lockDoc # NoDoc
    BY <2>1, GoToType DEF TypeOK, CopiesAreOfTheDoc, ChecksStillGood, Taken, Steps
  <2>2. CASE GoTo(t, "idle") /\ UNCHANGED <<lockDoc, current>>
    BY <1>7, <2>2, GoToType
       DEF ReadForRelease, TypeOK, CopiesAreOfTheDoc, ChecksStillGood, Taken, Steps
  <2>. QED BY <1>7, <2>1, <2>2 DEF ReadForRelease, Fails
<1>8. ASSUME NEW t \in Tasks, WriteRelease(t)
      PROVE  CheckInv'
  <2>1. t \in current => [lockDoc EXCEPT !.released = TRUE] \in PrevOwner
    BY DocIsRecord, ReleasedType DEF CopiesAreOfTheDoc
  <2>. QED BY <1>8, <2>1, PutKeepsCheckInv DEF WriteRelease
<1>9. ASSUME NEW t \in Tasks, Crash(t)
      PROVE  CheckInv'
  <2>1. GoTo(t, "idle") /\ current' = current \ {t} /\ UNCHANGED lockDoc
    BY <1>9 DEF Crash
  <2>. QED BY <2>1, GoToType
           DEF TypeOK, CopiesAreOfTheDoc, ChecksStillGood, Taken, Steps
<1>10. CASE Tick
  <2>1. UNCHANGED <<current, pc>> /\ stamp' \in [Tasks -> 0..MaxAge]
    BY <1>10, ConstantsAssumption DEF Tick, TypeOK
  <2>2. CASE UNCHANGED lockDoc
    BY <2>1, <2>2 DEF TypeOK, CopiesAreOfTheDoc, ChecksStillGood, Taken
  <2>3. CASE /\ lockDoc # NoDoc /\ lockDoc.age < MaxAge
             /\ lockDoc' = [lockDoc EXCEPT !.age = @ + 1]
    <3>1. lockDoc \in PrevOwner /\ lockDoc' \in PrevOwner /\ lockDoc' # NoDoc
      BY <2>3, DocIsRecord, AgedType, NoDocAssumption
    <3>2. \A t \in Tasks : ~Taken(t) => ~Taken(t)'
      BY <2>3, <3>1, AgedStaysFree DEF Taken
    <3>. QED BY <2>1, <3>1, <3>2 DEF TypeOK, CopiesAreOfTheDoc, ChecksStillGood
  <2>. QED BY <1>10, <2>2, <2>3 DEF Tick
<1>11. CASE UNCHANGED vars
  BY <1>11 DEF vars, TypeOK, CopiesAreOfTheDoc, ChecksStillGood, Taken
<1>. QED BY <1>1, <1>2, <1>3, <1>4, <1>5, <1>6, <1>7, <1>8, <1>9, <1>10, <1>11 DEF Next, Advance

\* CheckInv is an invariant of the lock, whatever the callers do (lochness.js:94-140).
THEOREM CheckInvariant == Spec => []CheckInv
BY CheckInvInit, CheckInvStep, PTL DEF Spec

\* Type correctness, for any constants.
THEOREM TypeCorrect == Spec => []TypeOK
BY CheckInvariant, PTL DEF CheckInv

-----------------------------------------------------------------------------
\* A step of another task does not move t.
LEMMA OthersDoNotMove ==
  ASSUME TypeOK, NEW t \in Tasks, NEW u \in Tasks \ {t},
         Apply(u) \/ Advance(u) \/ Crash(u)
  PROVE  pc'[t] = pc[t]
<1>1. PICK step \in Steps : GoTo(u, step)
  BY DEF Apply, Advance, CheckLockDoc, CreateLockDoc, ApplyForLock, WriteLock, FinishWork,
         ReadForRelease, WriteRelease, Crash, Put, Fails, Steps
<1>. QED BY <1>1, GoToType

\* lochness.js:100-115 with couchdb.js:120: the check of a task is still good when
\* its write lands.  No assumption on clocks, leases, faults or forced tasks.
THEOREM LiveLockIsNotTaken == Spec => NoLiveLockTaken
<1>1. CheckInv /\ [Next]_vars =>
        [\A t \in Tasks \ Forced :
           /\ pc[t] = "writing" /\ pc'[t] # "writing"
           /\ lockDoc' # lockDoc
           => ~Taken(t)]_vars
  <2> SUFFICES ASSUME CheckInv, Next, NEW t \in Tasks \ Forced,
                      pc[t] = "writing", pc'[t] # "writing", lockDoc' # lockDoc
               PROVE  ~Taken(t)
    BY DEF vars
  <2>1. ~Tick
    BY DEF Tick
  <2>2. PICK u \in Tasks : Apply(u) \/ Advance(u) \/ Crash(u)
    BY <2>1 DEF Next
  <2>3. u = t
    BY <2>2, OthersDoNotMove DEF CheckInv
  <2>4. WriteLock(t)
    BY <2>2, <2>3 DEF Apply, Advance, CheckLockDoc, CreateLockDoc, ApplyForLock, FinishWork,
                      ReadForRelease, WriteRelease, Crash
  <2>5. t \in current
    BY <2>4 DEF WriteLock, Put
  <2>. QED BY <2>5 DEF CheckInv, ChecksStillGood
<1>. QED BY <1>1, CheckInvariant, PTL DEF Spec, NoLiveLockTaken

-----------------------------------------------------------------------------
(* Mutual exclusion, when leases cover the work. *)

\* A task that covers its work with its lease ends before ages are capped.
LEMMA HoldIsBelowMaxAge ==
  ASSUME LeaseCoversWork, NEW t \in Tasks
  PROVE  MaxHold[t] < MaxAge
<1>1. Home[t] \in Instances
  BY ConstantsAssumption
<1>2. MaxAge + Offset[Home[t]] - Offset[Home[t]] > Lease[t]
  BY <1>1, MaxAgeAssumption
<1>3. MaxHold[t] + Offset[Home[t]] - Offset[Home[t]] <= Lease[t]
  BY DEF LeaseCoversWork
<1>. QED BY <1>1, <1>2, <1>3, ConstantsAssumption

\* The lease of an owner is valid for every process.
LEMMA OwnersLeaseIsValid ==
  ASSUME LeaseCoversWork, OwnerInv, NEW t \in Tasks, Owns(t), NEW u \in Tasks
  PROVE  Taken(u)
<1>1. lockDoc = Award(t) /\ lockDoc # NoDoc /\ stamp[t] <= MaxHold[t]
  BY DEF OwnerInv, OwnersWroteTheDoc, Owns, Stamped
<1>2. MaxHold[t] + Offset[Home[u]] - Offset[Home[t]] <= Lease[t]
  BY DEF LeaseCoversWork
<1>3. stamp[t] + Offset[Home[u]] - Offset[Home[t]] <= Lease[t]
  BY <1>1, <1>2, ConstantsAssumption DEF OwnerInv, CheckInv, TypeOK
<1>. QED BY <1>1, <1>3, ConstantsAssumption DEF Taken, LeaseValid, Elapsed, Award

\* The document names one owner, so there is one.
LEMMA OneOwner ==
  ASSUME OwnerInv, NEW t \in Tasks, NEW u \in Tasks, Owns(t), Owns(u)
  PROVE  t = u
BY DEF OwnerInv, OwnersWroteTheDoc, Award

\* Nobody can write the lock while it is owned, except its owner.
LEMMA OnlyTheOwnerWrites ==
  ASSUME LeaseCoversWork, OwnerInv, NEW t \in Tasks, Owns(t), NEW u \in current
  PROVE  pc[u] # "writing"
<1>1. u \in Tasks \ Forced /\ Taken(u)
  BY OwnersLeaseIsValid DEF LeaseCoversWork, OwnerInv, CheckInv, TypeOK
<1>. QED BY <1>1 DEF OwnerInv, CheckInv, ChecksStillGood

\* A stamped task stays within its bound, any other task has no stamp.
LEMMA GoToKeepsStamps ==
  ASSUME TypeOK, OwnersWroteTheDoc, NEW u \in Tasks, NEW step \in Steps, GoTo(u, step),
         step \in Stamped => pc[u] \in Stamped
  PROVE  \A t \in Tasks : stamp'[t] <= (IF pc'[t] \in Stamped THEN MaxHold[t] ELSE 0)
<1>1. \A t \in Tasks \ {u} : stamp'[t] = stamp[t] /\ pc'[t] = pc[t]
  BY GoToType
<1>2. pc'[u] = step /\ stamp'[u] = (IF step \in Stamped THEN stamp[u] ELSE 0)
  BY GoToType DEF GoTo, TypeOK
<1>. QED BY <1>1, <1>2 DEF OwnersWroteTheDoc

\* A step that leaves the document alone and does not make u an owner.
LEMMA QuietStepKeepsOwners ==
  ASSUME OwnerInv, NEW u \in Tasks, NEW step \in Steps, GoTo(u, step), UNCHANGED lockDoc,
         step \in {"idle", "applying", "creating", "checking", "writing"}
           \/ (Owns(u) /\ step \in {"releasing", "unlocking"}),
         step = "writing" => pc[u] \notin Stamped
  PROVE  OwnersWroteTheDoc'
<1>1. ASSUME NEW t \in Tasks
      PROVE  /\ stamp'[t] <= (IF pc'[t] \in Stamped THEN MaxHold[t] ELSE 0)
             /\ Owns(t)' => lockDoc' # NoDoc /\ lockDoc' = Award(t)'
  <2>1. CASE t # u
    BY <2>1, GoToType DEF OwnerInv, CheckInv, OwnersWroteTheDoc, Owns, Award
  <2>2. CASE t = u /\ Owns(u) /\ step \in {"releasing", "unlocking"}
    BY <2>2, GoToType DEF OwnerInv, CheckInv, OwnersWroteTheDoc, Owns, Award, Stamped, GoTo, TypeOK
  <2>3. CASE t = u /\ step \in {"idle", "applying", "creating", "checking"}
    BY <2>3, GoToType DEF OwnerInv, CheckInv, Owns, Stamped, GoTo, TypeOK
  <2>4. CASE t = u /\ step = "writing"
    <3>1. pc'[t] = "writing" /\ stamp'[t] = stamp[t]
      BY <2>4, GoToType DEF OwnerInv, CheckInv, TypeOK, GoTo, Stamped
    <3>2. stamp[t] <= 0
      BY <2>4 DEF OwnerInv, OwnersWroteTheDoc
    <3>. QED BY <3>1, <3>2, ConstantsAssumption DEF OwnerInv, CheckInv, TypeOK, Owns, Stamped
  <2>. QED BY <2>1, <2>2, <2>3, <2>4
<1>. QED BY <1>1 DEF OwnersWroteTheDoc

\* A PUT of another task's copy finds no owner, or is refused.
LEMMA PutOfTheOwner ==
  ASSUME LeaseCoversWork, OwnerInv, NEW u \in current, NEW t \in Tasks, Owns(t),
         pc[u] \in {"writing", "unlocking"}
  PROVE  u = t
<1>1. u \in Tasks
  BY DEF OwnerInv, CheckInv, TypeOK
<1>2. pc[u] = "unlocking"
  BY OnlyTheOwnerWrites
<1>. QED BY <1>1, <1>2, OneOwner DEF Owns

\* Every step keeps the part of OwnerInv about owners: while there is one, nobody
\* else writes the document.
LEMMA OwnersStep ==
  ASSUME LeaseCoversWork, OwnerInv, [Next]_vars
  PROVE  OwnersWroteTheDoc'
<1> USE DEF OwnerInv
<1>1. ASSUME NEW u \in Tasks,
             Apply(u) \/ CheckLockDoc(u) \/ ApplyForLock(u) \/ FinishWork(u)
               \/ ReadForRelease(u) \/ Crash(u)
      PROVE  OwnersWroteTheDoc'
  BY <1>1, QuietStepKeepsOwners
     DEF Apply, CheckLockDoc, ApplyForLock, FinishWork, ReadForRelease, Crash, Fails,
         Owns, Stamped, Steps
<1>2. ASSUME NEW u \in Tasks, CreateLockDoc(u)
      PROVE  OwnersWroteTheDoc'
  <2>1. CASE UNCHANGED lockDoc
    BY <1>2, <2>1, QuietStepKeepsOwners DEF CreateLockDoc, Fails, Owns, Stamped, Steps
  <2>2. CASE lockDoc = NoDoc /\ (GoTo(u, "checking") \/ GoTo(u, "idle"))
    <3>1. \A t \in Tasks : ~Owns(t)
      BY <2>2 DEF OwnersWroteTheDoc
    <3>2. \A t \in Tasks : ~Owns(t)'
      BY <2>2, <3>1, GoToType DEF CheckInv, Owns, Steps
    <3>3. \A t \in Tasks : stamp'[t] <= (IF pc'[t] \in Stamped THEN MaxHold[t] ELSE 0)
      BY <2>2, GoToKeepsStamps DEF CheckInv, Stamped, Steps
    <3>. QED BY <3>2, <3>3 DEF OwnersWroteTheDoc
  <2>. QED BY <1>2, <2>1, <2>2 DEF CreateLockDoc, Fails
<1>3. ASSUME NEW u \in Tasks, WriteLock(u)
      PROVE  OwnersWroteTheDoc'
  <2>1. CASE UNCHANGED lockDoc /\ GoTo(u, "idle")
    BY <2>1, QuietStepKeepsOwners DEF Steps
  <2>2. CASE u \in current /\ lockDoc' = Award(u) /\ (GoTo(u, "held") \/ GoTo(u, "idle"))
    <3>1. \A t \in Tasks : ~Owns(t)
      BY <1>3, <2>2, PutOfTheOwner DEF WriteLock, Owns
    <3>2. \A t \in Tasks : Owns(t)' => t = u /\ stamp'[u] = stamp[u]
      BY <2>2, <3>1, GoToType DEF CheckInv, TypeOK, Owns, Steps, GoTo, Stamped
    <3>3. \A t \in Tasks : stamp'[t] <= (IF pc'[t] \in Stamped THEN MaxHold[t] ELSE 0)
      BY <1>3, <2>2, GoToKeepsStamps DEF WriteLock, CheckInv, Stamped, Steps
    <3>4. lockDoc' # NoDoc
      BY <2>2, AwardType, NoDocAssumption DEF CheckInv
    <3>. QED BY <2>2, <3>2, <3>3, <3>4 DEF OwnersWroteTheDoc, Award
  <2>. QED BY <1>3, <2>1, <2>2 DEF WriteLock, Put
<1>4. ASSUME NEW u \in Tasks, WriteRelease(u)
      PROVE  OwnersWroteTheDoc'
  <2>1. CASE UNCHANGED lockDoc /\ GoTo(u, "idle")
    BY <2>1, QuietStepKeepsOwners DEF Steps
  <2>2. CASE u \in current /\ GoTo(u, "idle")
    <3>1. \A t \in Tasks : Owns(t) => t = u
      BY <1>4, <2>2, PutOfTheOwner DEF WriteRelease
    <3>2. \A t \in Tasks : ~Owns(t)'
      BY <2>2, <3>1, GoToType DEF CheckInv, Owns, Steps
    <3>3. \A t \in Tasks : stamp'[t] <= (IF pc'[t] \in Stamped THEN MaxHold[t] ELSE 0)
      BY <2>2, GoToKeepsStamps DEF CheckInv, Stamped, Steps
    <3>. QED BY <3>2, <3>3 DEF OwnersWroteTheDoc
  <2>. QED BY <1>4, <2>1, <2>2 DEF WriteRelease, Put
<1>5. CASE Tick
  <2>1. UNCHANGED pc
    BY <1>5 DEF Tick
  <2>2. \A t \in Tasks : stamp'[t] <= (IF pc'[t] \in Stamped THEN MaxHold[t] ELSE 0)
    BY <1>5, HoldIsBelowMaxAge, ConstantsAssumption DEF Tick, CheckInv, TypeOK, OwnersWroteTheDoc
  <2>3. ASSUME NEW t \in Tasks, Owns(t)
        PROVE  lockDoc' # NoDoc /\ lockDoc' = Award(t)'
    <3>1. lockDoc # NoDoc /\ lockDoc = Award(t) /\ stamp[t] < MaxAge
      BY <1>5, <2>3, HoldIsBelowMaxAge, ConstantsAssumption
         DEF Tick, CheckInv, TypeOK, OwnersWroteTheDoc, Owns, Stamped
    <3>2. stamp'[t] = stamp[t] + 1
      BY <1>5, <2>3, <3>1 DEF Tick, Owns, Stamped
    <3>3. lockDoc' = [lockDoc EXCEPT !.age = @ + 1]
      BY <1>5, <3>1 DEF Tick, Award
    <3>4. lockDoc' \in PrevOwner
      BY <3>1, <3>3, AgedType, AwardType DEF CheckInv, Award
    <3>. QED BY <3>1, <3>2, <3>3, <3>4, NoDocAssumption DEF Award
  <2>. QED BY <2>1, <2>2, <2>3 DEF OwnersWroteTheDoc, Owns
<1>6. CASE UNCHANGED vars
  BY <1>6 DEF vars, OwnersWroteTheDoc, Owns, Award
<1>. QED BY <1>1, <1>2, <1>3, <1>4, <1>5, <1>6 DEF Next, Advance

THEOREM OwnerInvariant ==
  ASSUME LeaseCoversWork
  PROVE  Spec => []OwnerInv
<1>1. Init => OwnersWroteTheDoc
  <2> SUFFICES ASSUME Init, NEW t \in Tasks
               PROVE  stamp[t] <= (IF pc[t] \in Stamped THEN MaxHold[t] ELSE 0) /\ ~Owns(t)
    BY DEF OwnersWroteTheDoc
  <2>1. pc[t] = "idle" /\ stamp[t] = 0
    BY DEF Init
  <2>2. pc[t] \notin Stamped /\ ~Owns(t)
    BY <2>1 DEF Stamped, Owns
  <2>. QED BY <2>1, <2>2
<1>2. OwnerInv /\ [Next]_vars => OwnersWroteTheDoc'
  BY OwnersStep
<1>. QED BY <1>1, <1>2, CheckInvInit, CheckInvStep, PTL DEF Spec, OwnerInv

\* Work under the lock is never done by two tasks at a time.
THEOREM Exclusion ==
  ASSUME LeaseCoversWork
  PROVE  Spec => []MutualExclusion
<1>1. OwnerInv => MutualExclusion
  BY OneOwner DEF MutualExclusion, Owns
<1>. QED BY <1>1, OwnerInvariant, PTL

\* A release never touches the lock of another task.
THEOREM ReleaseIsOfOwnLock ==
  ASSUME LeaseCoversWork
  PROVE  Spec => []ReleasesOwnLock
<1>1. OwnerInv => ReleasesOwnLock
  BY OwnersLeaseIsValid DEF ReleasesOwnLock, OwnerInv, OwnersWroteTheDoc, Award
<1>. QED BY <1>1, OwnerInvariant, PTL

\* Lochness implements LockService: a task enters when its award lands on a lock
\* nobody works under, and leaves when its work ends or it dies.
THEOREM Implementation ==
  ASSUME LeaseCoversWork
  PROVE  Spec => ImplementsLockService
<1> DEFINE working == {t \in Tasks : pc[t] = "held"}
<1>1. Init => Service!Init
  BY DEF Init, Service!Init
<1>2. OwnerInv /\ OwnerInv' /\ [Next]_vars => [Service!Next]_working
  <2> SUFFICES ASSUME OwnerInv, OwnerInv', Next
               PROVE  [Service!Next]_working
    BY DEF vars
  <2>1. CASE Tick
    BY <2>1 DEF Tick
  <2>2. ASSUME NEW u \in Tasks, Apply(u) \/ Advance(u) \/ Crash(u)
        PROVE  [Service!Next]_working
    <3>1. \A t \in Tasks \ {u} : pc'[t] = pc[t]
      BY <2>2, OthersDoNotMove DEF OwnerInv, CheckInv
    <3>2. CASE pc[u] = "held"
      <4>1. working' = working \/ (u \in working /\ working' = working \ {u})
        BY <3>1, <3>2
      <4>. QED BY <4>1 DEF Service!Next, Service!Leave
    <3>3. CASE pc[u] # "held" /\ pc'[u] = "held"
      <4>1. working' = {u}
        BY <3>1, <3>3, OneOwner DEF OwnerInv, OwnersWroteTheDoc, Owns, Award
      <4>2. working = {}
        BY <3>1, <3>3, <4>1
      <4>. QED BY <4>1, <4>2 DEF Service!Next, Service!Enter
    <3>4. CASE pc[u] # "held" /\ pc'[u] # "held"
      BY <3>1, <3>4
    <3>. QED BY <3>2, <3>3, <3>4
  <2>. QED BY <2>1, <2>2 DEF Next
<1>. QED BY <1>1, <1>2, OwnerInvariant, PTL DEF Spec, Service!Spec, ImplementsLockService
=============================================================================

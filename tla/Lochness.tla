------------------------------ MODULE Lochness ------------------------------
(***************************************************************************)
(* The distributed lock of athena, libs/lochness.js: several console       *)
(* processes share one CouchDB document per lock name, guarded by CouchDB's *)
(* revision check.  A task (one caller of lockLib.apply) reads the          *)
(* document, looks at the previous owner's lease with its own clock, stamps *)
(* itself as the owner and writes the document back with the revision it    *)
(* read.  lockLib.release reads the document again and sets ts_released     *)
(* without looking at who owns it.                                          *)
(*                                                                          *)
(* Time.  The code compares Date.now() of the reader with ts_watchdog, the  *)
(* Date.now() of the owner.  The model keeps ages, the time since the stamp,*)
(* and an offset per process clock.  An age stops at MaxAge, where every    *)
(* process sees every lease expired.                                        *)
(*                                                                          *)
(* Revisions.  current is the set of tasks whose copy still has the         *)
(* document's _rev: a write lands only for a task in it (else CouchDB       *)
(* answers 409), and every write that lands empties it.  A stale copy       *)
(* needs no contents of its own: whatever its task decides, it cannot       *)
(* write.                                                                   *)
(***************************************************************************)
EXTENDS Integers

CONSTANTS
  Tasks,      \* callers of lockLib.apply for one lock name
  Instances,  \* the athena processes
  Home,       \* Home[t]: the process of task t
  Offset,     \* Offset[i]: how far the clock of process i is ahead
  Lease,      \* Lease[t]: opts.max_locked_sec of task t, in ticks
  MaxHold,    \* MaxHold[t]: bound on the time from t's stamp to its release
  Forced,     \* the tasks that apply with opts.force
  Faults,     \* whether requests may fail and tasks may crash
  MaxAge,     \* ages are not counted beyond this
  NoDoc,      \* the lock document does not exist
  Nobody      \* prev_owner of a new lock document

ASSUME ConstantsAssumption ==
  /\ Home \in [Tasks -> Instances]
  /\ Offset \in [Instances -> Int]
  /\ Lease \in [Tasks -> Nat]
  /\ MaxHold \in [Tasks -> Nat]
  /\ Forced \subseteq Tasks
  /\ Faults \in BOOLEAN
  /\ MaxAge \in Nat
  /\ Nobody \notin Tasks

\* An age that stopped counting is past every lease on every clock.
ASSUME MaxAgeAssumption ==
  \A t \in Tasks, i, j \in Instances : MaxAge + Offset[i] - Offset[j] > Lease[t]

\* The limits a lock document may state: the lease some caller asked for.
Limits == {Lease[t] : t \in Tasks} \cup {0}

\* The prev_owner part of a lock document (its history is kept for debugging).
PrevOwner == [owner : Tasks \cup {Nobody}, age : 0..MaxAge, limit : Limits, released : BOOLEAN]

ASSUME NoDocAssumption == NoDoc \notin PrevOwner

VARIABLES
  lockDoc,    \* the document in CouchDB
  current,    \* the tasks whose copy has the document's _rev
  pc,         \* where each task is
  stamp       \* time since the task last stamped itself as the owner

vars == <<lockDoc, current, pc, stamp>>

\* "applying" .. "writing": inside lockLib.apply; "held": in its callback;
\* "releasing", "unlocking": before the read and the write of lockLib.release.
Steps == {"idle", "applying", "creating", "checking", "writing", "held",
          "releasing", "unlocking"}

TypeOK ==
  /\ lockDoc \in PrevOwner \cup {NoDoc}
  /\ current \subseteq Tasks
  /\ pc \in [Tasks -> Steps]
  /\ stamp \in [Tasks -> 0..MaxAge]

\* The steps of a task that has stamped itself and has not finished.
Stamped == {"writing", "held", "releasing", "unlocking"}

Init ==
  /\ lockDoc = NoDoc
  /\ current = {}
  /\ pc = [t \in Tasks |-> "idle"]
  /\ stamp = [t \in Tasks |-> 0]

-----------------------------------------------------------------------------
NewLockDoc == [owner |-> Nobody, age |-> MaxAge, limit |-> 0, released |-> FALSE]

\* Mutants of Award: max_locked_sec is multiplied by 1000 once more; it is taken
\* for milliseconds.
AwardTimes1000(t) == [owner |-> t, age |-> stamp[t], limit |-> Lease[t] * 1000, released |-> FALSE]
AwardInMs(t) == [owner |-> t, age |-> stamp[t], limit |-> Lease[t] \div 1000, released |-> FALSE]

Award(t) == [owner |-> t, age |-> stamp[t], limit |-> Lease[t], released |-> FALSE]

\* elapsed_ms of document d as the clock of t's process shows it.
Elapsed(t, d) == d.age + Offset[Home[t]] - Offset[Home[d.owner]]

\* Mutants of LeaseValid: a lease that has not quite ended counts as expired; a
\* lease never expires.
LeaseValidTillBefore(t, d) ==
  /\ d.owner # Nobody
  /\ Elapsed(t, d) < d.limit
  /\ ~d.released
LeaseValidForever(t, d) == d.owner # Nobody /\ ~d.released

\* The lock is taken and valid: apply_for_lock refuses it to t unless forced.
LeaseValid(t, d) ==
  /\ d.owner # Nobody
  /\ Elapsed(t, d) <= d.limit
  /\ ~d.released

\* stamp[t] counts from the step "writing" on and is 0 before it.
GoTo(t, step) ==
  /\ pc' = [pc EXCEPT ![t] = step]
  /\ stamp' = [stamp EXCEPT ![t] = IF step \in Stamped THEN @ ELSE 0]

\* A request of t fails: its callback gets an error and the caller gives up.
Fails(t) == Faults /\ GoTo(t, "idle") /\ UNCHANGED lockDoc

\* Mutant of Put: the write takes no account of the _rev.
BlindPut(t, doc, next) ==
  /\ lockDoc' = doc
  /\ current' = {}
  /\ GoTo(t, next)

\* A PUT of t with the revision it read.  CouchDB applies it and answers, or
\* applies it while t is told it failed (a timed-out PUT that is retried comes
\* back as a 409), or refuses it with a 409, or t gets another error.
Put(t, doc, next) ==
  \/ /\ t \in current
     /\ lockDoc' = doc
     /\ current' = {}
     /\ GoTo(t, next) \/ (Faults /\ GoTo(t, "idle"))
  \/ /\ t \notin current \/ Faults
     /\ GoTo(t, "idle")
     /\ current' = current \ {t}
     /\ UNCHANGED lockDoc

-----------------------------------------------------------------------------
\* lockLib.apply: wait a random delay, then look for the document.
Apply(t) ==
  /\ pc[t] = "idle"
  /\ GoTo(t, "applying")
  /\ UNCHANGED <<lockDoc, current>>

\* Mutant of CheckLockDoc: it reads a cached copy, with an old _rev.
CheckLockDocCached(t) ==
  /\ pc[t] = "applying"
  /\ GoTo(t, IF lockDoc = NoDoc THEN "creating" ELSE "checking")
  /\ UNCHANGED <<lockDoc, current>>

\* check_lock_doc: read the document past the cache; 404 means create it.
CheckLockDoc(t) ==
  /\ pc[t] = "applying"
  /\ \/ /\ lockDoc = NoDoc
        /\ GoTo(t, "creating")
        /\ UNCHANGED <<lockDoc, current>>
     \/ /\ lockDoc # NoDoc
        /\ GoTo(t, "checking")
        /\ current' = current \cup {t}
        /\ UNCHANGED lockDoc
     \/ Fails(t) /\ UNCHANGED current

\* check_lock_doc: write the new document.  It has no _rev, so CouchDB takes
\* it only while there is none; the answer gives the writer its _rev.
CreateLockDoc(t) ==
  /\ pc[t] = "creating"
  /\ \/ /\ lockDoc = NoDoc
        /\ lockDoc' = NewLockDoc
        /\ \/ GoTo(t, "checking") /\ current' = {t}
           \/ Faults /\ GoTo(t, "idle") /\ current' = {}
     \/ /\ lockDoc # NoDoc
        /\ GoTo(t, "idle")
        /\ UNCHANGED <<lockDoc, current>>
     \/ Fails(t) /\ UNCHANGED current

\* apply_for_lock up to its write: refuse a valid lease, or stamp ourselves.
\* A stale copy may decide either way: its write is refused.
ApplyForLock(t) ==
  /\ pc[t] = "checking"
  /\ \/ /\ t \notin Forced
        /\ t \in current => LeaseValid(t, lockDoc)
        /\ GoTo(t, "idle")
        /\ current' = current \ {t}
     \/ /\ t \in Forced \/ (t \in current => ~LeaseValid(t, lockDoc))
        /\ GoTo(t, "writing")
        /\ UNCHANGED current
  /\ UNCHANGED lockDoc

\* apply_for_lock, its write.
WriteLock(t) ==
  /\ pc[t] = "writing"
  /\ Put(t, Award(t), "held")

\* The caller is done with its work and calls lockLib.release.
FinishWork(t) ==
  /\ pc[t] = "held"
  /\ GoTo(t, "releasing")
  /\ UNCHANGED <<lockDoc, current>>

\* lockLib.release, its read.  (Lock documents are never deleted.)
ReadForRelease(t) ==
  /\ pc[t] = "releasing"
  /\ \/ /\ lockDoc # NoDoc
        /\ GoTo(t, "unlocking")
        /\ current' = current \cup {t}
        /\ UNCHANGED lockDoc
     \/ Fails(t) /\ UNCHANGED current

\* lockLib.release, its write: whoever prev_owner is, it is marked released.
WriteRelease(t) ==
  /\ pc[t] = "unlocking"
  /\ Put(t, [lockDoc EXCEPT !.released = TRUE], "idle")

\* The process of t dies, or t stops without calling release.
Crash(t) ==
  /\ Faults
  /\ pc[t] # "idle"
  /\ GoTo(t, "idle")
  /\ current' = current \ {t}
  /\ UNCHANGED lockDoc

\* A tick of real time.  MaxHold bounds how long a task takes from its stamp
\* to the end of its release; a task that gave up or crashed is not bounded.
Tick ==
  /\ \A t \in Tasks : pc[t] \in Stamped => stamp[t] < MaxHold[t]
  /\ lockDoc' = IF lockDoc # NoDoc /\ lockDoc.age < MaxAge
                  THEN [lockDoc EXCEPT !.age = @ + 1] ELSE lockDoc
  /\ stamp' = [t \in Tasks |-> IF pc[t] \in Stamped /\ stamp[t] < MaxAge
                                 THEN stamp[t] + 1 ELSE stamp[t]]
  /\ UNCHANGED <<current, pc>>

Advance(t) ==
  \/ CheckLockDoc(t) \/ CreateLockDoc(t) \/ ApplyForLock(t) \/ WriteLock(t)
  \/ FinishWork(t) \/ ReadForRelease(t) \/ WriteRelease(t)

Next ==
  \/ \E t \in Tasks : Apply(t) \/ Advance(t) \/ Crash(t)
  \/ Tick

Spec == Init /\ [][Next]_vars

\* Callbacks of a live process run, and time passes.  Nobody has to apply, and
\* nobody has to crash.
FairSpec == Spec /\ WF_vars(Tick) /\ \A t \in Tasks : WF_vars(Advance(t))

-----------------------------------------------------------------------------
\* t has the lock: from the write that awards it to the write that releases it.
Owns(t) == pc[t] \in {"held", "releasing", "unlocking"}

\* t sees the lock taken: if it applied now it would be refused.
Taken(t) == lockDoc # NoDoc /\ LeaseValid(t, lockDoc)

\* What callers must choose for the lock to exclude: nobody forces it, and work
\* ends before its lease does on the fastest clock.
LeaseCoversWork ==
  /\ Forced = {}
  /\ \A t, u \in Tasks : MaxHold[t] + Offset[Home[u]] - Offset[Home[t]] <= Lease[t]

\* Only one task at a time does the work the lock protects (patch_lib.js:353,
\* "prevents multiple athena instances from doing the same logic").
MutualExclusion ==
  \A t, u \in Tasks : pc[t] = "held" /\ pc[u] = "held" => t = u

\* release does not check the owner, so it is right only if the document still
\* names its caller, with a lease every process sees as valid, until released.
ReleasesOwnLock ==
  \A t \in Tasks : Owns(t) =>
    /\ \A u \in Tasks : Taken(u)
    /\ lockDoc.owner = t

-----------------------------------------------------------------------------
(* The inductive invariants behind these properties. *)

\* Only a task between a read and its write holds a current copy of a document.
CopiesAreOfTheDoc ==
  \A t \in current : lockDoc # NoDoc /\ pc[t] \in {"checking", "writing", "unlocking"}

\* The check of apply_for_lock stays good until its write, for a current copy.
ChecksStillGood ==
  \A t \in current \ Forced : pc[t] = "writing" => ~Taken(t)

\* The document of a task that owns the lock is the one it wrote.
OwnersWroteTheDoc ==
  \A t \in Tasks :
    /\ stamp[t] <= (IF pc[t] \in Stamped THEN MaxHold[t] ELSE 0)
    /\ Owns(t) => lockDoc # NoDoc /\ lockDoc = Award(t)

-----------------------------------------------------------------------------
\* Whatever was read, checked and written in between by others, a lock is only
\* ever awarded over a document whose lease the new owner sees as released or
\* expired at that moment, unless it applied with force (lochness.js:100-115).
NoLiveLockTaken ==
  [][\A t \in Tasks \ Forced :
       /\ pc[t] = "writing" /\ pc'[t] # "writing"
       /\ lockDoc' # lockDoc
       => ~Taken(t)]_vars

\* A lock whose owner crashed, or whose release failed, does not stay taken for
\* everyone.  (It may stay taken for a process with a slow clock: the process
\* with the fast one sees the lease expire first and may always retake it.)
LockComesFree == (\A t \in Tasks : Taken(t)) ~> (\E t \in Tasks : ~Taken(t))

\* A task gives up only when it lost: somebody else made the document, has the
\* lock, or wrote first.  (A release ends either way.)
NothingFails ==
  \A t \in Tasks : pc[t] # "idle" /\ pc'[t] = "idle" =>
    \/ pc[t] = "creating" /\ lockDoc # NoDoc
    \/ pc[t] = "checking" /\ (t \in current => Taken(t))
    \/ pc[t] = "writing" /\ t \notin current
    \/ pc[t] = "unlocking"

\* "Be optimistic, act like we will win" (lochness.js:124) does not make all
\* lose: once requests no longer fail, of the tasks that again and again apply for
\* a free lock at the same time, some one gets it again and again.
SomeoneWins ==
  <>[][NothingFails]_vars =>
    ([]<>(\E t \in Tasks : pc[t] = "applying" /\ ~Taken(t)) => []<>(\E u \in Tasks : pc[u] = "held"))

\* The lock as its callers see it (LockService), the callers being at work while
\* they are in the callback of a successful apply.
Service == INSTANCE LockService WITH working <- {t \in Tasks : pc[t] = "held"}

ImplementsLockService == Service!Spec
=============================================================================

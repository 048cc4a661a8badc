------------------------- MODULE AccessList_proofs -------------------------
(***************************************************************************)
(* Proofs about AccessList, for any users, requests, processes and faults.  *)
(***************************************************************************)
EXTENDS AccessList, TLAPS

\* A copy with the document's _rev is about to be written, and on its first
\* attempt it differs from the document only where its request changed it.
CopiesAreFresh ==
  /\ \A r \in Requests : pc[r] = "conflict" => attempt[r] > 1
  /\ \A r \in current :
       /\ pc[r] = "writing"
       /\ attempt[r] = 1 => \A u \in Users \ req[r].users : copy[r][u] = settingsDoc[u]

MergeInv == TypeOK /\ CopiesAreFresh

\* Every list that may still be written has a manager.
CopiesHaveManagers ==
  \A r \in Requests : pc[r] \in {"writing", "conflict"} => SomeManager(copy[r])

ManagerInv == TypeOK /\ ManagerRemains /\ CopiesHaveManagers

-----------------------------------------------------------------------------
\* What a handler writes is an access list.
LEMMA EditedType ==
  ASSUME NEW list \in Lists, NEW mem \in Lists, NEW q \in Inputs, ~Refused(list, mem, q)
  PROVE  Edited(list, q) \in Lists
<1>1. q \in Input
  BY ConstantsAssumption
<1>2. ASSUME NEW u \in q.users, u \in Users
      PROVE  NewEntry(q, list[u]) \in Entry \cup {NoUser}
  <2>1. CASE q.op \in {"edit", "change", "reset"}
    <3>1. list[u] \in Entry
      BY <2>1, <1>2 DEF Refused, Lists
    <3>. QED BY <1>1, <2>1, <3>1 DEF NewEntry, Entry, Input
  <2>2. CASE q.op = "add"
    BY <1>1, <2>2 DEF NewEntry, Entry, Input, Roles
  <2>3. CASE q.op = "register"
    BY <2>3 DEF NewEntry, Entry, Roles
  <2>4. CASE q.op = "delete"
    BY <2>4 DEF NewEntry
  <2>. QED BY <1>1, <2>1, <2>2, <2>3, <2>4 DEF Input, Ops
<1>3. ASSUME NEW u \in Users
      PROVE  (IF u \in q.users THEN NewEntry(q, list[u]) ELSE list[u]) \in Entry \cup {NoUser}
  BY <1>2 DEF Lists
<1>. QED BY <1>3 DEF Edited, Lists

\* The local variables of a handler after GoTo, and those of the other handlers.
LEMMA GoToType ==
  ASSUME TypeOK, NEW r \in Requests, NEW step \in Steps, GoTo(r, step),
         step = "conflict" => attempt[r] < MaxAttempts
  PROVE  /\ pc' \in [Requests -> Steps]
         /\ copy' \in [Requests -> Lists]
         /\ attempt' \in [Requests -> 1..MaxAttempts]
         /\ pc'[r] = step
         /\ copy'[r] = (IF step \in {"writing", "conflict"} THEN copy[r] ELSE InitialList)
         /\ step = "conflict" => attempt'[r] = attempt[r] + 1
         /\ step = "writing" => attempt'[r] = attempt[r]
         /\ \A x \in Requests \ {r} :
              pc'[x] = pc[x] /\ copy'[x] = copy[x] /\ attempt'[x] = attempt[x]
<1>1. pc' \in [Requests -> Steps] /\ pc'[r] = step
  BY DEF TypeOK, GoTo
<1>2. /\ copy' \in [Requests -> Lists]
      /\ copy'[r] = (IF step \in {"writing", "conflict"} THEN copy[r] ELSE InitialList)
  BY ConstantsAssumption DEF TypeOK, GoTo
<1>3. CASE step = "conflict"
  <2>1. attempt' = [attempt EXCEPT ![r] = attempt[r] + 1]
    BY <1>3 DEF GoTo
  <2>. QED BY <1>1, <1>2, <1>3, <2>1, ConstantsAssumption DEF TypeOK, GoTo
<1>4. CASE step = "writing"
  <2>1. attempt' = [attempt EXCEPT ![r] = attempt[r]]
    BY <1>4 DEF GoTo
  <2>. QED BY <1>1, <1>2, <1>4, <2>1, ConstantsAssumption DEF TypeOK, GoTo
<1>5. CASE step \notin {"conflict", "writing"}
  <2>1. attempt' = [attempt EXCEPT ![r] = 1]
    BY <1>5 DEF GoTo
  <2>. QED BY <1>1, <1>2, <1>5, <2>1, ConstantsAssumption DEF TypeOK, GoTo
<1>. QED BY <1>3, <1>4, <1>5

\* A conflict leads to another attempt, counted, or to the end of the request.
LEMMA ConflictType ==
  ASSUME TypeOK, NEW r \in Requests, Conflict(r)
  PROVE  \E step \in {"conflict", "failed"} :
           GoTo(r, step) /\ (step = "conflict" => attempt[r] < MaxAttempts)
BY DEF Conflict

-----------------------------------------------------------------------------
\* Type correctness holds before the first request.
LEMMA TypeInit == Init => TypeOK
BY ConstantsAssumption DEF Init, TypeOK, Steps

\* A step of a handler that keeps its request keeps the types of its variables.
LEMMA MoveType ==
  ASSUME TypeOK, NEW r \in Requests, NEW step \in Steps \ {"new"}, pc[r] # "new",
         GoTo(r, step), step = "conflict" => attempt[r] < MaxAttempts,
         req' = req, settingsDoc' \in Lists, current' \subseteq Requests,
         memory' = memory, loads' \in [Loaders -> Lists \cup {NoLoad, Asked}],
         pushed' \subseteq Instances
  PROVE  TypeOK'
<1>1. /\ pc' \in [Requests -> Steps]
      /\ copy' \in [Requests -> Lists]
      /\ attempt' \in [Requests -> 1..MaxAttempts]
      /\ pc'[r] = step
      /\ \A x \in Requests \ {r} : pc'[x] = pc[x]
  BY GoToType
<1>2. \A x \in Requests : (req'[x] = NoInput) = (pc'[x] = "new")
  BY <1>1 DEF TypeOK
<1>. QED BY <1>1, <1>2 DEF TypeOK

\* Every step of a handler keeps the types.
LEMMA TypeOfHandlers ==
  ASSUME TypeOK, NEW r \in Requests, Receive(r) \/ Handle(r)
  PROVE  TypeOK'
<1>1. CASE Receive(r)
  <2>1. PICK q \in Inputs : req' = [req EXCEPT ![r] = q]
    BY <1>1, ConstantsAssumption DEF Receive
  <2>2. q # NoInput
    BY ConstantsAssumption
  <2>3. GoTo(r, "reading") /\ "reading" \in Steps /\ pc[r] = "new"
    BY <1>1 DEF Receive, Steps
  <2>. QED BY <1>1, <2>1, <2>2, <2>3, GoToType DEF Receive, TypeOK, Steps
<1>2. CASE ReadDoc(r)
  <2>1. CASE \E step \in {"refused", "failed"} : GoTo(r, step) /\ UNCHANGED current
    BY <1>2, <2>1, MoveType DEF ReadDoc, TypeOK, Steps, Ended
  <2>2. CASE /\ ~Refused(settingsDoc, memory[Home[r]], req[r])
             /\ copy' = [copy EXCEPT ![r] = Edited(settingsDoc, req[r])]
             /\ pc' = [pc EXCEPT ![r] = "writing"]
             /\ current' = current \cup {r}
             /\ UNCHANGED attempt
    <3>1. req[r] \in Inputs /\ memory[Home[r]] \in Lists /\ settingsDoc \in Lists
      BY <1>2, ConstantsAssumption DEF ReadDoc, TypeOK
    <3>2. Edited(settingsDoc, req[r]) \in Lists
      BY <2>2, <3>1, EditedType
    <3>. QED BY <1>2, <2>2, <3>2 DEF ReadDoc, TypeOK, Steps
  <2>. QED BY <1>2, <2>1, <2>2 DEF ReadDoc
<1>3. CASE WriteDoc(r)
  <2>1. /\ settingsDoc' \in Lists /\ current' \subseteq Requests /\ pushed' \subseteq Instances
        /\ UNCHANGED <<req, memory>> /\ pc[r] = "writing"
    BY <1>3 DEF WriteDoc, TypeOK
  <2>2. \E step \in {"ok", "waiting", "conflict", "failed"} :
          GoTo(r, step) /\ (step = "conflict" => attempt[r] < MaxAttempts)
    BY <1>3, ConflictType DEF WriteDoc, Written
  <2>3. loads' \in [Loaders -> Lists \cup {NoLoad, Asked}]
    BY <1>3 DEF WriteDoc, Written, TypeOK, Loaders
  <2>. QED BY <2>1, <2>2, <2>3, MoveType DEF Steps, Ended
<1>4. CASE ReadAgain(r)
  <2>1. \E step \in {"writing", "failed"} : GoTo(r, step)
    BY <1>4 DEF ReadAgain
  <2>. QED BY <1>4, <2>1, MoveType DEF ReadAgain, TypeOK, Steps, Ended
<1>. QED BY <1>1, <1>2, <1>3, <1>4 DEF Handle

\* Every step of a reload or a process keeps the types.
LEMMA TypeOfReloads ==
  ASSUME TypeOK,
         \/ \E x \in Loaders : LoadAnswered(x) \/ Install(x) \/ LoadFails(x)
         \/ \E i \in Instances : Push(i) \/ Timer(i) \/ Restart(i)
  PROVE  TypeOK'
<1>1. ASSUME NEW x \in Loaders, LoadAnswered(x)
      PROVE  TypeOK'
  BY <1>1 DEF LoadAnswered, TypeOK
<1>2. ASSUME NEW x \in Loaders, NEW answer \in {"ok", "failed"}, AnswerWaiting(At(x), answer),
             UNCHANGED <<settingsDoc, current, req, copy, attempt, pushed>>,
             loads' = [loads EXCEPT ![x] = NoLoad],
             memory' \in [Instances -> Lists]
      PROVE  TypeOK'
  BY <1>2 DEF AnswerWaiting, TypeOK, Steps, Ended
<1>3. ASSUME NEW x \in Loaders, Install(x)
      PROVE  TypeOK'
  <2>1. memory' \in [Instances -> Lists]
    BY <1>3 DEF Install, TypeOK
  <2>. QED BY <1>2, <1>3, <2>1 DEF Install
<1>4. ASSUME NEW x \in Loaders, LoadFails(x)
      PROVE  TypeOK'
  BY <1>2, <1>4 DEF LoadFails, TypeOK
<1>5. ASSUME NEW i \in Instances, Push(i) \/ Timer(i)
      PROVE  TypeOK'
  BY <1>5 DEF Push, Timer, TypeOK, Loaders
<1>6. ASSUME NEW i \in Instances, Restart(i)
      PROVE  TypeOK'
  <2>1. pc' \in [Requests -> Steps] /\ \A r \in Requests : (pc'[r] = "new") = (pc[r] = "new")
    BY <1>6 DEF Restart, TypeOK, Steps, Ended
  <2>2. copy' \in [Requests -> Lists] /\ attempt' \in [Requests -> 1..MaxAttempts]
    BY <1>6, ConstantsAssumption DEF Restart, TypeOK
  <2>. QED BY <1>6, <2>1, <2>2 DEF Restart, TypeOK
<1>. QED BY <1>1, <1>3, <1>4, <1>5, <1>6

\* Every step keeps the types.
LEMMA TypeStep == TypeOK /\ [Next]_vars => TypeOK'
<1>1. TypeOK /\ UNCHANGED vars => TypeOK'
  BY DEF vars, TypeOK
<1>. QED BY <1>1, TypeOfHandlers, TypeOfReloads DEF Next

\* The lists in the document, in the handlers, in the reloads and in memory are
\* access lists, and attempts stay within their bound, whatever is asked.
THEOREM TypeCorrect == Spec => []TypeOK
BY TypeInit, TypeStep, PTL DEF Spec

-----------------------------------------------------------------------------
(* What CouchDB's revision check gives to first attempts. *)

\* A reload or a step of a process leaves a handler that is writing alone, or ends it.
LEMMA ReloadsLeaveWritersAlone ==
  ASSUME MergeInv,
         \/ \E x \in Loaders : LoadAnswered(x) \/ Install(x) \/ LoadFails(x)
         \/ \E i \in Instances : Push(i) \/ Timer(i) \/ Restart(i)
  PROVE  /\ UNCHANGED <<settingsDoc, req>>
         /\ current' \subseteq current
         /\ \A r \in Requests :
              pc'[r] \in {"writing", "conflict"} \/ r \in current' =>
                pc'[r] = pc[r] /\ copy'[r] = copy[r] /\ attempt'[r] = attempt[r]
<1>1. ASSUME NEW x \in Loaders, LoadAnswered(x) \/ Install(x) \/ LoadFails(x)
      PROVE  /\ UNCHANGED <<settingsDoc, req, current, copy, attempt>>
             /\ \A r \in Requests : pc'[r] = pc[r] \/ (pc[r] = "waiting" /\ pc'[r] \in Ended)
  BY <1>1 DEF LoadAnswered, Install, LoadFails, AnswerWaiting, Ended
<1>2. ASSUME NEW i \in Instances, Push(i) \/ Timer(i)
      PROVE  UNCHANGED <<settingsDoc, req, current, copy, attempt, pc>>
  BY <1>2 DEF Push, Timer
<1>3. ASSUME NEW i \in Instances, Restart(i)
      PROVE  /\ UNCHANGED <<settingsDoc, req>>
             /\ current' \subseteq current
             /\ \A r \in Requests :
                  pc'[r] \in {"writing", "conflict"} \/ r \in current' =>
                    pc'[r] = pc[r] /\ copy'[r] = copy[r] /\ attempt'[r] = attempt[r]
  BY <1>3 DEF Restart, Ended
<1>. QED BY <1>1, <1>2, <1>3 DEF MergeInv, CopiesAreFresh, TypeOK, Ended

\* A step of r that ends its write, or leaves its copy as it is.
LEMMA MoveKeepsFresh ==
  ASSUME MergeInv, NEW r \in Requests, NEW step \in Steps, GoTo(r, step),
         step = "conflict" => attempt[r] < MaxAttempts,
         UNCHANGED req,
         current' = {} \/ (current' \subseteq current \ {r} /\ UNCHANGED settingsDoc)
  PROVE  CopiesAreFresh'
<1>1. /\ step = "conflict" => attempt'[r] = attempt[r] + 1
      /\ pc'[r] = step
      /\ attempt[r] \in 1..MaxAttempts
      /\ \A x \in Requests \ {r} :
           pc'[x] = pc[x] /\ copy'[x] = copy[x] /\ attempt'[x] = attempt[x]
  BY GoToType DEF MergeInv, TypeOK
<1>2. \A x \in Requests : pc'[x] = "conflict" => attempt'[x] > 1
  BY <1>1, ConstantsAssumption DEF MergeInv, CopiesAreFresh
<1>3. ASSUME NEW x \in current'
      PROVE  /\ pc'[x] = "writing"
             /\ attempt'[x] = 1 =>
                  \A u \in Users \ req'[x].users : copy'[x][u] = settingsDoc'[u]
  <2>1. x \in current \ {r} /\ x \in Requests /\ UNCHANGED settingsDoc
    BY <1>3 DEF MergeInv, TypeOK
  <2>. QED BY <1>1, <2>1 DEF MergeInv, CopiesAreFresh
<1>. QED BY <1>2, <1>3 DEF CopiesAreFresh

\* Every step keeps copies fresh.
LEMMA MergeStep == MergeInv /\ [Next]_vars => CopiesAreFresh'
<1> SUFFICES ASSUME MergeInv, [Next]_vars
             PROVE  CopiesAreFresh'
  OBVIOUS
<1>1. ASSUME NEW r \in Requests, Receive(r)
      PROVE  CopiesAreFresh'
  <2>1. GoTo(r, "reading") /\ UNCHANGED <<current, settingsDoc>> /\ r \notin current
    BY <1>1 DEF Receive, MergeInv, CopiesAreFresh
  <2>2. \A x \in Requests \ {r} : req'[x] = req[x] /\ pc'[x] = pc[x]
                                    /\ copy'[x] = copy[x] /\ attempt'[x] = attempt[x]
    BY <1>1, <2>1, GoToType DEF Receive, MergeInv, TypeOK, Steps
  <2>3. pc'[r] = "reading"
    BY <2>1, GoToType DEF MergeInv, Steps
  <2>. QED BY <2>1, <2>2, <2>3 DEF MergeInv, CopiesAreFresh, TypeOK
<1>2. ASSUME NEW r \in Requests, ReadDoc(r)
      PROVE  CopiesAreFresh'
  <2>1. r \notin current
    BY <1>2 DEF ReadDoc, MergeInv, CopiesAreFresh
  <2>2. CASE \E step \in {"refused", "failed"} : GoTo(r, step) /\ UNCHANGED current
    BY <1>2, <2>1, <2>2, MoveKeepsFresh DEF ReadDoc, Steps, Ended
  <2>3. CASE /\ copy' = [copy EXCEPT ![r] = Edited(settingsDoc, req[r])]
             /\ pc' = [pc EXCEPT ![r] = "writing"]
             /\ current' = current \cup {r}
             /\ UNCHANGED attempt
    <3>1. /\ pc'[r] = "writing"
          /\ copy'[r] = Edited(settingsDoc, req[r])
          /\ \A x \in Requests \ {r} : pc'[x] = pc[x] /\ copy'[x] = copy[x]
      BY <2>3 DEF MergeInv, TypeOK
    <3>2. \A u \in Users \ req[r].users : copy'[r][u] = settingsDoc[u]
      BY <3>1 DEF Edited
    <3>. QED BY <1>2, <2>3, <3>1, <3>2 DEF ReadDoc, MergeInv, CopiesAreFresh, TypeOK
  <2>. QED BY <1>2, <2>2, <2>3 DEF ReadDoc
<1>3. ASSUME NEW r \in Requests, WriteDoc(r)
      PROVE  CopiesAreFresh'
  <2>1. \E step \in {"ok", "waiting", "conflict", "failed"} :
          GoTo(r, step) /\ (step = "conflict" => attempt[r] < MaxAttempts)
    BY <1>3, ConflictType DEF WriteDoc, Written, MergeInv
  <2>2. current' = {} \/ (current' \subseteq current \ {r} /\ UNCHANGED settingsDoc)
    BY <1>3 DEF WriteDoc
  <2>. QED BY <1>3, <2>1, <2>2, MoveKeepsFresh DEF WriteDoc, Steps, Ended
<1>4. ASSUME NEW r \in Requests, ReadAgain(r)
      PROVE  CopiesAreFresh'
  <2>1. r \notin current /\ attempt[r] > 1
    BY <1>4 DEF ReadAgain, MergeInv, CopiesAreFresh
  <2>2. CASE GoTo(r, "failed") /\ UNCHANGED current
    BY <1>4, <2>1, <2>2, MoveKeepsFresh DEF ReadAgain, Steps, Ended
  <2>3. CASE current' = current \cup {r} /\ GoTo(r, "writing")
    <3>1. /\ pc'[r] = "writing" /\ attempt'[r] = attempt[r]
          /\ \A x \in Requests \ {r} :
               pc'[x] = pc[x] /\ copy'[x] = copy[x] /\ attempt'[x] = attempt[x]
      BY <2>3, GoToType DEF MergeInv, Steps
    <3>2. attempt'[r] # 1
      BY <2>1, <3>1, ConstantsAssumption DEF MergeInv, TypeOK
    <3>. QED BY <1>4, <2>1, <2>3, <3>1, <3>2 DEF ReadAgain, MergeInv, CopiesAreFresh, TypeOK
  <2>. QED BY <1>4, <2>2, <2>3 DEF ReadAgain
<1>5. CASE \/ \E x \in Loaders : LoadAnswered(x) \/ Install(x) \/ LoadFails(x)
           \/ \E i \in Instances : Push(i) \/ Timer(i) \/ Restart(i)
  BY <1>5, ReloadsLeaveWritersAlone DEF MergeInv, CopiesAreFresh, TypeOK
<1>6. CASE UNCHANGED vars
  BY <1>6 DEF vars, MergeInv, CopiesAreFresh
<1>. QED BY <1>1, <1>2, <1>3, <1>4, <1>5, <1>6 DEF Next, Handle

\* couchdb.js:203-205: a copy that CouchDB would still accept on its first attempt
\* is the document with the changes of its own request.
THEOREM MergeInvariant == Spec => []MergeInv
<1>1. Init => CopiesAreFresh
  BY DEF Init, CopiesAreFresh
<1>. QED BY <1>1, TypeInit, TypeStep, MergeStep, PTL DEF Spec, MergeInv

\* No first attempt of repeatWriteSafe undoes what other requests wrote, whatever
\* faults, conflicts and restarts there are.
THEOREM FirstWritesMerge == Spec => FirstWriteMerges
<1>1. ASSUME MergeInv, [Next]_vars, NEW r \in Requests, Lands(r), attempt[r] = 1
      PROVE  OnlyItsUsersChange(r)
  <2>1. PICK x \in Requests : WriteDoc(x) /\ x \in current /\ settingsDoc' = copy[x]
    <3>1. settingsDoc' # settingsDoc
      BY <1>1 DEF Lands
    <3>. QED BY <1>1, <3>1, ReloadsLeaveWritersAlone
             DEF Next, Handle, Receive, ReadDoc, WriteDoc, ReadAgain, vars
  <2>2. \E step \in {"ok", "waiting", "conflict", "failed"} :
          GoTo(x, step) /\ (step = "conflict" => attempt[x] < MaxAttempts)
    BY <2>1, <1>1, ConflictType DEF WriteDoc, Written, MergeInv
  <2>3. \A y \in Requests \ {x} : pc'[y] = pc[y]
    BY <1>1, <2>2, GoToType DEF MergeInv, Steps, Ended
  <2>4. x = r
    BY <1>1, <2>3 DEF Lands
  <2>. QED BY <1>1, <2>1, <2>4 DEF OnlyItsUsersChange, MergeInv, CopiesAreFresh
<1>2. MergeInv /\ [Next]_vars =>
        [\A r \in Requests : Lands(r) /\ attempt[r] = 1 => OnlyItsUsersChange(r)]_vars
  BY <1>1
<1>. QED BY <1>2, MergeInvariant, PTL DEF Spec, FirstWriteMerges

-----------------------------------------------------------------------------
(* The console keeps a manager. *)

\* No request that passes the checks takes the last manager out of a list.
LEMMA EditKeepsManager ==
  ASSUME NoRemovals, NEW list \in Lists, SomeManager(list), NEW mem \in Lists,
         NEW q \in Inputs, ~Refused(list, mem, q)
  PROVE  SomeManager(Edited(list, q))
<1>1. q \in Input /\ q.op \in {"add", "edit", "change", "reset"}
  BY ConstantsAssumption DEF NoRemovals, Input, Ops
<1>2. PICK m \in Users : IsManager(list, m)
  BY DEF SomeManager
<1>3. SUFFICES \E u \in Users : IsManager(Edited(list, q), u)
  BY DEF SomeManager
<1>4. ASSUME NEW u \in Users, u \notin q.users, IsManager(list, u)
      PROVE  IsManager(Edited(list, q), u)
  BY <1>4 DEF Edited, IsManager
<1>5. CASE m \notin q.users
  BY <1>2, <1>4, <1>5
<1>6. CASE m \in q.users
  <2>1. list[m] \in Entry /\ list[m].role = "manager"
    BY <1>2 DEF IsManager, Lists
  <2>2. Edited(list, q)[m] = NewEntry(q, list[m])
    BY <1>6 DEF Edited
  <2>3. CASE q.op = "add"
    BY <1>2, <1>6, <2>3 DEF Refused, IsManager
  <2>4. CASE q.op \in {"change", "reset"} \/ (q.op = "edit" /\ q.role = "manager")
    <3>1. NewEntry(q, list[m]) \in Entry /\ NewEntry(q, list[m]).role = "manager"
      BY <1>1, <2>1, <2>4 DEF NewEntry, Entry, Input
    <3>. QED BY <2>2, <3>1, ConstantsAssumption DEF IsManager
  <2>5. CASE q.op = "edit" /\ q.role # "manager"
    <3>1. PICK u \in Users : IsManager(list, u) /\ u \notin q.users
      BY <1>2, <1>6, <2>5 DEF Refused, DemotesLastManager
    <3>. QED BY <1>4, <3>1
  <2>. QED BY <1>1, <2>3, <2>4, <2>5
<1>. QED BY <1>5, <1>6

\* A step of a handler that makes no new copy.
LEMMA MoveKeepsManagers ==
  ASSUME TypeOK, CopiesHaveManagers, NEW r \in Requests, NEW step \in Steps, GoTo(r, step),
         step = "conflict" => attempt[r] < MaxAttempts,
         step \in {"writing", "conflict"} => pc[r] \in {"writing", "conflict"}
  PROVE  CopiesHaveManagers'
BY GoToType DEF CopiesHaveManagers, SomeManager

\* Every step keeps a manager in the document and in the lists that may replace it.
LEMMA ManagerStep ==
  ASSUME NoRemovals, MergeInv, ManagerInv, [Next]_vars
  PROVE  ManagerRemains' /\ CopiesHaveManagers'
<1> USE DEF ManagerInv
<1>1. ASSUME NEW r \in Requests, Receive(r)
      PROVE  ManagerRemains' /\ CopiesHaveManagers'
  BY <1>1, MoveKeepsManagers DEF Receive, ManagerRemains, Steps
<1>2. ASSUME NEW r \in Requests, ReadDoc(r)
      PROVE  ManagerRemains' /\ CopiesHaveManagers'
  <2>1. ManagerRemains'
    BY <1>2 DEF ReadDoc, ManagerRemains
  <2>2. CASE \E step \in {"refused", "failed"} : GoTo(r, step)
    BY <2>1, <2>2, MoveKeepsManagers DEF Steps, Ended
  <2>3. CASE /\ ~Refused(settingsDoc, memory[Home[r]], req[r])
             /\ copy' = [copy EXCEPT ![r] = Edited(settingsDoc, req[r])]
             /\ pc' = [pc EXCEPT ![r] = "writing"]
    <3>1. req[r] \in Inputs /\ memory[Home[r]] \in Lists /\ settingsDoc \in Lists
      BY <1>2, ConstantsAssumption DEF ReadDoc, TypeOK
    <3>2. SomeManager(Edited(settingsDoc, req[r]))
      BY <2>3, <3>1, EditKeepsManager DEF ManagerRemains
    <3>3. \A x \in Requests : pc'[x] \in {"writing", "conflict"} => SomeManager(copy'[x])
      BY <2>3, <3>2 DEF CopiesHaveManagers, TypeOK
    <3>. QED BY <2>1, <3>3 DEF CopiesHaveManagers, SomeManager
  <2>. QED BY <1>2, <2>2, <2>3 DEF ReadDoc
<1>3. ASSUME NEW r \in Requests, WriteDoc(r)
      PROVE  ManagerRemains' /\ CopiesHaveManagers'
  <2>1. \E step \in {"ok", "waiting", "conflict", "failed"} :
          GoTo(r, step) /\ (step = "conflict" => attempt[r] < MaxAttempts)
    BY <1>3, ConflictType DEF WriteDoc, Written
  <2>2. pc[r] = "writing" /\ settingsDoc' \in {settingsDoc, copy[r]}
    BY <1>3 DEF WriteDoc
  <2>3. SomeManager(settingsDoc')
    BY <2>2 DEF ManagerRemains, CopiesHaveManagers
  <2>. QED BY <2>1, <2>2, <2>3, MoveKeepsManagers DEF ManagerRemains, SomeManager, IsManager, Steps, Ended
<1>4. ASSUME NEW r \in Requests, ReadAgain(r)
      PROVE  ManagerRemains' /\ CopiesHaveManagers'
  BY <1>4, MoveKeepsManagers DEF ReadAgain, ManagerRemains, Steps, Ended
<1>5. CASE \/ \E x \in Loaders : LoadAnswered(x) \/ Install(x) \/ LoadFails(x)
           \/ \E i \in Instances : Push(i) \/ Timer(i) \/ Restart(i)
  BY <1>5, ReloadsLeaveWritersAlone DEF ManagerRemains, CopiesHaveManagers, SomeManager
<1>6. CASE UNCHANGED vars
  BY <1>6 DEF vars, ManagerRemains, CopiesHaveManagers
<1>. QED BY <1>1, <1>2, <1>3, <1>4, <1>5, <1>6 DEF Next, Handle

\* permissions_lib.js:233-243 is enough, whatever edits, additions and password
\* changes race, and however often their writes are repeated: it fails only when
\* users are deleted or register.
THEOREM ManagersRemain ==
  ASSUME NoRemovals
  PROVE  Spec => []ManagerRemains
<1>1. Init => ManagerRemains /\ CopiesHaveManagers
  BY ConstantsAssumption DEF Init, ManagerRemains, CopiesHaveManagers
<1>2. MergeInv /\ ManagerInv /\ [Next]_vars => ManagerRemains' /\ CopiesHaveManagers'
  BY ManagerStep
<1>. QED BY <1>1, <1>2, MergeInvariant, TypeInit, TypeStep, PTL DEF Spec, ManagerInv
=============================================================================

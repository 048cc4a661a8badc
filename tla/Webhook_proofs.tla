-------------------------- MODULE Webhook_proofs ---------------------------
(***************************************************************************)
(* Proofs about Webhook, for templates of any size, any clients, intervals  *)
(* and faults.                                                              *)
(*                                                                          *)
(* IInv is inductive: what is sent to the client when the document is       *)
(* changed is the copy that will be written (ToldFirst), a copy that can    *)
(* still be written is the document as it is, changed by its editor         *)
(* (CopiesOfTheDoc), the builder makes one edit after the other, so that    *)
(* the document is behind it if nobody else sets steps (StepsOfTheBuilder), *)
(* and what was sent last is the document unless someone has still to write *)
(* or to repeat what it has sent (LastTold).                                *)
(***************************************************************************)
EXTENDS Webhook, TLAPS

\* The variables of an edit have their types.
EditsTypeOK ==
  /\ pc \in [Editors -> Steps]
  /\ edit \in [Editors -> Edits]
  /\ copy \in [Editors -> Documents \cup {NoDoc}]
  /\ attempt \in [Editors -> 1..MaxAttempts]

\* An edit changes only what it sets, and gives a document.
LEMMA EditedType ==
  ASSUME NEW d \in Documents, NEW data \in Edits
  PROVE  /\ Edited(d, data) \in Documents
         /\ Edited(d, data) # NoDoc
         /\ Edited(d, data).status = data.status
         /\ d.notes \subseteq Edited(d, data).notes
         /\ data.step = None => Edited(d, data).step = d.step
         /\ data.total = None => Edited(d, data).total = d.total
         /\ data.step # None /\ data.total = None /\ data.step <= d.total
              => Edited(d, data).step = data.step
<1>0. /\ d.step \in 1..Size + 1 /\ d.total \in 1..Size + 1
      /\ data.step \in {None} \cup 1..Size + 1 /\ data.total \in {None} \cup 1..Size + 1
  BY DEF Documents, Edits
<1>1. Total(d, data) \in 1..Size + 1 /\ (data.total = None => Total(d, data) = d.total)
  BY <1>0 DEF Total
<1>2. /\ Edited(d, data).step \in 1..Size + 1
      /\ data.step = None => Edited(d, data).step = d.step
      /\ data.step # None /\ ~(data.step > Total(d, data)) => Edited(d, data).step = data.step
  <2>. DEFINE step == CASE data.step = None -> d.step
                        [] data.step > Total(d, data) -> Total(d, data)
                        [] OTHER -> data.step
  <2>0. Edited(d, data).step = step
    BY DEF Edited
  <2>1. CASE data.step = None
    <3>1. ~(data.step > Total(d, data))
      BY <1>1, <2>1, ConstantsAssumption DEF None
    <3>. QED BY <1>0, <2>0, <2>1, <3>1
  <2>2. CASE data.step # None /\ data.step > Total(d, data)
    BY <1>1, <2>0, <2>2
  <2>3. CASE data.step # None /\ ~(data.step > Total(d, data))
    BY <1>0, <2>0, <2>3
  <2>. QED BY <2>1, <2>2, <2>3
<1>3. /\ Edited(d, data).status = data.status /\ data.status \in Statuses
      /\ Edited(d, data).total = Total(d, data)
      /\ d.notes \subseteq Edited(d, data).notes
      /\ Edited(d, data).notes \subseteq 1..Size
  BY DEF Edited, Documents, Edits, None
<1>4. Edited(d, data) \in Documents
  BY <1>1, <1>2, <1>3 DEF Edited, Documents
<1>. QED BY <1>0, <1>1, <1>2, <1>3, <1>4, ConstantsAssumption, SMT DEF None

\* Each editor has the variables of its own edit.
LEMMA EditorTypes ==
  ASSUME TypeOK, NEW e \in Editors
  PROVE  /\ pc[e] \in Steps
         /\ edit[e] \in Edits
         /\ copy[e] \in Documents \cup {NoDoc}
         /\ attempt[e] \in 1..MaxAttempts
BY DEF TypeOK

LEMMA SomeEditors == Builder \in Editors /\ Clients \subseteq Editors /\ Sweepers \subseteq Editors
BY DEF Editors

LEMMA NoEditType ==
  /\ NoEdit \in Edits /\ NoEdit.step = None /\ NoEdit.total = None
  /\ NoEdit.status = "pending"
BY DEF NoEdit, Edits, Statuses

\* An edit begins.
LEMMA BeginType ==
  ASSUME TypeOK, NEW e \in Editors, NEW data \in Edits, Begin(e, data)
  PROVE  /\ EditsTypeOK'
         /\ pc'[e] = "read" /\ edit'[e] = data /\ attempt'[e] = 1 /\ copy' = copy
         /\ \A x \in Editors \ {e} :
              pc'[x] = pc[x] /\ edit'[x] = edit[x] /\ attempt'[x] = attempt[x]
BY ConstantsAssumption DEF TypeOK, EditsTypeOK, Begin, Steps

\* An edit ends.
LEMMA DoneType ==
  ASSUME TypeOK, NEW e \in Editors, Done(e)
  PROVE  /\ EditsTypeOK'
         /\ pc'[e] \in {"next", "idle", "end"} /\ edit'[e] = NoEdit /\ attempt'[e] = 1
         /\ e # Builder => pc'[e] # "next"
         /\ \A x \in Editors \ {e} :
              /\ pc'[x] = pc[x] /\ edit'[x] = edit[x]
              /\ copy'[x] = copy[x] /\ attempt'[x] = attempt[x]
<1>1. After(e) \in {"next", "idle", "end"} /\ After(e) \in Steps
  BY DEF After, Steps
<1>. QED BY <1>1, NoEditType, ConstantsAssumption DEF TypeOK, EditsTypeOK, Done, After

-----------------------------------------------------------------------------
(* Who has sent an outcome.                                                 *)

\* Only an edit that is under way has sent one.
LEMMA OnlyEditsTell ==
  ASSUME EditsUnderWay, NEW e \in Editors, pc[e] \notin {"read", "write"}
  PROVE  ~HasTold(e)
<1>1. pc[e] # "write" /\ attempt[e] = 1
  BY DEF EditsUnderWay
<1>. QED BY <1>1 DEF HasTold

\* LastTold stays when nothing is sent or written and no outcome is dropped.
LEMMA NothingSent ==
  ASSUME LastTold, doc' = doc, last' = last,
         ~dropped' => ~dropped /\ \A e \in Editors : HasTold(e) => HasTold(e)',
         current' \subseteq Editors,
         \A e \in current' : pc'[e] = "write" =>
           e \in current /\ pc[e] = "write" /\ copy'[e] = copy[e] /\ edit'[e] = edit[e]
  PROVE  LastTold'
<1>1. ASSUME doc' # NoDoc, doc'.status \in Final, ~dropped'
      PROVE  last' = doc' \/ \E e \in Editors : HasTold(e)'
  <2>1. last = doc \/ \E e \in Editors : HasTold(e)
    BY <1>1 DEF LastTold
  <2>. QED BY <1>1, <2>1
<1>2. ASSUME NEW e \in current', pc'[e] = "write", edit'[e].status \in Final, ~dropped'
      PROVE  last' = copy'[e] \/ \E f \in Editors \ {e} : HasTold(f)'
  <2>1. last = copy[e] \/ \E f \in Editors \ {e} : HasTold(f)
    BY <1>2 DEF LastTold
  <2>. QED BY <1>2, <2>1
<1>. QED BY <1>1, <1>2 DEF LastTold

\* One that is given up is dropped.
LEMMA DropType ==
  ASSUME TypeOK, NEW e \in Editors, dropped' = (dropped \/ HasTold(e))
  PROVE  /\ dropped' \in BOOLEAN
         /\ ~dropped' => ~dropped /\ ~HasTold(e)
OBVIOUS

-----------------------------------------------------------------------------
(* Every action keeps the invariant.                                        *)

\* An edit that begins, or a task that changes nothing but pc, keeps what
\* IInv says of the others.
LEMMA BeginStep ==
  ASSUME IInv, NEW e \in Editors, NEW data \in Edits, Begin(e, data),
         e = Builder => data.total = None /\ (data.step # None => data.step = at' + 1),
         pc[e] \notin {"start", "read", "write"},
         at' \in 1..Size + 1, e # Builder => at' = at,
         e = Builder => at' >= at,
         pc[e] = "seen" => e \notin current',
         current' \subseteq current,
         failed' \in BOOLEAN,
         UNCHANGED <<doc, age, deployer, sent, touched, faults>>
  PROVE  IInv'
<1>. USE DEF IInv
<1>0. /\ EditsTypeOK' /\ pc'[e] = "read" /\ edit'[e] = data /\ attempt'[e] = 1 /\ copy' = copy
      /\ \A x \in Editors \ {e} :
           pc'[x] = pc[x] /\ edit'[x] = edit[x] /\ attempt'[x] = attempt[x]
      /\ UNCHANGED <<doc, age, deployer, told, last, dropped, touched, faults>>
  BY BeginType DEF sent
<1>1. TypeOK'
  BY <1>0 DEF TypeOK, EditsTypeOK
<1>2. CopiesOfTheDoc'
  <2>1. \A x \in current' : x # e
    BY DEF CopiesOfTheDoc
  <2>2. \A x \in current' : x \in Editors
    BY DEF TypeOK
  <2>. QED BY <1>0, <2>1, <2>2 DEF CopiesOfTheDoc
<1>3. ToldFirst'
  <2>1. \A x \in current' : x \in Editors \ {e} /\ x \in current
    BY DEF CopiesOfTheDoc, TypeOK
  <2>. QED BY <1>0, <2>1 DEF ToldFirst
<1>4. StepsOfTheBuilder'
  <2>1. CASE e = Builder
    <3>1. doc # NoDoc => doc.step \in Nat /\ at \in Nat /\ at' \in Nat
      BY ConstantsAssumption DEF TypeOK, Documents
    <3>. QED BY <1>0, <2>1, <3>1 DEF StepsOfTheBuilder
  <2>2. CASE e # Builder
    BY <1>0, <2>2, SomeEditors DEF StepsOfTheBuilder
  <2>. QED BY <2>1, <2>2
<1>5. EditsUnderWay'
  BY <1>0 DEF EditsUnderWay
<1>6. LastTold'
  <2>1. ~HasTold(e)
    BY OnlyEditsTell
  <2>2. \A x \in Editors : HasTold(x) => HasTold(x)'
    BY <1>0, <2>1 DEF HasTold
  <2>3. \A x \in current' : x \in Editors \ {e} /\ x \in current
    BY DEF CopiesOfTheDoc, TypeOK
  <2>. QED BY <1>0, <2>2, <2>3, NothingSent
<1>7. ToldTheOutcome'
  BY <1>0 DEF ToldTheOutcome
<1>. QED BY <1>1, <1>2, <1>3, <1>4, <1>5, <1>6, <1>7

\* An edit that is given up keeps IInv.
LEMMA GivesUpStep ==
  ASSUME IInv, NEW e \in Editors, GivesUp(e), pc[e] \in {"read", "write"},
         e \notin current', current' \subseteq current, faults' \in 0..MaxFaults,
         UNCHANGED <<doc, age, building, deployer, touched>>
  PROVE  IInv'
<1>. USE DEF IInv
<1>0. /\ EditsTypeOK' /\ pc'[e] \in {"next", "idle", "end"} /\ edit'[e] = NoEdit
      /\ attempt'[e] = 1
      /\ \A x \in Editors \ {e} :
           /\ pc'[x] = pc[x] /\ edit'[x] = edit[x]
           /\ copy'[x] = copy[x] /\ attempt'[x] = attempt[x]
      /\ UNCHANGED <<doc, age, at, failed, deployer, told, last, touched>>
      /\ e = Builder \/ pc'[e] # "next"
  BY DoneType DEF GivesUp, building
<1>a. dropped' \in BOOLEAN /\ (~dropped' => ~dropped /\ ~HasTold(e))
  BY DropType DEF GivesUp
<1>b. \A x \in current' : x \in Editors \ {e} /\ x \in current
  BY DEF TypeOK
<1>1. TypeOK'
  BY <1>0, <1>a, <1>b DEF TypeOK, EditsTypeOK
<1>2. CopiesOfTheDoc'
  BY <1>0, <1>b DEF CopiesOfTheDoc
<1>3. ToldFirst'
  BY <1>0, <1>b DEF ToldFirst
<1>4. StepsOfTheBuilder'
  <2>1. CASE e = Builder
    BY <1>0, <2>1, NoEditType DEF StepsOfTheBuilder
  <2>2. CASE e # Builder
    BY <1>0, <2>2, SomeEditors DEF StepsOfTheBuilder
  <2>. QED BY <2>1, <2>2
<1>5. EditsUnderWay'
  BY <1>0 DEF EditsUnderWay
<1>6. LastTold'
  <2>1. ~dropped' => ~dropped /\ \A x \in Editors : HasTold(x) => HasTold(x)'
    BY <1>0, <1>a DEF HasTold
  <2>2. current' \subseteq Editors
    BY <1>b
  <2>. QED BY <1>0, <1>b, <2>1, <2>2, NothingSent
<1>7. ToldTheOutcome'
  BY <1>0 DEF ToldTheOutcome
<1>. QED BY <1>1, <1>2, <1>3, <1>4, <1>5, <1>6, <1>7

\* A task whose edit is not under way goes to another place where it is not.
LEMMA MoveStep ==
  ASSUME IInv, NEW e \in Editors, NEW step \in {"idle", "seen", "ask", "build", "end"},
         pc[e] \in {"idle", "seen", "next"},
         e = Builder <=> pc[e] = "next",
         step = "build" => e = Builder /\ at' \in 1..Size /\ at' > at,
         step # "build" => at' = at,
         pc' = [pc EXCEPT ![e] = step],
         current' \subseteq current \cup {e},
         e \in current' => step = "seen" /\ doc # NoDoc,
         UNCHANGED <<doc, age, edits, failed, deployer, sent, touched, faults>>
  PROVE  IInv'
<1>. USE DEF IInv
<1>0. /\ pc' \in [Editors -> Steps] /\ pc'[e] = step
      /\ \A x \in Editors \ {e} : pc'[x] = pc[x]
      /\ UNCHANGED <<doc, age, edit, copy, attempt, failed, deployer,
                     told, last, dropped, touched, faults>>
  BY DEF TypeOK, Steps, edits, sent
<1>a. \A x \in current' : x \in Editors /\ (x # e => x \in current)
  BY DEF TypeOK
<1>b. attempt[e] = 1 /\ (e = Builder => edit[e].step = None)
  BY DEF EditsUnderWay, StepsOfTheBuilder
<1>1. TypeOK'
  <2>1. at' \in 1..Size + 1
    BY ConstantsAssumption DEF TypeOK
  <2>. QED BY <1>0, <1>a, <2>1 DEF TypeOK
<1>2. CopiesOfTheDoc'
  BY <1>0, <1>a DEF CopiesOfTheDoc
<1>3. ToldFirst'
  BY <1>0, <1>a DEF ToldFirst
<1>4. StepsOfTheBuilder'
  <2>1. CASE e = Builder
    <3>1. doc # NoDoc => doc.step \in Nat /\ at \in Nat /\ at' \in Nat
      BY ConstantsAssumption DEF TypeOK, Documents
    <3>. QED BY <1>0, <1>b, <2>1, <3>1, ConstantsAssumption DEF StepsOfTheBuilder
  <2>2. CASE e # Builder
    BY <1>0, <2>2, SomeEditors DEF StepsOfTheBuilder
  <2>. QED BY <2>1, <2>2
<1>5. EditsUnderWay'
  BY <1>0, <1>b DEF EditsUnderWay
<1>6. LastTold'
  <2>1. ~HasTold(e)
    BY OnlyEditsTell
  <2>2. \A x \in Editors : HasTold(x) => HasTold(x)'
    BY <1>0, <2>1 DEF HasTold
  <2>. QED BY <1>0, <1>a, <2>2, NothingSent
<1>7. ToldTheOutcome'
  BY <1>0 DEF ToldTheOutcome
<1>. QED BY <1>1, <1>2, <1>3, <1>4, <1>5, <1>6, <1>7

\* The document is read and changed, and the client told.
LEMMA ReadStep ==
  ASSUME IInv, NEW e \in Editors, Read(e)
  PROVE  IInv'
<1>. USE DEF IInv, Read
<1>. DEFINE new == Edited(doc, edit[e])
<1>0. /\ edit[e] \in Edits /\ doc \in Documents
      /\ pc' \in [Editors -> Steps] /\ pc'[e] = "write"
      /\ copy' \in [Editors -> Documents \cup {NoDoc}] /\ copy'[e] = new
      /\ \A x \in Editors \ {e} : pc'[x] = pc[x] /\ copy'[x] = copy[x]
      /\ UNCHANGED <<doc, edit, attempt, at, failed, dropped, touched>>
  <2>1. edit[e] \in Edits /\ doc \in Documents
    BY EditorTypes DEF TypeOK
  <2>2. new \in Documents
    BY <2>1, EditedType
  <2>. QED BY <2>1, <2>2 DEF TypeOK, Steps, building
<1>a. new \in Documents /\ new # NoDoc
  BY <1>0, EditedType
<1>b. /\ told \subseteq told' /\ told' \subseteq told \cup {new}
      /\ edit[e].status \in Final => new \in told' /\ last' = new
      /\ edit[e].status \notin Final => last' = last
  BY DEF Tells
<1>c. \A x \in current' : x \in Editors /\ (x # e => x \in current)
  BY DEF TypeOK
<1>1. TypeOK'
  <2>1. last' \in Documents \cup {NoDoc}
    BY <1>a, <1>b DEF TypeOK
  <2>. QED BY <1>0, <1>a, <1>b, <2>1 DEF TypeOK
<1>2. CopiesOfTheDoc'
  BY <1>0, <1>c DEF CopiesOfTheDoc
<1>3. ToldFirst'
  BY <1>0, <1>b, <1>c DEF ToldFirst
<1>4. StepsOfTheBuilder'
  <2>1. CASE e = Builder
    BY <1>0, <2>1 DEF StepsOfTheBuilder
  <2>2. CASE e # Builder
    BY <1>0, <2>2, SomeEditors DEF StepsOfTheBuilder
  <2>. QED BY <2>1, <2>2
<1>5. EditsUnderWay'
  BY <1>0, <1>a DEF EditsUnderWay
<1>6. LastTold'
  <2>1. CASE edit[e].status \in Final
    <3>1. HasTold(e)'
      BY <1>0, <2>1 DEF HasTold
    <3>2. ASSUME NEW x \in current', pc'[x] = "write"
          PROVE  last' = copy'[x] \/ \E f \in Editors \ {x} : HasTold(f)'
      BY <1>0, <1>b, <2>1, <3>1, <3>2
    <3>. QED BY <3>1, <3>2 DEF LastTold
  <2>2. CASE edit[e].status \notin Final
    <3>1. \A x \in Editors : HasTold(x) => HasTold(x)'
      BY <1>0, <2>2 DEF HasTold
    <3>2. ASSUME NEW x \in current', pc'[x] = "write", edit'[x].status \in Final
          PROVE  x \in current /\ pc[x] = "write" /\ copy'[x] = copy[x]
      <4>1. x # e
        BY <1>0, <2>2, <3>2
      <4>. QED BY <1>0, <1>c, <3>2, <4>1
    <3>3. ASSUME doc' # NoDoc, doc'.status \in Final, ~dropped'
          PROVE  last' = doc' \/ \E x \in Editors : HasTold(x)'
      BY <1>0, <1>b, <2>2, <3>1, <3>3 DEF LastTold
    <3>4. ASSUME NEW x \in current', pc'[x] = "write", edit'[x].status \in Final, ~dropped'
          PROVE  last' = copy'[x] \/ \E f \in Editors \ {x} : HasTold(f)'
      <4>1. last = copy[x] \/ \E f \in Editors \ {x} : HasTold(f)
        BY <1>0, <3>2, <3>4 DEF LastTold
      <4>. QED BY <1>b, <2>2, <3>1, <3>2, <3>4, <4>1
    <3>. QED BY <3>3, <3>4 DEF LastTold
  <2>. QED BY <2>1, <2>2
<1>7. ToldTheOutcome'
  BY <1>0, <1>b DEF ToldTheOutcome
<1>. QED BY <1>1, <1>2, <1>3, <1>4, <1>5, <1>6, <1>7

\* A copy that lands is the document as it was, changed by its editor.
LEMMA WrittenDoc ==
  ASSUME IInv, NEW e \in Editors, Write(e)
  PROVE  /\ edit[e] \in Edits /\ doc \in Documents /\ doc # NoDoc
         /\ doc' = Edited(doc, edit[e])
         /\ doc' \in Documents /\ doc' # NoDoc
         /\ doc'.status = edit[e].status
         /\ doc.notes \subseteq doc'.notes
         /\ edit[e].step = None => doc'.step = doc.step
         /\ edit[e].total = None => doc'.total = doc.total
         /\ edit[e].step # None /\ edit[e].total = None /\ edit[e].step <= doc.total
              => doc'.step = edit[e].step
<1>1. doc # NoDoc /\ doc' = Edited(doc, edit[e])
  BY DEF IInv, Write, Accepted, CopiesOfTheDoc
<1>2. edit[e] \in Edits /\ doc \in Documents
  BY <1>1, EditorTypes DEF IInv, TypeOK
<1>. QED BY <1>1, <1>2, EditedType

\* What the builder writes when nobody else sets steps is not ahead of it, and not
\* behind what was there.
LEMMA BuilderWrites ==
  ASSUME IInv, Write(Builder), ~touched
  PROVE  doc'.total = Size + 1 /\ doc.step <= doc'.step /\ doc'.step <= at + 1
<1>1. /\ doc.total = Size + 1 /\ doc.step <= at + 1
      /\ edit[Builder].total = None
      /\ edit[Builder].step # None => edit[Builder].step = at + 1
      /\ doc.step \in Nat /\ at \in Nat
      /\ edit[Builder].step # None => edit[Builder].step <= Size + 1
  <2>1. doc # NoDoc /\ doc \in Documents /\ edit[Builder] \in Edits
    BY SomeEditors, WrittenDoc
  <2>. QED BY <2>1, ConstantsAssumption DEF IInv, Write, StepsOfTheBuilder, TypeOK, Documents, Edits, None
<1>. QED BY <1>1, SomeEditors, WrittenDoc

LEMMA WriteStep ==
  ASSUME IInv, NEW e \in Editors, Write(e)
  PROVE  IInv'
<1>. USE DEF IInv, Write
<1>0. /\ EditsTypeOK' /\ pc'[e] \in {"next", "idle", "end"} /\ edit'[e] = NoEdit
      /\ attempt'[e] = 1 /\ (e = Builder \/ pc'[e] # "next")
      /\ \A x \in Editors \ {e} :
           /\ pc'[x] = pc[x] /\ edit'[x] = edit[x]
           /\ copy'[x] = copy[x] /\ attempt'[x] = attempt[x]
  BY DoneType
<1>a. /\ UNCHANGED <<at, failed, last, dropped>> /\ doc' = copy[e] /\ e \in current
      /\ touched' \in BOOLEAN
      /\ ~touched' => ~touched /\ (e = Builder \/ ~SetsSteps(e))
  BY DEF building, Accepted, TypeOK
<1>1. TypeOK'
  BY <1>0, <1>a, WrittenDoc DEF TypeOK, EditsTypeOK
<1>2. CopiesOfTheDoc'
  BY DEF CopiesOfTheDoc
<1>3. ToldFirst'
  BY DEF ToldFirst
<1>4. StepsOfTheBuilder'
  <2>0. doc # NoDoc /\ doc' # NoDoc
    BY WrittenDoc
  <2>1. CASE e = Builder
    <3>1. ~touched' => doc'.total = Size + 1 /\ doc'.step <= at + 1
      BY <1>a, <2>1, BuilderWrites
    <3>. QED BY <1>0, <1>a, <2>0, <2>1, <3>1, NoEditType DEF StepsOfTheBuilder
  <2>2. CASE e # Builder
    <3>1. ~touched' => ~touched /\ doc'.step = doc.step /\ doc'.total = doc.total
      BY <1>a, <2>2, WrittenDoc DEF SetsSteps
    <3>. QED BY <1>0, <1>a, <2>0, <2>2, <3>1, SomeEditors DEF StepsOfTheBuilder
  <2>. QED BY <2>1, <2>2
<1>5. EditsUnderWay'
  BY <1>0 DEF EditsUnderWay
<1>6. LastTold'
  <2>1. ASSUME doc' # NoDoc, doc'.status \in Final, ~dropped'
        PROVE  last' = doc' \/ \E f \in Editors : HasTold(f)'
    <3>1. edit[e].status \in Final
      BY <2>1, WrittenDoc
    <3>2. last = copy[e] \/ \E f \in Editors \ {e} : HasTold(f)
      BY <1>a, <2>1, <3>1 DEF LastTold
    <3>. QED BY <1>0, <1>a, <3>2 DEF HasTold
  <2>. QED BY <2>1 DEF LastTold
<1>7. ToldTheOutcome'
  BY <1>a, WrittenDoc DEF ToldTheOutcome, ToldFirst
<1>. QED BY <1>1, <1>2, <1>3, <1>4, <1>5, <1>6, <1>7

LEMMA ConflictStep ==
  ASSUME IInv, NEW e \in Editors, Conflict(e)
  PROVE  IInv'
<1>. USE DEF IInv, Conflict
<1>a. e \notin current /\ UNCHANGED <<at, failed>>
  BY DEF Accepted, building
<1>1. CASE attempt[e] = MaxAttempts
  BY <1>1, <1>a, GivesUpStep DEF TypeOK
<1>2. CASE attempt[e] # MaxAttempts
  <2>0. /\ pc' \in [Editors -> Steps] /\ pc'[e] = "read"
        /\ copy' \in [Editors -> Documents \cup {NoDoc}]
        /\ attempt' \in [Editors -> 1..MaxAttempts] /\ attempt'[e] > 1
        /\ \A x \in Editors \ {e} :
             pc'[x] = pc[x] /\ copy'[x] = copy[x] /\ attempt'[x] = attempt[x]
        /\ UNCHANGED <<doc, edit, told, last, dropped, touched>>
    BY <1>2, ConstantsAssumption DEF TypeOK, Steps, sent
  <2>a. \A x \in current' : x \in Editors \ {e} /\ x \in current
    BY <1>a DEF TypeOK
  <2>1. TypeOK'
    BY <1>a, <2>0 DEF TypeOK
  <2>2. CopiesOfTheDoc'
    BY <2>0, <2>a DEF CopiesOfTheDoc
  <2>3. ToldFirst'
    BY <2>0, <2>a DEF ToldFirst
  <2>4. StepsOfTheBuilder'
    <3>1. CASE e = Builder
      BY <1>a, <2>0, <3>1 DEF StepsOfTheBuilder
    <3>2. CASE e # Builder
      BY <1>a, <2>0, <3>2, SomeEditors DEF StepsOfTheBuilder
    <3>. QED BY <3>1, <3>2
  <2>5. EditsUnderWay'
    BY <2>0 DEF EditsUnderWay
  <2>6. LastTold'
    <3>1. \A x \in Editors : HasTold(x) => HasTold(x)'
      BY <2>0 DEF HasTold
    <3>. QED BY <2>0, <2>a, <3>1, NothingSent
  <2>7. ToldTheOutcome'
    BY <2>0 DEF ToldTheOutcome
  <2>. QED BY <2>1, <2>2, <2>3, <2>4, <2>5, <2>6, <2>7
<1>. QED BY <1>1, <1>2

LEMMA EditGoesOnStep ==
  ASSUME IInv, NEW e \in Editors, EditGoesOn(e)
  PROVE  IInv'
<1>f. Fault => faults' \in 0..MaxFaults
  BY ConstantsAssumption DEF IInv, TypeOK, Fault
<1>1. CASE Read(e)
  BY <1>1, ReadStep
<1>2. CASE ReadFails(e)
  <2>1. e \notin current' /\ current' \subseteq current
    BY <1>2 DEF ReadFails, IInv, CopiesOfTheDoc
  <2>2. faults' \in 0..MaxFaults
    BY <1>2, <1>f DEF ReadFails, IInv, TypeOK
  <2>. QED BY <1>2, <2>1, <2>2, GivesUpStep DEF ReadFails
<1>3. CASE Write(e)
  BY <1>3, WriteStep
<1>4. CASE Conflict(e)
  BY <1>4, ConflictStep
<1>5. CASE WriteFails(e)
  BY <1>5, <1>f, GivesUpStep DEF WriteFails
<1>. QED BY <1>1, <1>2, <1>3, <1>4, <1>5 DEF EditGoesOn

LEMMA StartStep ==
  ASSUME IInv, Start
  PROVE  IInv'
<1>. USE DEF IInv, Start
<1>0. /\ pc' \in [Editors -> Steps] /\ pc'[Builder] = "build"
      /\ \A x \in Editors \ {Builder} : pc'[x] = pc[x]
      /\ UNCHANGED <<edit, copy, attempt, at, failed, told, last, dropped, touched>>
  BY SomeEditors DEF TypeOK, Steps, edits, building, sent
<1>1. doc = NoDoc /\ current = {} /\ current' = {}
  BY DEF StepsOfTheBuilder, CopiesOfTheDoc
<1>2. \/ /\ doc' \in Documents /\ doc'.status = "pending"
         /\ doc'.step = 1 /\ doc'.total = Size + 1
      \/ doc' = NoDoc
  BY <1>1, ConstantsAssumption DEF Documents, Statuses
<1>3. faults' \in 0..MaxFaults
  BY ConstantsAssumption DEF TypeOK, Fault
<1>4. TypeOK'
  BY <1>0, <1>2, <1>3 DEF TypeOK
<1>5. CopiesOfTheDoc'
  BY <1>1 DEF CopiesOfTheDoc
<1>6. ToldFirst'
  BY <1>1 DEF ToldFirst
<1>7. StepsOfTheBuilder'
  <2>1. at' \in 1..Size + 1 /\ edit'[Builder] = edit[Builder] /\ edit[Builder].step = None
    BY <1>0, SomeEditors DEF TypeOK, StepsOfTheBuilder
  <2>. QED BY <1>0, <1>2, <2>1, ConstantsAssumption DEF StepsOfTheBuilder
<1>8. EditsUnderWay'
  BY <1>0, SomeEditors DEF EditsUnderWay
<1>9. LastTold'
  BY <1>1, <1>2 DEF LastTold, Final
<1>10. ToldTheOutcome'
  BY <1>2 DEF ToldTheOutcome, Final
<1>. QED BY <1>4, <1>5, <1>6, <1>7, <1>8, <1>9, <1>10

LEMMA BuildStep ==
  ASSUME IInv, Build
  PROVE  IInv'
<1>. USE DEF IInv, Build
<1>1. at \in 1..Size /\ at' = at /\ failed' \in BOOLEAN
  BY ConstantsAssumption DEF StepsOfTheBuilder, TypeOK
<1>. DEFINE data == [NoEdit EXCEPT !.note = at, !.step = at + 1]
<1>2. data \in Edits /\ data.total = None /\ data.step = at' + 1
  <2>1. at \in 1..Size /\ at + 1 \in 1..Size + 1 /\ at' = at
    BY <1>1, ConstantsAssumption
  <2>. QED BY <2>1, NoEditType DEF Edits, NoEdit
<1>3. Begin(Builder, data)
  OBVIOUS
<1>. HIDE DEF data
<1>. QED BY <1>1, <1>2, <1>3, SomeEditors, BeginStep, ConstantsAssumption

LEMMA NextComponentStep ==
  ASSUME IInv, NextComponent
  PROVE  IInv'
<1>. USE DEF IInv
<1>0. pc[Builder] = "next" /\ at \in 1..Size + 1 /\ failed \in BOOLEAN /\ Size \in Nat
      /\ Builder \notin current
      /\ UNCHANGED <<doc, age, current, failed, deployer, sent, touched, faults>>
  BY ConstantsAssumption DEF NextComponent, TypeOK, CopiesOfTheDoc
<1>1. ASSUME at < Size, ~failed, at' = at + 1,
             pc' = [pc EXCEPT ![Builder] = "build"], UNCHANGED edits
      PROVE  IInv'
  <2>1. at' \in 1..Size /\ at' > at
    BY <1>0, <1>1
  <2>. QED BY <1>0, <1>1, <2>1, SomeEditors, MoveStep
<1>2. ASSUME at <= Size, at' = Size + 1,
             Begin(Builder, [NoEdit EXCEPT !.status = IF failed THEN "error" ELSE "success"])
      PROVE  IInv'
  <2>. DEFINE data == [NoEdit EXCEPT !.status = IF failed THEN "error" ELSE "success"]
  <2>1. data \in Edits /\ data.step = None /\ data.total = None
    BY DEF Edits, Statuses, Final, NoEdit, None
  <2>2. at' \in 1..Size + 1 /\ at' >= at
    BY <1>0, <1>2
  <2>3. Begin(Builder, data)
    BY <1>2
  <2>. HIDE DEF data
  <2>. QED BY <1>0, <2>1, <2>2, <2>3, SomeEditors, BeginStep
<1>3. ASSUME at = Size + 1, pc' = [pc EXCEPT ![Builder] = "end"], UNCHANGED <<at, edits>>
      PROVE  IInv'
  BY <1>0, <1>3, SomeEditors, MoveStep
<1>. QED BY <1>1, <1>2, <1>3 DEF NextComponent

\* Who is no builder and looks at the document, leaves it, or asks the deployer.
LEMMA LookStep ==
  ASSUME IInv, NEW e \in Clients \cup Sweepers,
         Look(e) \/ Leave(e) \/ Ask(e)
  PROVE  IInv'
<1>1. e \in Editors /\ e # Builder
  BY ConstantsAssumption DEF Editors
<1>2. CASE Look(e)
  <2>1. e \in current' => doc # NoDoc
    BY <1>2 DEF Look, Finds
  <2>. QED BY <1>1, <1>2, <2>1, MoveStep DEF Look, building
<1>3. CASE Leave(e)
  <2>1. After(e) \in {"idle", "end"}
    BY <1>1 DEF After
  <2>. QED BY <1>1, <1>3, <2>1, MoveStep DEF Leave, building
<1>4. CASE Ask(e)
  BY <1>1, <1>4, MoveStep DEF Ask, building
<1>. QED BY <1>2, <1>3, <1>4

\* Who is no builder and begins an edit, which may set steps.
LEMMA OtherBeginStep ==
  ASSUME IInv, NEW e \in Clients \cup Sweepers,
         Expire(e) \/ Answer(e) \/ SetStatus(e)
  PROVE  IInv'
<1>1. e \in Editors /\ e # Builder
  BY ConstantsAssumption DEF Editors
<1>2. /\ pc[e] \in {"seen", "ask", "idle"}
      /\ pc[e] = "seen" => e \notin current'
      /\ current' \subseteq current
      /\ UNCHANGED <<doc, age, building, deployer, sent, touched, faults>>
  BY DEF Expire, Answer, SetStatus
<1>3. PICK data \in Edits : Begin(e, data)
  <2>1. TimedOut \in Edits
    BY DEF TimedOut, NoEdit, Edits, Statuses, Final
  <2>2. CASE Expire(e)
    BY <2>1, <2>2 DEF Expire
  <2>3. CASE Answer(e)
    <3>1. \A body \in Bodies : [body EXCEPT !.status = deployer] \in Edits
      BY ConstantsAssumption DEF Edits, IInv, TypeOK
    <3>. QED BY <2>1, <2>3, <3>1 DEF Answer
  <2>4. CASE SetStatus(e)
    BY <2>4, ConstantsAssumption DEF SetStatus
  <2>. QED BY <2>2, <2>3, <2>4
<1>4. at' = at /\ at \in 1..Size + 1 /\ failed' \in BOOLEAN
  BY <1>2 DEF building, IInv, TypeOK
<1>. QED BY <1>1, <1>2, <1>3, <1>4, BeginStep

LEMMA CrashStep ==
  ASSUME IInv, NEW e \in Editors, Crash(e)
  PROVE  IInv'
<1>. USE DEF IInv, Crash
<1>0. /\ pc' \in [Editors -> Steps] /\ pc'[e] \in {"idle", "end"}
      /\ edit' \in [Editors -> Edits] /\ edit'[e] = NoEdit
      /\ copy' \in [Editors -> Documents \cup {NoDoc}]
      /\ attempt' \in [Editors -> 1..MaxAttempts] /\ attempt'[e] = 1
      /\ \A x \in Editors \ {e} :
           /\ pc'[x] = pc[x] /\ edit'[x] = edit[x]
           /\ copy'[x] = copy[x] /\ attempt'[x] = attempt[x]
      /\ UNCHANGED <<doc, age, at, failed, deployer, told, last, touched>>
  BY NoEditType, ConstantsAssumption DEF TypeOK, Steps, building
<1>a. dropped' \in BOOLEAN /\ (~dropped' => ~dropped /\ ~HasTold(e))
  BY DropType
<1>b. \A x \in current' : x \in Editors \ {e} /\ x \in current
  BY DEF TypeOK
<1>1. TypeOK'
  BY <1>0, <1>a, <1>b, ConstantsAssumption DEF TypeOK, Fault
<1>2. CopiesOfTheDoc'
  BY <1>0, <1>b DEF CopiesOfTheDoc
<1>3. ToldFirst'
  BY <1>0, <1>b DEF ToldFirst
<1>4. StepsOfTheBuilder'
  <2>0. doc # NoDoc => doc.step \in Nat /\ at \in Nat
    BY ConstantsAssumption DEF TypeOK, Documents
  <2>1. CASE e = Builder
    BY <1>0, <2>0, <2>1, NoEditType DEF StepsOfTheBuilder
  <2>2. CASE e # Builder
    BY <1>0, <2>2, SomeEditors DEF StepsOfTheBuilder
  <2>. QED BY <2>1, <2>2
<1>5. EditsUnderWay'
  BY <1>0 DEF EditsUnderWay
<1>6. LastTold'
  <2>1. ~dropped' => ~dropped /\ \A x \in Editors : HasTold(x) => HasTold(x)'
    BY <1>0, <1>a DEF HasTold
  <2>2. current' \subseteq Editors
    BY <1>b
  <2>. QED BY <1>0, <1>b, <2>1, <2>2, NothingSent
<1>7. ToldTheOutcome'
  BY <1>0 DEF ToldTheOutcome
<1>. QED BY <1>1, <1>2, <1>3, <1>4, <1>5, <1>6, <1>7

-----------------------------------------------------------------------------
(* The theorems.                                                            *)

LEMMA InitIInv == Init => IInv
<1>. SUFFICES ASSUME Init PROVE IInv
  OBVIOUS
<1>. USE DEF Init
<1>1. TypeOK
  <2>1. at \in 1..Size + 1 /\ age \in 0..2 /\ faults \in 0..MaxFaults
    BY ConstantsAssumption
  <2>2. attempt \in [Editors -> 1..MaxAttempts]
    BY ConstantsAssumption
  <2>3. pc \in [Editors -> Steps]
    BY DEF Steps
  <2>. QED BY <2>1, <2>2, <2>3, NoEditType DEF TypeOK, Statuses
<1>2. CopiesOfTheDoc /\ ToldFirst /\ ToldTheOutcome /\ LastTold
  BY DEF CopiesOfTheDoc, ToldFirst, ToldTheOutcome, LastTold
<1>3. StepsOfTheBuilder
  <2>1. pc[Builder] = "start" /\ edit[Builder] = NoEdit
    BY SomeEditors
  <2>2. 1 <= Size
    BY ConstantsAssumption
  <2>. QED BY <2>1, <2>2, NoEditType DEF StepsOfTheBuilder
<1>4. EditsUnderWay
  BY DEF EditsUnderWay
<1>. QED BY <1>1, <1>2, <1>3, <1>4 DEF IInv

LEMMA IInvStep == IInv /\ [Next]_vars => IInv'
<1>. SUFFICES ASSUME IInv, [Next]_vars PROVE IInv'
  OBVIOUS
<1>1. CASE Builds
  BY <1>1, SomeEditors, StartStep, BuildStep, NextComponentStep, EditGoesOnStep DEF Builds
<1>2. ASSUME NEW c \in Clients, Asks(c) PROVE IInv'
  BY <1>2, SomeEditors, LookStep, OtherBeginStep, EditGoesOnStep DEF Asks
<1>3. ASSUME NEW s \in Sweepers, Sweeps(s) PROVE IInv'
  BY <1>3, SomeEditors, LookStep, OtherBeginStep, EditGoesOnStep DEF Sweeps
<1>4. ASSUME NEW e \in Editors, Crash(e) PROVE IInv'
  BY <1>4, CrashStep
<1>5. ASSUME Tick \/ DeployerEnds \/ UNCHANGED vars PROVE IInv'
  <2>1. UNCHANGED <<doc, pc, edit, copy, attempt, current, at, failed,
                    told, last, dropped, touched, faults>>
    BY <1>5 DEF Tick, DeployerEnds, vars, edits, building, sent
  <2>2. age' \in 0..2 /\ deployer' \in Statuses
    BY <1>5 DEF Tick, DeployerEnds, vars, IInv, TypeOK, Statuses, Final
  <2>3. TypeOK' /\ CopiesOfTheDoc' /\ ToldFirst' /\ StepsOfTheBuilder' /\ EditsUnderWay'
    BY <2>1, <2>2
       DEF IInv, TypeOK, CopiesOfTheDoc, ToldFirst, StepsOfTheBuilder, EditsUnderWay
  <2>4. LastTold' /\ ToldTheOutcome'
    BY <2>1 DEF IInv, LastTold, HasTold, ToldTheOutcome
  <2>. QED BY <2>3, <2>4 DEF IInv
<1>. QED BY <1>1, <1>2, <1>3, <1>4, <1>5 DEF Next

\* The inductive invariant: what editors have of the document is what it was when
\* they read it, and the client was told first (edit_webhook, repeatWriteSafe).
THEOREM IInvHolds == Spec => []IInv
<1>. QED BY InitIInv, IInvStep, PTL DEF Spec

\* The variables have their types, and repeated writes are bounded.
THEOREM TypeCorrect == Spec => []TypeOK
<1>1. IInv => TypeOK
  BY DEF IInv
<1>. QED BY <1>1, IInvHolds, PTL

\* The client of a transaction that has ended was sent the document that says so
\* (finish_webhook).
THEOREM OutcomeTold == Spec => []ToldTheOutcome
<1>1. IInv => ToldTheOutcome
  BY DEF IInv
<1>. QED BY <1>1, IInvHolds, PTL

\* And it is what it was sent last, when those who sent an outcome have written
\* theirs (edit_webhook sends from the function that repeatWriteSafe repeats).
THEOREM OutcomeIsLast == Spec => []OutcomeToldLast
<1>1. IInv => OutcomeToldLast
  BY DEF IInv, LastTold, OutcomeToldLast
<1>. QED BY <1>1, IInvHolds, PTL

\* Only a write that lands changes a document that is there.
LEMMA DocChange ==
  ASSUME IInv, [Next]_vars, doc # NoDoc
  PROVE  doc' = doc \/ \E e \in Editors : Write(e)
<1>. USE DEF IInv
<1>1. CASE Builds
  <2>1. ~Start
    BY DEF Start, StepsOfTheBuilder
  <2>. QED BY <1>1, <2>1, SomeEditors
       DEF Builds, Build, NextComponent, EditGoesOn, Read, ReadFails, Conflict, WriteFails
<1>2. ASSUME NEW c \in Clients, Asks(c) PROVE doc' = doc \/ \E e \in Editors : Write(e)
  BY <1>2, SomeEditors
     DEF Asks, Look, Leave, Expire, SetStatus, EditGoesOn, Read, ReadFails, Conflict, WriteFails
<1>3. ASSUME NEW s \in Sweepers, Sweeps(s) PROVE doc' = doc \/ \E e \in Editors : Write(e)
  BY <1>3, SomeEditors
     DEF Sweeps, Look, Leave, Ask, Answer, EditGoesOn, Read, ReadFails, Conflict, WriteFails
<1>. QED BY <1>1, <1>2, <1>3 DEF Next, Crash, Tick, DeployerEnds, vars

\* Notes stay, and the step goes back only by an edit that sets it, and by the
\* builder's only after someone else has set steps, whoever writes in between.
THEOREM ProgressIsKept == Spec => ProgressKept
<1>. DEFINE Back == \E e \in Editors :
                      /\ pc[e] = "write" /\ pc'[e] # "write"
                      /\ edit[e].step # None
                      /\ e = Builder => touched
<1>1. ASSUME IInv, [Next]_vars, doc # NoDoc
      PROVE  doc' # NoDoc /\ doc.notes \subseteq doc'.notes /\ (doc'.step < doc.step => Back)
  <2>0. doc.step \in Nat
    BY <1>1, ConstantsAssumption DEF IInv, TypeOK, Documents
  <2>1. CASE doc' = doc
    BY <1>1, <2>0, <2>1
  <2>2. ASSUME NEW e \in Editors, Write(e)
        PROVE  doc' # NoDoc /\ doc.notes \subseteq doc'.notes /\ (doc'.step < doc.step => Back)
    <3>1. doc' # NoDoc /\ doc.notes \subseteq doc'.notes /\ doc'.step \in Nat
      BY <1>1, <2>2, WrittenDoc, ConstantsAssumption DEF Documents
    <3>2. ASSUME doc'.step < doc.step PROVE Back
      <4>1. edit[e].step # None
        BY <1>1, <2>0, <2>2, <3>2, WrittenDoc
      <4>2. pc[e] = "write" /\ pc'[e] # "write"
        BY <1>1, <2>2, DoneType DEF Write, IInv
      <4>3. e = Builder => touched
        BY <1>1, <2>0, <2>2, <3>1, <3>2, BuilderWrites
      <4>. QED BY <4>1, <4>2, <4>3
    <3>. QED BY <3>1, <3>2
  <2>. QED BY <1>1, <2>1, <2>2, DocChange
<1>2. IInv /\ [Next]_vars =>
        [doc # NoDoc => /\ doc' # NoDoc
                        /\ doc.notes \subseteq doc'.notes
                        /\ doc'.step < doc.step => Back]_vars
  BY <1>1
<1>. QED BY <1>2, IInvHolds, PTL DEF Spec, ProgressKept

=============================================================================

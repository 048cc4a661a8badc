-------------------------- MODULE Components_proofs --------------------------
(***************************************************************************)
(* Proofs about Components, for any number of provisions, deletions and     *)
(* sweeps, any names and ids of documents and any number of faults.         *)
(***************************************************************************)
EXTENDS Components, TLAPS

\* What is deployed was asked for by the provision that deployed it.
Ours ==
  \A n \in Names : deployed[n] # Nobody =>
    n \in Nodes[deployed[n]] /\ post[deployed[n]] \in {"created", "late"}

\* What the console makes of the deployer's answers, and where it is with p.
Posts ==
  \A p \in Provisions :
    /\ phase[p] = "start" <=> post[p] = "no"
    /\ phase[p] \in {"start", "posting"} <=> answer[p] = "none"
    /\ post[p] = "late" => phase[p] \notin {"start", "posting"}
    /\ answer[p] \in {"created", "named"} => post[p] = "created"
    /\ answer[p] = "taken" => phase[p] = "failed" /\ post[p] = "taken"
    /\ phase[p] \in {"onboarding", "ok"} => answer[p] = "created"
    /\ answer[p] # "created" => ~ errs[p]
    /\ phase[p] = "ok" => ~ errs[p] /\ todo[p] = {}
    /\ todo[p] \subseteq Nodes[p]
    /\ phase[p] \in {"start", "posting"} => todo[p] = {}

\* The document has been written, by the provision it is of, and that does not
\* come to it again, unless it is doubled.
Settled(doc) ==
  /\ doc.dep \in Nodes[doc.of]
  /\ answer[doc.of] = "created"
  /\ phase[doc.of] = "onboarding" => doc.dep \notin todo[doc.of] \/ doc \in doubled

Known(doc) == HasDoc(doc) \/ \E d \in Deletions : loaded[d] = doc \/ removed[d] = doc

Documents ==
  \A doc \in Docs :
    /\ Known(doc) => Settled(doc)
    /\ (\E d \in Deletions : removed[d] = doc) => ~ HasDoc(doc) \/ doc \in doubled

\* A name that was onboarded without an error has its document, or it was removed.
Recorded ==
  \A p \in Provisions : phase[p] \in {"onboarding", "ok"} /\ ~ errs[p] =>
    \A n \in Nodes[p] \ todo[p] :
      HasDoc(Doc(n, p)) \/ \E d \in Deletions : removed[d] = Doc(n, p)

\* Where a deletion is, and what it knows by then.  A document it has loaded is
\* where it was, or gone, unless it is doubled.  One that is for the document only
\* goes on without having loaded anything.
Progress ==
  \A d \in Deletions :
    /\ step[d] = "start" => loaded[d] = NoDoc
    /\ step[d] \notin {"done", "error"} => removed[d] = NoDoc
    /\ step[d] \in {"loaded", "asked"} => loaded[d] # NoDoc
    /\ gave[d] # "none" => loaded[d] # NoDoc
    /\ step[d] \in {"start", "loaded"} => gave[d] = "none"
    /\ step[d] \in {"asked", "offboarding", "done"} =>
         gave[d] = "gone" \/ d \in Forced \/ RecordOnly(d)
    /\ loaded[d] # NoDoc /\ loaded[d] \notin doubled =>
         \A i \in DocIds : docs[i] = loaded[d] => i = Target[d]
    /\ step[d] = "done" /\ loaded[d] # NoDoc /\ HasDoc(loaded[d]) => loaded[d] \in doubled
    /\ gave[d] = "gone" => deployed[loaded[d].dep] # loaded[d].of

\* What is still under way was asked for by a request that had a reason to.
Flights ==
  \A n \in Names : \A r \in Provisions \cup Deletions \cup Sweeps :
    <<n, r>> \in flying => Means(r, n)

\* What a clean-up has not come to yet, may have failed at or could not know, where
\* there was an answer.
Cleaned ==
  \A p \in Provisions : phase[p] \in {"cleaning", "failed"} =>
    \A n \in Nodes[p] : deployed[n] = p =>
      \/ post[p] = "late"
      \/ n \in unsure[p]
      \/ answer[p] = "lost"
      \/ phase[p] = "cleaning" /\ (n \in todo[p] \/ Nameless(p))

IInv ==
  /\ TypeOK /\ Ours /\ Posts /\ Documents /\ OneDocEach
  /\ Recorded /\ Progress /\ Flights /\ Cleaned

-----------------------------------------------------------------------------
(* Types. *)

LEMMA CurrentTodo ==
  ASSUME NEW p \in Provisions, todo[p] # {}
  PROVE  Current(p) \in todo[p]
BY DEF Current

LEMMA NodesType ==
  ASSUME NEW p \in Provisions
  PROVE  Nodes[p] \subseteq Names /\ Nodes[p] # {}
<1>1. Nodes[p] \in (SUBSET Names) \ {{}}
  BY ConstantsAssumption
<1>2. QED
  BY <1>1

LEMMA FaultType ==
  ASSUME SharedTypes, Fault \/ UNCHANGED faults
  PROVE  faults' \in 0..MaxFaults
BY ConstantsAssumption DEF SharedTypes, Fault

LEMMA GoneType ==
  ASSUME SharedTypes, (\E names : Gone(names)) \/ UNCHANGED deployed
  PROVE  deployed' \in [Names -> Provisions \cup {Nobody}]
BY DEF SharedTypes, Gone

\* A DELETE that r sends.
Sends(n, r) == Delete(n) \/ DeleteFails \/ DeleteLate(n, r)

LEMMA SendsType ==
  ASSUME SharedTypes, NEW n \in Names, NEW r \in Provisions \cup Deletions \cup Sweeps,
         Sends(n, r)
  PROVE  /\ deployed' \in [Names -> Provisions \cup {Nobody}]
         /\ flying' \subseteq Names \X (Provisions \cup Deletions \cup Sweeps)
<1>1. deployed' \in [Names -> Provisions \cup {Nobody}]
  BY GoneType DEF Sends, Delete, DeleteFails, DeleteLate
<1>2. flying' \subseteq flying \cup {<<n, r>>}
  BY DEF Sends, Delete, DeleteFails, DeleteLate
<1>3. <<n, r>> \in Names \X (Provisions \cup Deletions \cup Sweeps)
  OBVIOUS
<1>4. QED
  BY <1>1, <1>2, <1>3 DEF SharedTypes

LEMMA WrittenType ==
  ASSUME TypeOK, NEW p \in Provisions, todo[p] # {}, Written(p) \/ UNCHANGED docs
  PROVE  docs' \in [DocIds -> Docs \cup {NoDoc}]
<1>1. Doc(Current(p), p) \in Docs
  BY CurrentTodo DEF TypeOK, ProvisionTypes, Doc, Docs
<1>2. QED
  BY <1>1 DEF TypeOK, SharedTypes, Written

\* A step of a provision keeps the types of its variables.
LEMMA ProvisionStepTypes ==
  ASSUME TypeOK, NEW p \in Provisions, Provision(p)
  PROVE  ProvisionTypes'
<1> USE DEF TypeOK, ProvisionTypes, GoTo
<1>1. CASE Post(p)
  BY <1>1 DEF Post
<1>2. CASE Deploy(p) \/ AlreadyExists(p) \/ CreateFails(p)
  BY <1>2 DEF Deploy, AlreadyExists, CreateFails, provisionVars
<1>3. CASE Created(p) \/ Refused(p) \/ Broken(p) \/ Failed(p) \/ Lost(p)
  BY <1>3, NodesType DEF Created, Refused, Broken, Failed, Lost, ById, Hears, AllOf
<1>4. CASE Record(p)
  BY <1>4, ConstantsAssumption DEF Record, Tried
<1>5. CASE RecordFails(p)
  BY <1>5, ConstantsAssumption DEF RecordFails, Tried
<1>6. CASE Conflict(p)
  <2>1. doubled' \subseteq Docs
    <3>1. Doc(Current(p), p) \in Docs
      BY <1>6, CurrentTodo DEF Conflict, Doc, Docs
    <3>2. QED
      BY <1>6, <3>1 DEF Conflict
  <2>2. CASE Exhausted(p)
    <3>1. /\ attempt' = [attempt EXCEPT ![p] = 0]
          /\ errs' = [errs EXCEPT ![p] = TRUE]
          /\ Tried(p)
          /\ UNCHANGED <<phase, answer, post, unsure>>
      BY <1>6, <2>2 DEF Conflict
    <3>2. QED
      BY <2>1, <3>1, ConstantsAssumption DEF Tried
  <2>3. CASE ~ Exhausted(p)
    BY <1>6, <2>1, <2>3, ConstantsAssumption DEF Conflict, Exhausted
  <2>4. QED
    BY <2>2, <2>3
<1>7. CASE Onboarded(p)
  BY <1>7, NodesType DEF Onboarded, Incomplete, AllOf
<1>8. CASE CleanUp(p)
  <2>1. Current(p) \in Names
    BY <1>8, CurrentTodo DEF CleanUp
  <2>2. QED
    BY <1>8, <2>1 DEF CleanUp, Tried
<1>9. CASE CleanUpCluster(p)
  BY <1>9, NodesType DEF CleanUpCluster
<1>10. CASE CleanedUp(p)
  BY <1>10 DEF CleanedUp
<1>11. QED
  BY <1>1, <1>2, <1>3, <1>4, <1>5, <1>6, <1>7, <1>8, <1>9, <1>10 DEF Provision

\* A step of a deletion keeps the types of its variables.
LEMMA DeletionStepTypes ==
  ASSUME TypeOK, NEW d \in Deletions, Deletion(d)
  PROVE  DeletionTypes'
<1> USE DEF TypeOK, SharedTypes, DeletionTypes, Steps
<1>1. Target[d] \in DocIds
  BY ConstantsAssumption
<1>2. CASE Load(d) \/ Offboard(d)
  BY <1>1, <1>2 DEF Load, Offboard
<1>3. CASE AskDelete(d)
  BY <1>3 DEF AskDelete, Heard
<1>4. CASE Remove(d) \/ RemoveFails(d)
  BY <1>1, <1>4 DEF Remove, RemoveFails, RemoveDoc
<1>5. QED
  BY <1>2, <1>3, <1>4 DEF Deletion

\* Every step keeps the types, as a deletion that asks the deployer has loaded a
\* document.
LEMMA TypeStep ==
  ASSUME TypeOK, [Next]_vars,
         \A d \in Deletions : step[d] = "loaded" => loaded[d] # NoDoc
  PROVE  TypeOK'
<1>1. ASSUME NEW p \in Provisions, Provision(p) PROVE TypeOK'
  <2>1. ProvisionTypes'
    BY <1>1, ProvisionStepTypes
  <2>2. DeletionTypes'
    BY <1>1 DEF TypeOK, DeletionTypes, Provision, Post, Deploy, AlreadyExists, CreateFails,
       Created, Refused, Broken, Failed, Lost, Hears, Record, Conflict, RecordFails, Onboarded,
       CleanUp, CleanUpCluster, CleanedUp, deletionVars
  <2>3. SharedTypes'
    <3>1. CASE \/ Post(p) \/ AlreadyExists(p) \/ CreateFails(p) \/ Created(p)
               \/ Refused(p) \/ Broken(p) \/ Failed(p) \/ Lost(p)
               \/ Onboarded(p) \/ CleanedUp(p)
      BY <3>1, FaultType DEF TypeOK, SharedTypes, Post, AlreadyExists, CreateFails, Created,
         Refused, Broken, Failed, Lost, Hears, Onboarded, CleanedUp
    <3>2. CASE Deploy(p)
      BY <3>2 DEF TypeOK, SharedTypes, Deploy
    <3>3. CASE Record(p) \/ Conflict(p) \/ RecordFails(p)
      BY <3>3, FaultType, WrittenType DEF TypeOK, SharedTypes, Record, Conflict, RecordFails
    <3>4. CASE CleanUp(p)
      <4>1. Current(p) \in Names
        BY <3>4, CurrentTodo DEF TypeOK, ProvisionTypes, CleanUp
      <4>2. Sends(Current(p), p)
        BY <3>4 DEF CleanUp, Sends
      <4>3. QED
        BY <3>4, <4>1, <4>2, SendsType, FaultType DEF TypeOK, SharedTypes, CleanUp
    <3>5. CASE CleanUpCluster(p)
      <4>1. Nodes[p] \X {p} \subseteq Names \X (Provisions \cup Deletions \cup Sweeps)
        BY NodesType
      <4>2. flying' \subseteq flying \cup (Nodes[p] \X {p})
        BY <3>5 DEF CleanUpCluster, DeleteFails
      <4>3. QED
        BY <3>5, <4>1, <4>2, GoneType, FaultType
           DEF TypeOK, SharedTypes, CleanUpCluster, DeleteFails
    <3>6. QED
      BY <1>1, <3>1, <3>2, <3>3, <3>4, <3>5 DEF Provision
  <2>4. QED
    BY <2>1, <2>2, <2>3 DEF TypeOK
<1>2. ASSUME NEW d \in Deletions, Deletion(d) PROVE TypeOK'
  <2>1. DeletionTypes'
    BY <1>2, DeletionStepTypes
  <2>2. ProvisionTypes'
    BY <1>2 DEF TypeOK, ProvisionTypes, Deletion, Load, AskDelete, Offboard, Remove,
       RemoveFails, provisionVars
  <2>3. SharedTypes'
    <3>1. CASE Load(d) \/ Offboard(d)
      BY <3>1 DEF TypeOK, SharedTypes, Load, Offboard
    <3>2. CASE AskDelete(d)
      <4>1. loaded[d].dep \in Names
        BY <3>2 DEF TypeOK, DeletionTypes, AskDelete, Docs
      <4>2. Sends(loaded[d].dep, d)
        BY <3>2 DEF AskDelete, Sends
      <4>3. Fault \/ UNCHANGED faults
        BY <3>2 DEF AskDelete
      <4>4. QED
        BY <3>2, <4>1, <4>2, <4>3, SendsType, FaultType DEF TypeOK, SharedTypes, AskDelete
    <3>3. CASE Remove(d) \/ RemoveFails(d)
      BY <3>3, FaultType DEF TypeOK, SharedTypes, Remove, RemoveFails, RemoveDoc
    <3>4. QED
      BY <1>2, <3>1, <3>2, <3>3 DEF Deletion
  <2>4. QED
    BY <2>1, <2>2, <2>3 DEF TypeOK
<1>3. ASSUME NEW s \in Sweeps, NEW n \in Names, Sweep(s, n) PROVE TypeOK'
  <2>1. Sends(n, s) /\ (Fault \/ UNCHANGED faults)
    BY <1>3 DEF Sends, Sweep
  <2>2. SharedTypes'
    BY <1>3, <2>1, SendsType, FaultType DEF TypeOK, SharedTypes, Sweep
  <2>3. QED
    BY <1>3, <2>2 DEF TypeOK, ProvisionTypes, DeletionTypes, Sweep, provisionVars, deletionVars
<1>4. ASSUME Land PROVE TypeOK'
  <2>1. SharedTypes'
    BY <1>4, GoneType DEF TypeOK, SharedTypes, Land
  <2>2. QED
    BY <1>4, <2>1 DEF TypeOK, ProvisionTypes, DeletionTypes, Land, provisionVars, deletionVars
<1>5. CASE UNCHANGED vars
  BY <1>5 DEF TypeOK, SharedTypes, ProvisionTypes, DeletionTypes, vars, provisionVars,
     deletionVars
<1>6. QED
  BY <1>1, <1>2, <1>3, <1>4, <1>5 DEF Next

-----------------------------------------------------------------------------
(* What a step can change. *)

Onboards(p) == (Record(p) \/ Conflict(p) \/ RecordFails(p)) /\ Written(p)
Removes(d) == (Remove(d) \/ RemoveFails(d)) /\ RemoveDoc(d)

\* Documents are written by provisions and removed by deletions.
LEMMA DocsChange ==
  ASSUME [Next]_vars
  PROVE  \/ UNCHANGED <<docs, removed>>
         \/ \E p \in Provisions : Onboards(p)
         \/ \E d \in Deletions : Removes(d)
<1>1. ASSUME NEW p \in Provisions, Provision(p)
      PROVE  UNCHANGED <<docs, removed>> \/ Onboards(p)
  BY <1>1 DEF Provision, Post, Deploy, AlreadyExists, CreateFails, Created, Refused, Broken,
     Failed, Lost, Hears, Record, Conflict, RecordFails, Onboarded, CleanUp, CleanUpCluster,
     CleanedUp, deletionVars, Onboards
<1>2. ASSUME NEW d \in Deletions, Deletion(d)
      PROVE  UNCHANGED <<docs, removed>> \/ Removes(d)
  BY <1>2 DEF Deletion, Load, AskDelete, Offboard, Remove, RemoveFails, Removes
<1>3. ASSUME NEW s \in Sweeps, NEW n \in Names, Sweep(s, n)
      PROVE  UNCHANGED <<docs, removed>>
  BY <1>3 DEF Sweep, deletionVars
<1>4. CASE Land
  BY <1>4 DEF Land, deletionVars
<1>5. CASE UNCHANGED vars
  BY <1>5 DEF vars, deletionVars
<1>6. QED
  BY <1>1, <1>2, <1>3, <1>4, <1>5 DEF Next

\* A name is deployed by a provision's POST only; otherwise it stays or is gone.
LEMMA DeployedChange ==
  ASSUME TypeOK, [Next]_vars, NEW n \in Names
  PROVE  \/ deployed'[n] = deployed[n]
         \/ deployed'[n] = Nobody
         \/ \E p \in Provisions : Deploy(p) /\ n \in Nodes[p] /\ deployed'[n] = p
<1> USE DEF TypeOK, SharedTypes
<1>1. ASSUME (\E names : Gone(names)) \/ UNCHANGED deployed
      PROVE  deployed'[n] = deployed[n] \/ deployed'[n] = Nobody
  BY <1>1 DEF Gone
<1>2. ASSUME NEW p \in Provisions, Provision(p), ~ Deploy(p)
      PROVE  (\E names : Gone(names)) \/ UNCHANGED deployed
  BY <1>2 DEF Provision, Post, AlreadyExists, CreateFails, Created, Refused, Broken,
     Failed, Lost, Hears, Record, Conflict, RecordFails, Onboarded, CleanUp, CleanUpCluster,
     CleanedUp, Delete, DeleteFails, DeleteLate
<1>3. ASSUME NEW p \in Provisions, Deploy(p)
      PROVE  deployed'[n] = deployed[n] \/ (n \in Nodes[p] /\ deployed'[n] = p)
  BY <1>3 DEF Deploy
<1>4. ASSUME NEW d \in Deletions, Deletion(d)
      PROVE  (\E names : Gone(names)) \/ UNCHANGED deployed
  BY <1>4 DEF Deletion, Load, AskDelete, Offboard, Remove, RemoveFails, Delete, DeleteFails,
     DeleteLate
<1>5. ASSUME NEW s \in Sweeps, NEW m \in Names, Sweep(s, m)
      PROVE  (\E names : Gone(names)) \/ UNCHANGED deployed
  BY <1>5 DEF Sweep, Delete, DeleteLate
<1>6. ASSUME Land
      PROVE  \E names : Gone(names)
  BY <1>6 DEF Land
<1>7. CASE UNCHANGED vars
  BY <1>7 DEF vars
<1>8. QED
  BY <1>1, <1>2, <1>3, <1>4, <1>5, <1>6, <1>7 DEF Next

\* What has become of a POST stays so.
LEMMA PostStays ==
  ASSUME TypeOK, Posts, [Next]_vars, NEW q \in Provisions, post[q] \notin {"no", "sent"}
  PROVE  post'[q] = post[q]
<1> USE DEF TypeOK, ProvisionTypes
<1>1. ASSUME NEW p \in Provisions, Provision(p) PROVE post'[q] = post[q]
  BY <1>1 DEF Posts, Provision, Post, Deploy, AlreadyExists, CreateFails, Created, Refused,
     Broken, Failed, Lost, Hears, Record, Conflict, RecordFails, Onboarded, CleanUp,
     CleanUpCluster, CleanedUp
<1>2. ASSUME NEW d \in Deletions, Deletion(d) PROVE post'[q] = post[q]
  BY <1>2 DEF Deletion, Load, AskDelete, Offboard, Remove, RemoveFails
<1>3. CASE Land \/ \E s \in Sweeps, n \in Names : Sweep(s, n)
  BY <1>3 DEF Sweep, Land
<1>4. CASE UNCHANGED vars
  BY <1>4 DEF vars
<1>5. QED
  BY <1>1, <1>2, <1>3, <1>4 DEF Next

\* So does what the console was told, and a written document is not written again.
LEMMA AnswerStays ==
  ASSUME TypeOK, Posts, [Next]_vars, NEW q \in Provisions, answer[q] # "none"
  PROVE  /\ answer'[q] = answer[q]
         /\ phase'[q] = "onboarding" => phase[q] = "onboarding" /\ todo'[q] \subseteq todo[q]
<1> USE DEF TypeOK, ProvisionTypes
<1>1. ASSUME NEW p \in Provisions, Provision(p)
      PROVE  /\ answer'[q] = answer[q]
             /\ phase'[q] = "onboarding" => phase[q] = "onboarding" /\ todo'[q] \subseteq todo[q]
  <2>1. CASE Post(p) \/ Created(p) \/ Refused(p) \/ Broken(p) \/ Failed(p) \/ Lost(p)
    BY <2>1 DEF Posts, Post, Created, Refused, Broken, Failed, Lost, Hears, GoTo, AllOf
  <2>2. CASE Deploy(p) \/ AlreadyExists(p) \/ CreateFails(p)
    BY <2>2 DEF Deploy, AlreadyExists, CreateFails, provisionVars
  <2>3. CASE Record(p) \/ Conflict(p) \/ RecordFails(p) \/ CleanUp(p)
    BY <2>3 DEF Record, Conflict, RecordFails, CleanUp, Tried
  <2>4. CASE Onboarded(p) \/ CleanUpCluster(p) \/ CleanedUp(p)
    BY <2>4 DEF Onboarded, CleanUpCluster, CleanedUp, GoTo, AllOf
  <2>5. QED
    BY <1>1, <2>1, <2>2, <2>3, <2>4 DEF Provision
<1>2. ASSUME \/ \E d \in Deletions : Deletion(d)
             \/ \E s \in Sweeps, n \in Names : Sweep(s, n)
             \/ Land
             \/ UNCHANGED vars
      PROVE  UNCHANGED provisionVars
  BY <1>2 DEF Deletion, Load, AskDelete, Offboard, Remove, RemoveFails, Sweep, Land, vars
<1>3. QED
  BY <1>1, <1>2 DEF Next, provisionVars

\* Provisions alone double documents, and these stay doubled.
LEMMA DoubledGrows ==
  ASSUME [Next]_vars
  PROVE  /\ doubled \subseteq doubled'
         /\ (\E d \in Deletions : Deletion(d)) => doubled' = doubled
<1>1. ASSUME NEW p \in Provisions, Provision(p) PROVE doubled \subseteq doubled'
  BY <1>1 DEF Provision, Post, Deploy, AlreadyExists, CreateFails, Created, Refused, Broken,
     Failed, Lost, Hears, Record, Conflict, RecordFails, Onboarded, CleanUp, CleanUpCluster,
     CleanedUp, provisionVars
<1>2. ASSUME NEW d \in Deletions, Deletion(d) PROVE doubled' = doubled
  BY <1>2 DEF Deletion, Load, AskDelete, Offboard, Remove, RemoveFails, provisionVars
<1>3. ASSUME \/ \E s \in Sweeps, n \in Names : Sweep(s, n)
             \/ Land
             \/ UNCHANGED vars
      PROVE  doubled' = doubled
  BY <1>3 DEF Sweep, Land, vars, provisionVars
<1>4. QED
  BY <1>1, <1>2, <1>3 DEF Next

LEMMA SettledStays ==
  ASSUME TypeOK, Posts, [Next]_vars, NEW doc \in Docs, Settled(doc)
  PROVE  Settled(doc)'
<1>1. doc.of \in Provisions
  BY DEF Docs
<1>2. QED
  BY <1>1, AnswerStays, DoubledGrows DEF Settled

-----------------------------------------------------------------------------
(* Every conjunct of the invariant is kept. *)

LEMMA OursStep ==
  ASSUME TypeOK, Posts, Ours, [Next]_vars
  PROVE  Ours'
<1> SUFFICES ASSUME NEW n \in Names, deployed'[n] # Nobody
             PROVE  /\ n \in Nodes[deployed'[n]]
                    /\ post'[deployed'[n]] \in {"created", "late"}
  BY DEF Ours
<1>1. CASE deployed'[n] = deployed[n]
  <2>1. deployed[n] \in Provisions
    BY <1>1 DEF TypeOK, SharedTypes
  <2>2. QED
    BY <1>1, <2>1, PostStays DEF Ours
<1>2. ASSUME NEW p \in Provisions, Deploy(p), n \in Nodes[p], deployed'[n] = p
      PROVE  post'[p] \in {"created", "late"}
  BY <1>2 DEF TypeOK, ProvisionTypes, Deploy
<1>3. QED
  BY <1>1, <1>2, DeployedChange

LEMMA PostsStep ==
  ASSUME TypeOK, Posts, [Next]_vars
  PROVE  Posts'
<1> USE DEF TypeOK, ProvisionTypes
<1>1. ASSUME NEW p \in Provisions, Provision(p) PROVE Posts'
  <2>1. CASE Post(p)
    BY <2>1 DEF Posts, Post, GoTo
  <2>2. CASE Deploy(p)
    BY <2>2 DEF Posts, Deploy, provisionVars
  <2>3. CASE AlreadyExists(p) \/ CreateFails(p)
    BY <2>3 DEF Posts, AlreadyExists, CreateFails, provisionVars
  <2>4. CASE Created(p)
    BY <2>4 DEF Posts, Created, Hears, GoTo, AllOf
  <2>5. CASE Refused(p)
    BY <2>5 DEF Posts, Refused, Hears, GoTo
  <2>6. CASE Broken(p)
    BY <2>6 DEF Posts, Broken, Hears, GoTo, AllOf
  <2>7. CASE Failed(p)
    BY <2>7 DEF Posts, Failed, Hears, GoTo, ById
  <2>8. CASE Record(p) \/ RecordFails(p)
    BY <2>8 DEF Posts, Record, RecordFails, Tried
  <2>9. CASE Conflict(p)
    BY <2>9 DEF Posts, Conflict, Tried
  <2>10. CASE Onboarded(p)
    BY <2>10 DEF Posts, Onboarded, Incomplete, GoTo, AllOf
  <2>11. CASE CleanUp(p)
    BY <2>11 DEF Posts, CleanUp, Tried
  <2>12. CASE CleanUpCluster(p) \/ CleanedUp(p)
    BY <2>12 DEF Posts, CleanUpCluster, CleanedUp, GoTo
  <2>13. CASE Lost(p)
    BY <2>13 DEF Posts, Lost, Hears, GoTo
  <2>14. QED
    BY <1>1, <2>1, <2>2, <2>3, <2>4, <2>5, <2>6, <2>7, <2>8, <2>9, <2>10, <2>11, <2>12, <2>13
       DEF Provision
<1>2. ASSUME \/ \E d \in Deletions : Deletion(d)
             \/ \E s \in Sweeps, n \in Names : Sweep(s, n)
             \/ Land
             \/ UNCHANGED vars
      PROVE  Posts'
  BY <1>2 DEF Posts, Deletion, Load, AskDelete, Offboard, Remove, RemoveFails, Sweep, Land,
     vars, provisionVars
<1>3. QED
  BY <1>1, <1>2 DEF Next

\* What p writes has been no document before, or is doubled.
LEMMA WritesNew ==
  ASSUME TypeOK, Posts, NEW p \in Provisions, Onboards(p)
  PROVE  /\ UNCHANGED <<loaded, removed, gave, step, deployed, phase, answer>>
         /\ \E n \in todo[p], i \in DocIds :
              /\ Record(p) => todo' = [todo EXCEPT ![p] = @ \ {n}]
              /\ docs[i] = NoDoc
              /\ docs' = [docs EXCEPT ![i] = Doc(n, p)]
              /\ Doc(n, p) \in Docs
              /\ Settled(Doc(n, p)) => Doc(n, p) \in doubled'
              /\ Settled(Doc(n, p))'
<1>1. phase[p] = "onboarding" /\ Current(p) \in todo[p]
  BY CurrentTodo DEF Onboards, Record, Conflict, RecordFails
<1>2. UNCHANGED <<loaded, removed, gave, step, deployed, phase, answer>>
  BY DEF Onboards, Record, Conflict, RecordFails, deletionVars
<1>3. PICK n \in todo[p] : n = Current(p)
  BY <1>1
<1>4. Record(p) => todo' = [todo EXCEPT ![p] = @ \ {n}]
  BY <1>3 DEF Record, Tried
<1>5. n \in Nodes[p] /\ answer[p] = "created" /\ n \in Names
  BY <1>1, <1>3 DEF Posts, TypeOK, ProvisionTypes
<1>6. Doc(n, p) \in Docs /\ Doc(n, p).dep = n /\ Doc(n, p).of = p
  BY <1>5 DEF Doc, Docs
<1>7. \E i \in DocIds : docs[i] = NoDoc /\ docs' = [docs EXCEPT ![i] = Doc(n, p)]
  BY <1>3 DEF Onboards, Written
<1>8. /\ doubled \subseteq doubled'
      /\ n \notin todo'[p] \/ Doc(n, p) \in doubled'
  <2>1. CASE Record(p) \/ RecordFails(p)
    BY <1>3, <2>1 DEF Record, RecordFails, Tried, TypeOK, ProvisionTypes
  <2>2. CASE Conflict(p)
    <3>1. doubled' = doubled \cup {Doc(n, p)} \/ UNCHANGED <<docs, doubled>>
      BY <1>3, <2>2 DEF Conflict
    <3>2. docs' # docs
      BY <1>6, <1>7, NoDocAssumption DEF TypeOK, SharedTypes
    <3>3. QED
      BY <3>1, <3>2
  <2>3. QED
    BY <2>1, <2>2 DEF Onboards
<1>9. Settled(Doc(n, p)) => Doc(n, p) \in doubled'
  BY <1>1, <1>3, <1>6, <1>8 DEF Settled
<1>10. Settled(Doc(n, p))'
  BY <1>2, <1>5, <1>6, <1>8 DEF Settled, Doc
<1>11. QED
  BY <1>2, <1>4, <1>6, <1>7, <1>9, <1>10

LEMMA LoadedChange ==
  ASSUME TypeOK, [Next]_vars, NEW d \in Deletions
  PROVE  \/ loaded'[d] = loaded[d]
         \/ step[d] = "start" /\ loaded'[d] = docs[Target[d]] /\ UNCHANGED docs
<1> USE DEF TypeOK, DeletionTypes
<1>1. ASSUME NEW e \in Deletions, Deletion(e)
      PROVE  \/ loaded'[d] = loaded[d]
             \/ step[d] = "start" /\ loaded'[d] = docs[Target[d]] /\ UNCHANGED docs
  BY <1>1 DEF Deletion, Load, AskDelete, Offboard, Remove, RemoveFails
<1>2. ASSUME \/ \E p \in Provisions : Provision(p)
             \/ \E s \in Sweeps, n \in Names : Sweep(s, n)
             \/ Land
             \/ UNCHANGED vars
      PROVE  UNCHANGED loaded
  BY <1>2 DEF Provision, Post, Deploy, AlreadyExists, CreateFails, Created, Refused, Broken,
     Failed, Lost, Hears, Record, Conflict, RecordFails, Onboarded, CleanUp, CleanUpCluster,
     CleanedUp, Sweep, Land, vars, deletionVars
<1>3. QED
  BY <1>1, <1>2 DEF Next

LEMMA DocumentsStep ==
  ASSUME TypeOK, Posts, Documents, OneDocEach, [Next]_vars
  PROVE  Documents' /\ OneDocEach'
<1> USE NoDocAssumption, ConstantsAssumption DEF TypeOK, SharedTypes, DeletionTypes
<1>0. doubled \subseteq doubled'
  BY DoubledGrows
<1>1. \A doc \in Docs : Settled(doc) => Settled(doc)'
  BY SettledStays
<1>2. \A doc \in Docs, d \in Deletions : loaded'[d] = doc => Known(doc)
  BY LoadedChange DEF Known, HasDoc
<1>3. CASE UNCHANGED <<docs, removed>>
  <2>1. \A doc \in Docs : HasDoc(doc)' = HasDoc(doc)
    BY <1>3 DEF HasDoc
  <2>2. \A doc \in Docs : Known(doc)' => Known(doc)
    BY <1>2, <1>3, <2>1 DEF Known
  <2>3. QED
    BY <1>0, <1>1, <1>3, <2>1, <2>2 DEF Documents, OneDocEach
<1>4. ASSUME NEW p \in Provisions, Onboards(p) PROVE Documents' /\ OneDocEach'
  <2>1. UNCHANGED <<removed, loaded>>
    BY <1>4, WritesNew
  <2>2. PICK n \in todo[p], i \in DocIds :
          /\ docs[i] = NoDoc
          /\ docs' = [docs EXCEPT ![i] = Doc(n, p)]
          /\ Doc(n, p) \in Docs
          /\ Settled(Doc(n, p)) => Doc(n, p) \in doubled'
          /\ Settled(Doc(n, p))'
    BY <1>4, WritesNew
  <2>3. \A j \in DocIds : docs'[j] = IF j = i THEN Doc(n, p) ELSE docs[j]
    BY <2>2
  <2>4. Known(Doc(n, p)) => Doc(n, p) \in doubled'
    BY <2>2 DEF Documents
  <2>5. OneDocEach'
    BY <1>0, <2>3, <2>4 DEF OneDocEach, Known, HasDoc
  <2>6. ASSUME NEW doc \in Docs, doc # Doc(n, p)
        PROVE  HasDoc(doc)' = HasDoc(doc) /\ Known(doc)' = Known(doc)
    BY <2>1, <2>2, <2>3, <2>6 DEF HasDoc, Known
  <2>7. ASSUME NEW d \in Deletions, removed'[d] = Doc(n, p)
        PROVE  Doc(n, p) \in doubled'
    BY <2>1, <2>4, <2>7 DEF Known
  <2>8. QED
    BY <1>0, <1>1, <2>1, <2>2, <2>5, <2>6, <2>7 DEF Documents
<1>5. ASSUME NEW d \in Deletions, Removes(d) PROVE Documents' /\ OneDocEach'
  <2>1. /\ docs' = [docs EXCEPT ![Target[d]] = NoDoc]
        /\ removed' = [removed EXCEPT ![d] = docs[Target[d]]]
        /\ doubled' = doubled
    BY <1>5 DEF Removes, RemoveDoc, Remove, RemoveFails, provisionVars
  <2>2. OneDocEach'
    BY <2>1 DEF OneDocEach
  <2>3. ASSUME NEW doc \in Docs, HasDoc(doc)'
        PROVE  HasDoc(doc) /\ (doc = docs[Target[d]] => doc \in doubled)
    BY <2>1, <2>3 DEF HasDoc, OneDocEach
  <2>4. ASSUME NEW doc \in Docs, NEW e \in Deletions, removed'[e] = doc
        PROVE  Known(doc) /\ (HasDoc(doc)' => doc \in doubled)
    <3>1. CASE e = d
      <4>1. doc = docs[Target[d]]
        BY <2>1, <2>4, <3>1
      <4>2. QED
        BY <2>3, <4>1 DEF Known, HasDoc
    <3>2. CASE e # d
      <4>1. removed[e] = doc
        BY <2>1, <2>4, <3>2
      <4>2. QED
        BY <2>3, <4>1 DEF Known, Documents
    <3>3. QED
      BY <3>1, <3>2
  <2>5. \A doc \in Docs : Known(doc)' => Known(doc)
    BY <1>2, <2>3, <2>4 DEF Known
  <2>6. QED
    BY <1>1, <2>1, <2>2, <2>4, <2>5 DEF Documents
<1>6. QED
  BY <1>3, <1>4, <1>5, DocsChange

\* A document that is known is not written again, unless it is doubled, and what it
\* is of is not deployed again.
LEMMA KnownStays ==
  ASSUME TypeOK, Posts, Documents, [Next]_vars, NEW doc \in Docs, Known(doc)
  PROVE  /\ doc \notin doubled' => \A i \in DocIds : docs'[i] = doc => docs[i] = doc
         /\ deployed[doc.dep] # doc.of => deployed'[doc.dep] # doc.of
<1>1. Settled(doc) /\ doc.of \in Provisions /\ doc.dep \in Names
  BY DEF Documents, Docs
<1>2. ASSUME doc \notin doubled' PROVE \A i \in DocIds : docs'[i] = doc => docs[i] = doc
  <2>1. ASSUME NEW p \in Provisions, Onboards(p)
        PROVE  \A i \in DocIds : docs'[i] = doc => docs[i] = doc
    <3>1. PICK n \in todo[p], i \in DocIds :
            /\ docs' = [docs EXCEPT ![i] = Doc(n, p)]
            /\ Settled(Doc(n, p)) => Doc(n, p) \in doubled'
      BY <2>1, WritesNew
    <3>2. Doc(n, p) # doc
      BY <1>1, <1>2, <3>1
    <3>3. QED
      BY <3>1, <3>2 DEF TypeOK, SharedTypes
  <2>2. ASSUME NEW d \in Deletions, Removes(d)
        PROVE  \A i \in DocIds : docs'[i] = doc => docs[i] = doc
    BY <2>2, NoDocAssumption DEF TypeOK, SharedTypes, Removes, RemoveDoc
  <2>3. QED
    BY <2>1, <2>2, DocsChange
<1>3. ASSUME deployed[doc.dep] # doc.of PROVE deployed'[doc.dep] # doc.of
  <2>1. Nobody # doc.of
    BY <1>1, ConstantsAssumption
  <2>2. \A p \in Provisions : Deploy(p) => p # doc.of
    BY <1>1 DEF Settled, Posts, Deploy
  <2>3. QED
    BY <1>1, <1>3, <2>1, <2>2, DeployedChange
<1>4. QED
  BY <1>2, <1>3

ProgressOf(d) ==
  /\ step[d] = "start" => loaded[d] = NoDoc
  /\ step[d] \notin {"done", "error"} => removed[d] = NoDoc
  /\ step[d] \in {"loaded", "asked"} => loaded[d] # NoDoc
  /\ gave[d] # "none" => loaded[d] # NoDoc
  /\ step[d] \in {"start", "loaded"} => gave[d] = "none"
  /\ step[d] \in {"asked", "offboarding", "done"} =>
       gave[d] = "gone" \/ d \in Forced \/ RecordOnly(d)
  /\ loaded[d] # NoDoc /\ loaded[d] \notin doubled =>
       \A i \in DocIds : docs[i] = loaded[d] => i = Target[d]
  /\ step[d] = "done" /\ loaded[d] # NoDoc /\ HasDoc(loaded[d]) => loaded[d] \in doubled
  /\ gave[d] = "gone" => deployed[loaded[d].dep] # loaded[d].of

LEMMA ProgressStep ==
  ASSUME TypeOK, Posts, Documents, OneDocEach, Progress, [Next]_vars
  PROVE  Progress'
<1> SUFFICES ASSUME NEW d \in Deletions PROVE ProgressOf(d)'
  BY DEF Progress, ProgressOf
<1>0. ProgressOf(d)
  BY DEF Progress, ProgressOf
<1> USE NoDocAssumption, ConstantsAssumption DEF TypeOK, DeletionTypes, RecordOnly
<1>1. ASSUME step'[d] = step[d], loaded'[d] = loaded[d], gave'[d] = gave[d],
             removed'[d] = removed[d]
      PROVE  ProgressOf(d)'
  <2>1. CASE loaded[d] = NoDoc
    BY <1>0, <1>1, <2>1 DEF ProgressOf
  <2>2. CASE loaded[d] # NoDoc
    <3>1. loaded[d] \in Docs /\ Known(loaded[d])
      BY <2>2 DEF Known
    <3>2. /\ loaded[d] \notin doubled' =>
               \A i \in DocIds : docs'[i] = loaded[d] => docs[i] = loaded[d]
          /\ deployed[loaded[d].dep] # loaded[d].of => deployed'[loaded[d].dep] # loaded[d].of
      BY <3>1, KnownStays
    <3>3. doubled \subseteq doubled'
      BY DoubledGrows
    <3>4. QED
      BY <1>0, <1>1, <3>2, <3>3 DEF ProgressOf, HasDoc
  <2>3. QED
    BY <2>1, <2>2
<1>2. CASE Load(d)
  BY <1>0, <1>2 DEF Load, Steps, ProgressOf, OneDocEach, SharedTypes, provisionVars
<1>3. CASE AskDelete(d)
  <2>1. loaded[d] \in Docs
    BY <1>0, <1>3 DEF AskDelete, ProgressOf
  <2>2. gave'[d] = "gone" => deployed'[loaded[d].dep] # loaded[d].of
    <3>1. gave'[d] = "gone" => Delete(loaded[d].dep)
      BY <1>3 DEF AskDelete, Heard
    <3>2. loaded[d].dep \in Names /\ loaded[d].of # Nobody
      BY <2>1 DEF Docs
    <3>3. QED
      BY <3>1, <3>2 DEF Delete, Gone
  <2>3. /\ step'[d] \in {"asked", "error"}
        /\ gave'[d] # "none"
        /\ step'[d] = "asked" => gave'[d] = "gone" \/ d \in Forced
        /\ UNCHANGED <<docs, loaded, removed, doubled>>
    BY <1>3 DEF AskDelete, Heard, GoesOn, Steps, provisionVars
  <2>4. QED
    BY <1>0, <1>3, <2>1, <2>2, <2>3 DEF ProgressOf, AskDelete
<1>4. CASE Offboard(d)
  BY <1>0, <1>4 DEF Offboard, Steps, ProgressOf, HasDoc, provisionVars
<1>5. CASE Remove(d)
  <2>1. /\ docs' = [docs EXCEPT ![Target[d]] = NoDoc]
        /\ step'[d] = "done"
        /\ UNCHANGED <<deployed, loaded, gave, doubled>>
    BY <1>5 DEF Remove, RemoveDoc, Steps, provisionVars
  <2>2. loaded[d] # NoDoc /\ loaded[d] \notin doubled =>
          \A i \in DocIds : docs'[i] # loaded[d]
    BY <1>0, <1>5, <2>1 DEF ProgressOf, Remove, SharedTypes
  <2>3. QED
    BY <1>0, <1>5, <2>1, <2>2 DEF ProgressOf, Remove, HasDoc
<1>6. CASE RemoveFails(d)
  <2>1. /\ docs' = [docs EXCEPT ![Target[d]] = NoDoc] \/ UNCHANGED docs
        /\ step'[d] = "error"
        /\ UNCHANGED <<deployed, loaded, gave, doubled>>
    BY <1>6 DEF RemoveFails, RemoveDoc, Steps, provisionVars
  <2>2. QED
    BY <1>0, <1>6, <2>1 DEF ProgressOf, RemoveFails, SharedTypes
<1>7. ASSUME NEW e \in Deletions, e # d, Deletion(e)
      PROVE  UNCHANGED <<step[d], loaded[d], gave[d], removed[d]>>
  BY <1>7 DEF Deletion, Load, AskDelete, Heard, Offboard, Remove, RemoveFails, RemoveDoc, Steps
<1>8. ASSUME \/ \E p \in Provisions : Provision(p)
             \/ \E s \in Sweeps, n \in Names : Sweep(s, n)
             \/ Land
             \/ UNCHANGED vars
      PROVE  UNCHANGED deletionVars
  BY <1>8 DEF Provision, Post, Deploy, AlreadyExists, CreateFails, Created, Refused, Broken,
     Failed, Lost, Hears, Record, Conflict, RecordFails, Onboarded, CleanUp, CleanUpCluster,
     CleanedUp, Sweep, Land, vars
<1>9. QED
  BY <1>1, <1>2, <1>3, <1>4, <1>5, <1>6, <1>7, <1>8 DEF Next, Deletion, deletionVars

LEMMA RecordedStep ==
  ASSUME TypeOK, Posts, Documents, OneDocEach, Progress, Recorded, [Next]_vars
  PROVE  Recorded'
<1> SUFFICES ASSUME NEW q \in Provisions, phase'[q] \in {"onboarding", "ok"}, ~ errs'[q],
                    NEW m \in Nodes[q], m \notin todo'[q]
             PROVE  (HasDoc(Doc(m, q)) \/ \E d \in Deletions : removed[d] = Doc(m, q))'
  BY DEF Recorded, HasDoc, Doc
<1> DEFINE There == HasDoc(Doc(m, q)) \/ \E d \in Deletions : removed[d] = Doc(m, q)
<1> USE DEF TypeOK
<1>1. Doc(m, q) \in Docs
  BY NodesType DEF Doc, Docs
<1>2. ASSUME There PROVE There'
  <2>1. CASE UNCHANGED <<docs, removed>>
    BY <1>2, <2>1 DEF HasDoc
  <2>2. ASSUME NEW p \in Provisions, Onboards(p) PROVE There'
    <3>1. PICK i \in DocIds : docs[i] = NoDoc /\ \A j \in DocIds \ {i} : docs'[j] = docs[j]
      BY <2>2, WritesNew DEF SharedTypes
    <3>2. UNCHANGED removed
      BY <2>2, WritesNew
    <3>3. QED
      BY <1>1, <1>2, <3>1, <3>2, NoDocAssumption DEF HasDoc
  <2>3. ASSUME NEW d \in Deletions, Removes(d) PROVE There'
    <3>1. /\ docs' = [docs EXCEPT ![Target[d]] = NoDoc]
          /\ removed' = [removed EXCEPT ![d] = docs[Target[d]]]
      BY <2>3 DEF Removes, RemoveDoc
    <3>2. removed[d] = NoDoc
      BY <2>3 DEF Removes, Remove, RemoveFails, Progress
    <3>3. QED
      BY <1>1, <1>2, <3>1, <3>2, NoDocAssumption, ConstantsAssumption
         DEF HasDoc, SharedTypes, DeletionTypes
  <2>4. QED
    BY <2>1, <2>2, <2>3, DocsChange
<1>3. CASE phase[q] \in {"onboarding", "ok"} /\ ~ errs[q] /\ m \notin todo[q]
  BY <1>2, <1>3 DEF Recorded
<1>4. ASSUME NEW p \in Provisions, Record(p), p = q, m \in todo[q] PROVE There'
  <2>1. PICK n \in todo[p], i \in DocIds :
          /\ todo' = [todo EXCEPT ![p] = @ \ {n}]
          /\ docs' = [docs EXCEPT ![i] = Doc(n, p)]
    BY <1>4, WritesNew DEF Onboards, Record
  <2>2. m = n
    BY <1>4, <2>1 DEF ProvisionTypes
  <2>3. docs'[i] = Doc(m, q)
    BY <1>4, <2>1, <2>2 DEF SharedTypes
  <2>4. QED
    BY <2>3 DEF HasDoc, Doc
<1>5. ASSUME NEW p \in Provisions, Provision(p), p # q \/ ~ Record(p)
      PROVE  phase[q] \in {"onboarding", "ok"} /\ ~ errs[q] /\ m \notin todo[q]
  <2> USE DEF ProvisionTypes
  <2>1. CASE Post(p) \/ Deploy(p) \/ AlreadyExists(p) \/ CreateFails(p)
    BY <2>1 DEF Post, GoTo, Deploy, AlreadyExists, CreateFails, provisionVars
  <2>2. CASE Created(p) \/ Refused(p) \/ Broken(p) \/ Failed(p) \/ Lost(p)
    BY <2>2 DEF Created, Refused, Broken, Failed, Lost, Hears, GoTo, AllOf
  <2>3. CASE Record(p) \/ RecordFails(p)
    BY <1>5, <2>3 DEF Record, RecordFails, Tried
  <2>4. CASE Conflict(p)
    BY <2>4 DEF Conflict, Tried
  <2>5. CASE Onboarded(p)
    BY <2>5 DEF Onboarded, Incomplete, GoTo, AllOf
  <2>6. CASE CleanUp(p)
    BY <2>6 DEF CleanUp, Tried
  <2>7. CASE CleanUpCluster(p) \/ CleanedUp(p)
    BY <2>7 DEF CleanUpCluster, CleanedUp, GoTo
  <2>8. QED
    BY <1>5, <2>1, <2>2, <2>3, <2>4, <2>5, <2>6, <2>7 DEF Provision
<1>6. ASSUME \/ \E d \in Deletions : Deletion(d)
             \/ \E s \in Sweeps, n \in Names : Sweep(s, n)
             \/ Land
             \/ UNCHANGED vars
      PROVE  UNCHANGED provisionVars
  BY <1>6 DEF Deletion, Load, AskDelete, Offboard, Remove, RemoveFails, Sweep, Land, vars
<1>7. ASSUME NEW p \in Provisions, Record(p), p = q, m \notin todo[q]
      PROVE  phase[q] \in {"onboarding", "ok"} /\ ~ errs[q]
  BY <1>7 DEF Record
<1>8. There'
  BY <1>3, <1>4, <1>5, <1>6, <1>7 DEF Next, provisionVars
<1>9. QED
  BY <1>8

\* A provision that cleans up goes on to, and then has failed.
LEMMA CleansUpStays ==
  ASSUME TypeOK, Posts, [Next]_vars, NEW q \in Provisions,
         phase[q] \in {"cleaning", "failed"}
  PROVE  phase'[q] \in {"cleaning", "failed"} /\ answer'[q] = answer[q]
<1> USE DEF TypeOK, ProvisionTypes
<1>1. answer'[q] = answer[q]
  BY AnswerStays DEF Posts
<1>2. ASSUME NEW p \in Provisions, Provision(p)
      PROVE  phase'[q] \in {"cleaning", "failed"}
  BY <1>2 DEF Provision, Post, Deploy, AlreadyExists, CreateFails, Created, Refused,
     Broken, Failed, Lost, Hears, Record, Conflict, RecordFails, Onboarded, CleanUp,
     CleanUpCluster, CleanedUp, GoTo, provisionVars
<1>3. ASSUME \/ \E d \in Deletions : Deletion(d)
             \/ \E s \in Sweeps, n \in Names : Sweep(s, n)
             \/ Land
             \/ UNCHANGED vars
      PROVE  UNCHANGED provisionVars
  BY <1>3 DEF Deletion, Load, AskDelete, Offboard, Remove, RemoveFails, Sweep, Land, vars
<1>4. QED
  BY <1>1, <1>2, <1>3 DEF Next, provisionVars

\* A request goes on to have its reason.
LEMMA MeansStays ==
  ASSUME TypeOK, Posts, Progress, [Next]_vars,
         NEW r \in Provisions \cup Deletions \cup Sweeps, NEW n \in Names, Means(r, n)
  PROVE  Means(r, n)'
<1>1. ASSUME r \in Deletions, loaded[r] # NoDoc PROVE loaded'[r] = loaded[r]
  BY <1>1, LoadedChange DEF Progress
<1>2. ASSUME r \in Sweeps, n \in swept[r] PROVE n \in swept'[r]
  <2>1. ASSUME NEW s \in Sweeps, NEW m \in Names, Sweep(s, m) PROVE n \in swept'[r]
    BY <1>2, <2>1 DEF Sweep, TypeOK, SharedTypes
  <2>2. ASSUME \/ \E p \in Provisions : Provision(p)
               \/ \E d \in Deletions : Deletion(d)
               \/ Land
               \/ UNCHANGED vars
        PROVE  UNCHANGED swept
    BY <2>2 DEF Provision, Post, Deploy, AlreadyExists, CreateFails, Created, Refused, Broken,
       Failed, Lost, Hears, Record, Conflict, RecordFails, Onboarded, CleanUp, CleanUpCluster,
       CleanedUp, Deletion, Load, AskDelete, Offboard, Remove, RemoveFails, Land, vars
  <2>3. QED
    BY <1>2, <2>1, <2>2 DEF Next
<1>3. ASSUME r \in Provisions, CleansUp(r) PROVE CleansUp(r)'
  BY <1>3, CleansUpStays DEF CleansUp
<1>4. QED
  BY <1>1, <1>2, <1>3 DEF Means

LEMMA FlightsStep ==
  ASSUME TypeOK, Posts, Progress, Flights, [Next]_vars
  PROVE  Flights'
<1> DEFINE Requests == Provisions \cup Deletions \cup Sweeps
<1> SUFFICES ASSUME NEW n \in Names, NEW r \in Requests, <<n, r>> \in flying'
             PROVE  Means(r, n)'
  BY DEF Flights, Means, CleansUp
<1>1. CASE <<n, r>> \in flying
  BY <1>1, MeansStays DEF Flights
<1>2. ASSUME NEW p \in Provisions, CleanUp(p), <<n, r>> = <<Current(p), p>>
      PROVE  Means(r, n)
  <2>1. r = p /\ n = Current(p) /\ n \in todo[p]
    BY <1>2, CurrentTodo DEF CleanUp
  <2>2. CleansUp(p) /\ n \in Nodes[p]
    BY <1>2, <2>1 DEF CleanUp, CleansUp, Posts
  <2>3. QED
    BY <2>1, <2>2 DEF Means
<1>3. ASSUME NEW p \in Provisions, CleanUpCluster(p), r = p, n \in Nodes[p]
      PROVE  Means(r, n)
  BY <1>3 DEF CleanUpCluster, Nameless, Means, CleansUp
<1>4. ASSUME NEW d \in Deletions, AskDelete(d), <<n, r>> = <<loaded[d].dep, d>>
      PROVE  Means(r, n)
  BY <1>4 DEF AskDelete, Means, Progress
<1>5. ASSUME NEW s \in Sweeps, NEW m \in Names, Sweep(s, m), <<n, r>> = <<m, s>>
      PROVE  Means(r, n)'
  BY <1>5 DEF Sweep, Means, TypeOK, SharedTypes
<1>6. ASSUME NEW p \in Provisions, Provision(p), <<n, r>> \notin flying
      PROVE  \/ CleanUp(p) /\ <<n, r>> = <<Current(p), p>>
             \/ CleanUpCluster(p) /\ r = p /\ n \in Nodes[p]
  BY <1>6 DEF Provision, Post, Deploy, AlreadyExists, CreateFails, Created, Refused, Broken,
     Failed, Lost, Hears, Record, Conflict, RecordFails, Onboarded, CleanUp, CleanUpCluster,
     CleanedUp, Delete, DeleteFails, DeleteLate
<1>7. ASSUME NEW d \in Deletions, Deletion(d), <<n, r>> \notin flying
      PROVE  AskDelete(d) /\ <<n, r>> = <<loaded[d].dep, d>>
  BY <1>7 DEF Deletion, Load, AskDelete, Offboard, Remove, RemoveFails, Delete, DeleteFails,
     DeleteLate
<1>8. ASSUME NEW s \in Sweeps, NEW m \in Names, Sweep(s, m), <<n, r>> \notin flying
      PROVE  <<n, r>> = <<m, s>>
  BY <1>8 DEF Sweep, Delete, DeleteLate
<1>9. ASSUME Land \/ UNCHANGED vars
      PROVE  <<n, r>> \in flying
  BY <1>9 DEF Land, vars
<1>10. QED
  BY <1>1, <1>2, <1>3, <1>4, <1>5, <1>6, <1>7, <1>8, <1>9,
     MeansStays DEF Next

\* A provision enters its clean-up with all it may have deployed before it.
LEMMA CleanedStep ==
  ASSUME TypeOK, Ours, Posts, Cleaned, [Next]_vars
  PROVE  Cleaned'
<1> SUFFICES ASSUME NEW q \in Provisions, phase'[q] \in {"cleaning", "failed"},
                    NEW m \in Nodes[q], deployed'[m] = q
             PROVE  \/ post'[q] = "late"
                    \/ m \in unsure'[q]
                    \/ answer'[q] = "lost"
                    \/ phase'[q] = "cleaning" /\ (m \in todo'[q] \/ Nameless(q)')
  BY DEF Cleaned, Nameless
<1> USE DEF TypeOK, ProvisionTypes, SharedTypes
<1>0. m \in Names /\ q # Nobody
  BY NodesType, ConstantsAssumption
<1>1. CASE Deploy(q)
  BY <1>1, <1>0 DEF Deploy, provisionVars, Posts
<1>2. ASSUME ~ Deploy(q)
      PROVE  deployed[m] = q /\ post[q] \in {"created", "late"} /\ post'[q] = post[q]
  <2>1. \A p \in Provisions : Deploy(p) /\ deployed'[m] = p => p = q
    OBVIOUS
  <2>2. deployed[m] = q
    BY <1>0, <1>2, DeployedChange
  <2>3. post[q] \in {"created", "late"}
    BY <1>0, <2>2 DEF Ours
  <2>4. QED
    BY <2>2, <2>3, PostStays
<1>3. ASSUME NEW p \in Provisions, Provision(p), ~ Deploy(q), post[q] = "created", p = q
      PROVE  \/ m \in unsure'[q]
             \/ answer'[q] = "lost"
             \/ phase'[q] = "cleaning" /\ (m \in todo'[q] \/ Nameless(q)')
  <2>1. CASE Post(q) \/ AlreadyExists(q) \/ CreateFails(q)
    BY <1>3, <2>1 DEF Post, AlreadyExists, CreateFails, Posts
  <2>2. CASE Created(q) \/ Refused(q) \/ Broken(q)
    BY <1>3, <2>2 DEF Created, Refused, Broken, Hears, GoTo, AllOf
  <2>3. CASE Failed(q)
    BY <1>3, <2>3 DEF Failed, Lost, Hears, GoTo, ById, Nameless
  <2>4. CASE Record(q) \/ RecordFails(q) \/ Conflict(q)
    BY <2>4 DEF Record, RecordFails, Conflict
  <2>5. CASE Onboarded(q)
    BY <2>5 DEF Onboarded, GoTo, AllOf
  <2>6. CASE CleanUp(q)
    <3>1. Cleaned /\ phase[q] = "cleaning" /\ phase'[q] = "cleaning" /\ deployed[m] = q
      BY <1>2, <1>3, <2>6 DEF CleanUp
    <3>2. CASE m = Current(q)
      <4>1. Delete(Current(q)) \/ unsure' = [unsure EXCEPT ![q] = @ \cup {Current(q)}]
        BY <2>6 DEF CleanUp
      <4>2. ~ Delete(Current(q))
        BY <1>0, <3>2 DEF Delete, Gone
      <4>3. QED
        BY <3>2, <4>1, <4>2
    <3>3. CASE m # Current(q)
      <4>1. m \in unsure[q] \/ m \in todo[q] \/ Nameless(q) \/ answer[q] = "lost"
        BY <1>3, <3>1 DEF Cleaned
      <4>2. /\ m \in unsure[q] => m \in unsure'[q]
            /\ m \in todo[q] => m \in todo'[q]
            /\ Nameless(q) => Nameless(q)'
            /\ answer'[q] = answer[q]
        BY <2>6, <3>3 DEF CleanUp, Tried, Nameless
      <4>3. QED
        BY <3>1, <4>1, <4>2
    <3>4. QED
      BY <3>2, <3>3
  <2>7. CASE CleanUpCluster(q)
    BY <2>7 DEF CleanUpCluster
  <2>8. CASE CleanedUp(q)
    BY <1>2, <1>3, <2>8 DEF CleanedUp, Cleaned
  <2>9. CASE Lost(q)
    BY <2>9 DEF Lost, Hears
  <2>10. QED
    BY <1>3, <2>1, <2>2, <2>3, <2>4, <2>5, <2>6, <2>7, <2>8, <2>9 DEF Provision
<1>4. ASSUME NEW p \in Provisions, Provision(p), p # q
      PROVE  UNCHANGED <<phase[q], answer[q], todo[q], unsure[q]>>
  BY <1>4 DEF Provision, Post, Deploy, AlreadyExists, CreateFails, Created, Refused,
     Broken, Failed, Lost, Hears, Record, Conflict, RecordFails, Onboarded, CleanUp,
     CleanUpCluster, CleanedUp, GoTo, AllOf, Tried, provisionVars
<1>5. ASSUME \/ \E d \in Deletions : Deletion(d)
             \/ \E s \in Sweeps, n \in Names : Sweep(s, n)
             \/ Land
             \/ UNCHANGED vars
      PROVE  UNCHANGED <<phase[q], answer[q], todo[q], unsure[q]>>
  BY <1>5 DEF Deletion, Load, AskDelete, Offboard, Remove, RemoveFails, Sweep, Land, vars,
     provisionVars
<1>6. ASSUME ~ Deploy(q), UNCHANGED <<phase[q], answer[q], todo[q], unsure[q]>>
      PROVE  \/ post'[q] = "late"
             \/ m \in unsure'[q]
             \/ answer'[q] = "lost"
             \/ phase'[q] = "cleaning" /\ (m \in todo'[q] \/ Nameless(q)')
  BY <1>2, <1>6 DEF Cleaned, Nameless
<1>7. QED
  BY <1>1, <1>2, <1>3, <1>4, <1>5, <1>6 DEF Next

-----------------------------------------------------------------------------
(* The invariant and what follows from it. *)

LEMMA Initially == Init => IInv
<1> SUFFICES ASSUME Init PROVE IInv
  OBVIOUS
<1> USE ConstantsAssumption, NoDocAssumption DEF Init
<1>1. TypeOK
  BY DEF TypeOK, SharedTypes, ProvisionTypes, DeletionTypes
<1>2. Ours /\ Posts /\ OneDocEach /\ Recorded /\ Cleaned
  BY DEF Ours, Posts, OneDocEach, Recorded, Cleaned
<1>3. Documents
  BY DEF Documents, Known, HasDoc
<1>4. Progress /\ Flights
  BY DEF Progress, Flights
<1>5. QED
  BY <1>1, <1>2, <1>3, <1>4 DEF IInv

LEMMA Inductive == IInv /\ [Next]_vars => IInv'
<1> SUFFICES ASSUME IInv, [Next]_vars PROVE IInv'
  OBVIOUS
<1>1. TypeOK'
  BY TypeStep DEF IInv, Progress
<1>2. Ours' /\ Posts'
  BY OursStep, PostsStep DEF IInv
<1>3. Documents' /\ OneDocEach'
  BY DocumentsStep DEF IInv
<1>4. Recorded' /\ Progress'
  BY RecordedStep, ProgressStep DEF IInv
<1>5. Flights' /\ Cleaned'
  BY FlightsStep, CleanedStep DEF IInv
<1>6. QED
  BY <1>1, <1>2, <1>3, <1>4, <1>5 DEF IInv

\* The names that are asked for, the documents that are written and removed and the
\* DELETEs that are under way fit together, always.
THEOREM Invariant == Spec => []IInv
  BY Initially, Inductive, PTL DEF Spec

\* The variables keep their types; no write is attempted too often.
THEOREM TypeInvariant == Spec => []TypeOK
<1>1. IInv => TypeOK
  BY DEF IInv
<1>2. QED
  BY <1>1, Invariant, PTL

\* What a successful provision deployed has a document while it is deployed, unless
\* a deletion removed it that was for the document only, was forced or overtaken.
THEOREM OrphansInvariant == Spec => []NoOrphans
<1>1. IInv => NoOrphans
  <2> SUFFICES ASSUME IInv, NEW p \in Provisions, NEW n \in Nodes[p],
                      phase[p] = "ok", deployed[n] = p, ~ HasDoc(Doc(n, p))
               PROVE  \E d \in Deletions : Abandoned(d, Doc(n, p))
    BY DEF NoOrphans
  <2>1. PICK d \in Deletions : removed[d] = Doc(n, p)
    BY DEF IInv, Posts, Recorded
  <2>2. gave[d] = "gone" => loaded[d] # Doc(n, p)
    BY DEF IInv, Progress, Doc
  <2>3. QED
    BY <2>1, <2>2 DEF Abandoned
<1>2. QED
  BY <1>1, Invariant, PTL

\* After a failed provision that got an answer nothing is left of it but what its
\* clean-up could not know or was not told to be deleted.
THEOREM CleanedInvariant == Spec => []FailureCleaned
<1>1. IInv => FailureCleaned
  BY DEF IInv, Cleaned, FailureCleaned
<1>2. QED
  BY <1>1, Invariant, PTL

\* No component has two documents.
THEOREM OneDocInvariant == Spec => []OneDocEach
<1>1. IInv => OneDocEach
  BY DEF IInv
<1>2. QED
  BY <1>1, Invariant, PTL

\* What a deletion of a component was for is gone when it has succeeded, and stays
\* away.
THEOREM DeletedInvariant == Spec => []DeletedForGood
<1>1. IInv => DeletedForGood
  BY DEF IInv, Progress, DeletedForGood, RecordOnly
<1>2. QED
  BY <1>1, Invariant, PTL

\* In a step that takes the name n away a request with a reason has it deleted.
LEMMA TakenAway ==
  ASSUME IInv, [Next]_vars, NEW n \in Names,
         deployed[n] # Nobody, deployed'[n] # deployed[n]
  PROVE  Deletes(n)
<1> USE DEF TypeOK, SharedTypes, IInv
<1>1. ASSUME NEW m, Delete(m) PROVE n = m
  BY <1>1 DEF Delete, Gone
<1>2. ASSUME NEW p \in Provisions, Provision(p) PROVE Deletes(n)
  <2>1. CASE Deploy(p)
    BY <2>1, NodesType DEF Deploy
  <2>2. CASE CleanUp(p)
    <3>1. n = Current(p) /\ n \in todo[p]
      BY <2>2, <1>1, CurrentTodo DEF CleanUp, DeleteFails, DeleteLate
    <3>2. todo' # todo
      BY <2>2, <3>1 DEF CleanUp, Tried, ProvisionTypes
    <3>3. Means(p, n)
      BY <2>2, <3>1 DEF CleanUp, Posts, Means, CleansUp
    <3>4. QED
      BY <2>2, <3>2, <3>3 DEF CleanUp, Deletes, provisionVars
  <2>3. CASE CleanUpCluster(p)
    <3>1. n \in Nodes[p]
      BY <2>3 DEF CleanUpCluster, Gone, DeleteFails
    <3>2. phase' # phase
      BY <2>3 DEF CleanUpCluster, GoTo, ProvisionTypes
    <3>3. Means(p, n)
      BY <2>3, <3>1 DEF CleanUpCluster, Means, CleansUp, Nameless
    <3>4. QED
      BY <2>3, <3>2, <3>3 DEF CleanUpCluster, Deletes, provisionVars
  <2>4. CASE UNCHANGED deployed
    BY <2>4
  <2>5. QED
    BY <1>2, <2>1, <2>2, <2>3, <2>4 DEF Provision, Post, AlreadyExists, CreateFails, Created,
       Refused, Broken, Failed, Lost, Hears, Record, Conflict, RecordFails, Onboarded, CleanedUp
<1>3. ASSUME NEW d \in Deletions, Deletion(d) PROVE Deletes(n)
  <2>1. AskDelete(d) /\ Delete(loaded[d].dep)
    BY <1>3 DEF Deletion, Load, AskDelete, Offboard, Remove, RemoveFails, DeleteFails, DeleteLate
  <2>2. n = loaded[d].dep /\ gave[d] = "none" /\ loaded[d] # NoDoc
    BY <1>1, <2>1 DEF AskDelete, Progress
  <2>3. gave'[d] # gave[d]
    BY <2>1, <2>2 DEF AskDelete, Heard, DeletionTypes
  <2>4. QED
    BY <2>2, <2>3 DEF Deletes, Means
<1>4. ASSUME NEW s \in Sweeps, NEW m \in Names, Sweep(s, m) PROVE Deletes(n)
  <2>1. n = m
    BY <1>1, <1>4 DEF Sweep, DeleteLate
  <2>2. swept[s] = {} /\ swept'[s] = {n}
    BY <1>4, <2>1 DEF Sweep
  <2>3. swept'[s] # swept[s] /\ Means(s, n)'
    BY <2>2 DEF Means
  <2>4. QED
    BY <2>3 DEF Deletes
<1>5. ASSUME Land PROVE Deletes(n)
  <2>1. PICK late \in flying : Gone({late[1]}) /\ flying' = flying \ {late}
    BY <1>5 DEF Land
  <2>2. late[1] = n
    BY <2>1 DEF Gone
  <2>3. PICK r \in Provisions \cup Deletions \cup Sweeps : late = <<n, r>>
    BY <2>1, <2>2
  <2>4. Means(r, n)
    BY <2>1, <2>3 DEF Flights
  <2>5. QED
    BY <2>1, <2>3, <2>4 DEF Deletes
<1>6. CASE UNCHANGED vars
  BY <1>6 DEF vars
<1>7. QED
  BY <1>2, <1>3, <1>4, <1>5, <1>6 DEF Next

\* What is deployed stays until somebody with a reason has it deleted, and a
\* document until a deletion gets to it whose DELETE worked, that was forced or that
\* is for the document only.
THEOREM KeptTheorem == Spec => KeptUntilDeleted
<1>1. ASSUME IInv, [Next]_vars
      PROVE  /\ \A n \in Names :
                  deployed[n] # Nobody /\ deployed'[n] # deployed[n] => Deletes(n)
             /\ \A i \in DocIds : docs[i] # NoDoc /\ docs'[i] # docs[i] =>
                  \E d \in Deletions : /\ Target[d] = i /\ step[d] = "offboarding"
                                       /\ gave[d] = "gone" \/ d \in Forced \/ RecordOnly(d)
  <2>1. ASSUME NEW i \in DocIds, docs[i] # NoDoc, docs'[i] # docs[i]
        PROVE  \E d \in Deletions : /\ Target[d] = i /\ step[d] = "offboarding"
                                    /\ gave[d] = "gone" \/ d \in Forced \/ RecordOnly(d)
    <3>1. ASSUME NEW p \in Provisions, Onboards(p) PROVE docs'[i] = docs[i]
      BY <1>1, <2>1, <3>1, WritesNew DEF IInv, TypeOK, SharedTypes
    <3>2. PICK d \in Deletions : Removes(d)
      BY <1>1, <2>1, <3>1, DocsChange
    <3>3. Target[d] = i /\ step[d] = "offboarding"
      BY <1>1, <2>1, <3>2 DEF IInv, TypeOK, SharedTypes, Removes, RemoveDoc, Remove,
         RemoveFails
    <3>4. QED
      BY <1>1, <3>3 DEF IInv, Progress
  <2>2. QED
    BY <1>1, <2>1, TakenAway
<1>2. QED
  BY <1>1, Invariant, PTL DEF Spec, KeptUntilDeleted

=============================================================================

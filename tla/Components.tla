----------------------------- MODULE Components -----------------------------
(***************************************************************************)
(* How the console creates and deletes components (libs/deployer_lib.js):   *)
(* a component is deployed by the deployer, an outside service, and then    *)
(* written as a document to CouchDB (libs/component_lib.js); it is deleted  *)
(* at the deployer first and its document after that, or its document only  *)
(* (routes/component_apis.js).  Nothing keeps the two together but the      *)
(* order of the steps and the clean-up after a failure.                     *)
(*                                                                          *)
(* A provision asks for one component or, as an ordering cluster, for       *)
(* several nodes that are documents of their own.  Names are chosen by the  *)
(* console (make_subdomain) or by the user, from a list of ids that may be  *)
(* out of date or empty because it could not be read: any two provisions    *)
(* may ask for the same name.  The same is true of the ids of documents,    *)
(* hence a document gets any id.  A component at the deployer is known by   *)
(* its name only (in the code by its type and name: here components of      *)
(* different types may be in each other's way as well); that it is written  *)
(* here as the provision that deployed it serves the properties.            *)
(*                                                                          *)
(* A request of the console has a timeout.  A POST or DELETE that timed out *)
(* may be handled by the deployer later.                                    *)
(***************************************************************************)
EXTENDS Naturals

CONSTANTS
  Provisions,   \* the requests for new components
  Clusters,     \* those for an ordering cluster
  Deletions,    \* the requests to delete a component or its document, by the document's id
  Forced,       \* those with ?force=yes
  Offboards,    \* those that may be for the document only
  Sweeps,       \* the requests to delete at the deployer only, by name
  Names,        \* of components, at the deployer
  DocIds,
  Nodes,        \* Nodes[p]: the names of what p asks for
  Target,       \* Target[d]: the id of the document d shall delete
  Nobody,       \* there is no component of that name
  NoDoc,
  MaxAttempts,  \* 3 in the code: conflicts that are tried again
  MaxFaults     \* bound on the faults: errors, timeouts, lost answers

ASSUME ConstantsAssumption ==
  /\ Clusters \subseteq Provisions
  /\ Forced \subseteq Deletions /\ Offboards \subseteq Deletions
  /\ Nodes \in [Provisions -> (SUBSET Names) \ {{}}]
  /\ \A p \in Provisions \ Clusters : \E n \in Names : Nodes[p] = {n}
  /\ Target \in [Deletions -> DocIds]
  /\ Nobody \notin Provisions
  /\ MaxAttempts \in Nat /\ MaxFaults \in Nat

Docs == [dep : Names, of : Provisions]
ASSUME NoDocAssumption == NoDoc \notin Docs

VARIABLES
  deployed,  \* deployed[n]: the provision that deployed what has the name n
  flying,    \* <<name, request>> of DELETEs the deployer handles late
  docs,      \* docs[i]: the component's name and provision, or NoDoc
  phase,     \* phase[p]: where the console is with p
  answer,    \* answer[p]: what the console heard of the deployer
  todo,      \* todo[p]: the names that are not onboarded (cleaned up) yet
  attempt,   \* attempt[p]: of the document that is being written
  errs,      \* errs[p]: a document could not be written
  doubled,   \* documents whose write was repeated though it had succeeded
  post,      \* post[p]: what has become of p's POST
  unsure,    \* unsure[p]: names p failed to clean up
  step,      \* step[d]: where the console is with d
  loaded,    \* loaded[d]: the document d is about, NoDoc if it does not look at it
  gave,      \* gave[d]: what the console heard of d's DELETE
  removed,   \* removed[d]: the document d removed
  swept,     \* swept[s]: the names s has asked the deployer to delete
  faults     \* the faults so far

provisionVars == <<phase, answer, todo, attempt, errs, doubled, unsure>>
deletionVars  == <<step, loaded, gave, removed>>
vars == <<deployed, flying, docs, provisionVars, post, deletionVars, swept, faults>>

SharedTypes ==
  /\ deployed \in [Names -> Provisions \cup {Nobody}]
  /\ flying \subseteq Names \X (Provisions \cup Deletions \cup Sweeps)
  /\ docs \in [DocIds -> Docs \cup {NoDoc}]
  /\ swept \in [Sweeps -> SUBSET Names]
  /\ faults \in 0..MaxFaults

ProvisionTypes ==
  /\ phase \in [Provisions ->
       {"start", "posting", "onboarding", "cleaning", "ok", "failed"}]
  /\ answer \in [Provisions -> {"none", "created", "taken", "named", "unnamed", "lost"}]
  /\ todo \in [Provisions -> SUBSET Names]
  /\ attempt \in [Provisions -> 0..MaxAttempts]
  /\ errs \in [Provisions -> BOOLEAN]
  /\ doubled \subseteq Docs
  /\ unsure \in [Provisions -> SUBSET Names]
  /\ post \in [Provisions -> {"no", "sent", "created", "late", "taken", "failed"}]

DeletionTypes ==
  /\ step \in [Deletions ->
       {"start", "loaded", "asked", "offboarding", "done", "error"}]
  /\ loaded \in [Deletions -> Docs \cup {NoDoc}]
  /\ gave \in [Deletions -> {"none", "gone", "error", "late"}]
  /\ removed \in [Deletions -> Docs \cup {NoDoc}]

TypeOK == SharedTypes /\ ProvisionTypes /\ DeletionTypes

Init ==
  /\ deployed = [n \in Names |-> Nobody]
  /\ flying = {}
  /\ docs = [i \in DocIds |-> NoDoc]
  /\ phase = [p \in Provisions |-> "start"]
  /\ answer = [p \in Provisions |-> "none"]
  /\ todo = [p \in Provisions |-> {}]
  /\ attempt = [p \in Provisions |-> 0]
  /\ errs = [p \in Provisions |-> FALSE]
  /\ doubled = {}
  /\ post = [p \in Provisions |-> "no"]
  /\ unsure = [p \in Provisions |-> {}]
  /\ step = [d \in Deletions |-> "start"]
  /\ loaded = [d \in Deletions |-> NoDoc]
  /\ gave = [d \in Deletions |-> "none"]
  /\ removed = [d \in Deletions |-> NoDoc]
  /\ swept = [s \in Sweeps |-> {}]
  /\ faults = 0

Fault == faults < MaxFaults /\ faults' = faults + 1

-----------------------------------------------------------------------------
(* The deployer. *)

\* It handles p's POST: deploys the components, refuses because there is one
\* of that name, or fails.  "late": the console has stopped waiting for it.
Deploy(p) ==
  /\ post[p] = "sent"
  /\ \A n \in Nodes[p] : deployed[n] = Nobody
  /\ deployed' = [n \in Names |-> IF n \in Nodes[p] THEN p ELSE deployed[n]]
  /\ post' = [post EXCEPT ![p] = IF phase[p] = "posting" THEN "created" ELSE "late"]
  /\ UNCHANGED <<flying, docs, provisionVars, deletionVars, swept, faults>>

AlreadyExists(p) ==
  /\ post[p] = "sent"
  /\ \E n \in Nodes[p] : deployed[n] # Nobody
  /\ post' = [post EXCEPT ![p] = "taken"]
  /\ UNCHANGED <<deployed, flying, docs, provisionVars, deletionVars, swept, faults>>

CreateFails(p) ==
  /\ post[p] = "sent" /\ Fault
  /\ post' = [post EXCEPT ![p] = "failed"]
  /\ UNCHANGED <<deployed, flying, docs, provisionVars, deletionVars, swept>>

Gone(names) ==
  deployed' = [n \in Names |-> IF n \in names THEN Nobody ELSE deployed[n]]

\* It handles a DELETE, whoever deployed what has the name by now, ...
Delete(n) == Gone({n}) /\ UNCHANGED flying

\* ... fails to, or does so after the console has stopped waiting for r's answer.
DeleteFails == UNCHANGED <<deployed, flying>>
DeleteLate(n, r) == flying' = flying \cup {<<n, r>>} /\ UNCHANGED deployed

Land ==
  \E late \in flying :
    /\ Gone({late[1]})
    /\ flying' = flying \ {late}
    /\ UNCHANGED <<docs, provisionVars, post, deletionVars, swept, faults>>

-----------------------------------------------------------------------------
(* Provisions. *)

GoTo(p, next) == phase' = [phase EXCEPT ![p] = next]

\* async.eachLimit of one: the names are treated one after the other.
Current(p) == CHOOSE n \in todo[p] : TRUE
Tried(p)   == todo' = [todo EXCEPT ![p] = @ \ {Current(p)}]
AllOf(p)   == todo' = [todo EXCEPT ![p] = Nodes[p]]

Post(p) ==
  /\ phase[p] = "start"
  /\ GoTo(p, "posting")
  /\ post' = [post EXCEPT ![p] = "sent"]
  /\ UNCHANGED <<deployed, flying, docs, answer, todo, attempt, errs, doubled,
                 unsure, deletionVars, swept, faults>>

Hears(p, what, next) ==
  /\ phase[p] = "posting"
  /\ answer' = [answer EXCEPT ![p] = what]
  /\ GoTo(p, next)
  /\ UNCHANGED <<deployed, flying, docs, attempt, errs, doubled, post,
                 unsure, deletionVars, swept>>

Created(p) ==
  /\ post[p] = "created"
  /\ Hears(p, "created", "onboarding")
  /\ AllOf(p)
  /\ UNCHANGED faults

\* A bug of this shape: a 409 is cleaned up after like any other error.
RefusedCleansUp(p) ==
  /\ post[p] = "taken"
  /\ Hears(p, "taken", "cleaning")
  /\ AllOf(p)
  /\ UNCHANGED faults

\* 409: there is no clean-up.
Refused(p) ==
  /\ post[p] = "taken"
  /\ Hears(p, "taken", "failed")
  /\ UNCHANGED <<todo, faults>>

\* The deployer answers with an error after all, and names what it deployed.
Broken(p) ==
  /\ post[p] = "created"
  /\ Fault
  /\ Hears(p, "named", "cleaning")
  /\ AllOf(p)

\* A bug of this shape: without a name in the answer nothing is cleaned up.
NotById(p) == {}

\* What the clean-up knows by the id of the request: the name of a component, but
\* not the nodes of a cluster.
ById(p) == IF p \in Clusters THEN {} ELSE Nodes[p]

\* Any other answer that is an error, or no JSON.
Failed(p) ==
  /\ IF post[p] = "failed" THEN UNCHANGED faults ELSE Fault
  /\ Hears(p, "unnamed", "cleaning")
  /\ todo' = [todo EXCEPT ![p] = ById(p)]

\* No answer, or a timeout.  What stands for the body then is the error itself, whose
\* copy has the name "AxiosError": this is what the clean-up asks the deployer to
\* delete, and no component has it.
Lost(p) ==
  /\ Fault
  /\ Hears(p, "lost", "cleaning")
  /\ UNCHANGED todo

Doc(n, p) == [dep |-> n, of |-> p]

Written(p) ==
  \E i \in DocIds : /\ docs[i] = NoDoc
                     /\ docs' = [docs EXCEPT ![i] = Doc(Current(p), p)]

\* onboard_component: the document is written,
Record(p) ==
  /\ phase[p] = "onboarding" /\ todo[p] # {}
  /\ Written(p)
  /\ Tried(p)
  /\ attempt' = [attempt EXCEPT ![p] = 0]
  /\ UNCHANGED <<deployed, flying, phase, answer, errs, doubled, post,
                 unsure, deletionVars, swept, faults>>

\* A bug of this shape: one attempt too many.
ExhaustedLate(p) == attempt[p] > MaxAttempts

Exhausted(p) == attempt[p] >= MaxAttempts

\* or there is a document (of whatever kind) with the id, which is tried again
\* with another id, though it may be this very document: a write that was answered
\* with 408 is repeated,
Conflict(p) ==
  /\ phase[p] = "onboarding" /\ todo[p] # {}
  /\ \/ UNCHANGED <<docs, doubled, faults>>
     \/ Fault /\ Written(p) /\ doubled' = doubled \cup {Doc(Current(p), p)}
  /\ IF Exhausted(p)
     THEN /\ attempt' = [attempt EXCEPT ![p] = 0]
          /\ errs' = [errs EXCEPT ![p] = TRUE]
          /\ Tried(p)
     ELSE /\ attempt' = [attempt EXCEPT ![p] = @ + 1]
          /\ UNCHANGED <<todo, errs>>
  /\ UNCHANGED <<deployed, flying, phase, answer, post, unsure, deletionVars, swept>>

\* A bug of this shape: a write whose answer is lost is repeated after any error.
RecordFailsAgain(p) ==
  /\ phase[p] = "onboarding" /\ todo[p] # {}
  /\ Fault
  /\ UNCHANGED docs \/ Written(p)
  /\ UNCHANGED <<deployed, flying, phase, answer, todo, attempt, errs, doubled,
                 post, unsure, deletionVars, swept>>

\* or the write fails, or just its answer is lost.
RecordFails(p) ==
  /\ phase[p] = "onboarding" /\ todo[p] # {}
  /\ Fault
  /\ UNCHANGED docs \/ Written(p)
  /\ Tried(p)
  /\ attempt' = [attempt EXCEPT ![p] = 0]
  /\ errs' = [errs EXCEPT ![p] = TRUE]
  /\ UNCHANGED <<deployed, flying, phase, answer, doubled, post, unsure,
                 deletionVars, swept>>

\* A bug of this shape: the errors of add_bulk_components are not looked at.
NeverIncomplete(p) == FALSE

Incomplete(p) == errs[p]

\* All documents were tried.  If one failed all components are deleted, the
\* documents that were written stay.
Onboarded(p) ==
  /\ phase[p] = "onboarding" /\ todo[p] = {}
  /\ IF Incomplete(p) THEN GoTo(p, "cleaning") /\ AllOf(p)
                      ELSE GoTo(p, "ok") /\ UNCHANGED todo
  /\ UNCHANGED <<deployed, flying, docs, answer, attempt, errs, doubled, post,
                 unsure, deletionVars, swept, faults>>

\* clean_up_deployer_component: whatever comes of it is ignored.
CleanUp(p) ==
  /\ phase[p] = "cleaning" /\ todo[p] # {}
  /\ \/ Delete(Current(p)) /\ UNCHANGED <<unsure, faults>>
     \/ /\ Fault
        /\ DeleteFails \/ DeleteLate(Current(p), p)
        /\ unsure' = [unsure EXCEPT ![p] = @ \cup {Current(p)}]
  /\ Tried(p)
  /\ UNCHANGED <<docs, phase, answer, attempt, errs, doubled, post, deletionVars, swept>>

Nameless(p) == p \in Clusters /\ answer[p] = "unnamed"

\* When the nodes of a cluster are not known a component with the cluster's id
\* is deleted.  What becomes of the nodes is up to the deployer.
CleanUpCluster(p) ==
  /\ phase[p] = "cleaning" /\ Nameless(p)
  /\ \/ Gone(Nodes[p]) /\ UNCHANGED <<flying, faults>>
     \/ DeleteFails /\ UNCHANGED faults
     \/ Fault /\ flying' = flying \cup (Nodes[p] \X {p}) /\ UNCHANGED deployed
  /\ unsure' = [unsure EXCEPT ![p] = Nodes[p]]
  /\ GoTo(p, "failed")
  /\ UNCHANGED <<docs, answer, todo, attempt, errs, doubled, post, deletionVars, swept>>

CleanedUp(p) ==
  /\ phase[p] = "cleaning" /\ todo[p] = {} /\ ~ Nameless(p)
  /\ GoTo(p, "failed")
  /\ UNCHANGED <<deployed, flying, docs, answer, todo, attempt, errs, doubled, post,
                 unsure, deletionVars, swept, faults>>

-----------------------------------------------------------------------------
(* Deletions.  Those of several components at once (by tag, all) run for each *)
(* of them by themselves, side by side.                                       *)

Steps(d, next) == step' = [step EXCEPT ![d] = next]

Load(d) ==
  /\ step[d] = "start"
  /\ IF docs[Target[d]] = NoDoc
     THEN Steps(d, "error") /\ UNCHANGED loaded
     ELSE Steps(d, "loaded") /\ loaded' = [loaded EXCEPT ![d] = docs[Target[d]]]
  /\ UNCHANGED <<deployed, flying, docs, provisionVars, post, gave, removed,
                 swept, faults>>

\* A bug of this shape: every deletion is forced.
GoesOnAlways(d, what) == TRUE

\* 200 and 404 (and, if it is forced, any error) let it go on.
GoesOn(d, what) == what = "gone" \/ d \in Forced

Heard(d, what) ==
  /\ gave' = [gave EXCEPT ![d] = what]
  /\ Steps(d, IF GoesOn(d, what) THEN "asked" ELSE "error")

AskDelete(d) ==
  /\ step[d] = "loaded"
  /\ \/ Delete(loaded[d].dep) /\ Heard(d, "gone") /\ UNCHANGED faults
     \/ Fault /\ DeleteFails /\ Heard(d, "error")
     \/ Fault /\ DeleteLate(loaded[d].dep, d) /\ Heard(d, "late")
  /\ UNCHANGED <<docs, provisionVars, post, loaded, removed, swept>>

\* offboard_component: the document is loaded (again), for its type and name only.
\* Some requests come to it at once, without a DELETE at the deployer.
Offboard(d) ==
  /\ step[d] = "asked" \/ (d \in Offboards /\ step[d] = "start")
  /\ Steps(d, IF docs[Target[d]] = NoDoc THEN "error" ELSE "offboarding")
  /\ UNCHANGED <<deployed, flying, docs, provisionVars, post, loaded, gave,
                 removed, swept, faults>>

\* repeatDelete: reads the _rev and deletes that revision.  404 is as good.
RemoveDoc(d) ==
  /\ removed' = [removed EXCEPT ![d] = docs[Target[d]]]
  /\ docs' = [docs EXCEPT ![Target[d]] = NoDoc]

Remove(d) ==
  /\ step[d] = "offboarding"
  /\ RemoveDoc(d)
  /\ Steps(d, "done")
  /\ UNCHANGED <<deployed, flying, provisionVars, post, loaded, gave, swept, faults>>

\* An error, or just a lost answer; also a 409, if somebody was faster, as it is not
\* repeated (the error is compared with a number).
RemoveFails(d) ==
  /\ step[d] = "offboarding"
  /\ Fault
  /\ RemoveDoc(d) \/ UNCHANGED <<docs, removed>>
  /\ Steps(d, "error")
  /\ UNCHANGED <<deployed, flying, provisionVars, post, loaded, gave, swept>>

\* deprovision_component_without_doc: at the deployer only.
Sweep(s, n) ==
  /\ swept[s] = {}
  /\ \/ Delete(n) /\ UNCHANGED faults
     \/ Fault /\ DeleteLate(n, s)
  /\ swept' = [swept EXCEPT ![s] = {n}]
  /\ UNCHANGED <<docs, provisionVars, post, deletionVars>>

-----------------------------------------------------------------------------
Provision(p) ==
  \/ Post(p)
  \/ Deploy(p) \/ AlreadyExists(p) \/ CreateFails(p)
  \/ Created(p) \/ Refused(p) \/ Broken(p) \/ Failed(p) \/ Lost(p)
  \/ Record(p) \/ Conflict(p) \/ RecordFails(p) \/ Onboarded(p)
  \/ CleanUp(p) \/ CleanUpCluster(p) \/ CleanedUp(p)

Deletion(d) == Load(d) \/ AskDelete(d) \/ Offboard(d) \/ Remove(d) \/ RemoveFails(d)

Next ==
  \/ \E p \in Provisions : Provision(p)
  \/ \E d \in Deletions : Deletion(d)
  \/ \E s \in Sweeps, n \in Names : Sweep(s, n)
  \/ Land

Spec == Init /\ [][Next]_vars

-----------------------------------------------------------------------------
HasDoc(doc) == \E i \in DocIds : docs[i] = doc

\* p deletes what it asked for, as it was told neither of a success nor of a
\* component that is in the way.
CleansUp(p) == phase[p] \in {"cleaning", "failed"} /\ answer[p] # "taken"

\* r has a reason to have n deleted.
Means(r, n) ==
  \/ r \in Deletions /\ loaded[r] # NoDoc /\ loaded[r].dep = n
  \/ r \in Sweeps /\ n \in swept[r]
  \/ r \in Provisions /\ n \in Nodes[r] /\ CleansUp(r)

\* In this step a DELETE of n is handled, of a request that has a reason.
Deletes(n) ==
  \/ \E r \in Deletions : gave'[r] # gave[r] /\ Means(r, n)
  \/ \E r \in Sweeps : swept'[r] # swept[r] /\ Means(r, n)'
  \/ \E r \in Provisions : phase[r] = "cleaning" /\ provisionVars' # provisionVars /\ Means(r, n)
  \/ \E r \in Provisions \cup Deletions \cup Sweeps :
       <<n, r>> \in flying \ flying' /\ Means(r, n)

\* d has nothing to do with the component, only with the document.
RecordOnly(d) == loaded[d] = NoDoc

\* d removed the document though its component may still be there: it was asked for
\* no more, it was forced to, or what it deleted at the deployer belongs to the
\* document that was there before.
Abandoned(d, doc) ==
  removed[d] = doc /\ (RecordOnly(d) \/ gave[d] # "gone" \/ loaded[d] # doc)

\* What a successful provision deployed has a document, by which it can be seen
\* and deleted, as long as it is deployed: no failed write, clean-up or deletion of
\* something else leaves it without one (record_deployer_operation), nor does its own
\* deletion if the DELETE fails (send_deployer_delete_request).
NoOrphans ==
  \A p \in Provisions : \A n \in Nodes[p] :
    phase[p] = "ok" /\ deployed[n] = p =>
      \/ HasDoc(Doc(n, p))
      \/ \E d \in Deletions : Abandoned(d, Doc(n, p))

\* What is deployed stays until a deletion that had loaded a document of that
\* name, a deletion by name or the clean-up of a failed provision for it has it
\* deleted: never a provision that was told that the name is taken
\* (call_deployer, no clean-up on 409).  A document stays until a deletion of
\* its id removes it: after its DELETE worked, or if it is forced or is to remove no
\* more than that.
KeptUntilDeleted ==
  [][ /\ \A n \in Names : deployed[n] # Nobody /\ deployed'[n] # deployed[n] => Deletes(n)
      /\ \A i \in DocIds : docs[i] # NoDoc /\ docs'[i] # docs[i] =>
           \E d \in Deletions :
             /\ Target[d] = i /\ step[d] = "offboarding"
             /\ gave[d] = "gone" \/ d \in Forced \/ RecordOnly(d) ]_vars

\* After a failed provision that got an answer nothing it deployed is left, but what
\* the clean-up was not told to be deleted or was deployed after the answer
\* (clean_up_deployer_component, "prevents orphans").  Without an answer all is left.
FailureCleaned ==
  \A p \in Provisions : phase[p] = "failed" => \A n \in Nodes[p] :
    deployed[n] = p => post[p] = "late" \/ n \in unsure[p] \/ answer[p] = "lost"

\* A component has one document, however often ids conflict, unless its write was
\* repeated after it had succeeded (onboard_component tries again with another id
\* only after a 409 or 400).
OneDocEach ==
  \A i, j \in DocIds :
    docs[i] = docs[j] /\ docs[i] # NoDoc /\ docs[i] \notin doubled => i = j

\* After a deletion of a component that succeeded neither the document (if it was the only one)
\* nor the component it was for is there or comes back, unless it was forced and
\* went on after an error.
DeletedForGood ==
  \A d \in Deletions : step[d] = "done" /\ ~ RecordOnly(d) =>
    /\ HasDoc(loaded[d]) => loaded[d] \in doubled
    /\ deployed[loaded[d].dep] = loaded[d].of => d \in Forced /\ gave[d] # "gone"

=============================================================================

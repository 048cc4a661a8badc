------------------------------ MODULE Webhook ------------------------------
(***************************************************************************)
(* The document that tells how far a template has got                       *)
(* (libs/webhook_lib.js): the process that builds the components edits it   *)
(* after each (libs/template_lib.js), whoever asks for it marks it as timed *)
(* out when it was not edited for long, every process does so twice a day   *)
(* after asking the deployer, and users may edit it.  Each edit reads the   *)
(* document, changes it, and writes it with repeatWriteSafe; an edit that   *)
(* ends the transaction sends the document to the client's url before it is *)
(* written.                                                                 *)
(*                                                                          *)
(* Of the document the status, the steps and the notes (which components    *)
(* were tried) are modelled; messages, channel work, the time out and the   *)
(* messages to browsers are left out: a timeout_ms that a user sets is      *)
(* taken to pass like any other.  The client's url is set.  A document      *)
(* counts as fresh when it is written: a PUT is over long before its time   *)
(* stamp expires.                                                           *)
(***************************************************************************)
EXTENDS Naturals

CONSTANTS
  Size,         \* the number of components in the template
  Builder,      \* builds the components and edits the document
  Clients,      \* those who make one request: for the document, or to edit it
  Bodies,       \* the edits they may send, and what else the deployer may answer
  Sweepers,     \* the processes' intervals
  MaxAttempts,  \* repeatWriteSafe gives up after this many 409s (5 in the code)
  MaxFaults,    \* bound on the faults: failed requests and crashes
  NoDoc         \* there is no document

Editors == {Builder} \cup Clients \cup Sweepers

Final == {"error", "success"}
Statuses == Final \cup {"pending", "undoing"}

\* on_step begins at 1 and total_steps is one more than the components.
Documents == [status : Statuses, step : 1..Size + 1, total : 1..Size + 1,
              notes : SUBSET (1..Size)]

\* What an edit sets; 0 is no note and no step.
None == 0
Edits == [status : Statuses, note : {None} \cup 1..Size,
          step : {None} \cup 1..Size + 1, total : {None} \cup 1..Size + 1]

ASSUME ConstantsAssumption ==
  /\ Size \in Nat \ {0}
  /\ MaxAttempts \in Nat \ {0}
  /\ MaxFaults \in Nat
  /\ Bodies \subseteq Edits
  /\ NoDoc \notin Documents
  /\ Builder \notin Clients \cup Sweepers
  /\ Clients \cap Sweepers = {}

Steps == {"start", "build", "next", "idle", "seen", "ask", "read", "write", "end"}

VARIABLES
  doc,       \* the document in CouchDB
  age,       \* time since it was written: 0, 1 past timeout_ms, 2 and 15 s more
  pc,        \* where each editor is
  edit,      \* the data of its edit
  copy,      \* the changed document it is about to write
  current,   \* the editors who read the document as it is now
  attempt,   \* opts.attempt of its repeatWriteSafe
  at,        \* the component being built
  failed,    \* building a component failed
  deployer,  \* what the deployer says of the transaction
  told,      \* the document if it was sent to the client's url, and those sent since
  last,      \* the one that was sent last
  dropped,   \* an edit did not land although its document was sent
  touched,   \* someone else than the builder has set a step
  faults     \* the faults so far

edits == <<edit, copy, attempt>>
building == <<at, failed>>
sent == <<told, last, dropped>>
vars == <<doc, age, pc, edits, current, building, deployer, sent, touched, faults>>

NoEdit == [status |-> "pending", note |-> None, step |-> None, total |-> None]

Init ==
  /\ doc = NoDoc
  /\ age = 0
  /\ pc = [e \in Editors |-> IF e = Builder THEN "start" ELSE "idle"]
  /\ edit = [e \in Editors |-> NoEdit]
  /\ copy = [e \in Editors |-> NoDoc]
  /\ current = {}
  /\ attempt = [e \in Editors |-> 1]
  /\ at = 1
  /\ failed = FALSE
  /\ deployer = "pending"
  /\ told = {}
  /\ last = NoDoc
  /\ dropped = FALSE
  /\ touched = FALSE
  /\ faults = 0

Fault == faults < MaxFaults /\ faults' = faults + 1

-----------------------------------------------------------------------------
(* edit_webhook.                                                            *)

\* edit_webhook is called: it asks for the document.
Begin(e, data) ==
  /\ pc' = [pc EXCEPT ![e] = "read"]
  /\ edit' = [edit EXCEPT ![e] = data]
  /\ attempt' = [attempt EXCEPT ![e] = 1]
  /\ UNCHANGED copy

\* The steps in all after an edit.
Total(d, data) == IF data.total = None THEN d.total ELSE data.total

\* The document after an edit; the step set is no more than the steps in all.
Edited(d, data) ==
  [status |-> data.status,
   step |-> CASE data.step = None -> d.step
              [] data.step > Total(d, data) -> Total(d, data)
              [] OTHER -> data.step,
   total |-> Total(d, data),
   notes |-> IF data.note = None THEN d.notes ELSE d.notes \cup {data.note}]

\* Mutant of After: the interval is a timeout, which fires once.
AfterOnce(e) == IF e = Builder THEN "next" ELSE "end"

\* Where an editor is after its edit, or after it lost interest.
After(e) == IF e = Builder THEN "next" ELSE IF e \in Sweepers THEN "idle" ELSE "end"

\* The edit of e is over; its caller does not look at errors.
Done(e) ==
  /\ pc' = [pc EXCEPT ![e] = After(e)]
  /\ edit' = [edit EXCEPT ![e] = NoEdit]
  /\ copy' = [copy EXCEPT ![e] = NoDoc]
  /\ attempt' = [attempt EXCEPT ![e] = 1]

\* e has sent a document that ends the transaction, and has not landed it.
HasTold(e) == edit[e].status \in Final /\ (pc[e] = "write" \/ attempt[e] > 1)

\* The edit of e is given up, perhaps after its document was sent.
GivesUp(e) ==
  /\ Done(e)
  /\ dropped' = (dropped \/ HasTold(e))
  /\ UNCHANGED <<told, last>>

\* Mutant of Tells: a document that was sent before is not sent again.
TellsNew(e, d) == IF edit[e].status \in Final /\ d \notin told THEN {d} ELSE {}

\* Mutant of Tells: the client is sent the document at the first attempt only.
TellsOnce(e, d) == IF edit[e].status \in Final /\ attempt[e] = 1 THEN {d} ELSE {}

\* finish_webhook, called by the function that changes the document.
Tells(e, d) == IF edit[e].status \in Final THEN {d} ELSE {}

\* The document comes and is changed; the answer of finish_webhook is not awaited.
Read(e) ==
  /\ pc[e] = "read"
  /\ doc # NoDoc
  /\ LET new == Edited(doc, edit[e])
     IN /\ copy' = [copy EXCEPT ![e] = new]
        /\ told' = told \cup Tells(e, new)
        /\ last' = IF Tells(e, new) = {} THEN last ELSE new
  /\ current' = current \cup {e}
  /\ pc' = [pc EXCEPT ![e] = "write"]
  /\ UNCHANGED <<doc, age, edit, attempt, building, deployer, dropped, touched, faults>>

\* There is no document, or the request fails.
ReadFails(e) ==
  /\ pc[e] = "read"
  /\ (doc = NoDoc /\ UNCHANGED faults) \/ Fault
  /\ GivesUp(e)
  /\ UNCHANGED <<doc, age, current, building, deployer, touched>>

\* Mutant of Accepted: the write is forced.
AcceptedAlways(e) == TRUE

\* CouchDB takes a write with the _rev of the document.
Accepted(e) == e \in current

\* The edit of e sets steps.
SetsSteps(e) == edit[e].step # None \/ edit[e].total # None

\* The write lands, whether or not its answer arrives.
Write(e) ==
  /\ pc[e] = "write"
  /\ Accepted(e)
  /\ doc' = copy[e]
  /\ age' = 0
  /\ current' = {}
  /\ Done(e)
  /\ touched' = (touched \/ (e # Builder /\ SetsSteps(e)))
  /\ told' = told \cap {copy[e]}
  /\ UNCHANGED <<building, deployer, last, dropped, faults>>

\* Mutant of Conflict: it never gives up.
ConflictAgain(e) ==
  /\ pc[e] = "write"
  /\ ~Accepted(e)
  /\ pc' = [pc EXCEPT ![e] = "read"]
  /\ copy' = [copy EXCEPT ![e] = NoDoc]
  /\ attempt' = [attempt EXCEPT ![e] = @ + 1]
  /\ UNCHANGED <<doc, age, edit, current, building, deployer, sent, touched, faults>>

\* A 409: the document is read again and changed anew, or e gives up.
Conflict(e) ==
  /\ pc[e] = "write"
  /\ ~Accepted(e)
  /\ IF attempt[e] = MaxAttempts
     THEN GivesUp(e)
     ELSE /\ pc' = [pc EXCEPT ![e] = "read"]
          /\ copy' = [copy EXCEPT ![e] = NoDoc]
          /\ attempt' = [attempt EXCEPT ![e] = @ + 1]
          /\ UNCHANGED <<edit, sent>>
  /\ UNCHANGED <<doc, age, current, building, deployer, touched, faults>>

\* The write fails and does not land.
WriteFails(e) ==
  /\ pc[e] = "write"
  /\ Fault
  /\ GivesUp(e)
  /\ current' = current \ {e}
  /\ UNCHANGED <<doc, age, building, deployer, touched>>

EditGoesOn(e) == Read(e) \/ ReadFails(e) \/ Write(e) \/ Conflict(e) \/ WriteFails(e)

-----------------------------------------------------------------------------
(* The template.                                                            *)

\* store_webhook_doc: the building begins whether or not the document was
\* stored, and whether or not the answer said so.
Start ==
  /\ pc[Builder] = "start"
  /\ \/ /\ doc' = [status |-> "pending", step |-> 1, total |-> Size + 1, notes |-> {}]
        /\ UNCHANGED faults
     \/ Fault /\ UNCHANGED doc
  /\ pc' = [pc EXCEPT ![Builder] = "build"]
  /\ UNCHANGED <<age, edits, current, building, deployer, sent, touched>>

\* A component was built, or was not; update_wh says which it was.
Build ==
  /\ pc[Builder] = "build"
  /\ failed' \in BOOLEAN
  /\ Begin(Builder, [NoEdit EXCEPT !.note = at, !.step = at + 1])
  /\ UNCHANGED <<doc, age, current, at, deployer, sent, touched, faults>>

\* The next component after the edit for one, the last edit, or the end.  The
\* last edit is the only one made when the builder is past its components.
NextComponent ==
  /\ pc[Builder] = "next"
  /\ \/ /\ at < Size /\ ~failed
        /\ at' = at + 1
        /\ pc' = [pc EXCEPT ![Builder] = "build"]
        /\ UNCHANGED edits
     \/ /\ at <= Size
        /\ at = Size \/ failed
        /\ at' = Size + 1
        /\ Begin(Builder, [NoEdit EXCEPT !.status = IF failed THEN "error" ELSE "success"])
     \/ /\ at = Size + 1
        /\ pc' = [pc EXCEPT ![Builder] = "end"]
        /\ UNCHANGED <<at, edits>>
  /\ UNCHANGED <<doc, age, current, failed, deployer, sent, touched, faults>>

-----------------------------------------------------------------------------
(* Those who find the document expired, and users.                          *)

TimedOut == [NoEdit EXCEPT !.status = "error"]

\* A GET finds the document pending, a sweep has it in its list.
Finds(e) == doc # NoDoc /\ doc.status = "pending"

\* get_webhook and expire_old_webhooks read.  (If they find nothing, or the
\* request fails, they change nothing.)
Look(e) ==
  /\ pc[e] = "idle"
  /\ Finds(e)
  /\ pc' = [pc EXCEPT ![e] = "seen"]
  /\ current' = current \cup {e}
  /\ UNCHANGED <<doc, age, edits, building, deployer, sent, touched, faults>>

\* webhook_is_expired; a sweep adds 15 s.  What a document that was written since
\* it was read has for a time stamp is not kept: it may be found either way.
Expired(e) == age >= IF e \in Sweepers THEN 2 ELSE 1

\* It is not expired.
Leave(e) ==
  /\ pc[e] = "seen"
  /\ e \in current => ~Expired(e)
  /\ pc' = [pc EXCEPT ![e] = After(e)]
  /\ current' = current \ {e}
  /\ UNCHANGED <<doc, age, edits, building, deployer, sent, touched, faults>>

\* get_webhook: it is, so expire it.
Expire(c) ==
  /\ pc[c] = "seen"
  /\ c \in current => Expired(c)
  /\ Begin(c, TimedOut)
  /\ current' = current \ {c}
  /\ UNCHANGED <<doc, age, building, deployer, sent, touched, faults>>

\* expire_old_webhooks: it is, so ask the deployer.
Ask(s) ==
  /\ pc[s] = "seen"
  /\ s \in current => Expired(s)
  /\ pc' = [pc EXCEPT ![s] = "ask"]
  /\ current' = current \ {s}
  /\ UNCHANGED <<doc, age, edits, building, deployer, sent, touched, faults>>

\* What the deployer says is taken over as it is; without a status in it the
\* document is expired.
Answer(s) ==
  /\ pc[s] = "ask"
  /\ \E data \in {TimedOut} \cup {[body EXCEPT !.status = deployer] : body \in Bodies} :
       Begin(s, data)
  /\ UNCHANGED <<doc, age, current, building, deployer, sent, touched, faults>>

\* A user edits the document, with whatever the body of the PUT sets.  (A status
\* that is not in Statuses is refused.)
SetStatus(c) ==
  /\ pc[c] = "idle"
  /\ \E body \in Bodies : Begin(c, body)
  /\ UNCHANGED <<doc, age, current, building, deployer, sent, touched, faults>>

-----------------------------------------------------------------------------
\* The process of an editor dies.
Crash(e) ==
  /\ pc[e] \notin {"idle", "start", "end"}
  /\ Fault
  /\ pc' = [pc EXCEPT ![e] = IF e \in Sweepers THEN "idle" ELSE "end"]
  /\ edit' = [edit EXCEPT ![e] = NoEdit]
  /\ copy' = [copy EXCEPT ![e] = NoDoc]
  /\ attempt' = [attempt EXCEPT ![e] = 1]
  /\ current' = current \ {e}
  /\ dropped' = (dropped \/ HasTold(e))
  /\ UNCHANGED <<doc, age, building, deployer, told, last, touched>>

\* Time passes.
Tick ==
  /\ doc # NoDoc
  /\ age < 2
  /\ age' = age + 1
  /\ UNCHANGED <<doc, pc, edits, current, building, deployer, sent, touched, faults>>

\* The deployer is done.  (That it failed, or does not know the transaction, is
\* taken for an error like no answer, which Answer has at any time.)
DeployerEnds ==
  /\ deployer = "pending"
  /\ deployer' = "success"
  /\ UNCHANGED <<doc, age, pc, edits, current, building, sent, touched, faults>>

Builds == Start \/ Build \/ NextComponent \/ EditGoesOn(Builder)
Asks(c) == Look(c) \/ Leave(c) \/ Expire(c) \/ SetStatus(c) \/ EditGoesOn(c)
Sweeps(s) == Look(s) \/ Leave(s) \/ Ask(s) \/ Answer(s) \/ EditGoesOn(s)

Next ==
  \/ Builds
  \/ \E c \in Clients : Asks(c)
  \/ \E s \in Sweepers : Sweeps(s)
  \/ \E e \in Editors : Crash(e)
  \/ Tick
  \/ DeployerEnds

Spec == Init /\ [][Next]_vars

\* The builder and the intervals go on, and so does what others began; nobody has
\* to ask for the document.
FairSpec ==
  /\ Spec
  /\ WF_vars(Builds)
  /\ \A s \in Sweepers : WF_vars(Sweeps(s))
  /\ \A c \in Clients : WF_vars(EditGoesOn(c))
  /\ WF_vars(Tick)
  /\ WF_vars(DeployerEnds)

-----------------------------------------------------------------------------
(* Properties.                                                              *)

\* What the variables hold; repeated writes are bounded (repeatWriteSafe).
TypeOK ==
  /\ doc \in Documents \cup {NoDoc}
  /\ age \in 0..2
  /\ pc \in [Editors -> Steps]
  /\ edit \in [Editors -> Edits]
  /\ copy \in [Editors -> Documents \cup {NoDoc}]
  /\ current \subseteq Editors
  /\ attempt \in [Editors -> 1..MaxAttempts]
  /\ at \in 1..Size + 1
  /\ failed \in BOOLEAN
  /\ deployer \in Statuses
  /\ told \subseteq Documents
  /\ last \in Documents \cup {NoDoc}
  /\ dropped \in BOOLEAN
  /\ touched \in BOOLEAN
  /\ faults \in 0..MaxFaults

\* When the document says that the transaction has ended, its client has been sent
\* exactly this document, though it is sent before the write, which may be
\* repeated over what others wrote (webhook_lib.js:459).
ToldTheOutcome == doc # NoDoc /\ doc.status \in Final => doc \in told

\* What the client was sent last is the outcome that the document has, once those
\* who have sent theirs have written it, unless one of them could not: the function
\* that repeatWriteSafe repeats sends the document again when others wrote or sent
\* theirs in between (webhook_lib.js:462).
OutcomeToldLast ==
  doc # NoDoc /\ doc.status \in Final /\ ~dropped /\ (\A e \in Editors : ~HasTold(e))
    => last = doc

\* No edit takes back another's progress by mistake: components that were noted
\* stay noted, though every edit writes the whole document, and the step goes back
\* only by an edit that sets it: never by the builder's, unless someone else has
\* set the steps (edit_webhook).
ProgressKept ==
  [][doc # NoDoc =>
       /\ doc' # NoDoc
       /\ doc.notes \subseteq doc'.notes
       /\ doc'.step < doc.step =>
            \E e \in Editors :
              /\ pc[e] = "write" /\ pc'[e] # "write"
              /\ edit[e].step # None
              /\ e = Builder => touched]_vars

(* The inductive invariant behind these properties. *)

\* A copy that is still current was made of the document as it is.
CopiesOfTheDoc ==
  \A e \in current :
    /\ doc # NoDoc
    /\ pc[e] \in {"seen", "write"}
    /\ pc[e] = "write" => copy[e] = Edited(doc, edit[e])

\* The client was sent what an editor may write, if it ends the transaction.
ToldFirst ==
  \A e \in current : pc[e] = "write" /\ edit[e].status \in Final => copy[e] \in told

\* The builder's edits set its step, and as long as nobody else sets steps the
\* document is not ahead of it.
StepsOfTheBuilder ==
  /\ pc[Builder] = "start" => doc = NoDoc
  /\ pc[Builder] \in {"start", "build"} => at <= Size
  /\ edit[Builder].total = None
  /\ edit[Builder].step # None =>
       pc[Builder] \in {"read", "write"} /\ edit[Builder].step = at + 1
  /\ doc # NoDoc /\ ~touched =>
       doc.total = Size + 1 /\ doc.step <= IF pc[Builder] = "build" THEN at ELSE at + 1

\* Only an edit has attempts, and writes a document.
EditsUnderWay ==
  \A e \in Editors :
    /\ pc[e] = "write" => copy[e] # NoDoc
    /\ pc[e] \notin {"read", "write"} => attempt[e] = 1

\* What was sent last is the document, or what replaces it if nothing is written
\* in between, or that of someone who has sent it and not written it.
LastTold ==
  /\ doc # NoDoc /\ doc.status \in Final /\ ~dropped
       => last = doc \/ \E e \in Editors : HasTold(e)
  /\ \A e \in current :
       pc[e] = "write" /\ edit[e].status \in Final /\ ~dropped
         => last = copy[e] \/ \E f \in Editors \ {e} : HasTold(f)

IInv ==
  /\ TypeOK
  /\ CopiesOfTheDoc
  /\ ToldFirst
  /\ StepsOfTheBuilder
  /\ EditsUnderWay
  /\ LastTold
  /\ ToldTheOutcome

\* A transaction does not stay pending for ever, though its builder may die and
\* edits that were decided before it ended may set it back.
Settles == <>[](doc # NoDoc => doc.status # "pending")

=============================================================================

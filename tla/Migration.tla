------------------------------ MODULE Migration ------------------------------
(***************************************************************************)
(* The migration of a console to another cluster, libs/migration_lib.js and *)
(* the messages app.js reacts to.  No process leads it.  A request starts   *)
(* it, then every athena process polls the step under way, and whichever    *)
(* sees the step done marks that in the settings document, frees the        *)
(* migration lock, takes it again and begins the next step.  "Poll" and     *)
(* "pause" messages go to all processes over the change feed of CouchDB.    *)
(*                                                                          *)
(* A chain is one run of callbacks: a start request, or one tick of the     *)
(* polling interval of a process with all that follows from it.  A chain    *)
(* reads the settings document and writes it back with the _rev it read;    *)
(* current holds the chains whose copy still has the document's _rev, and   *)
(* only they can write (see CouchDocs).  lockCurrent is the same for the    *)
(* lock document.  release reads and writes without looking at the owner:   *)
(* when its write is refused another chain has just released the lock or    *)
(* just taken it, so it acts as if it had run before that write.            *)
(*                                                                          *)
(* Left out: the contents of the migrated data (see BackupRestore), the     *)
(* read-only flag, marking the migrated components, user names and keys.    *)
(***************************************************************************)
EXTENDS Integers, Sequences, FiniteSets

CONSTANTS
  Processes,  \* the athena processes
  Starters,   \* the chains that are start requests
  Pollers,    \* the chains that are ticks of a polling interval
  Home,       \* Home[c]: the process chain c runs in
  Nobody,     \* no chain has the lock
  MaxPending, \* bound on the messages a process has not got yet
  MaxFaults,  \* bound on failed requests and restarts
  MaxPosts    \* posts to the deployer are not counted beyond this

Chains == Starters \cup Pollers

ASSUME ConstantsAssumption ==
  /\ Home \in [Chains -> Processes]
  /\ Starters \cap Pollers = {}
  /\ Nobody \notin Chains
  /\ MaxPending \in Nat /\ MaxFaults \in Nat
  /\ MaxPosts \in Nat \ {0}

\* The four steps; the first three are the deployer's work (jupiter), the last
\* one copies the databases to the new console.
Steps == {"ingress", "comps", "console", "db"}

Earlier(s) ==
  CASE s = "ingress" -> {}
    [] s = "comps"   -> {"ingress"}
    [] s = "console" -> {"ingress", "comps"}
    [] s = "db"      -> {"ingress", "comps", "console"}

Following(s) ==
  CASE s = "ingress" -> "comps"
    [] s = "comps"   -> "console"
    [] OTHER         -> "db"

VARIABLES
  doc,        \* migration_status and migrated_console_url of the settings document
  current,    \* the chains whose copy of it has its _rev
  lock,       \* the chain the migration lock was last awarded to, while it is valid
  lockCurrent,\* the chains whose copy of the lock document has its _rev
  pc,         \* where each chain is
  step,       \* the step each chain works on
  monitor,    \* the step each process polls, or "off"
  inbox,      \* the messages each process has not seen yet, oldest first
  url,        \* the processes that know the new console's url (ev.MIGRATED_CONSOLE_URL)
  posts,      \* how often the work of each step was asked for
  ready,      \* the steps whose work is done
  late,       \* the time a migration may take is over
  started,    \* the start requests that were made
  faults      \* how many requests failed and processes restarted

docVars == <<doc, current>>
lockVars == <<lock, lockCurrent>>
chainVars == <<pc, step>>
feedVars == <<monitor, inbox>>
workVars == <<posts, ready>>
restVars == <<url, late, started, faults>>
vars == <<docVars, lockVars, chainVars, feedVars, workVars, restVars>>

MigrationStatus ==
  [timed : BOOLEAN,     \* ingress_start_ts is set
   done : BOOLEAN,      \* db_finish_ts is set: get_status shows the last step as done
   complete : BOOLEAN,  \* migration_complete
   error : BOOLEAN,     \* error_msg is not empty
   url : BOOLEAN]       \* migrated_console_url is set

Labels ==
  {"idle", "apply", "award", "clear", "clearing", "begin", "beginning", "post",
   "store", "storing", "announce", "wait", "finish", "finishing",
   "release", "complete", "completing", "fail", "failing", "unlock"}

\* The steps whose end is polled; the restore is waited for.
Polled == Steps \ {"db"}

Messages == Polled \cup {"pause"}

Types ==
  /\ doc \in MigrationStatus
  /\ current \subseteq Chains /\ lockCurrent \subseteq Chains
  /\ lock \in Chains \cup {Nobody}
  /\ pc \in [Chains -> Labels]
  /\ step \in [Chains -> Steps]
  /\ monitor \in [Processes -> Polled \cup {"off"}]
  /\ inbox \in [Processes -> Seq(Messages)]
  /\ url \subseteq Processes
  /\ posts \in [Steps -> 0..MaxPosts]
  /\ ready \subseteq Steps
  /\ late \in BOOLEAN
  /\ started \subseteq Starters
  /\ faults \in 0..MaxFaults

\* A chain that is about to tell the others to poll has a step that is polled.
AnnouncesPolled ==
  \A c \in Chains : pc[c] \in {"store", "storing", "announce"} => step[c] \in Polled

TypeOK == Types /\ AnnouncesPolled

Init ==
  /\ doc = [timed |-> FALSE, done |-> FALSE, complete |-> FALSE, error |-> FALSE, url |-> FALSE]
  /\ current = {} /\ lockCurrent = {}
  /\ lock = Nobody
  /\ pc = [c \in Chains |-> "idle"]
  /\ step = [c \in Chains |-> "ingress"]
  /\ monitor = [p \in Processes |-> "off"]
  /\ inbox = [p \in Processes |-> <<>>]
  /\ url = {}
  /\ posts = [s \in Steps |-> 0]
  /\ ready = {}
  /\ late = FALSE
  /\ started = {}
  /\ faults = 0

-----------------------------------------------------------------------------
\* An idle chain has no step of its own.
GoTo(c, label) ==
  /\ pc' = [pc EXCEPT ![c] = label]
  /\ step' = IF label = "idle" THEN [step EXCEPT ![c] = "ingress"] ELSE step

\* A request of c to CouchDB fails, and c goes on at label.
Fails(c, label) ==
  /\ faults < MaxFaults
  /\ faults' = faults + 1
  /\ GoTo(c, label)
  /\ UNCHANGED current

\* m right behind another m changes nothing and is left out.
Behind(q, m) == IF q # <<>> /\ q[Len(q)] = m THEN q ELSE Append(q, m)

\* pillow.broadcast: a message document that every process gets, in order.
Broadcast(m) ==
  /\ \A p \in Processes : Len(inbox[p]) < MaxPending
  /\ inbox' = [p \in Processes |-> Behind(inbox[p], m)]
  /\ UNCHANGED monitor

\* c broadcasts m and goes on at label.
Tell(c, m, label) ==
  /\ Broadcast(m)
  /\ GoTo(c, label)
  /\ UNCHANGED <<docVars, lockVars, workVars, restVars>>

\* c reads the settings document and goes on at label, at failed if it cannot.
ReadDoc(c, label, failed) ==
  /\ \/ current' = current \cup {c} /\ GoTo(c, label) /\ UNCHANGED faults
     \/ Fails(c, failed)
  /\ UNCHANGED <<doc, lockVars, workVars, url, late, started>>

\* pause_checking with the read that is sent right after it.
PauseAndRead(c, label, failed) == Broadcast("pause") /\ ReadDoc(c, label, failed)

\* c writes the settings document d and goes on at ok; if its copy is old
\* CouchDB answers 409 and c goes on at refused.
WriteDoc(c, d, ok, refused) ==
  \/ /\ c \in current
     /\ doc' = d
     /\ current' = {}
     /\ GoTo(c, ok)
  \/ /\ c \notin current
     /\ GoTo(c, refused)
     /\ UNCHANGED docVars

-----------------------------------------------------------------------------
\* A user starts the migration: POST .../migration/start, then migrate_ingress
\* unless a node has too old a version of fabric.
Start(c) ==
  /\ c \in Starters \ started
  /\ started' = started \cup {c}
  /\ \E label \in {"apply", "fail"} : pc' = [pc EXCEPT ![c] = label]
  /\ step' = [step EXCEPT ![c] = "ingress"]
  /\ UNCHANGED <<docVars, lockVars, feedVars, workVars, url, late, faults>>

\* The polling interval of c's process ticks and c is free.  A message arrives
\* before the next tick, 25 seconds later.
Ticks(c) ==
  /\ c \in Pollers /\ pc[c] = "idle"
  /\ monitor[Home[c]] # "off"
  /\ inbox[Home[c]] = <<>>

\* Without a start time the elapsed time is that since 1970, which is too long.
TimeIsOver == late \/ ~doc.timed

\* check_migration_status reads the settings, the time is over, and it tells all
\* processes to stop polling.
PollLate(c) == Ticks(c) /\ TimeIsOver /\ Tell(c, "pause", "idle")

\* Mutant of PollDone: the answer is not looked at.
PollPosted(c) ==
  /\ Ticks(c)
  /\ ~TimeIsOver
  /\ posts[monitor[Home[c]]] > 0
  /\ monitor[Home[c]] = "console" => Home[c] \in url
  /\ step' = [step EXCEPT ![c] = monitor[Home[c]]]
  /\ pc' = [pc EXCEPT ![c] = "finish"]
  /\ UNCHANGED <<docVars, lockVars, feedVars, workVars, restVars>>

\* There is time, and check_ingress, check_components or check_console finds its
\* step done.  If it is not done or there is no answer, nothing happens until
\* the next tick.
PollDone(c) ==
  /\ Ticks(c)
  /\ ~TimeIsOver
  /\ monitor[Home[c]] \in ready
  /\ monitor[Home[c]] = "console" => Home[c] \in url
  /\ step' = [step EXCEPT ![c] = monitor[Home[c]]]
  /\ pc' = [pc EXCEPT ![c] = "finish"]
  /\ UNCHANGED <<docVars, lockVars, feedVars, workVars, restVars>>

-----------------------------------------------------------------------------
\* A step that is refused the lock ends its chain, except that the start request
\* is told, which records an error.
Refused(c) == IF step[c] = "ingress" THEN "fail" ELSE "idle"

\* lock_lib.apply, its read: a valid lock is refused to all but the first step.
Apply(c) ==
  /\ pc[c] = "apply"
  /\ \/ /\ lock = Nobody \/ step[c] = "ingress"
        /\ lockCurrent' = lockCurrent \cup {c}
        /\ GoTo(c, "award")
        /\ UNCHANGED <<lock, restVars>>
     \/ /\ lock # Nobody /\ step[c] # "ingress"
        /\ GoTo(c, Refused(c))
        /\ UNCHANGED <<lockVars, restVars>>
  /\ UNCHANGED <<docVars, feedVars, workVars>>

\* What follows the lock.
AfterAward(c) == IF step[c] = "ingress" THEN "clear" ELSE "begin"

\* lock_lib.apply, its write.
Award(c) ==
  /\ pc[c] = "award"
  /\ \/ /\ c \in lockCurrent
        /\ lock' = c
        /\ lockCurrent' = {}
        /\ GoTo(c, AfterAward(c))
     \/ /\ c \notin lockCurrent
        /\ GoTo(c, Refused(c))
        /\ UNCHANGED lockVars
  /\ UNCHANGED <<docVars, feedVars, workVars, restVars>>

\* The lease of the lock ends: one to four minutes, whatever its owner does.
LeaseEnds ==
  /\ lock # Nobody
  /\ lock' = Nobody
  /\ UNCHANGED <<lockCurrent, docVars, chainVars, feedVars, workVars, restVars>>

-----------------------------------------------------------------------------
\* clear_migration_status; migrate_ingress does not look at its errors.
Clear(c) == pc[c] = "clear" /\ ReadDoc(c, "clearing", "begin") /\ UNCHANGED feedVars

Cleared(d) == [d EXCEPT !.timed = FALSE, !.done = FALSE, !.complete = FALSE, !.error = FALSE]

WriteClear(c) ==
  /\ pc[c] = "clearing"
  /\ WriteDoc(c, Cleared(doc), "begin", "begin")
  /\ UNCHANGED <<lockVars, feedVars, workVars, restVars>>

\* change_migration_step_status(.., in progress), its read; migrate_dbs pauses
\* the polling first.
Begin(c) ==
  /\ pc[c] = "begin"
  /\ \/ step[c] = "db" /\ PauseAndRead(c, "beginning", "fail")
     \/ step[c] # "db" /\ ReadDoc(c, "beginning", "fail") /\ UNCHANGED feedVars

\* What follows the mark: the deployer's work; but a process that does not know
\* the new console cannot copy the databases to it.
AfterBegin(c) == IF step[c] = "db" /\ Home[c] \notin url THEN "fail" ELSE "post"

\* The time stamps of the other steps are only shown.
Begun(d, s) == [d EXCEPT !.timed = @ \/ s = "ingress", !.done = @ /\ s # "db"]

\* Its write.  A write that is refused is taken for one that landed.
WriteBegin(c) ==
  /\ pc[c] = "beginning"
  /\ WriteDoc(c, Begun(doc, step[c]), AfterBegin(c), AfterBegin(c))
  /\ late' = (late /\ ~(step[c] = "ingress" /\ c \in current))
  /\ UNCHANGED <<lockVars, feedVars, workVars, url, started, faults>>

Posted(s) == posts' = [posts EXCEPT ![s] = IF @ < MaxPosts THEN @ + 1 ELSE @]

\* Mutant of AfterPost: the restore is announced like the work of the deployer.
AfterPostAnnounces(c) == IF step[c] = "console" THEN "store" ELSE "announce"

\* What follows a POST that was answered well.
AfterPost(c) ==
  CASE step[c] = "console" -> "store"
    [] step[c] = "db" -> "wait"
    [] OTHER -> "announce"

\* The POST to the deployer, or the restore sent to the new console.  It is
\* accepted, or refused, or accepted without an answer in time.  An earlier
\* attempt may have done the ingress or the components: when the deployer says
\* so the POST is not sent.
Post(c) ==
  /\ pc[c] = "post"
  /\ \/ Posted(step[c]) /\ (GoTo(c, AfterPost(c)) \/ GoTo(c, "fail"))
     \/ GoTo(c, "fail") /\ UNCHANGED posts
     \/ step[c] \in {"ingress", "comps"} \cap ready /\ GoTo(c, "announce") /\ UNCHANGED posts
  /\ UNCHANGED <<docVars, lockVars, feedVars, ready, restVars>>

\* store_console_url: the process knows the url before the document does, and
\* deploy_console does not look at its errors.
StoreUrl(c) ==
  /\ pc[c] = "store"
  /\ \/ /\ current' = current \cup {c}
        /\ url' = url \cup {Home[c]}
        /\ GoTo(c, "storing")
        /\ UNCHANGED faults
     \/ Fails(c, "announce") /\ UNCHANGED url
  /\ UNCHANGED <<doc, lockVars, feedVars, workVars, late, started>>

WriteUrl(c) ==
  /\ pc[c] = "storing"
  /\ WriteDoc(c, [doc EXCEPT !.url = TRUE], "announce", "announce")
  /\ UNCHANGED <<lockVars, feedVars, workVars, restVars>>

\* Tell every process to poll the step.
Announce(c) == pc[c] = "announce" /\ Tell(c, step[c], "idle")

\* wait_for_restore: until the webhook of the restore has ended, or too long.
Wait(c) ==
  /\ pc[c] = "wait"
  /\ \/ step[c] \in ready /\ GoTo(c, "finish")
     \/ GoTo(c, "fail")
  /\ UNCHANGED <<docVars, lockVars, feedVars, workVars, restVars>>

-----------------------------------------------------------------------------
\* change_migration_step_status(.., done), its read.  After a restore nobody
\* looks at its errors.
Finish(c) ==
  /\ pc[c] = "finish"
  /\ \/ step[c] = "db" /\ ReadDoc(c, "finishing", "complete") /\ UNCHANGED feedVars
     \/ step[c] # "db" /\ PauseAndRead(c, "finishing", "idle")

AfterFinish(c) == IF step[c] = "db" THEN "complete" ELSE "release"

Finished(d, s) == [d EXCEPT !.done = @ \/ s = "db"]

\* Its write; again, refused is taken for done.
WriteFinish(c) ==
  /\ pc[c] = "finishing"
  /\ WriteDoc(c, Finished(doc, step[c]), AfterFinish(c), AfterFinish(c))
  /\ UNCHANGED <<lockVars, feedVars, workVars, restVars>>

\* Mutant of Release: the lock is kept for the next step.
ReleaseNot(c) ==
  /\ pc[c] = "release"
  /\ pc' = [pc EXCEPT ![c] = "apply"]
  /\ step' = [step EXCEPT ![c] = Following(@)]
  /\ UNCHANGED <<docVars, lockVars, feedVars, workVars, restVars>>

\* Free the lock, whoever has it, and go on with the next step.  An error of
\* release is not looked at.
Release(c) ==
  /\ pc[c] = "release"
  /\ pc' = [pc EXCEPT ![c] = "apply"]
  /\ step' = [step EXCEPT ![c] = Following(@)]
  /\ \/ lock' = Nobody /\ lockCurrent' = {} /\ UNCHANGED faults
     \/ faults < MaxFaults /\ faults' = faults + 1 /\ UNCHANGED lockVars
  /\ UNCHANGED <<docVars, feedVars, workVars, url, late, started>>

-----------------------------------------------------------------------------
\* finish_migration.
Complete(c) == pc[c] = "complete" /\ PauseAndRead(c, "completing", "idle")

WriteComplete(c) ==
  /\ pc[c] = "completing"
  /\ WriteDoc(c, [doc EXCEPT !.complete = TRUE], "idle", "idle")
  /\ UNCHANGED <<lockVars, feedVars, workVars, restVars>>

\* record_error: the lock is freed only when the error could be written.
RecordError(c) == pc[c] = "fail" /\ PauseAndRead(c, "failing", "idle")

WriteFail(c) ==
  /\ pc[c] = "failing"
  /\ WriteDoc(c, [doc EXCEPT !.error = TRUE], "unlock", "idle")
  /\ UNCHANGED <<lockVars, feedVars, workVars, restVars>>

Unlock(c) ==
  /\ pc[c] = "unlock"
  /\ GoTo(c, "idle")
  /\ lock' = Nobody /\ lockCurrent' = {}
  /\ UNCHANGED <<docVars, feedVars, workVars, restVars>>

-----------------------------------------------------------------------------
\* Process p gets its next message: poll that step from now on, or stop.
Receive(p) ==
  /\ inbox[p] # <<>>
  /\ monitor' = [monitor EXCEPT ![p] = IF Head(inbox[p]) = "pause" THEN "off" ELSE Head(inbox[p])]
  /\ inbox' = [inbox EXCEPT ![p] = Tail(@)]
  /\ UNCHANGED <<docVars, lockVars, chainVars, workVars, restVars>>

\* The work of a step that was asked for gets done (by the deployer, or the
\* restore in the new console).
GetsReady(s) ==
  /\ posts[s] > 0
  /\ ready' = ready \cup {s}
  /\ UNCHANGED <<docVars, lockVars, chainVars, feedVars, posts, restVars>>

\* The migration has taken longer than calc_timeout allows.
TimeIsUp ==
  /\ doc.timed
  /\ late' = TRUE
  /\ UNCHANGED <<docVars, lockVars, chainVars, feedVars, workVars, url, started, faults>>

\* A process dies and starts again: it polls nothing until it is told to, has
\* missed the messages of the meantime and has the url of the settings document.
Restart(p) ==
  /\ faults < MaxFaults
  /\ faults' = faults + 1
  /\ pc' = [c \in Chains |-> IF Home[c] = p THEN "idle" ELSE pc[c]]
  /\ current' = {c \in current : Home[c] # p}
  /\ lockCurrent' = {c \in lockCurrent : Home[c] # p}
  /\ monitor' = [monitor EXCEPT ![p] = "off"]
  /\ inbox' = [inbox EXCEPT ![p] = <<>>]
  /\ url' = IF doc.url THEN url \cup {p} ELSE url \ {p}
  /\ step' = [c \in Chains |-> IF Home[c] = p THEN "ingress" ELSE step[c]]
  /\ UNCHANGED <<doc, lock, workVars, late, started>>

\* What a chain does once it has begun.
Advance(c) ==
  \/ Apply(c) \/ Award(c) \/ Clear(c) \/ WriteClear(c) \/ Begin(c)
  \/ WriteBegin(c) \/ Post(c) \/ StoreUrl(c) \/ WriteUrl(c) \/ Announce(c)
  \/ Wait(c)  \/ Finish(c) \/ WriteFinish(c)
  \/ Release(c) \/ Complete(c) \/ WriteComplete(c) \/ RecordError(c) \/ WriteFail(c)
  \/ Unlock(c)

Next ==
  \/ \E c \in Chains : Start(c) \/ PollLate(c) \/ PollDone(c) \/ Advance(c)
  \/ \E p \in Processes : Receive(p) \/ Restart(p)
  \/ \E s \in Steps : GetsReady(s)
  \/ LeaseEnds \/ TimeIsUp

Spec == Init /\ [][Next]_vars

\* Callbacks run, intervals tick and messages arrive in a process that lives, the
\* deployer does what it was asked for, and a step that is done is not answered
\* with errors forever.
FairSpec ==
  /\ Spec
  /\ \A c \in Chains : WF_vars(Advance(c))
  /\ \A c \in Pollers : WF_vars(PollLate(c)) /\ SF_vars(PollDone(c))
  /\ \A p \in Processes : WF_vars(Receive(p))
  /\ WF_vars(\E s \in Steps : GetsReady(s))

-----------------------------------------------------------------------------
Asked == {s \in Steps : posts[s] > 0}

(* The inductive invariant behind ImplementsPlan. *)

\* Whatever was asked for had its earlier steps done, and only it gets done.
AskedInOrder ==
  /\ ready \subseteq Asked
  /\ \A s \in Asked : Earlier(s) \subseteq ready

\* A chain works on a step whose earlier steps are done, past its check on one
\* that is done, and at the end of the migration on the last.
ChainsInOrder ==
  \A c \in Chains :
    /\ Earlier(step[c]) \subseteq ready
    /\ pc[c] \in {"finish", "finishing", "release", "complete", "completing"} => step[c] \in ready
    /\ pc[c] \in {"complete", "completing"} => step[c] = "db"

\* The settings document shows the end of a migration that is at its end.
EndIsTrue == doc.complete \/ doc.done => ready = Steps

\* The migration as a whole (MigrationPlan): processes that overtake one another,
\* free each other's locks and repeat each other's requests still ask for the
\* work of a step only when the earlier steps are done, and complete the
\* migration only when the databases are in the new console.
Plan == INSTANCE MigrationPlan WITH asked <- Asked, done <- ready, complete <- doc.complete \/ doc.done

ImplementsPlan == Plan!Spec

\* get_status shows an end: complete, failed, or out of time.
Ended == doc.complete \/ doc.error \/ late

\* Polling is paused whenever a step is done, by every process that sees it, also
\* by one that is late, and chains that are refused the lock just end.  Still the
\* migration does not come to a stop nobody notices, and no announcement is left
\* behind: unless a request to CouchDB fails or a process dies, a migration that
\* was started ends, and then no process polls any more.
MigrationEnds ==
  <>[](started # {} /\ faults = 0 => Ended /\ \A p \in Processes : monitor[p] = "off")

\* "did not get migration lock for component step, the other instances must have
\* it" (migration_lib.js:811): one start of the migration asks for the work of a
\* step once.
AskedOnce == \A s \in Steps : posts[s] <= Cardinality(started)
=============================================================================

----------------------------- MODULE AccessList -----------------------------
(***************************************************************************)
(* The users of the console and their roles: libs/permissions_lib.js over   *)
(* the settings document, libs/couchdb.js repeatWriteSafe, and the copy of  *)
(* the list every athena process keeps in memory (ev.ACCESS_LIST, loaded by *)
(* libs/settings.js), which decides who may do what.                        *)
(*                                                                          *)
(* A handler reads the settings document, edits the list in its copy and    *)
(* writes the copy with repeatWriteSafe.  When CouchDB answers 409 the       *)
(* document is read again, but only its other fields (or only its _rev) are *)
(* kept: the list of the copy replaces the list that was read.               *)
(*                                                                          *)
(* Then the handler calls ev.update and answers from its callback.  The      *)
(* callbacks waiting for a reload are in one array per process: the first    *)
(* reload to end calls them all.  A process also reloads when CouchDB's      *)
(* _changes feed delivers the settings document, and every 90 minutes.       *)
(*                                                                          *)
(* A user stands for a username with its uuid; roles other than manager      *)
(* count as one; a password is the default one or the user's own.            *)
(***************************************************************************)
EXTENDS Integers

CONSTANTS
  Users,
  Requests,     \* the requests made; each is made once
  Instances,    \* the athena processes
  Home,         \* Home[r]: the process that handles request r
  Inputs,       \* what requests may ask for
  MayAsk,       \* MayAsk[r]: those that request r may ask for
  InitialList,  \* the access list at the start
  MaxAttempts,  \* repeatWriteSafe gives up after this many 409s (5 in the code)
  Faults,       \* whether requests to CouchDB may fail and processes may restart
  NoUser,       \* the username is not in the list
  NoInput,      \* the request was not made yet
  NoLoad, Asked \* a reload that does not run, or that CouchDB has not answered

Roles == {"manager", "reader", "none"}

\* An entry of access_list: roles, and whether hashed_secret is set.
Entry == [role : Roles, own : BOOLEAN]

Lists == [Users -> Entry \cup {NoUser}]

Ops == {"add", "register", "edit", "delete", "change", "reset"}

\* by makes the request about users; role is for add and edit, old (the current
\* password as typed, own or default) for change.
Input == [op : Ops, by : Users, users : SUBSET Users, role : Roles, old : BOOLEAN]

IsManager(list, u) == list[u] # NoUser /\ list[u].role = "manager"

SomeManager(list) == \E u \in Users : IsManager(list, u)

ASSUME ConstantsAssumption ==
  /\ Home \in [Requests -> Instances]
  /\ Inputs \subseteq Input
  /\ MayAsk \in [Requests -> SUBSET Inputs]
  /\ InitialList \in Lists
  /\ SomeManager(InitialList)
  /\ MaxAttempts \in Nat \ {0}
  /\ Faults \in BOOLEAN
  /\ Requests \cap Instances = {}
  /\ NoUser \notin Entry
  /\ NoInput \notin Input
  /\ NoLoad \notin Lists \cup {Asked}
  /\ Asked \notin Lists

\* Who reloads the settings: a handler, or a process that was pushed the document
\* or whose timer fired (a process does so once at a time: a bound of the model).
Loaders == Requests \cup Instances

At(x) == IF x \in Requests THEN Home[x] ELSE x

VARIABLES
  settingsDoc,  \* access_list in the settings document in CouchDB
  current,      \* the requests whose _rev is the document's
  req,          \* what each request asks for
  pc,           \* where its handler is
  copy,         \* access_list in the handler's settings_doc
  attempt,      \* opts.attempt of its repeatWriteSafe
  memory,       \* ev.ACCESS_LIST of each process
  loads,        \* the reloads of the settings in flight
  pushed        \* the processes the feed has still to deliver the document to

vars == <<settingsDoc, current, req, pc, copy, attempt, memory, loads, pushed>>

Ended == {"ok", "refused", "failed"}

Steps == {"new", "reading", "writing", "conflict", "waiting"} \cup Ended

TypeOK ==
  /\ settingsDoc \in Lists
  /\ current \subseteq Requests
  /\ req \in [Requests -> Inputs \cup {NoInput}]
  /\ pc \in [Requests -> Steps]
  /\ \A r \in Requests : (req[r] = NoInput) = (pc[r] = "new")
  /\ copy \in [Requests -> Lists]
  /\ attempt \in [Requests -> 1..MaxAttempts]
  /\ memory \in [Instances -> Lists]
  /\ loads \in [Loaders -> Lists \cup {NoLoad, Asked}]
  /\ pushed \subseteq Instances

Init ==
  /\ settingsDoc = InitialList
  /\ current = {}
  /\ req = [r \in Requests |-> NoInput]
  /\ pc = [r \in Requests |-> "new"]
  /\ copy = [r \in Requests |-> InitialList]
  /\ attempt = [r \in Requests |-> 1]
  /\ memory = [i \in Instances |-> InitialList]
  /\ loads = [x \in Loaders |-> NoLoad]
  /\ pushed = {}

-----------------------------------------------------------------------------
(* What the handlers check and change, in the list they read. *)

\* The middleware: managers manage users; users change their own password.
\* (Anybody who is logged in may register.)
Authorized(list, q) ==
  CASE q.op = "register" -> q.users = {q.by}
    [] q.op = "change"   -> q.users = {q.by} /\ list[q.by] # NoUser
    [] OTHER             -> IsManager(list, q.by)

\* Mutant of DemotesLastManager: the managers are counted once, before the loop.
CountsManagersOnce(list, q) ==
  /\ q.op = "edit" /\ q.role # "manager"
  /\ \E u \in q.users : \A v \in Users : IsManager(list, v) <=> v = u

\* edit_users counts the managers before each demotion: it refuses the request
\* when the last one is among the users it would demote.
DemotesLastManager(list, q) ==
  /\ q.op = "edit" /\ q.role # "manager"
  /\ \E u \in q.users : IsManager(list, u)
  /\ \A u \in Users : IsManager(list, u) => u \in q.users

\* mem is the list in memory, which change_password and delete_users look at too.
Refused(list, mem, q) ==
  \/ q.op = "add" /\ \E u \in q.users : list[u] # NoUser
  \/ q.op \in {"edit", "delete", "change", "reset"} /\ \E u \in q.users : list[u] = NoUser
  \/ DemotesLastManager(list, q)
  \/ q.op = "delete" /\ q.by \in q.users /\ mem[q.by] # NoUser
  \/ /\ q.op = "change"
     /\ mem[q.by] # NoUser => mem[q.by].own # q.old

NewEntry(q, entry) ==
  CASE q.op = "add"      -> [role |-> q.role, own |-> FALSE]
    [] q.op = "register" -> [role |-> "none", own |-> FALSE]
    [] q.op = "edit"     -> [entry EXCEPT !.role = q.role]
    [] q.op = "change"   -> [entry EXCEPT !.own = TRUE]
    [] q.op = "reset"    -> [entry EXCEPT !.own = FALSE]
    [] OTHER             -> NoUser

Edited(list, q) == [u \in Users |-> IF u \in q.users THEN NewEntry(q, list[u]) ELSE list[u]]

\* The write of r, with its copy of the list, is over unless it goes on.
GoTo(r, step) ==
  /\ pc' = [pc EXCEPT ![r] = step]
  /\ copy' = [copy EXCEPT ![r] = IF step \in {"writing", "conflict"} THEN @ ELSE InitialList]
  /\ attempt' = [attempt EXCEPT ![r] = CASE step = "conflict" -> @ + 1
                                        [] step = "writing"  -> @
                                        [] OTHER             -> 1]

\* Mutant of AnswerWaiting: the callbacks are cleared before they are called.
AnswerNobody(i, answer) == UNCHANGED pc

\* The first reload to end calls every callback that waits in its process.
AnswerWaiting(i, answer) ==
  pc' = [r \in Requests |-> IF Home[r] = i /\ pc[r] = "waiting" THEN answer ELSE pc[r]]

-----------------------------------------------------------------------------
\* A request passes the middleware, by the list in memory.
Receive(r) ==
  /\ pc[r] = "new"
  /\ \E q \in MayAsk[r] :
       /\ Authorized(memory[Home[r]], q)
       /\ req' = [req EXCEPT ![r] = q]
  /\ GoTo(r, "reading")
  /\ UNCHANGED <<settingsDoc, current, memory, loads, pushed>>

\* The handler has the settings document: it refuses the request or edits its
\* copy of the document.
ReadDoc(r) ==
  /\ pc[r] = "reading"
  /\ \/ /\ Refused(settingsDoc, memory[Home[r]], req[r])
        /\ GoTo(r, "refused")
        /\ UNCHANGED current
     \/ /\ ~Refused(settingsDoc, memory[Home[r]], req[r])
        /\ copy' = [copy EXCEPT ![r] = Edited(settingsDoc, req[r])]
        /\ pc' = [pc EXCEPT ![r] = "writing"]
        /\ current' = current \cup {r}
        /\ UNCHANGED attempt
     \/ Faults /\ GoTo(r, "failed") /\ UNCHANGED current
  /\ UNCHANGED <<settingsDoc, req, memory, loads, pushed>>

\* Mutant of Conflict: it never gives up.
ConflictAgain(r) == GoTo(r, "conflict")

\* A 409: wait and try again, unless this was the last attempt.
Conflict(r) ==
  GoTo(r, IF attempt[r] < MaxAttempts THEN "conflict" ELSE "failed")

\* The write landed: register_user answers, the others call ev.update.
Written(r) ==
  IF req[r].op = "register"
    THEN GoTo(r, "ok") /\ UNCHANGED loads
    ELSE GoTo(r, "waiting") /\ loads' = [loads EXCEPT ![r] = Asked]

\* Mutant of WriteDoc: the write takes no account of the _rev.
WriteDocBlindly(r) ==
  /\ pc[r] = "writing"
  /\ settingsDoc' = copy[r]
  /\ current' = {}
  /\ pushed' = Instances
  /\ Written(r)
  /\ UNCHANGED <<req, memory>>

\* The PUT of repeatWriteSafe.  Under faults a PUT that landed may be answered by
\* an error, or timed out and be sent again by retry_req, which gets a 409.
WriteDoc(r) ==
  /\ pc[r] = "writing"
  /\ \/ /\ r \in current
        /\ settingsDoc' = copy[r]
        /\ current' = {}
        /\ pushed' = Instances
        /\ \/ Written(r)
           \/ Faults /\ Conflict(r) /\ UNCHANGED loads
     \/ /\ r \notin current
        /\ Conflict(r)
        /\ UNCHANGED <<settingsDoc, current, pushed, loads>>
     \/ /\ Faults
        /\ GoTo(r, "failed")
        /\ current' = current \ {r}
        /\ UNCHANGED <<settingsDoc, pushed, loads>>
  /\ UNCHANGED <<req, memory>>

\* repeatWriteSafe again: it reads the document, and modify_doc_logic_sync puts
\* the list of its old copy into it.
ReadAgain(r) ==
  /\ pc[r] = "conflict"
  /\ \/ current' = current \cup {r} /\ GoTo(r, "writing")
     \/ Faults /\ GoTo(r, "failed") /\ UNCHANGED current
  /\ UNCHANGED <<settingsDoc, req, memory, loads, pushed>>

-----------------------------------------------------------------------------
\* A reload that waited for CouchDB gets the settings document.
LoadAnswered(x) ==
  /\ loads[x] = Asked
  /\ loads' = [loads EXCEPT ![x] = settingsDoc]
  /\ UNCHANGED <<settingsDoc, current, req, pc, copy, attempt, memory, pushed>>

\* A reload ends: the list is installed, and all callbacks are called.
Install(x) ==
  /\ loads[x] \in Lists
  /\ memory' = [memory EXCEPT ![At(x)] = loads[x]]
  /\ loads' = [loads EXCEPT ![x] = NoLoad]
  /\ AnswerWaiting(At(x), "ok")
  /\ UNCHANGED <<settingsDoc, current, req, copy, attempt, pushed>>

\* A reload fails: all callbacks are called with the error.
LoadFails(x) ==
  /\ Faults
  /\ loads[x] # NoLoad
  /\ loads' = [loads EXCEPT ![x] = NoLoad]
  /\ AnswerWaiting(At(x), "failed")
  /\ UNCHANGED <<settingsDoc, current, req, copy, attempt, memory, pushed>>

\* The feed delivers the settings document, whose message_type is
\* settings_doc_update: ev.update.  When the reload was asked for does not matter,
\* as nobody waits for it, only when it was answered.
Push(i) ==
  /\ i \in pushed
  /\ loads[i] = NoLoad
  /\ pushed' = pushed \ {i}
  /\ loads' = [loads EXCEPT ![i] = settingsDoc]
  /\ UNCHANGED <<settingsDoc, current, req, pc, copy, attempt, memory>>

\* Mutant of Timer: it reloads what the process has cached.
TimerFromCache(i) ==
  /\ loads[i] = NoLoad
  /\ loads' = [loads EXCEPT ![i] = memory[i]]
  /\ UNCHANGED <<settingsDoc, current, req, pc, copy, attempt, memory, pushed>>

\* The 90 minute timer: fire_update.
Timer(i) ==
  /\ loads[i] = NoLoad
  /\ loads' = [loads EXCEPT ![i] = settingsDoc]
  /\ UNCHANGED <<settingsDoc, current, req, pc, copy, attempt, memory, pushed>>

\* A process dies and starts again: it loads the settings before it listens.
Restart(i) ==
  /\ Faults
  /\ memory' = [memory EXCEPT ![i] = settingsDoc]
  /\ loads' = [x \in Loaders |-> IF At(x) = i THEN NoLoad ELSE loads[x]]
  /\ pc' = [r \in Requests |-> IF Home[r] = i /\ pc[r] \notin Ended \cup {"new"}
                                 THEN "failed" ELSE pc[r]]
  /\ copy' = [r \in Requests |-> IF Home[r] = i THEN InitialList ELSE copy[r]]
  /\ attempt' = [r \in Requests |-> IF Home[r] = i THEN 1 ELSE attempt[r]]
  /\ current' = {r \in current : Home[r] # i}
  /\ pushed' = pushed \ {i}
  /\ UNCHANGED <<settingsDoc, req>>

Handle(r) == ReadDoc(r) \/ WriteDoc(r) \/ ReadAgain(r)

Next ==
  \/ \E r \in Requests : Receive(r) \/ Handle(r)
  \/ \E x \in Loaders : LoadAnswered(x) \/ Install(x) \/ LoadFails(x)
  \/ \E i \in Instances : Push(i) \/ Timer(i) \/ Restart(i)

Spec == Init /\ [][Next]_vars

\* Handlers go on, CouchDB answers (not every reload fails), the feed delivers, and
\* the timer fires.  Without the timer SettingsArrive fails: the reload of a handler
\* that read an older document may be the last to end.
FairSpec ==
  /\ Spec
  /\ \A r \in Requests : WF_vars(Handle(r))
  /\ \A x \in Loaders : WF_vars(LoadAnswered(x)) /\ SF_vars(Install(x))
  /\ \A i \in Instances : WF_vars(Push(i)) /\ WF_vars(Timer(i))

-----------------------------------------------------------------------------
\* The console never ends up without a manager: nobody could manage its users any
\* more (permissions_lib.js:233-243).
ManagerRemains == SomeManager(settingsDoc)

\* The inputs of edit_users, add_users and the password handlers only.
NoRemovals == \A q \in Inputs : q.op \notin {"delete", "register"}

\* A write of r lands and changes the list.
Lands(r) == pc[r] = "writing" /\ pc'[r] # "writing" /\ settingsDoc' # settingsDoc

OnlyItsUsersChange(r) ==
  \A u \in Users \ req[r].users : settingsDoc'[u] = settingsDoc[u]

\* The first attempt of repeatWriteSafe changes the users of its request and no
\* other: what others wrote since the handler read the document is kept, because
\* CouchDB refuses the write (couchdb.js:203-205).  Later attempts do write the
\* list they read first over what others wrote.
FirstWriteMerges ==
  [][\A r \in Requests : Lands(r) /\ attempt[r] = 1 => OnlyItsUsersChange(r)]_vars

\* A handler that was given the last word on a conflict is not starved: every
\* request is answered, though its reload may be overtaken or fail.
RequestsEnd == \A r \in Requests : pc[r] = "reading" ~> pc[r] \in Ended

\* When the users stop changing, every process ends up deciding by the list in the
\* document, whatever reloads overtook each other on the way.
SettingsArrive == <>[](\A i \in Instances : memory[i] = settingsDoc)
=============================================================================

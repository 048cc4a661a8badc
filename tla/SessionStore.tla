---------------------------- MODULE SessionStore ----------------------------
(***************************************************************************)
(* A login session: its document in CouchDB, libs/couchdb_session_store.js, *)
(* the cache of it each athena process keeps for two minutes, and what      *)
(* reads and writes it: requests of the browser (express-session loads the  *)
(* session before the handler and, as app.js has resave set, saves it after *)
(* it), logins, logouts, a manager who edits the user's roles, the removal  *)
(* of expired sessions and of all sessions.  Logins, logouts and edits tell *)
(* every process to empty its cache (PillowTalk).                           *)
(*                                                                          *)
(* There is one session: sessions have documents and cache entries of their *)
(* own.  Of its contents only the user's profile matters, "open" is a       *)
(* session without one.  The scheme is "oauth" where the profile is in      *)
(* passport_profile (also LDAP and the other passport schemes) and          *)
(* "couchdb" where it is in couchdb_profile.  A request that finds no       *)
(* session gets one with another id and has nothing to do with this one any *)
(* more.  A request that dies with its process has sent its write to        *)
(* CouchDB or never will.                                                   *)
(***************************************************************************)
EXTENDS PillowTalk

CONSTANTS
  Requests,   \* everything that reads or writes the session
  Home,       \* Home[r]: the process that runs r
  May,        \* May[r]: the kinds of request r may be
  NoEntry,    \* the cache has no entry
  MaxRev,     \* bound on the revisions written for a later last_access only
  MaxFaults   \* bound on the faults: failed requests, lost answers, restarts

Kinds == {"view", "login", "logout", "edit", "sweep", "clear", "clear_all"}

ASSUME ConstantsAssumption ==
  /\ Home \in [Requests -> Processes]
  /\ May \in [Requests -> SUBSET Kinds]
  /\ Messages = {"flush_session_cache", "delete_sessions"}
  /\ MaxRev \in Nat /\ MaxFaults \in Nat

Contents == {"open", "user"}
Copies == [rev : Nat, sess : Contents \cup {"gone"}]
ASSUME NoEntryAssumption == NoEntry \notin Copies

Steps == {"idle", "get", "got", "run", "set", "read", "put", "written",
          "refused", "destroy", "found", "delete", "deleted", "kept", "clear",
          "view", "rows", "bulk", "end"}

Tasks == [kind : Kinds, at : Steps, sess : Contents, got : Copies,
          saves : 1..2]

VARIABLES
  scheme,  \* the console's authentication scheme
  docs,    \* the revisions of the session's document, the last one current
  cache,   \* cache[p]: the entry of p's cache
  task,    \* task[r]: what r is (kind), how far it has got (at), its session
           \*   object (sess), its copy of the document (got), and how often
           \*   it will save the session (saves)
  due,     \* due[r]: r is about to broadcast a flush
  late,    \* late[p]: p may keep an old entry after a flush (history variable)
  faults   \* the faults so far

vars == <<scheme, docs, cache, task, due, late, faults, feedVars>>

Rev == Len(docs)
Doc == docs[Rev]
kind(r) == task[r].kind
at(r) == task[r].at
sess(r) == task[r].sess
got(r) == task[r].got

TypeOK ==
  /\ FeedTypeOK
  /\ scheme \in {"oauth", "couchdb"}
  /\ docs \in Seq(Contents \cup {"gone"}) /\ docs # <<>>
  /\ cache \in [Processes -> Copies \cup {NoEntry}]
  /\ task \in [Requests -> Tasks]
  /\ due \in [Requests -> BOOLEAN]
  /\ late \in [Processes -> BOOLEAN]
  /\ faults \in 0..MaxFaults

NoCopy  == [rev |-> 0, sess |-> "gone"]
NewTask == [kind |-> "view", at |-> "idle", sess |-> "open", got |-> NoCopy, saves |-> 1]

Init ==
  /\ FeedInit
  /\ scheme \in {"oauth", "couchdb"}
  /\ docs = <<"open">>
  /\ cache = [p \in Processes |-> NoEntry]
  /\ task = [r \in Requests |-> NewTask]
  /\ due = [r \in Requests |-> FALSE]
  /\ late = [p \in Processes |-> FALSE]
  /\ faults = 0

-----------------------------------------------------------------------------
GoTo(r, step) == task' = [task EXCEPT ![r] = [@ EXCEPT !.at = step]]
End(r)        == task' = [task EXCEPT ![r] = [NewTask EXCEPT !.at = "end"]]
Put(p, entry) == cache' = [cache EXCEPT ![p] = entry]
Drop(p)       == Put(p, NoEntry)

Fault == faults < MaxFaults /\ faults' = faults + 1

\* r of kind k is at a step where it has session s and no copy.
Fresh(k, step, s, n) ==
  [kind |-> k, at |-> step, sess |-> s, got |-> NoCopy, saves |-> n]
Run(r, k, s)       == task' = [task EXCEPT ![r] = Fresh(k, "run", s, 1)]
Become(r, k, step) == task' = [task EXCEPT ![r] = Fresh(k, step, "open", 1)]

\* get: the cache, else CouchDB.
Get(r, k) ==
  LET entry == cache[Home[r]] IN
  IF entry # NoEntry THEN Run(r, k, entry.sess) ELSE Become(r, k, "get")

\* What begins, by itself or on a request.  edit_users has written the roles:
\* the user's sessions are destroyed while the settings are reloaded, and a
\* flush is broadcast only if that works.
Start(r) ==
  /\ at(r) = "idle"
  /\ \/ /\ \E k \in May[r] \cap {"view", "login", "logout"} : Get(r, k)
        /\ UNCHANGED <<due, feedVars>>
     \/ /\ "edit" \in May[r] /\ Become(r, "edit", "view")
        /\ \E reloaded \in BOOLEAN : due' = [due EXCEPT ![r] = reloaded]
        /\ UNCHANGED feedVars
     \/ /\ "sweep" \in May[r] /\ Become(r, "sweep", "view")
        /\ UNCHANGED <<due, feedVars>>
     \/ /\ "clear" \in May[r] /\ Become(r, "clear", "clear")
        /\ UNCHANGED <<due, feedVars>>
     \/ /\ "clear_all" \in May[r] /\ End(r)
        /\ Broadcast("delete_sessions")
        /\ UNCHANGED due
  /\ UNCHANGED <<scheme, docs, cache, late, faults>>

\* CouchDB reads the document or the view; the answer takes its time.  Any error
\* is treated as if there were no such document.
Answered(step) ==
  CASE step = "get"     -> "got"
    [] step = "set"     -> "read"
    [] step = "destroy" -> "found"
    [] OTHER            -> "rows"

CouchReads(r) ==
  /\ at(r) \in {"get", "set", "destroy", "view"}
  /\ \E doc \in {Doc, "gone"} :
       /\ IF doc = Doc THEN UNCHANGED faults ELSE Fault
       /\ task' = [task EXCEPT ![r] = [@ EXCEPT !.at = Answered(at(r)),
                                                !.got = [rev |-> Rev, sess |-> doc]]]
  /\ UNCHANGED <<scheme, docs, cache, due, late, feedVars>>

\* A bug of this shape: the store does not tell a deleted session from another.
NeverMissing(r) == FALSE

Missing(r) == got(r).sess = "gone"

\* _get_session caches what it gets.
Fill(r) == IF Missing(r) THEN UNCHANGED cache ELSE Put(Home[r], got(r))

\* A bug of this shape: a request that finds no session goes on with a new one
\* of the same id.
LoadedSameId(r) ==
  /\ at(r) = "got"
  /\ Fill(r)
  /\ Run(r, kind(r), IF Missing(r) THEN "open" ELSE got(r).sess)
  /\ UNCHANGED <<scheme, docs, due, late, faults, feedVars>>

Loaded(r) ==
  /\ at(r) = "got"
  /\ Fill(r)
  /\ IF Missing(r) THEN End(r) ELSE Run(r, kind(r), got(r).sess)
  /\ UNCHANGED <<scheme, docs, due, late, faults, feedVars>>

Saves(r, s, n) == task' = [task EXCEPT ![r] = Fresh(kind(r), "set", s, n)]

\* The handlers.  A login saves the session itself before it answers, and as
\* the save changes time stamps of the session object express saves it again
\* at the end; a refused login clears the profile where it is couchdb_profile.
\* (It does not if there is no password hash to compare with, neither the user's
\* nor a default one, an "invalid setup" that is left out.)
Handle(r) ==
  /\ at(r) = "run"
  /\ \/ kind(r) = "view" /\ Saves(r, sess(r), 1)
     \/ kind(r) = "login" /\ Saves(r, "user", 2)
     \/ kind(r) = "login" /\ Saves(r, IF scheme = "couchdb" THEN "open" ELSE sess(r), 1)
     \/ kind(r) = "logout" /\ GoTo(r, "destroy")
  /\ UNCHANGED <<scheme, docs, cache, due, late, faults, feedVars>>

\* What follows a save, also one that failed: the login's broadcast and the
\* save at the end of the request, or the end.
Saved(r) ==
  IF task[r].saves = 2
    THEN Saves(r, sess(r), 1) /\ due' = [due EXCEPT ![r] = TRUE]
    ELSE End(r) /\ UNCHANGED due

\* A bug of this shape: the guard for passport_profile is missing.
ClearsNothing(r) == FALSE

\* set, with what CouchDB has: a missing session is made anew, one that is the
\* same is written from time to time only, and no write takes a
\* passport_profile away.
Clears(r) == scheme = "oauth" /\ got(r).sess = "user" /\ sess(r) # "user"

SetRead(r) ==
  /\ at(r) = "read"
  /\ Fill(r)
  /\ \/ /\ ~Clears(r)
        /\ got(r).sess = sess(r) => Rev < MaxRev
        /\ GoTo(r, "put")
        /\ UNCHANGED due
     \/ /\ Clears(r) \/ got(r).sess = sess(r)
        /\ Saved(r)
  /\ UNCHANGED <<scheme, docs, late, faults, feedVars>>

\* CouchDB applies r's write if its _rev is current (a new document has none).
\* With faults it may not, and its answer may be lost: a retry gets a conflict.
Current(r) == IF Missing(r) THEN Doc = "gone" ELSE got(r).rev = Rev

\* r's write lands or not, and is answered with a success or not.
Outcome(r, lands, answers) ==
  \/ lands = Current(r) /\ answers = Current(r) /\ UNCHANGED faults
  \/ lands \in {FALSE, Current(r)} /\ answers = FALSE /\ Fault

\* The login's own save has not landed, the one at the end of its request does:
\* the flush may have gone before.
LateLogin(r) == task[r].saves = 1 /\ sess(r) = "user" /\ Doc = "open"

PutLands(r) ==
  /\ at(r) = "put"
  /\ \E lands, answers \in BOOLEAN :
       /\ Outcome(r, lands, answers)
       /\ task' = [task EXCEPT ![r] =
                     [@ EXCEPT !.at = IF answers THEN "written" ELSE "refused",
                               !.got = [rev |-> Rev + 1, sess |-> sess(r)]]]
       /\ IF lands
            THEN /\ docs' = Append(docs, sess(r))
                 /\ late' = IF LateLogin(r) THEN [p \in Processes |-> TRUE] ELSE late
            ELSE UNCHANGED <<docs, late>>
  /\ UNCHANGED <<scheme, cache, due, feedVars>>

\* A bug of this shape: what was to be written is cached whatever the answer.
WrittenAnyway(r) ==
  /\ at(r) \in {"written", "refused"}
  /\ Put(Home[r], got(r))
  /\ Saved(r)
  /\ UNCHANGED <<scheme, docs, late, faults, feedVars>>

Written(r) ==
  /\ at(r) \in {"written", "refused"}
  /\ IF at(r) = "written" THEN Put(Home[r], got(r)) ELSE Drop(Home[r])
  /\ Saved(r)
  /\ UNCHANGED <<scheme, docs, late, faults, feedVars>>

-----------------------------------------------------------------------------
\* destroy; whatever comes of it the logout broadcasts a flush.
DestroyRead(r) ==
  /\ at(r) = "found"
  /\ Fill(r)
  /\ IF Missing(r) THEN End(r) /\ due' = [due EXCEPT ![r] = TRUE]
                   ELSE GoTo(r, "delete") /\ UNCHANGED due
  /\ UNCHANGED <<scheme, docs, late, faults, feedVars>>

DeleteLands(r) ==
  /\ at(r) = "delete"
  /\ \E lands, answers \in BOOLEAN :
       /\ Outcome(r, lands, answers)
       /\ GoTo(r, IF answers THEN "deleted" ELSE "kept")
       /\ docs' = IF lands THEN Append(docs, "gone") ELSE docs
  /\ UNCHANGED <<scheme, cache, due, late, feedVars>>

Deleted(r) ==
  /\ at(r) \in {"deleted", "kept"}
  /\ IF at(r) = "deleted" THEN Drop(Home[r]) ELSE UNCHANGED cache
  /\ End(r)
  /\ due' = [due EXCEPT ![r] = TRUE]
  /\ UNCHANGED <<scheme, docs, late, faults, feedVars>>

\* clear empties the cache, then deletes what the view of all sessions has.
Clear(r) ==
  /\ at(r) = "clear"
  /\ Drop(Home[r])
  /\ GoTo(r, "view")
  /\ UNCHANGED <<scheme, docs, due, late, faults, feedVars>>

\* Whether the view r asked for has the session: by_uuid has those with a
\* couchdb_profile, by_expiration all of them, or those that have expired.
Listed(r) ==
  CASE kind(r) = "edit"  -> {scheme = "couchdb" /\ got(r).sess = "user"}
    [] kind(r) = "sweep" -> {FALSE, ~Missing(r)}
    [] OTHER             -> {~Missing(r)}

\* The first document of a session need not say its sid, what a request that
\* loaded the session saves does.
SaysSid(r) == {TRUE, got(r).rev > 1}

\* _bulkDelete: out of this process's cache first, then out of CouchDB.
Rows(r) ==
  /\ at(r) = "rows"
  /\ \E listed \in Listed(r), sid \in SaysSid(r) :
       /\ IF listed THEN GoTo(r, "bulk") ELSE End(r)
       /\ IF listed /\ sid THEN Drop(Home[r]) ELSE UNCHANGED cache
  /\ UNCHANGED <<scheme, docs, due, late, faults, feedVars>>

\* Neither an error nor a conflict of the deletion is noticed.
BulkLands(r) ==
  /\ at(r) = "bulk"
  /\ \E lands, answers \in BOOLEAN :
       /\ Outcome(r, lands, answers)
       /\ docs' = IF lands THEN Append(docs, "gone") ELSE docs
  /\ End(r)
  /\ UNCHANGED <<scheme, cache, due, late, feedVars>>

-----------------------------------------------------------------------------
\* The broadcast of a flush; nobody looks whether it was written.
Announce(r) ==
  /\ due[r]
  /\ due' = [due EXCEPT ![r] = FALSE]
  /\ \/ Broadcast("flush_session_cache") /\ UNCHANGED <<late, faults>>
     \/ Fault /\ late' = [p \in Processes |-> TRUE] /\ UNCHANGED feedVars
  /\ UNCHANGED <<scheme, docs, cache, task>>

\* An answer on its way to p that will put the session without its user there.
OldOnItsWay(p) ==
  \E r \in Requests : /\ Home[r] = p
                      /\ at(r) \in {"got", "read", "found", "written"}
                      /\ got(r).sess = "open"

Flush(p) ==
  /\ Receive(p)
  /\ Message(p) = "flush_session_cache"
  /\ Drop(p)
  /\ late' = [late EXCEPT ![p] = OldOnItsWay(p)]
  /\ UNCHANGED <<scheme, docs, task, due, faults>>

\* Every process clears all sessions, but those it is clearing already.
DeleteSessions(p) ==
  /\ Receive(p)
  /\ Message(p) = "delete_sessions"
  /\ \E r \in Requests : /\ Home[r] = p /\ "clear" \in May[r] /\ at(r) = "idle"
                         /\ Become(r, "clear", "clear")
  /\ UNCHANGED <<scheme, docs, cache, due, late, faults>>

\* The entry is two minutes old.
Expire(p) ==
  /\ cache[p] # NoEntry
  /\ Drop(p)
  /\ UNCHANGED <<scheme, docs, task, due, late, faults, feedVars>>

Reconnect(p) ==
  /\ Connect(p)
  /\ late' = IF ~known[p] /\ Unseen(p) THEN [late EXCEPT ![p] = TRUE] ELSE late
  /\ UNCHANGED <<scheme, docs, cache, task, due, faults>>

\* A flush that p has not had yet.
FlushToCome(p) ==
  \E i \in (seen[p] + 1)..Len(feed) : feed[i] = "flush_session_cache"

\* The login's save is done, its flush is not broadcast.
Untold(r) ==
  due[r] \/ (at(r) \in {"written", "refused"} /\ task[r].saves = 2)

Restart(p) ==
  /\ Fault
  /\ Boot(p)
  /\ Drop(p)
  /\ task' = [r \in Requests |-> IF Home[r] = p /\ at(r) # "idle"
                THEN [NewTask EXCEPT !.at = "end"] ELSE task[r]]
  /\ due' = [r \in Requests |-> due[r] /\ Home[r] # p]
  /\ late' = IF \E r \in Requests : Home[r] = p /\ Untold(r)
               THEN [q \in Processes |-> TRUE] ELSE [late EXCEPT ![p] = FALSE]
  /\ UNCHANGED <<scheme, docs>>

RequestStep(r) ==
  \/ Start(r) \/ CouchReads(r) \/ Loaded(r) \/ Handle(r)
  \/ SetRead(r) \/ PutLands(r) \/ Written(r)
  \/ DestroyRead(r) \/ DeleteLands(r) \/ Deleted(r)
  \/ Clear(r) \/ Rows(r) \/ BulkLands(r) \/ Announce(r)

ProcessStep(p) ==
  Flush(p) \/ DeleteSessions(p) \/ Expire(p) \/ Reconnect(p) \/ Restart(p)

Next ==
  \/ \E r \in Requests : RequestStep(r)
  \/ \E p \in Processes : ProcessStep(p)

Spec == Init /\ [][Next]_vars

-----------------------------------------------------------------------------
\* Where the profile is in passport_profile, no request that began before the
\* login and ends after it takes the user out of the session again: only a
\* deletion does (set reads the session again, will not clear a
\* passport_profile and writes with the _rev it read).
ProfileStays ==
  [][scheme = "oauth" /\ Doc = "user" => docs'[Len(docs')] # "open"]_vars

\* What a cache has was the session's document in CouchDB, with that _rev: not
\* what some request wanted to write.
CacheWasStored ==
  \A p \in Processes : cache[p] # NoEntry =>
    /\ cache[p].rev \in 1..Rev
    /\ docs[cache[p].rev] = cache[p].sess
    /\ cache[p].sess # "gone"

\* The broadcast after a login does what authentication_lib.js wants of it: a
\* process that got it no longer has the session without its user.  But a
\* process may get an answer of CouchDB from before the login after the flush,
\* reconnect without a last_sequence, or not be told at all (late).
FlushTellsOfLogin ==
  \A p \in Processes :
    /\ scheme = "oauth" /\ Doc = "user"
    /\ \A i \in 1..Rev : docs[i] # "gone"
    /\ cache[p] # NoEntry /\ cache[p].sess = "open"
    => late[p] \/ FlushToCome(p) \/ \E r \in Requests : Untold(r)

\* A session nobody has any more, neither CouchDB nor a cache nor a request,
\* does not come back.  (One that a request still has does: set makes it anew.)
Holds(r) ==
  \/ at(r) \in {"run", "set", "read", "put", "written", "refused"}
  \/ at(r) \in {"got", "found"} /\ ~Missing(r)

Forgotten ==
  /\ Doc = "gone"
  /\ \A p \in Processes : cache[p] = NoEntry
  /\ \A r \in Requests : ~Holds(r)

GoneForGood == [][Forgotten => Forgotten']_vars
=============================================================================

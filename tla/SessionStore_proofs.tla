------------------------ MODULE SessionStore_proofs -------------------------
(***************************************************************************)
(* The session's invariants and action properties for any number of         *)
(* processes and requests.  The invariant IInv adds to them what a request  *)
(* carries from one step to the next: its copy of the document was stored   *)
(* (CopiesStored), what it writes set allows (WritesKeepProfile), and an    *)
(* answer from before a login is on its way only to a process that is       *)
(* excused (LoginTold).  Its step is proved from what a request's step does *)
(* to its task, the document and the cache (RequestMoves, RequestCaches).   *)
(***************************************************************************)
EXTENDS SessionStore, TLAPS

\* What docs has of copy c is what c says, if it is a session at all.
Stored(c) == c.sess # "gone" => c.rev \in 1..Rev /\ docs[c.rev] = c.sess

\* The steps at which a request has a copy it will use.
WithCopy == {"got", "read", "put", "written", "found", "delete", "rows", "bulk"}

CopiesStored ==
  \A r \in Requests : /\ at(r) \in WithCopy => Stored(got(r))
                      /\ at(r) = "written" => ~Missing(r)

WritesKeepProfile == \A r \in Requests : at(r) = "put" => ~Clears(r)

IdleUndue == \A r \in Requests : at(r) = "idle" => ~due[r]

\* After a login a process has the session without its user, or will have it,
\* only with an excuse.
LoggedIn ==
  /\ scheme = "oauth" /\ Doc = "user"
  /\ \A i \in 1..Rev : docs[i] # "gone"

HasOld(p) == (cache[p] # NoEntry /\ cache[p].sess = "open") \/ OldOnItsWay(p)

Excused(p) == late[p] \/ FlushToCome(p) \/ \E r \in Requests : Untold(r)

LoginTold == LoggedIn => \A p \in Processes : HasOld(p) => Excused(p)

IInv ==
  /\ TypeOK
  /\ CacheWasStored
  /\ CopiesStored
  /\ WritesKeepProfile
  /\ IdleUndue
  /\ LoginTold

USE ConstantsAssumption, NoEntryAssumption DEF ConstantsAssumption, NoEntryAssumption

LEMMA EndType == ASSUME TypeOK, NEW r \in Requests, End(r) PROVE task' \in [Requests -> Tasks]
<1>1. [NewTask EXCEPT !.at = "end"] \in Tasks
  BY DEF NewTask, NoCopy, Copies, Tasks, Kinds, Steps, Contents
<1>2. QED
  BY <1>1 DEF End, TypeOK

LEMMA FreshType ==
  ASSUME TypeOK, NEW r \in Requests,
         NEW k \in Kinds, NEW step \in Steps, NEW s \in Contents, NEW n \in 1..2,
         task' = [task EXCEPT ![r] = Fresh(k, step, s, n)]
  PROVE  task' \in [Requests -> Tasks]
<1>1. Fresh(k, step, s, n) \in Tasks
  BY DEF NoCopy, Copies, Tasks, Fresh
<1>2. QED
  BY <1>1 DEF TypeOK

LEMMA BecomeType ==
  ASSUME TypeOK, NEW r \in Requests, NEW k \in Kinds, NEW step \in Steps, Become(r, k, step)
  PROVE  task' \in [Requests -> Tasks]
<1>1. "open" \in Contents /\ 1 \in 1..2
  BY DEF Contents
<1>2. QED
  BY <1>1, FreshType DEF Become

LEMMA GoToType ==
  ASSUME TypeOK, NEW r \in Requests, NEW step \in Steps, GoTo(r, step)
  PROVE  task' \in [Requests -> Tasks]
<1>1. [task[r] EXCEPT !.at = step] \in Tasks
  BY DEF Tasks, TypeOK
<1>2. QED
  BY <1>1 DEF TypeOK, GoTo

LEMMA CopyType ==
  ASSUME TypeOK, NEW r \in Requests, NEW step \in Steps, NEW c \in Copies,
         task' = [task EXCEPT ![r] = [@ EXCEPT !.at = step, !.got = c]]
  PROVE  task' \in [Requests -> Tasks]
<1>1. [task[r] EXCEPT !.at = step, !.got = c] \in Tasks
  BY DEF Tasks, TypeOK
<1>2. QED
  BY <1>1 DEF TypeOK

LEMMA Fields ==
  ASSUME TypeOK, NEW r \in Requests
  PROVE  /\ kind(r) \in Kinds /\ at(r) \in Steps /\ sess(r) \in Contents
         /\ got(r) \in Copies /\ task[r].saves \in 1..2
         /\ got(r).rev \in Nat /\ got(r).sess \in Contents \cup {"gone"}
         /\ Rev \in Nat \ {0} /\ Doc \in Contents \cup {"gone"}
<1>1. task[r] \in Tasks
  BY DEF TypeOK
<1>2. kind(r) \in Kinds /\ at(r) \in Steps /\ sess(r) \in Contents /\ got(r) \in Copies /\ task[r].saves \in 1..2
  BY <1>1 DEF Tasks, kind, at, sess, got
<1>3. got(r).rev \in Nat /\ got(r).sess \in Contents \cup {"gone"}
  BY <1>2 DEF Copies
<1>4. Rev \in Nat \ {0} /\ Doc \in Contents \cup {"gone"}
  BY DEF TypeOK, Rev, Doc
<1>5. QED
  BY <1>2, <1>3, <1>4

LEMMA SavesType ==
  ASSUME TypeOK, NEW r \in Requests, NEW s \in Contents, NEW n \in 1..2, Saves(r, s, n)
  PROVE  task' \in [Requests -> Tasks]
<1>1. "set" \in Steps /\ kind(r) \in Kinds
  BY Fields DEF Steps
<1>2. QED
  BY <1>1, FreshType DEF Saves

LEMMA SavedType ==
  ASSUME TypeOK, NEW r \in Requests, Saved(r)
  PROVE  task' \in [Requests -> Tasks] /\ due' \in [Requests -> BOOLEAN]
<1>1. CASE task[r].saves = 2
  <2>1. Saves(r, sess(r), 1) /\ due' = [due EXCEPT ![r] = TRUE]
    BY <1>1 DEF Saved
  <2>2. task' \in [Requests -> Tasks]
    BY <2>1, Fields, SavesType
  <2>3. QED
    BY <2>1, <2>2 DEF TypeOK
<1>2. CASE task[r].saves # 2
  <2>1. End(r) /\ due' = due
    BY <1>2 DEF Saved
  <2>2. QED
    BY <2>1, EndType DEF TypeOK
<1>3. QED
  BY <1>1, <1>2

LEMMA PutType ==
  ASSUME TypeOK, NEW p \in Processes, NEW e \in Copies \cup {NoEntry}, Put(p, e)
  PROVE  cache' \in [Processes -> Copies \cup {NoEntry}]
BY DEF TypeOK, Put

LEMMA CacheType ==
  ASSUME TypeOK, NEW r \in Requests
  PROVE  /\ Fill(r) => cache' \in [Processes -> Copies \cup {NoEntry}]
         /\ Drop(Home[r]) => cache' \in [Processes -> Copies \cup {NoEntry}]
         /\ UNCHANGED cache => cache' \in [Processes -> Copies \cup {NoEntry}]
BY Fields, PutType DEF Fill, Drop, TypeOK

LEMMA DocsType ==
  ASSUME TypeOK, NEW d \in Contents \cup {"gone"}, docs' = docs \/ docs' = Append(docs, d)
  PROVE  docs' \in Seq(Contents \cup {"gone"}) /\ docs' # <<>>
<1>1. CASE docs' = docs
  BY <1>1 DEF TypeOK
<1>2. CASE docs' = Append(docs, d)
  BY <1>2 DEF TypeOK
<1>3. QED
  BY <1>1, <1>2

LEMMA FaultType ==
  ASSUME TypeOK
  PROVE  /\ Fault => faults' \in 0..MaxFaults
         /\ UNCHANGED faults => faults' \in 0..MaxFaults
         /\ UNCHANGED feedVars => FeedTypeOK'
BY DEF Fault, TypeOK, feedVars, FeedTypeOK

LEMMA BroadcastType ==
  ASSUME TypeOK, NEW m \in Messages, Broadcast(m) PROVE FeedTypeOK'
BY DEF TypeOK, FeedTypeOK, Broadcast

LEMMA ReceiveType ==
  ASSUME TypeOK, NEW p \in Processes, Receive(p) PROVE FeedTypeOK'
BY DEF TypeOK, FeedTypeOK, Receive, Unseen

LEMMA TypeStep ==
  ASSUME TypeOK, CacheWasStored, [Next]_vars PROVE TypeOK'
<1>1. CASE UNCHANGED vars
  BY <1>1 DEF vars, feedVars, TypeOK, FeedTypeOK
<1>2. ASSUME NEW r \in Requests, Start(r) PROVE TypeOK'
  <2>1. task' \in [Requests -> Tasks]
    <3>1. \A step \in {"run", "get", "view", "clear"} : step \in Steps
      BY DEF Steps
    <3>2. {"view", "login", "logout", "edit", "sweep", "clear"} \subseteq Kinds
      BY DEF Kinds
    <3>3. ASSUME NEW k \in Kinds, Get(r, k) PROVE task' \in [Requests -> Tasks]
      <4>1. CASE cache[Home[r]] # NoEntry
        <5>1. cache[Home[r]].sess \in Contents
          <6>1. cache[Home[r]] \in Copies /\ cache[Home[r]].sess # "gone"
            BY <4>1 DEF CacheWasStored, TypeOK
          <6>2. QED
            BY <6>1 DEF Copies
        <5>2. 1 \in 1..2 /\ Run(r, k, cache[Home[r]].sess)
          BY <3>3, <4>1 DEF Get
        <5>3. QED
          BY <3>1, <5>1, <5>2, FreshType DEF Run
      <4>2. CASE cache[Home[r]] = NoEntry
        BY <3>1, <3>3, <4>2, BecomeType DEF Get
      <4>3. QED
        BY <4>1, <4>2
    <3>4. ASSUME NEW k \in Kinds, NEW step \in {"view", "clear"}, Become(r, k, step) PROVE task' \in [Requests -> Tasks]
      BY <3>1, <3>4, BecomeType
    <3>5. QED
      BY <1>2, <3>2, <3>3, <3>4, EndType DEF Start
  <2>2. FeedTypeOK'
    BY <1>2, FaultType, BroadcastType DEF Start
  <2>3. due' \in [Requests -> BOOLEAN]
    BY <1>2, Zenon DEF Start, TypeOK
  <2>9. QED
    BY <1>2, <2>1, <2>2, <2>3 DEF Start, TypeOK
<1>3. ASSUME NEW r \in Requests, CouchReads(r) PROVE TypeOK'
  <2>1. PICK doc \in {Doc, "gone"} :
          /\ IF doc = Doc THEN UNCHANGED faults ELSE Fault
          /\ task' = [task EXCEPT ![r] = [@ EXCEPT !.at = Answered(at(r)),
                                                   !.got = [rev |-> Rev, sess |-> doc]]]
    BY <1>3 DEF CouchReads
  <2>2. Answered(at(r)) \in Steps
    BY DEF Answered, Steps
  <2>3. [rev |-> Rev, sess |-> doc] \in Copies
    BY Fields DEF Copies
  <2>5. task' \in [Requests -> Tasks]
    BY <2>1, <2>2, <2>3, CopyType
  <2>9. QED
    BY <1>3, <2>1, <2>5, FaultType DEF CouchReads, TypeOK
<1>4. ASSUME NEW r \in Requests, Loaded(r) PROVE TypeOK'
  <2>1. task' \in [Requests -> Tasks]
    <3>1. "run" \in Steps /\ 1 \in 1..2
      BY DEF Steps
    <3>2. QED
      BY <1>4, <3>1, Fields, EndType, FreshType DEF Loaded, Missing, Run
  <2>9. QED
    BY <1>4, <2>1, CacheType, FaultType DEF Loaded, TypeOK
<1>5. ASSUME NEW r \in Requests, Handle(r) PROVE TypeOK'
  <2>1. task' \in [Requests -> Tasks]
    <3>1. "destroy" \in Steps /\ "user" \in Contents /\ "open" \in Contents
      BY DEF Steps, Contents
    <3>2. QED
      BY <1>5, <3>1, Fields, GoToType, SavesType DEF Handle
  <2>9. QED
    BY <1>5, <2>1, FaultType DEF Handle, TypeOK
<1>6. ASSUME NEW r \in Requests, SetRead(r) PROVE TypeOK'
  <2>1. task' \in [Requests -> Tasks] /\ due' \in [Requests -> BOOLEAN]
    <3>1. "put" \in Steps
      BY DEF Steps
    <3>2. QED
      BY <1>6, <3>1, GoToType, SavedType DEF SetRead, TypeOK
  <2>9. QED
    BY <1>6, <2>1, CacheType, FaultType DEF SetRead, TypeOK
<1>7. ASSUME NEW r \in Requests, PutLands(r) PROVE TypeOK'
  <2>1. PICK lands \in BOOLEAN, answers \in BOOLEAN :
          /\ Outcome(r, lands, answers)
          /\ task' = [task EXCEPT ![r] =
                        [@ EXCEPT !.at = IF answers THEN "written" ELSE "refused",
                                  !.got = [rev |-> Rev + 1, sess |-> sess(r)]]]
          /\ IF lands
               THEN /\ docs' = Append(docs, sess(r))
                    /\ late' = IF LateLogin(r) THEN [p \in Processes |-> TRUE] ELSE late
               ELSE UNCHANGED <<docs, late>>
    BY <1>7 DEF PutLands
  <2>2. task' \in [Requests -> Tasks]
    <3>1. [rev |-> Rev + 1, sess |-> sess(r)] \in Copies
      BY Fields DEF Copies
    <3>2. (IF answers THEN "written" ELSE "refused") \in Steps
      BY DEF Steps
    <3>3. QED
      BY <2>1, <3>1, <3>2, CopyType
  <2>3. docs' \in Seq(Contents \cup {"gone"}) /\ docs' # <<>>
    BY <2>1, Fields, DocsType
  <2>4. late' \in [Processes -> BOOLEAN]
    BY <2>1 DEF TypeOK
  <2>5. faults' \in 0..MaxFaults
    BY <2>1, FaultType DEF Outcome
  <2>9. QED
    BY <1>7, <2>2, <2>3, <2>4, <2>5, FaultType DEF PutLands, TypeOK
<1>8. ASSUME NEW r \in Requests, Written(r) PROVE TypeOK'
  <2>9. QED
    <3>1. cache' \in [Processes -> Copies \cup {NoEntry}]
      BY <1>8, Fields, PutType, CacheType DEF Written
    <3>2. QED
      BY <1>8, <3>1, SavedType, FaultType DEF Written, TypeOK
<1>9. ASSUME NEW r \in Requests, DestroyRead(r) PROVE TypeOK'
  <2>1. task' \in [Requests -> Tasks]
    <3>1. "delete" \in Steps
      BY DEF Steps
    <3>2. QED
      BY <1>9, <3>1, EndType, GoToType DEF DestroyRead
  <2>2. due' \in [Requests -> BOOLEAN]
    BY <1>9 DEF DestroyRead, TypeOK
  <2>9. QED
    BY <1>9, <2>1, <2>2, CacheType, FaultType DEF DestroyRead, TypeOK
<1>10. ASSUME NEW r \in Requests, DeleteLands(r) PROVE TypeOK'
  <2>1. PICK lands \in BOOLEAN, answers \in BOOLEAN :
          /\ Outcome(r, lands, answers)
          /\ GoTo(r, IF answers THEN "deleted" ELSE "kept")
          /\ docs' = IF lands THEN Append(docs, "gone") ELSE docs
    BY <1>10 DEF DeleteLands
  <2>2. task' \in [Requests -> Tasks]
    <3>1. (IF answers THEN "deleted" ELSE "kept") \in Steps
      BY DEF Steps
    <3>2. QED
      BY <2>1, <3>1, GoToType
  <2>3. docs' \in Seq(Contents \cup {"gone"}) /\ docs' # <<>>
    BY <2>1, DocsType
  <2>4. faults' \in 0..MaxFaults
    BY <2>1, FaultType DEF Outcome
  <2>9. QED
    BY <1>10, <2>2, <2>3, <2>4, FaultType DEF DeleteLands, TypeOK
<1>11. ASSUME NEW r \in Requests, Deleted(r) PROVE TypeOK'
  <2>1. due' \in [Requests -> BOOLEAN]
    BY <1>11 DEF Deleted, TypeOK
  <2>9. QED
    BY <1>11, <2>1, EndType, CacheType, FaultType DEF Deleted, TypeOK
<1>12. ASSUME NEW r \in Requests, Clear(r) PROVE TypeOK'
  <2>1. task' \in [Requests -> Tasks]
    BY <1>12, GoToType DEF Clear, Steps
  <2>9. QED
    BY <1>12, <2>1, CacheType, FaultType DEF Clear, TypeOK
<1>13. ASSUME NEW r \in Requests, Rows(r) PROVE TypeOK'
  <2>1. task' \in [Requests -> Tasks]
    <3>1. "bulk" \in Steps
      BY DEF Steps
    <3>2. QED
      BY <1>13, <3>1, EndType, GoToType DEF Rows
  <2>2. cache' \in [Processes -> Copies \cup {NoEntry}]
    BY <1>13, CacheType DEF Rows
  <2>9. QED
    BY <1>13, <2>1, <2>2, FaultType DEF Rows, TypeOK
<1>14. ASSUME NEW r \in Requests, BulkLands(r) PROVE TypeOK'
  <2>1. PICK lands \in BOOLEAN, answers \in BOOLEAN :
          /\ Outcome(r, lands, answers)
          /\ docs' = IF lands THEN Append(docs, "gone") ELSE docs
    BY <1>14 DEF BulkLands
  <2>2. docs' \in Seq(Contents \cup {"gone"}) /\ docs' # <<>>
    BY <2>1, DocsType
  <2>3. faults' \in 0..MaxFaults
    BY <2>1, FaultType DEF Outcome
  <2>9. QED
    BY <1>14, <2>2, <2>3, EndType, FaultType DEF BulkLands, TypeOK
<1>15. ASSUME NEW r \in Requests, Announce(r) PROVE TypeOK'
  <2>1. FeedTypeOK' /\ faults' \in 0..MaxFaults
    BY <1>15, FaultType, BroadcastType DEF Announce
  <2>2. due' \in [Requests -> BOOLEAN] /\ late' \in [Processes -> BOOLEAN]
    BY <1>15 DEF Announce, TypeOK
  <2>9. QED
    BY <1>15, <2>1, <2>2 DEF Announce, TypeOK
<1>16. ASSUME NEW p \in Processes, Flush(p) PROVE TypeOK'
  <2>1. OldOnItsWay(p) \in BOOLEAN
    BY Zenon DEF OldOnItsWay
  <2>2. late' \in [Processes -> BOOLEAN]
    BY <1>16, <2>1 DEF Flush, TypeOK
  <2>9. QED
    BY <1>16, <2>2, ReceiveType, PutType DEF Flush, TypeOK, Drop
<1>17. ASSUME NEW p \in Processes, DeleteSessions(p) PROVE TypeOK'
  <2>1. task' \in [Requests -> Tasks]
    <3>1. "clear" \in Kinds /\ "clear" \in Steps
      BY DEF Kinds, Steps
    <3>2. QED
      BY <1>17, <3>1, BecomeType DEF DeleteSessions
  <2>9. QED
    BY <1>17, <2>1, ReceiveType DEF DeleteSessions, TypeOK
<1>18. ASSUME NEW p \in Processes, Expire(p) PROVE TypeOK'
  <2>9. QED
    BY <1>18, PutType, FaultType DEF Expire, TypeOK, Drop
<1>19. ASSUME NEW p \in Processes, Reconnect(p) PROVE TypeOK'
  <2>1. FeedTypeOK'
    BY <1>19 DEF Reconnect, Connect, Since, TypeOK, FeedTypeOK
  <2>2. late' \in [Processes -> BOOLEAN]
    BY <1>19 DEF Reconnect, TypeOK
  <2>9. QED
    BY <1>19, <2>1, <2>2 DEF Reconnect, TypeOK
<1>20. ASSUME NEW p \in Processes, Restart(p) PROVE TypeOK'
  <2>1. FeedTypeOK'
    BY <1>20 DEF Restart, Boot, TypeOK, FeedTypeOK
  <2>2. task' \in [Requests -> Tasks]
    <3>1. [NewTask EXCEPT !.at = "end"] \in Tasks
      BY DEF NewTask, NoCopy, Copies, Tasks, Kinds, Steps, Contents
    <3>2. QED
      BY <1>20, <3>1 DEF Restart, TypeOK
  <2>3. due' \in [Requests -> BOOLEAN]
    BY <1>20, Zenon DEF Restart, TypeOK
  <2>4. late' \in [Processes -> BOOLEAN]
    BY <1>20 DEF Restart, TypeOK
  <2>9. QED
    BY <1>20, <2>1, <2>2, <2>3, <2>4, PutType, FaultType DEF Restart, TypeOK, Drop
<1>21. QED
  BY <1>1, <1>2, <1>3, <1>4, <1>5, <1>6, <1>7, <1>8, <1>9, <1>10, <1>11, <1>12, <1>13, <1>14, <1>15, <1>16, <1>17, <1>18, <1>19, <1>20
     DEF Next, RequestStep, ProcessStep

-----------------------------------------------------------------------------
\* What a request's step can do to its task and the document.
\* It ends up where it has no copy; it may have deleted the document.
MovesOn(r) ==
  /\ task'[r].at \notin WithCopy \cup {"idle"}
  /\ docs' = docs \/ docs' = Append(docs, "gone")

Reads(r) ==
  /\ task'[r].at \in {"got", "read", "found", "rows"}
  /\ task'[r].got.rev = Rev /\ task'[r].got.sess \in {Doc, "gone"}
  /\ docs' = docs

GoesToWrite(r) ==
  /\ at(r) \in {"read", "found", "rows"}
  /\ task'[r].at \in {"put", "delete", "bulk"}
  /\ task'[r].at = "put" => at(r) = "read" /\ ~Clears(r)
  /\ task'[r].got = task[r].got /\ task'[r].sess = task[r].sess
  /\ docs' = docs

Writes(r) ==
  /\ at(r) = "put" /\ Current(r)
  /\ task'[r].at \in {"written", "refused"}
  /\ task'[r].got.rev = Rev + 1 /\ task'[r].got.sess = sess(r)
  /\ docs' = Append(docs, sess(r))

OthersStay(r) == \A q \in Requests \ {r} : task'[q] = task[q]

Moves(r) ==
  /\ OthersStay(r)
  /\ MovesOn(r) \/ Reads(r) \/ GoesToWrite(r) \/ Writes(r)

LEMMA EndMoves ==
  ASSUME TypeOK, NEW r \in Requests, End(r)
  PROVE  OthersStay(r) /\ task'[r].at = "end"
BY DEF End, OthersStay, TypeOK, NewTask

LEMMA FreshMoves ==
  ASSUME TypeOK, NEW r \in Requests, NEW k, NEW step, NEW s, NEW n,
         task' = [task EXCEPT ![r] = Fresh(k, step, s, n)]
  PROVE  OthersStay(r) /\ task'[r].at = step /\ task'[r].sess = s /\ task'[r].saves = n
BY DEF Fresh, OthersStay, TypeOK

LEMMA GoToMoves ==
  ASSUME TypeOK, NEW r \in Requests, NEW step, GoTo(r, step)
  PROVE  /\ OthersStay(r) /\ task'[r].at = step
         /\ task'[r].got = task[r].got /\ task'[r].sess = task[r].sess
<1>1. task[r] \in Tasks
  BY DEF TypeOK
<1>2. QED
  BY <1>1 DEF GoTo, OthersStay, TypeOK, Tasks

LEMMA SavedMoves ==
  ASSUME TypeOK, NEW r \in Requests, Saved(r)
  PROVE  OthersStay(r) /\ task'[r].at \in {"set", "end"}
<1>1. CASE task[r].saves = 2
  BY <1>1, FreshMoves DEF Saved, Saves
<1>2. CASE task[r].saves # 2
  BY <1>2, EndMoves DEF Saved
<1>3. QED
  BY <1>1, <1>2

LEMMA RequestMoves ==
  ASSUME TypeOK, NEW r \in Requests, RequestStep(r), ~Announce(r)
  PROVE  Moves(r)
<1> USE DEF Moves, MovesOn, WithCopy
<1>1. CASE Start(r)
  <2>1. OthersStay(r) /\ task'[r].at \in {"run", "get", "view", "clear", "end"}
    BY <1>1, EndMoves, FreshMoves DEF Start, Get, Run, Become
  <2>2. QED
    BY <1>1, <2>1 DEF Start
<1>2. CASE CouchReads(r)
  <2>1. PICK doc \in {Doc, "gone"} :
          task' = [task EXCEPT ![r] = [@ EXCEPT !.at = Answered(at(r)),
                                                !.got = [rev |-> Rev, sess |-> doc]]]
    BY <1>2 DEF CouchReads
  <2>2. Answered(at(r)) \in {"got", "read", "found", "rows"}
    BY DEF Answered
  <2>3. OthersStay(r) /\ task'[r].at = Answered(at(r)) /\ task'[r].got = [rev |-> Rev, sess |-> doc]
    <3>1. task[r] \in Tasks
      BY DEF TypeOK
    <3>2. QED
      BY <2>1, <3>1 DEF OthersStay, TypeOK, Tasks
  <2>4. QED
    BY <1>2, <2>2, <2>3 DEF CouchReads, Reads
<1>3. CASE Loaded(r)
  BY <1>3, EndMoves, FreshMoves DEF Loaded, Run
<1>4. CASE Handle(r)
  <2>1. OthersStay(r) /\ task'[r].at \in {"set", "destroy"}
    BY <1>4, FreshMoves, GoToMoves DEF Handle, Saves
  <2>2. QED
    BY <1>4, <2>1 DEF Handle
<1>5. CASE SetRead(r)
  <2>1. CASE ~Clears(r) /\ GoTo(r, "put")
    BY <1>5, <2>1, GoToMoves DEF SetRead, GoesToWrite
  <2>2. CASE Saved(r)
    BY <1>5, <2>2, SavedMoves DEF SetRead
  <2>3. QED
    BY <1>5, <2>1, <2>2 DEF SetRead
<1>6. CASE PutLands(r)
  <2>1. PICK lands \in BOOLEAN, answers \in BOOLEAN :
          /\ Outcome(r, lands, answers)
          /\ task' = [task EXCEPT ![r] =
                        [@ EXCEPT !.at = IF answers THEN "written" ELSE "refused",
                                  !.got = [rev |-> Rev + 1, sess |-> sess(r)]]]
          /\ IF lands
               THEN /\ docs' = Append(docs, sess(r))
                    /\ late' = IF LateLogin(r) THEN [p \in Processes |-> TRUE] ELSE late
               ELSE UNCHANGED <<docs, late>>
    BY <1>6 DEF PutLands
  <2>2. /\ OthersStay(r)
        /\ task'[r].at = IF answers THEN "written" ELSE "refused"
        /\ task'[r].got = [rev |-> Rev + 1, sess |-> sess(r)]
    <3>1. task[r] \in Tasks
      BY DEF TypeOK
    <3>2. QED
      BY <2>1, <3>1 DEF OthersStay, TypeOK, Tasks
  <2>3. (answers => lands) /\ (lands => Current(r))
    <3>1. CASE Current(r)
      BY <2>1, <3>1, Zenon DEF Outcome
    <3>2. CASE ~Current(r)
      <4>1. Current(r) = FALSE
        BY <3>2 DEF Current
      <4>2. QED
        BY <2>1, <4>1 DEF Outcome
    <3>3. QED
      BY <3>1, <3>2
  <2>4. CASE lands
    <3>1. Writes(r)
      BY <1>6, <2>1, <2>2, <2>3, <2>4 DEF PutLands, Writes
    <3>2. QED
      BY <2>2, <3>1
  <2>5. CASE ~lands
    BY <2>1, <2>2, <2>3, <2>5
  <2>6. QED
    BY <2>4, <2>5
<1>7. CASE Written(r)
  BY <1>7, SavedMoves DEF Written
<1>8. CASE DestroyRead(r)
  BY <1>8, EndMoves, GoToMoves DEF DestroyRead, GoesToWrite
<1>9. CASE DeleteLands(r)
  BY <1>9, GoToMoves DEF DeleteLands
<1>10. CASE Deleted(r)
  BY <1>10, EndMoves DEF Deleted
<1>11. CASE Clear(r)
  BY <1>11, GoToMoves DEF Clear
<1>12. CASE Rows(r)
  BY <1>12, EndMoves, GoToMoves DEF Rows, GoesToWrite
<1>13. CASE BulkLands(r)
  BY <1>13, EndMoves DEF BulkLands
<1>14. QED
  BY <1>1, <1>2, <1>3, <1>4, <1>5, <1>6, <1>7, <1>8, <1>9, <1>10, <1>11, <1>12, <1>13
     DEF RequestStep

-----------------------------------------------------------------------------
\* Documents and caches.
DocsGrow == docs' = docs \/ \E d \in Contents \cup {"gone"} : docs' = Append(docs, d)

StoredNext(c) ==
  c.sess # "gone" => c.rev \in 1..Len(docs') /\ docs'[c.rev] = c.sess

LEMMA StoredStays ==
  ASSUME TypeOK, DocsGrow, NEW c, Stored(c) PROVE StoredNext(c)
<1>1. CASE docs' = docs
  BY <1>1 DEF Stored, StoredNext, Rev
<1>2. ASSUME NEW d \in Contents \cup {"gone"}, docs' = Append(docs, d) PROVE StoredNext(c)
  BY <1>2 DEF Stored, StoredNext, Rev, TypeOK
<1>3. QED
  BY <1>1, <1>2 DEF DocsGrow

LEMMA MovesGrow ==
  ASSUME TypeOK, NEW r \in Requests, Moves(r) PROVE DocsGrow
BY Fields DEF Moves, MovesOn, Reads, GoesToWrite, Writes, DocsGrow

\* An entry a request puts into its process's cache is its copy.
Caches(r) ==
  \A p \in Processes :
    \/ cache'[p] = cache[p]
    \/ cache'[p] = NoEntry
    \/ /\ p = Home[r] /\ cache'[p] = got(r) /\ ~Missing(r)
       /\ at(r) \in {"got", "read", "found", "written"}

LEMMA RequestCaches ==
  ASSUME TypeOK, CopiesStored, NEW r \in Requests, RequestStep(r) PROVE Caches(r)
<1>1. ASSUME Fill(r), at(r) \in {"got", "read", "found"} PROVE Caches(r)
  BY <1>1 DEF Fill, Put, Caches, TypeOK
<1>2. ASSUME Drop(Home[r]) PROVE Caches(r)
  BY <1>2 DEF Drop, Put, Caches, TypeOK
<1>3. ASSUME UNCHANGED cache PROVE Caches(r)
  BY <1>3 DEF Caches
<1>4. ASSUME Written(r) PROVE Caches(r)
  <2>1. CASE at(r) = "written"
    BY <1>4, <2>1 DEF Written, CopiesStored, Put, Caches, TypeOK
  <2>2. CASE at(r) # "written"
    BY <1>2, <1>4, <2>2 DEF Written
  <2>3. QED
    BY <2>1, <2>2
<1>5. ASSUME Start(r) \/ CouchReads(r) \/ Handle(r) \/ PutLands(r) \/ DeleteLands(r)
             \/ BulkLands(r) \/ Announce(r)
      PROVE  Caches(r)
  BY <1>3, <1>5 DEF Start, CouchReads, Handle, PutLands, DeleteLands, BulkLands, Announce
<1>6. ASSUME Loaded(r) \/ SetRead(r) \/ DestroyRead(r) PROVE Caches(r)
  BY <1>1, <1>6 DEF Loaded, SetRead, DestroyRead
<1>7. ASSUME Deleted(r) \/ Clear(r) \/ Rows(r) PROVE Caches(r)
  BY <1>2, <1>3, <1>7 DEF Deleted, Clear, Rows
<1>8. QED
  BY <1>4, <1>5, <1>6, <1>7 DEF RequestStep

LEMMA ProcessMoves ==
  ASSUME TypeOK, NEW p \in Processes, ProcessStep(p)
  PROVE  /\ docs' = docs /\ scheme' = scheme
         /\ \A q \in Processes : cache'[q] = cache[q] \/ cache'[q] = NoEntry
         /\ \A r \in Requests : task'[r] = task[r] \/ task'[r].at \in {"clear", "end"}
<1>1. docs' = docs /\ scheme' = scheme
  BY DEF ProcessStep, Flush, DeleteSessions, Expire, Reconnect, Restart
<1>2. \A q \in Processes : cache'[q] = cache[q] \/ cache'[q] = NoEntry
  BY DEF ProcessStep, Flush, DeleteSessions, Expire, Reconnect, Restart, Drop, Put, TypeOK
<1>3. CASE DeleteSessions(p)
  <2>1. PICK r \in Requests : Become(r, "clear", "clear")
    BY <1>3 DEF DeleteSessions
  <2>2. OthersStay(r) /\ task'[r].at = "clear"
    BY <2>1, FreshMoves DEF Become
  <2>3. QED
    BY <1>1, <1>2, <2>2 DEF OthersStay
<1>4. CASE Restart(p)
  <2>1. \A r \in Requests : task'[r] = task[r] \/ task'[r].at = "end"
    BY <1>4 DEF Restart, TypeOK, NewTask
  <2>2. QED
    BY <1>1, <1>2, <2>1
<1>5. CASE Flush(p) \/ Expire(p) \/ Reconnect(p)
  BY <1>1, <1>2, <1>5 DEF Flush, Expire, Reconnect
<1>6. QED
  BY <1>3, <1>4, <1>5 DEF ProcessStep

\* What a copy was worth before the step it is worth after it.
LEMMA CopiesStep ==
  ASSUME TypeOK, CopiesStored, WritesKeepProfile, [Next]_vars
  PROVE  CopiesStored' /\ WritesKeepProfile'
<1> DEFINE
  Good(t) == /\ t.at \in WithCopy => StoredNext(t.got)
             /\ t.at = "written" => t.got.sess # "gone"
             /\ t.at = "put" => ~(scheme = "oauth" /\ t.got.sess = "user" /\ t.sess # "user")
<1>1. ASSUME DocsGrow, NEW r \in Requests PROVE Good(task[r])
  BY <1>1, StoredStays DEF CopiesStored, WritesKeepProfile, Clears, Missing, at, got, sess
<1>2. ASSUME \A r \in Requests : Good(task'[r]), scheme' = scheme
      PROVE  CopiesStored' /\ WritesKeepProfile'
  BY <1>2 DEF CopiesStored, WritesKeepProfile, Clears, Missing, Stored, StoredNext, Rev, at, got, sess
<1>3. CASE UNCHANGED vars
  BY <1>1, <1>2, <1>3 DEF vars, DocsGrow
<1>4. ASSUME NEW r \in Requests, RequestStep(r), ~Announce(r)
      PROVE  CopiesStored' /\ WritesKeepProfile'
  <2>1. Moves(r)
    BY <1>4, RequestMoves
  <2>2. DocsGrow
    BY <2>1, MovesGrow
  <2>3. Good(task'[r])
    <3>1. CASE MovesOn(r)
      BY <3>1 DEF MovesOn, WithCopy
    <3>2. CASE Reads(r)
      <4>1. StoredNext(task'[r].got)
        BY <3>2, Fields DEF Reads, StoredNext, Rev, Doc
      <4>2. QED
        BY <3>2, <4>1 DEF Reads
    <3>3. CASE GoesToWrite(r)
      <4>1. Good(task[r])
        BY <1>1, <2>2
      <4>2. QED
        BY <3>3, <4>1 DEF GoesToWrite, WithCopy, Clears, at, got, sess
    <3>4. CASE Writes(r)
      <4>1. StoredNext(task'[r].got)
        BY <3>4, Fields DEF Writes, StoredNext, Rev, TypeOK
      <4>2. sess(r) # "gone"
        BY Fields DEF Contents
      <4>3. QED
        BY <3>4, <4>1, <4>2 DEF Writes
    <3>5. QED
      BY <2>1, <3>1, <3>2, <3>3, <3>4 DEF Moves
  <2>4. \A q \in Requests : Good(task'[q])
    BY <1>1, <2>1, <2>2, <2>3 DEF Moves, OthersStay
  <2>5. scheme' = scheme
    BY <1>4 DEF RequestStep, Start, CouchReads, Loaded, Handle, SetRead, PutLands, Written,
                DestroyRead, DeleteLands, Deleted, Clear, Rows, BulkLands
  <2>6. QED
    BY <1>2, <2>4, <2>5
<1>5. ASSUME NEW r \in Requests, Announce(r) PROVE CopiesStored' /\ WritesKeepProfile'
  BY <1>1, <1>2, <1>5 DEF Announce, DocsGrow
<1>6. ASSUME NEW p \in Processes, ProcessStep(p) PROVE CopiesStored' /\ WritesKeepProfile'
  <2>1. DocsGrow
    BY <1>6, ProcessMoves DEF DocsGrow
  <2>2. \A q \in Requests : Good(task'[q])
    BY <1>1, <1>6, <2>1, ProcessMoves DEF WithCopy
  <2>3. QED
    BY <1>2, <1>6, <2>2, ProcessMoves
<1>7. QED
  BY <1>3, <1>4, <1>5, <1>6 DEF Next

LEMMA CacheStep ==
  ASSUME TypeOK, CopiesStored, CacheWasStored, [Next]_vars PROVE CacheWasStored'
<1>1. DocsGrow
  <2>1. CASE UNCHANGED vars
    BY <2>1 DEF vars, DocsGrow
  <2>2. ASSUME NEW r \in Requests, RequestStep(r), ~Announce(r) PROVE DocsGrow
    BY <2>2, RequestMoves, MovesGrow
  <2>3. ASSUME NEW r \in Requests, Announce(r) PROVE DocsGrow
    BY <2>3 DEF Announce, DocsGrow
  <2>4. ASSUME NEW p \in Processes, ProcessStep(p) PROVE DocsGrow
    BY <2>4, ProcessMoves DEF DocsGrow
  <2>5. QED
    BY <2>1, <2>2, <2>3, <2>4 DEF Next
<1>2. ASSUME NEW p \in Processes, cache[p] # NoEntry
      PROVE  StoredNext(cache[p]) /\ cache[p].sess # "gone"
  <2>1. Stored(cache[p]) /\ cache[p].sess # "gone"
    BY <1>2 DEF CacheWasStored, Stored
  <2>2. QED
    BY <1>1, <2>1, StoredStays
<1>3. ASSUME \A p \in Processes :
               cache'[p] # NoEntry => StoredNext(cache'[p]) /\ cache'[p].sess # "gone"
      PROVE  CacheWasStored'
  BY <1>3 DEF CacheWasStored, StoredNext, Rev
<1>4. CASE UNCHANGED vars
  BY <1>2, <1>3, <1>4 DEF vars
<1>5. ASSUME NEW r \in Requests, RequestStep(r) PROVE CacheWasStored'
  <2>1. Caches(r)
    BY <1>5, RequestCaches
  <2>2. at(r) \in WithCopy => StoredNext(got(r))
    BY <1>1, StoredStays DEF CopiesStored
  <2>3. QED
    BY <1>2, <1>3, <2>1, <2>2 DEF Caches, WithCopy, Missing
<1>6. ASSUME NEW p \in Processes, ProcessStep(p) PROVE CacheWasStored'
  BY <1>2, <1>3, <1>6, ProcessMoves
<1>7. QED
  BY <1>4, <1>5, <1>6 DEF Next

\* ProfileStays, as a fact about one step.
LEMMA ProfileStep ==
  ASSUME TypeOK, CopiesStored, WritesKeepProfile, [Next]_vars,
         scheme = "oauth", Doc = "user"
  PROVE  docs'[Len(docs')] # "open"
<1>1. ASSUME docs' = docs PROVE docs'[Len(docs')] # "open"
  BY <1>1 DEF Doc, Rev
<1>2. ASSUME NEW d, docs' = Append(docs, d), d \in {"gone", "user"}
      PROVE  docs'[Len(docs')] # "open"
  BY <1>2 DEF TypeOK
<1>3. CASE UNCHANGED vars
  BY <1>1, <1>3 DEF vars
<1>4. ASSUME NEW r \in Requests, RequestStep(r), ~Announce(r)
      PROVE  docs'[Len(docs')] # "open"
  <2>1. Moves(r)
    BY <1>4, RequestMoves
  <2>2. CASE Writes(r)
    <3>1. at(r) = "put" /\ Current(r) /\ docs' = Append(docs, sess(r))
      BY <2>2 DEF Writes
    <3>2. ~Missing(r) /\ got(r).rev = Rev
      BY <3>1 DEF Current
    <3>3. got(r).sess = "user"
      BY <3>1, <3>2 DEF CopiesStored, WithCopy, Stored, Missing, Doc
    <3>4. sess(r) = "user"
      BY <3>1, <3>3 DEF WritesKeepProfile, Clears
    <3>5. QED
      BY <1>2, <3>1, <3>4
  <2>3. CASE ~Writes(r)
    BY <1>1, <1>2, <2>1, <2>3 DEF Moves, MovesOn, Reads, GoesToWrite
  <2>4. QED
    BY <2>2, <2>3
<1>5. ASSUME NEW r \in Requests, Announce(r) PROVE docs'[Len(docs')] # "open"
  BY <1>1, <1>5 DEF Announce
<1>6. ASSUME NEW p \in Processes, ProcessStep(p) PROVE docs'[Len(docs')] # "open"
  BY <1>1, <1>6, ProcessMoves
<1>7. QED
  BY <1>3, <1>4, <1>5, <1>6 DEF Next
\* GoneForGood, as a fact about one step.
LEMMA GoneStep ==
  ASSUME TypeOK, [Next]_vars, Forgotten PROVE Forgotten'
<1>1. /\ Doc = "gone"
      /\ \A p \in Processes : cache[p] = NoEntry
      /\ \A r \in Requests : ~Holds(r)
  BY DEF Forgotten
<1>2. ASSUME docs' = docs \/ docs' = Append(docs, "gone"),
             \A p \in Processes : cache'[p] = NoEntry,
             NEW r \in Requests, OthersStay(r), ~Holds(r)'
      PROVE  Forgotten'
  <2>1. Doc' = "gone"
    BY <1>1, <1>2 DEF Doc, Rev, TypeOK
  <2>2. \A q \in Requests : ~Holds(q)'
    BY <1>1, <1>2 DEF OthersStay, Holds, Missing, at, got
  <2>3. QED
    BY <1>2, <2>1, <2>2 DEF Forgotten
<1>3. CASE UNCHANGED vars
  BY <1>3, <1>1 DEF vars, Forgotten, Doc, Rev, Holds, Missing, at, got
<1>4. ASSUME NEW r \in Requests, RequestStep(r), ~Announce(r) PROVE Forgotten'
  <2>1. at(r) \notin {"run", "set", "read", "put", "written", "refused"}
    BY <1>1 DEF Holds
  <2>2. at(r) \in {"got", "found"} => Missing(r)
    BY <1>1 DEF Holds
  <2>3. \A p \in Processes : cache'[p] = NoEntry
    <3>1. ASSUME UNCHANGED cache \/ Drop(Home[r]) PROVE \A p \in Processes : cache'[p] = NoEntry
      BY <1>1, <3>1 DEF Drop, Put, TypeOK
    <3>2. at(r) \in {"got", "found"} => (Fill(r) => UNCHANGED cache)
      BY <2>2 DEF Fill
    <3>3. CASE Loaded(r) \/ DestroyRead(r)
      BY <3>1, <3>2, <3>3 DEF Loaded, DestroyRead
    <3>4. CASE Start(r) \/ CouchReads(r) \/ DeleteLands(r) \/ Deleted(r) \/ Clear(r)
               \/ Rows(r) \/ BulkLands(r)
      BY <3>1, <3>4 DEF Start, CouchReads, DeleteLands, Deleted, Clear, Rows, BulkLands
    <3>5. QED
      BY <1>4, <2>1, <3>3, <3>4 DEF RequestStep, Handle, SetRead, PutLands, Written
  <2>4. Moves(r)
    BY <1>4, RequestMoves
  <2>5. docs' = docs \/ docs' = Append(docs, "gone")
    BY <2>1, <2>4 DEF Moves, MovesOn, Reads, GoesToWrite, Writes
  <2>6. ~Holds(r)'
    <3>1. ASSUME task'[r].at \in {"get", "view", "clear", "end", "rows", "delete", "bulk",
                                  "deleted", "kept"}
          PROVE  ~Holds(r)'
      BY <3>1 DEF Holds, at
    <3>2. CASE Start(r)
      <4>1. ASSUME NEW k, Get(r, k) PROVE Become(r, k, "get")
        BY <1>1, <4>1 DEF Get
      <4>2. task'[r].at \in {"get", "view", "clear", "end"}
        BY <3>2, <4>1, EndMoves, FreshMoves DEF Start, Become
      <4>3. QED
        BY <3>1, <4>2
    <3>3. CASE CouchReads(r)
      <4>1. PICK doc \in {Doc, "gone"} :
              task' = [task EXCEPT ![r] = [@ EXCEPT !.at = Answered(at(r)),
                                                    !.got = [rev |-> Rev, sess |-> doc]]]
        BY <3>3 DEF CouchReads
      <4>2. Answered(at(r)) \in {"got", "found", "rows"}
        BY <2>1 DEF Answered
      <4>3. task'[r].at = Answered(at(r)) /\ task'[r].got.sess = "gone"
        <5>1. task[r] \in Tasks
          BY DEF TypeOK
        <5>2. QED
          BY <1>1, <4>1, <5>1 DEF TypeOK, Tasks
      <4>4. QED
        BY <4>2, <4>3 DEF Holds, Missing, at, got
    <3>4. CASE Loaded(r) \/ DestroyRead(r)
      BY <2>2, <3>1, <3>4, EndMoves DEF Loaded, DestroyRead
    <3>5. CASE DeleteLands(r)
      BY <3>1, <3>5, GoToMoves DEF DeleteLands
    <3>6. CASE Deleted(r) \/ BulkLands(r)
      BY <3>1, <3>6, EndMoves DEF Deleted, BulkLands
    <3>7. CASE Clear(r) \/ Rows(r)
      BY <3>1, <3>7, EndMoves, GoToMoves DEF Clear, Rows
    <3>8. QED
      BY <1>4, <2>1, <3>2, <3>3, <3>4, <3>5, <3>6, <3>7
         DEF RequestStep, Handle, SetRead, PutLands, Written
  <2>7. OthersStay(r)
    BY <2>4 DEF Moves
  <2>8. QED
    BY <1>2, <2>3, <2>5, <2>6, <2>7
<1>5. ASSUME NEW r \in Requests, Announce(r) PROVE Forgotten'
  BY <1>1, <1>5 DEF Announce, Forgotten, Doc, Rev, Holds, Missing, at, got
<1>6. ASSUME NEW p \in Processes, ProcessStep(p) PROVE Forgotten'
  <2>1. \A r \in Requests : task'[r] = task[r] \/ task'[r].at \in {"clear", "end"}
    BY <1>6, ProcessMoves
  <2>2. \A r \in Requests : ~Holds(r)'
    BY <1>1, <2>1 DEF Holds, Missing, at, got
  <2>3. Doc' = "gone" /\ \A q \in Processes : cache'[q] = NoEntry
    BY <1>1, <1>6, ProcessMoves DEF Doc, Rev
  <2>4. QED
    BY <2>2, <2>3 DEF Forgotten
<1>7. QED
  BY <1>3, <1>4, <1>5, <1>6 DEF Next

-----------------------------------------------------------------------------
\* The broadcast after a login.
LEMMA IdleStep ==
  ASSUME TypeOK, IdleUndue, [Next]_vars PROVE IdleUndue'
<1>1. CASE UNCHANGED vars
  BY <1>1 DEF vars, IdleUndue, at
<1>2. ASSUME NEW r \in Requests, RequestStep(r), ~Announce(r) PROVE IdleUndue'
  <2>1. OthersStay(r) /\ task'[r].at # "idle"
    BY <1>2, RequestMoves DEF Moves, MovesOn, Reads, GoesToWrite, Writes
  <2>2. \A q \in Requests \ {r} : due'[q] = due[q]
    BY <1>2 DEF RequestStep, Start, CouchReads, Loaded, Handle, SetRead, PutLands, Written, Saved,
                DestroyRead, DeleteLands, Deleted, Clear, Rows, BulkLands, TypeOK
  <2>3. QED
    BY <2>1, <2>2 DEF IdleUndue, OthersStay, at
<1>3. ASSUME NEW r \in Requests, Announce(r) PROVE IdleUndue'
  BY <1>3 DEF Announce, IdleUndue, at, TypeOK
<1>4. ASSUME NEW p \in Processes, ProcessStep(p) PROVE IdleUndue'
  <2>1. \A r \in Requests : task'[r] = task[r] \/ task'[r].at \in {"clear", "end"}
    BY <1>4, ProcessMoves
  <2>2. \A r \in Requests : due'[r] => due[r]
    BY <1>4 DEF ProcessStep, Flush, DeleteSessions, Expire, Reconnect, Restart, TypeOK
  <2>3. QED
    BY <2>1, <2>2 DEF IdleUndue, at
<1>5. QED
  BY <1>1, <1>2, <1>3, <1>4 DEF Next

\* A request that sees the user does not bring back the session without it.
LEMMA NothingOld ==
  ASSUME TypeOK, CopiesStored, NEW r \in Requests, Moves(r), Caches(r),
         docs'[Len(docs')] = "user", docs' = docs => Doc = "user",
         NEW p \in Processes, HasOld(p)'
  PROVE  HasOld(p)
<1>1. CASE cache'[p] # NoEntry /\ cache'[p].sess = "open"
  BY <1>1 DEF Caches, HasOld, OldOnItsWay
<1>2. CASE ~(cache'[p] # NoEntry /\ cache'[p].sess = "open")
  <2>1. PICK q \in Requests : /\ Home[q] = p
                              /\ task'[q].at \in {"got", "read", "found", "written"}
                              /\ task'[q].got.sess = "open"
    BY <1>2 DEF HasOld, OldOnItsWay, at, got
  <2>2. q # r
    <3>1. SUFFICES ASSUME q = r PROVE FALSE
      OBVIOUS
    <3>2. CASE MovesOn(r)
      BY <2>1, <3>1, <3>2 DEF MovesOn, WithCopy
    <3>3. CASE Reads(r)
      BY <2>1, <3>1, <3>3 DEF Reads
    <3>4. CASE GoesToWrite(r)
      BY <2>1, <3>1, <3>4 DEF GoesToWrite
    <3>5. CASE Writes(r)
      <4>1. docs'[Len(docs')] = sess(r)
        BY <3>5 DEF Writes, TypeOK
      <4>2. QED
        BY <2>1, <3>1, <3>5, <4>1 DEF Writes
    <3>6. QED
      BY <3>2, <3>3, <3>4, <3>5 DEF Moves
  <2>3. task'[q] = task[q]
    BY <2>2 DEF Moves, OthersStay
  <2>4. QED
    BY <2>1, <2>3 DEF HasOld, OldOnItsWay, at, got
<1>3. QED
  BY <1>1, <1>2

\* Somebody still has to tell of the login, or it has been told to all.
LEMMA UntoldStays ==
  ASSUME TypeOK, IdleUndue, NEW r \in Requests, RequestStep(r), ~Announce(r),
         NEW q \in Requests, Untold(q)
  PROVE  Untold(q)'
<1>1. OthersStay(r)
  BY RequestMoves DEF Moves
<1>2. \A x \in Requests \ {r} : due'[x] = due[x]
  BY DEF RequestStep, Start, CouchReads, Loaded, Handle, SetRead, PutLands, Written, Saved,
         DestroyRead, DeleteLands, Deleted, Clear, Rows, BulkLands, TypeOK
<1>3. CASE q # r
  BY <1>1, <1>2, <1>3 DEF OthersStay, Untold, at
<1>4. CASE q = r
  <2>1. ~Start(r)
    BY <1>4 DEF Start, IdleUndue, Untold
  <2>2. CASE Written(r)
    <3>1. CASE task[r].saves = 2
      BY <1>4, <2>2, <3>1 DEF Written, Saved, Untold, TypeOK
    <3>2. CASE task[r].saves # 2
      BY <1>4, <2>2, <3>2 DEF Written, Saved, Untold
    <3>3. QED
      BY <3>1, <3>2
  <2>3. CASE ~Written(r)
    <3>1. due[r]
      BY <1>4, <2>1, <2>3 DEF RequestStep, CouchReads, Loaded, Handle, SetRead, PutLands,
             DestroyRead, DeleteLands, Deleted, Clear, Rows, BulkLands, Untold
    <3>2. due'[r]
      BY <2>1, <2>3, <3>1 DEF RequestStep, CouchReads, Loaded, Handle, SetRead, PutLands, Saved,
             DestroyRead, DeleteLands, Deleted, Clear, Rows, BulkLands, TypeOK
    <3>3. QED
      BY <1>4, <3>2 DEF Untold
  <2>4. QED
    BY <2>2, <2>3
<1>5. QED
  BY <1>3, <1>4

LEMMA ToldStays ==
  ASSUME TypeOK, IdleUndue, NEW r \in Requests, RequestStep(r), NEW p \in Processes, Excused(p)
  PROVE  Excused(p)'
<1>1. CASE Announce(r)
  <2>1. CASE Broadcast("flush_session_cache")
    <3>1. /\ feed' = Append(feed, "flush_session_cache") /\ seen'[p] = seen[p]
          /\ seen[p] \in 0..Len(feed)
      BY <2>1 DEF Broadcast, TypeOK, FeedTypeOK
    <3>2. Len(feed') = Len(feed) + 1 /\ feed'[Len(feed) + 1] = "flush_session_cache"
      BY <3>1 DEF TypeOK, FeedTypeOK
    <3>3. Len(feed) + 1 \in (seen'[p] + 1)..Len(feed')
      BY <3>1, <3>2 DEF TypeOK, FeedTypeOK
    <3>4. QED
      BY <3>2, <3>3 DEF Excused, FlushToCome
  <2>2. CASE late' = [x \in Processes |-> TRUE]
    BY <2>2 DEF Excused
  <2>3. QED
    BY <1>1, <2>1, <2>2 DEF Announce
<1>2. CASE ~Announce(r)
  <2>1. late[p] => late'[p]
    BY <1>2 DEF RequestStep, Start, CouchReads, Loaded, Handle, SetRead, PutLands, Written,
                DestroyRead, DeleteLands, Deleted, Clear, Rows, BulkLands
  <2>2. FlushToCome(p) => FlushToCome(p)'
    <3>1. UNCHANGED feedVars \/ Broadcast("delete_sessions")
      BY <1>2 DEF RequestStep, Start, CouchReads, Loaded, Handle, SetRead, PutLands, Written,
                  DestroyRead, DeleteLands, Deleted, Clear, Rows, BulkLands
    <3>2. CASE UNCHANGED feedVars
      BY <3>2 DEF feedVars, FlushToCome
    <3>3. CASE Broadcast("delete_sessions")
      <4>1. feed' = Append(feed, "delete_sessions") /\ seen' = seen
        BY <3>3 DEF Broadcast
      <4>2. QED
        BY <4>1 DEF FlushToCome, TypeOK, FeedTypeOK
    <3>4. QED
      BY <3>1, <3>2, <3>3
  <2>3. QED
    BY <1>2, <2>1, <2>2, UntoldStays DEF Excused
<1>3. QED
  BY <1>1, <1>2

\* A process that empties its cache has nothing old, and one that may never
\* get a flush is excused.
LEMMA ProcessTold ==
  ASSUME TypeOK, IdleUndue, NEW p \in Processes, ProcessStep(p),
         NEW q \in Processes, HasOld(q) => Excused(q), HasOld(q)'
  PROVE  Excused(q)'
<1>1. CASE Flush(p)
  <2>1. /\ cache' = [cache EXCEPT ![p] = NoEntry] /\ task' = task /\ due' = due
        /\ late' = [late EXCEPT ![p] = OldOnItsWay(p)]
        /\ feed' = feed /\ seen' = [seen EXCEPT ![p] = @ + 1]
    BY <1>1 DEF Flush, Drop, Put, Receive
  <2>2. CASE q = p
    <3>1. OldOnItsWay(p)
      BY <2>1, <2>2 DEF HasOld, OldOnItsWay, at, got, TypeOK
    <3>2. late'[p]
      BY <2>1, <3>1 DEF TypeOK
    <3>3. QED
      BY <2>2, <3>2 DEF Excused
  <2>3. CASE q # p
    <3>1. HasOld(q)
      BY <2>1, <2>3 DEF HasOld, OldOnItsWay, at, got, TypeOK
    <3>2. QED
      BY <2>1, <2>3, <3>1 DEF Excused, FlushToCome, Untold, at, TypeOK, FeedTypeOK
  <2>4. QED
    BY <2>2, <2>3
<1>2. CASE DeleteSessions(p)
  <2>1. PICK r \in Requests : at(r) = "idle" /\ Become(r, "clear", "clear")
    BY <1>2 DEF DeleteSessions
  <2>2. OthersStay(r) /\ task'[r].at = "clear"
    BY <2>1, FreshMoves DEF Become
  <2>3. HasOld(q)
    BY <1>2, <2>2 DEF DeleteSessions, OthersStay, HasOld, OldOnItsWay, at, got
  <2>4. late[q] => late'[q]
    BY <1>2 DEF DeleteSessions
  <2>5. \A x \in Requests : Untold(x) => Untold(x)'
    BY <1>2, <2>1, <2>2 DEF DeleteSessions, OthersStay, Untold, IdleUndue, at
  <2>6. FlushToCome(q) => FlushToCome(q)'
    <3>1. /\ feed' = feed /\ seen' = [seen EXCEPT ![p] = @ + 1]
          /\ feed[seen[p] + 1] = "delete_sessions"
      BY <1>2 DEF DeleteSessions, Receive, Message
    <3>2. ASSUME NEW i \in (seen[q] + 1)..Len(feed), feed[i] = "flush_session_cache"
          PROVE  i \in (seen'[q] + 1)..Len(feed')
      <4>1. seen[q] \in Nat /\ seen[p] \in Nat
        BY DEF TypeOK, FeedTypeOK
      <4>2. i # seen[p] + 1
        BY <3>1, <3>2
      <4>3. QED
        BY <3>1, <3>2, <4>1, <4>2 DEF TypeOK, FeedTypeOK
    <3>3. QED
      BY <3>1, <3>2 DEF FlushToCome
  <2>7. QED
    BY <2>3, <2>4, <2>5, <2>6 DEF Excused
<1>3. CASE Expire(p)
  <2>1. HasOld(q)
    BY <1>3 DEF Expire, Drop, Put, HasOld, OldOnItsWay, at, got, TypeOK
  <2>2. QED
    BY <1>3, <2>1 DEF Expire, Excused, FlushToCome, Untold, at, feedVars
<1>4. CASE Reconnect(p)
  <2>1. HasOld(q)
    BY <1>4 DEF Reconnect, HasOld, OldOnItsWay, at, got
  <2>2. late[q] => late'[q]
    BY <1>4 DEF Reconnect, TypeOK
  <2>3. \A x \in Requests : Untold(x) => Untold(x)'
    BY <1>4 DEF Reconnect, Untold, at
  <2>4. FlushToCome(q) => FlushToCome(q)' \/ late'[q]
    <3>1. feed' = feed /\ seen' = [seen EXCEPT ![p] = Since(p)]
      BY <1>4 DEF Reconnect, Connect
    <3>2. CASE q # p \/ known[p]
      BY <3>1, <3>2 DEF FlushToCome, Since, TypeOK, FeedTypeOK
    <3>3. CASE q = p /\ ~known[p]
      <4>1. FlushToCome(p) => Unseen(p)
        BY DEF FlushToCome, Unseen, TypeOK, FeedTypeOK
      <4>2. QED
        BY <1>4, <3>3, <4>1 DEF Reconnect, TypeOK
    <3>4. QED
      BY <3>2, <3>3
  <2>5. QED
    BY <2>1, <2>2, <2>3, <2>4 DEF Excused
<1>5. CASE Restart(p)
  <2>1. /\ cache' = [cache EXCEPT ![p] = NoEntry]
        /\ task' = [r \in Requests |-> IF Home[r] = p /\ at(r) # "idle"
                      THEN [NewTask EXCEPT !.at = "end"] ELSE task[r]]
        /\ due' = [r \in Requests |-> due[r] /\ Home[r] # p]
        /\ late' = IF \E r \in Requests : Home[r] = p /\ Untold(r)
                     THEN [x \in Processes |-> TRUE] ELSE [late EXCEPT ![p] = FALSE]
        /\ feed' = feed /\ seen' = [seen EXCEPT ![p] = Len(feed)]
    BY <1>5 DEF Restart, Drop, Put, Boot
  <2>2. \A r \in Requests : Home[r] = p => task'[r].at \in {"idle", "end"}
    BY <2>1 DEF NewTask, at
  <2>3. q # p
    BY <2>1, <2>2 DEF HasOld, OldOnItsWay, at, TypeOK
  <2>4. \A r \in Requests : Home[r] # p => task'[r] = task[r] /\ due'[r] = due[r]
    BY <2>1 DEF TypeOK
  <2>5. HasOld(q)
    BY <2>1, <2>3, <2>4 DEF HasOld, OldOnItsWay, at, got, TypeOK
  <2>6. CASE \E r \in Requests : Home[r] = p /\ Untold(r)
    BY <2>1, <2>6 DEF Excused
  <2>7. CASE ~\E r \in Requests : Home[r] = p /\ Untold(r)
    <3>1. late[q] => late'[q]
      BY <2>1, <2>3, <2>7 DEF TypeOK
    <3>2. FlushToCome(q) => FlushToCome(q)'
      BY <2>1, <2>3 DEF FlushToCome, TypeOK, FeedTypeOK
    <3>3. \A r \in Requests : Untold(r) => Untold(r)'
      BY <2>4, <2>7 DEF Untold, at
    <3>4. QED
      BY <2>5, <3>1, <3>2, <3>3 DEF Excused
  <2>8. QED
    BY <2>6, <2>7
<1>6. QED
  BY <1>1, <1>2, <1>3, <1>4, <1>5 DEF ProcessStep

\* When the user enters the session its login is still to be told, or is late.
LEMMA UserEnters ==
  ASSUME TypeOK, NEW r \in Requests, PutLands(r), Doc = "open", docs'[Len(docs')] = "user",
         NEW p \in Processes
  PROVE  Excused(p)'
<1>1. PICK lands \in BOOLEAN, answers \in BOOLEAN :
        /\ task' = [task EXCEPT ![r] =
                      [@ EXCEPT !.at = IF answers THEN "written" ELSE "refused",
                                !.got = [rev |-> Rev + 1, sess |-> sess(r)]]]
        /\ IF lands
             THEN /\ docs' = Append(docs, sess(r))
                  /\ late' = IF LateLogin(r) THEN [x \in Processes |-> TRUE] ELSE late
             ELSE UNCHANGED <<docs, late>>
  BY DEF PutLands
<1>2. lands /\ sess(r) = "user"
  BY <1>1 DEF Doc, Rev, TypeOK
<1>3. CASE task[r].saves = 1
  BY <1>1, <1>2, <1>3 DEF LateLogin, Excused
<1>4. CASE task[r].saves = 2
  <2>1. task[r] \in Tasks
    BY DEF TypeOK
  <2>2. task'[r].saves = 2 /\ task'[r].at \in {"written", "refused"}
    BY <1>1, <1>4, <2>1 DEF Tasks, TypeOK
  <2>3. QED
    BY <2>2 DEF Excused, Untold, at
<1>5. QED
  BY <1>3, <1>4, Fields

LEMMA ToldStep ==
  ASSUME TypeOK, CopiesStored, IdleUndue, LoginTold, [Next]_vars PROVE LoginTold'
<1> SUFFICES ASSUME LoggedIn', NEW p \in Processes, HasOld(p)'
             PROVE  Excused(p)'
  BY DEF LoginTold
<1>1. scheme' = "oauth" /\ docs'[Len(docs')] = "user" /\ \A i \in 1..Len(docs') : docs'[i] # "gone"
  BY DEF LoggedIn, Doc, Rev
<1>2. CASE UNCHANGED vars
  <2>1. LoggedIn /\ HasOld(p)
    BY <1>2 DEF vars, LoggedIn, Doc, Rev, HasOld, OldOnItsWay, at, got
  <2>2. QED
    BY <1>2, <2>1 DEF LoginTold, vars, feedVars, Excused, FlushToCome, Untold, at
<1>3. ASSUME NEW r \in Requests, RequestStep(r), ~Announce(r) PROVE Excused(p)'
  <2>1. Moves(r) /\ Caches(r)
    BY <1>3, RequestMoves, RequestCaches
  <2>2. scheme' = scheme
    BY <1>3 DEF RequestStep, Start, CouchReads, Loaded, Handle, SetRead, PutLands, Written,
                DestroyRead, DeleteLands, Deleted, Clear, Rows, BulkLands
  <2>3. CASE Doc = "user"
    <3>1. LoggedIn
      <4>1. \A i \in 1..Rev : docs[i] # "gone"
        <5>1. DocsGrow
          BY <2>1, MovesGrow
        <5>2. QED
          BY <1>1, <5>1 DEF DocsGrow, Rev, TypeOK
      <4>2. QED
        BY <1>1, <2>2, <2>3, <4>1 DEF LoggedIn
    <3>2. HasOld(p)
      BY <1>1, <2>1, <2>3, NothingOld
    <3>3. QED
      BY <1>3, <3>1, <3>2, ToldStays DEF LoginTold
  <2>4. CASE Doc # "user"
    <3>1. docs' # docs
      BY <1>1, <2>4 DEF Doc, Rev
    <3>2. docs' = Append(docs, sess(r))
      <4>1. docs' # Append(docs, "gone")
        BY <1>1 DEF TypeOK
      <4>2. QED
        BY <2>1, <3>1, <4>1 DEF Moves, MovesOn, Reads, GoesToWrite, Writes
    <3>3. Doc = "open"
      <4>1. Rev \in 1..Len(docs') /\ docs'[Rev] = Doc
        BY <3>2, Fields DEF Rev, Doc, TypeOK
      <4>2. QED
        BY <1>1, <2>4, <4>1, Fields DEF Contents
    <3>4. PutLands(r)
      <4>1. at(r) = "put"
        BY <2>1, <3>1, <3>2, <1>1 DEF Moves, MovesOn, Reads, GoesToWrite, Writes, TypeOK
      <4>2. QED
        BY <1>3, <4>1 DEF RequestStep, Start, CouchReads, Loaded, Handle, SetRead, Written,
                DestroyRead, DeleteLands, Deleted, Clear, Rows, BulkLands
    <3>5. QED
      BY <1>1, <3>3, <3>4, UserEnters
  <2>5. QED
    BY <2>3, <2>4
<1>4. ASSUME NEW r \in Requests, Announce(r) PROVE Excused(p)'
  <2>1. LoggedIn /\ HasOld(p)
    BY <1>4 DEF Announce, LoggedIn, Doc, Rev, HasOld, OldOnItsWay, at, got
  <2>2. QED
    BY <1>4, <2>1, ToldStays DEF LoginTold, RequestStep
<1>5. ASSUME NEW q \in Processes, ProcessStep(q) PROVE Excused(p)'
  <2>1. LoggedIn
    BY <1>1, <1>5, ProcessMoves DEF LoggedIn, Doc, Rev
  <2>2. QED
    BY <1>5, <2>1, ProcessTold DEF LoginTold
<1>6. QED
  BY <1>2, <1>3, <1>4, <1>5 DEF Next

-----------------------------------------------------------------------------
LEMMA InitIInv == Init => IInv
<1> SUFFICES ASSUME Init PROVE IInv
  OBVIOUS
<1>1. NewTask \in Tasks
  BY DEF NewTask, NoCopy, Copies, Tasks, Kinds, Steps, Contents
<1>2. docs \in Seq(Contents \cup {"gone"}) /\ docs # <<>> /\ Rev = 1 /\ Doc = "open"
  BY DEF Init, Contents, Rev, Doc
<1>3. feed = <<>> /\ FeedTypeOK
  BY DEF Init, FeedInit, FeedTypeOK
<1>4. TypeOK
  BY <1>1, <1>2, <1>3 DEF Init, TypeOK
<1>5. \A r \in Requests : at(r) = "idle" /\ ~due[r]
  BY DEF Init, NewTask, at
<1>6. CacheWasStored
  BY DEF Init, CacheWasStored
<1>7. CopiesStored /\ WritesKeepProfile /\ IdleUndue /\ LoginTold
  BY <1>2, <1>5 DEF CopiesStored, WithCopy, WritesKeepProfile, IdleUndue, LoginTold, LoggedIn
<1>8. QED
  BY <1>4, <1>6, <1>7 DEF IInv

LEMMA IInvStep == IInv /\ [Next]_vars => IInv'
<1> SUFFICES ASSUME IInv, [Next]_vars PROVE IInv'
  OBVIOUS
<1>1. TypeOK /\ CacheWasStored /\ CopiesStored /\ WritesKeepProfile /\ IdleUndue /\ LoginTold
  BY DEF IInv
<1>2. QED
  BY <1>1, TypeStep, CacheStep, CopiesStep, IdleStep, ToldStep DEF IInv

\* The invariant the others rest on: what requests and caches have of the
\* session was stored, and a process that may show a logged-in user as nobody
\* has a reason.
THEOREM IInvHolds == Spec => []IInv
BY InitIInv, IInvStep, PTL DEF Spec

\* Every variable has its type, at any number of requests and processes.
THEOREM TypeCorrect == Spec => []TypeOK
<1>1. IInv => TypeOK
  BY DEF IInv
<1>2. QED
  BY <1>1, IInvHolds, PTL

\* A cache never shows a session that was not in CouchDB with that _rev, though
\* writes fail, conflict, and lose their answers.
THEOREM CacheWasStoredHolds == Spec => []CacheWasStored
<1>1. IInv => CacheWasStored
  BY DEF IInv
<1>2. QED
  BY <1>1, IInvHolds, PTL

\* After a login's flush no process that got it shows the session without its
\* user, but for the reasons the model names.
THEOREM FlushTells == Spec => []FlushTellsOfLogin
<1>1. IInv => FlushTellsOfLogin
  BY DEF IInv, LoginTold, LoggedIn, HasOld, Excused, FlushTellsOfLogin
<1>2. QED
  BY <1>1, IInvHolds, PTL

\* A passport user stays in the session until it is deleted, whatever older
\* requests save.
THEOREM ProfileStaysHolds == Spec => ProfileStays
<1>1. IInv /\ [Next]_vars
        => [scheme = "oauth" /\ Doc = "user" => docs'[Len(docs')] # "open"]_vars
  BY ProfileStep DEF IInv
<1>2. QED
  BY <1>1, IInvHolds, PTL DEF Spec, ProfileStays

\* A session that only old messages speak of does not come back.
THEOREM GoneForGoodHolds == Spec => GoneForGood
<1>1. IInv /\ [Next]_vars => [Forgotten => Forgotten']_vars
  BY GoneStep DEF IInv
<1>2. QED
  BY <1>1, IInvHolds, PTL DEF Spec, GoneForGood
=============================================================================

------------------------ MODULE SignatureCollection ------------------------
(***************************************************************************)
(* The signatures organizations collect on one channel update, kept in a    *)
(* document at each of their consoles: libs/signature_collection_lib.js.    *)
(*                                                                          *)
(* A request to create, append to or delete the document is handled by the  *)
(* console it was sent to: it reads its document, sends the request on to   *)
(* the consoles of the organizations in the document and the request, waits *)
(* for them, and only then writes.  What it writes is the document it read   *)
(* first with the signatures of the request merged in; on a conflict with    *)
(* another write it reads the document again, but only for its _rev.         *)
(*                                                                          *)
(* A console that is sent a request by another handles it in the same way   *)
(* but sends it to nobody.  It may never be reached, and its answer may come *)
(* after the sender has stopped waiting.  A sender that has waited too long   *)
(* sends the request again (retry_req), and may have two handlers of it run   *)
(* at one console.  A destination that answers 400 is asked once more with a *)
(* PUT, for which nobody waits: the callback of the first attempt is called  *)
(* without waiting for the second.                                           *)
(*                                                                          *)
(* Not modelled: lists of urls as distribute, distribution_responses and    *)
(* resend, visibility, orderers2sign (merged like orgs2sign) and the ccd     *)
(* fields, and failing requests to CouchDB other than conflicts.             *)
(***************************************************************************)
EXTENDS Naturals

CONSTANTS
  Consoles,
  Orgs,
  Url,          \* Url[o]: the console of organization o (optools_url)
  Requests,     \* the requests users make; each is made at most once
  At,           \* At[r]: the console request r is made to
  Body,         \* Body[r]: its method and body
  Trusts,       \* Trusts[c]: the organizations whose certificates c has
  MaxAttempts,  \* repeatWriteSafe gives up after this many 409s (5 in the code)
  MaxSends,     \* retry_req sends a request so often (3 in the code)
  Resent,       \* the requests whose answers may be late (the others' are not)
  NoDoc,        \* the console has no document
  NotAsked      \* the organization is not in orgs2sign

\* An entry of orgs2sign: its signature, a number that tells when it was made or
\* Unsigned, and its timestamp.
Unsigned == 0
Entry == [sig : Nat, ts : Nat]

Collections == [Orgs -> Entry \cup {NotAsked}]

Statuses == {"open", "closed"}

Document == [orgs : Collections, status : Statuses]

Bodies == [method : {"POST", "PUT", "DELETE"}, orgs : Collections,
           status : Statuses \cup {""}, distribute : {"all", "missing", "none"}]

ASSUME ConstantsAssumption ==
  /\ Url \in [Orgs -> Consoles]
  /\ At \in [Requests -> Consoles]
  /\ Body \in [Requests -> Bodies]
  /\ Trusts \in [Consoles -> SUBSET Orgs]
  /\ MaxAttempts \in Nat \ {0}
  /\ MaxSends \in Nat \ {0}
  /\ Resent \subseteq Requests
  /\ NoDoc \notin Document
  /\ NotAsked \notin Entry

\* <<r, c, n>>: request r as console c handles it, sent to it for the n-th time.
Calls == Requests \X Consoles \X (1..MaxSends)

\* The call of the user.
Root(r) == <<r, At[r], 1>>

IsRoot(k) == k = Root(k[1])

VARIABLES
  doc,      \* the document of each console
  pc,       \* where the handler of each call is
  copy,     \* its sig_doc, later its doc_to_write
  base,     \* whether the _rev of the copy is none, current or stale
  attempt,  \* opts.attempt of its repeatWriteSafe
  waiting,  \* the consoles whose answer to the distribution of r is awaited
  again     \* the calls sent a second time, with a PUT

vars == <<doc, pc, copy, base, attempt, waiting, again>>

Answers == {"ok", "refused", "missing", "failed"}

PCs == {"idle", "sent", "spread", "write", "reread", "find", "remove", "hung"} \cup Answers

Init ==
  /\ doc = [c \in Consoles |-> NoDoc]
  /\ pc = [k \in Calls |-> IF IsRoot(k) THEN "sent" ELSE "idle"]
  /\ copy = [k \in Calls |-> NoDoc]
  /\ base = [k \in Calls |-> "none"]
  /\ attempt = [k \in Calls |-> 1]
  /\ waiting = [r \in Requests |-> {}]
  /\ again = {}

-----------------------------------------------------------------------------
(* The documents.                                                           *)

Method(k) == IF k \in again THEN "PUT" ELSE Body[k[1]].method

SignedIn(orgs, o) == orgs[o] # NotAsked /\ orgs[o].sig # Unsigned

\* build_destinations copies the signatures of the request into the entries of the
\* document it was given, which is the one that is merged and written later.
Marked(d, b) ==
  [d EXCEPT !.orgs =
     [o \in Orgs |-> IF @[o] # NotAsked /\ SignedIn(b.orgs, o)
                     THEN [@[o] EXCEPT !.sig = b.orgs[o].sig]
                     ELSE @[o]]]

\* Where the console that has document d sends its request r: self is skipped,
\* and with "missing" the organizations that have signed.
Destinations(r, d) ==
  LET b == Body[r]
      asked == {o \in Orgs : b.orgs[o] # NotAsked \/ (d # NoDoc /\ d.orgs[o] # NotAsked)}
      signed == {o \in Orgs : SignedIn(b.orgs, o) \/ (d # NoDoc /\ SignedIn(d.orgs, o))}
      to == IF b.distribute = "all" THEN asked
            ELSE IF b.distribute = "missing" THEN asked \ signed ELSE {}
  IN {Url[o] : o \in to} \ {At[r]}

\* Mutant of MergedEntry: only signatures that nobody asked for are added.
MergedUnasked(entry, new) ==
  IF new # NotAsked /\ new.sig # Unsigned /\ entry = NotAsked THEN new ELSE entry

\* A signature of the request replaces an older entry of its organization, and is
\* added for an organization that was not asked.
MergedEntry(entry, new) ==
  IF new # NotAsked /\ new.sig # Unsigned /\ (entry = NotAsked \/ new.ts > entry.ts)
  THEN new
  ELSE entry

\* An append keeps what it has no newer signature for.
Merged(d, b) ==
  [orgs |-> [o \in Orgs |-> MergedEntry(d.orgs[o], b.orgs[o])],
   status |-> IF b.status = "" THEN d.status ELSE b.status]

Created(b) == [orgs |-> b.orgs, status |-> "open"]

ToWrite(k, d) == IF Method(k) = "POST" THEN Created(Body[k[1]]) ELSE Merged(d, Body[k[1]])

\* Mutant of Validated: what another console sends is trusted.
ValidatedAtRoot(k) ==
  IsRoot(k) => \A o \in Orgs : SignedIn(Body[k[1]].orgs, o) => o \in Trusts[k[2]]

\* Every signature in the request must be by a certificate the console has.
Validated(k) == \A o \in Orgs : SignedIn(Body[k[1]].orgs, o) => o \in Trusts[k[2]]

-----------------------------------------------------------------------------
(* Reading, refusing and distributing.                                      *)

Refuses(k) ==
  /\ pc[k] = "sent"
  /\ Method(k) # "DELETE"
  /\ \/ Method(k) = "POST" /\ doc[k[2]] # NoDoc
     \/ Method(k) = "PUT" /\ doc[k[2]] # NoDoc /\ ~Validated(k)
     \/ Method(k) = "POST" /\ ~Validated(k)
  /\ pc' = [pc EXCEPT ![k] = "refused"]
  /\ UNCHANGED <<doc, copy, base, attempt, waiting, again>>

Misses(k) ==
  /\ pc[k] = "sent"
  /\ Method(k) # "POST"
  /\ doc[k[2]] = NoDoc
  /\ pc' = [pc EXCEPT ![k] = "missing"]
  /\ UNCHANGED <<doc, copy, base, attempt, waiting, again>>

Accepts(k) ==
  /\ pc[k] = "sent"
  /\ (Method(k) = "POST") <=> (doc[k[2]] = NoDoc)
  /\ Method(k) # "DELETE" => Validated(k)
  /\ base' = [base EXCEPT ![k] = IF doc[k[2]] = NoDoc THEN "none" ELSE "current"]

\* The console the user asked reads its document and sends the request on.
Distribute(k) ==
  /\ IsRoot(k)
  /\ Accepts(k)
  /\ copy' = [copy EXCEPT ![k] =
                IF Method(k) = "PUT" /\ Body[k[1]].distribute # "none"
                THEN Marked(doc[k[2]], Body[k[1]])
                ELSE doc[k[2]]]
  /\ LET to == Destinations(k[1], doc[k[2]])
     IN /\ waiting' = [waiting EXCEPT ![k[1]] = to]
        /\ pc' = [l \in Calls |-> IF l = k THEN "spread"
                                  ELSE IF l[1] = k[1] /\ l[2] \in to /\ l[3] = 1 THEN "sent"
                                  ELSE pc[l]]
  /\ UNCHANGED <<doc, attempt, again>>

\* A console that is sent the request reads its document, with distribute none.
Receive(k) ==
  /\ ~IsRoot(k)
  /\ Accepts(k)
  /\ IF Method(k) = "DELETE"
     THEN /\ pc' = [pc EXCEPT ![k] = "find"]
          /\ UNCHANGED copy
     ELSE /\ pc' = [pc EXCEPT ![k] = "write"]
          /\ copy' = [copy EXCEPT ![k] = ToWrite(k, doc[k[2]])]
  /\ UNCHANGED <<doc, attempt, waiting, again>>

\* Request r was sent to c for the n-th time.
Sent(r, c, n) == n \in 1..MaxSends /\ pc[<<r, c, n>>] # "idle"

\* No answer to the n-th request came in time: it is sent again.
SendAgain(r, c, n) ==
  /\ c \in waiting[r]
  /\ r \in Resent
  /\ n < MaxSends
  /\ Sent(r, c, n)
  /\ ~Sent(r, c, n + 1)
  /\ pc' = [pc EXCEPT ![<<r, c, n + 1>>] = "sent"]
  /\ UNCHANGED <<doc, copy, base, attempt, waiting, again>>

\* Console c answers the last request it was sent; a 400 makes the sender try
\* again, without waiting.  When that attempt ends the callback is called a second
\* time: eachOfLimit throws, app.js logs the exception, and nothing else comes of it.
Answer(r, c, n) ==
  LET k == <<r, c, n>>
      retry == pc[k] = "refused"
  IN /\ c \in waiting[r]
     /\ pc[k] \in Answers
     /\ ~Sent(r, c, n + 1)
     /\ waiting' = [waiting EXCEPT ![r] = @ \ {c}]
     /\ pc' = IF retry THEN [pc EXCEPT ![k] = "sent"] ELSE pc
     /\ again' = IF retry THEN again \cup {k} ELSE again
     /\ UNCHANGED <<doc, copy, base, attempt>>

\* Mutant of Timeout: only connecting times out, not the wait for an answer.
TimeoutConnecting(r, c) ==
  /\ c \in waiting[r]
  /\ \A n \in 1..MaxSends : pc[<<r, c, n>>] \in {"idle", "sent"}
  /\ waiting' = [waiting EXCEPT ![r] = @ \ {c}]
  /\ UNCHANGED <<doc, pc, copy, base, attempt, again>>

\* The sender gives up.
Timeout(r, c) ==
  /\ c \in waiting[r]
  /\ waiting' = [waiting EXCEPT ![r] = @ \ {c}]
  /\ UNCHANGED <<doc, pc, copy, base, attempt, again>>

\* Every destination answered or timed out: the document to write is built.
Collected(k) ==
  /\ pc[k] = "spread"
  /\ waiting[k[1]] = {}
  /\ IF Method(k) = "DELETE"
     THEN /\ pc' = [pc EXCEPT ![k] = "find"]
          /\ UNCHANGED copy
     ELSE /\ pc' = [pc EXCEPT ![k] = "write"]
          /\ copy' = [copy EXCEPT ![k] = ToWrite(k, copy[k])]
  /\ UNCHANGED <<doc, base, attempt, waiting, again>>

-----------------------------------------------------------------------------
(* Writing and deleting.                                                    *)

\* Mutant of Accepted: the write is forced at once, whatever its _rev.
AcceptedAlways(k) == TRUE

\* CouchDB takes a document with its current _rev, or a new one without.
Accepted(k) == base[k] = "current" \/ (base[k] = "none" /\ doc[k[2]] = NoDoc)

Outdated(c) == [l \in Calls |-> IF l[2] = c /\ base[l] = "current" THEN "stale" ELSE base[l]]

Write(k) ==
  /\ pc[k] = "write"
  /\ Accepted(k)
  /\ doc' = [doc EXCEPT ![k[2]] = copy[k]]
  /\ base' = Outdated(k[2])
  /\ copy' = [copy EXCEPT ![k] = NoDoc]
  /\ pc' = [pc EXCEPT ![k] = "ok"]
  /\ UNCHANGED <<attempt, waiting, again>>

\* Mutant of Conflict: it never gives up.
ConflictAgain(k) ==
  /\ pc[k] = "write"
  /\ ~Accepted(k)
  /\ pc' = [pc EXCEPT ![k] = "reread"]
  /\ attempt' = [attempt EXCEPT ![k] = @ + 1]
  /\ UNCHANGED <<doc, copy, base, waiting, again>>

\* A 409.  Giving up throws in format_sig_tx: the request is never answered.
Conflict(k) ==
  /\ pc[k] = "write"
  /\ ~Accepted(k)
  /\ IF attempt[k] = MaxAttempts
     THEN /\ pc' = [pc EXCEPT ![k] = "hung"]
          /\ UNCHANGED attempt
     ELSE /\ pc' = [pc EXCEPT ![k] = "reread"]
          /\ attempt' = [attempt EXCEPT ![k] = @ + 1]
  /\ UNCHANGED <<doc, copy, base, waiting, again>>

\* Only the _rev is taken; a deleted document is an error, which throws too.
ReadAgain(k) ==
  /\ pc[k] = "reread"
  /\ IF doc[k[2]] = NoDoc
     THEN /\ pc' = [pc EXCEPT ![k] = "hung"]
          /\ UNCHANGED base
     ELSE /\ pc' = [pc EXCEPT ![k] = "write"]
          /\ base' = [base EXCEPT ![k] = "current"]
  /\ UNCHANGED <<doc, copy, attempt, waiting, again>>

FindRev(k) ==
  /\ pc[k] = "find"
  /\ pc' = [pc EXCEPT ![k] = IF doc[k[2]] = NoDoc THEN "ok" ELSE "remove"]
  /\ base' = IF doc[k[2]] = NoDoc THEN base ELSE [base EXCEPT ![k] = "current"]
  /\ UNCHANGED <<doc, copy, attempt, waiting, again>>

\* A conflict is an error: repeatDelete does not repeat.
Remove(k) ==
  /\ pc[k] = "remove"
  /\ IF base[k] = "current"
     THEN /\ pc' = [pc EXCEPT ![k] = "ok"]
          /\ doc' = [doc EXCEPT ![k[2]] = NoDoc]
          /\ base' = Outdated(k[2])
     ELSE /\ pc' = [pc EXCEPT ![k] = "failed"]
          /\ UNCHANGED <<doc, base>>
  /\ copy' = [copy EXCEPT ![k] = NoDoc]
  /\ UNCHANGED <<attempt, waiting, again>>

Handle(k) ==
  \/ Refuses(k)
  \/ Misses(k)
  \/ Distribute(k)
  \/ Receive(k)
  \/ Collected(k)
  \/ Write(k)
  \/ Conflict(k)
  \/ ReadAgain(k)
  \/ FindRev(k)
  \/ Remove(k)

\* What the sender does while it waits for c.
Await(r, c, n) == SendAgain(r, c, n) \/ Answer(r, c, n) \/ Timeout(r, c)

Next ==
  \/ \E k \in Calls : Handle(k)
  \/ \E r \in Requests, c \in Consoles, n \in 1..MaxSends : Await(r, c, n)

Spec == Init /\ [][Next]_vars

\* The console a user asked goes on with what it began, and its requests to the
\* others time out.  The others may be down or never be reached.
FairSpec ==
  /\ Spec
  /\ \A r \in Requests : WF_vars(Handle(Root(r)))
  /\ \A r \in Requests : WF_vars(\E c \in Consoles : Timeout(r, c))

-----------------------------------------------------------------------------
(* Properties.                                                              *)

\* What the variables hold; repeated writes are bounded (repeatWriteSafe).
TypeOK ==
  /\ doc \in [Consoles -> Document \cup {NoDoc}]
  /\ pc \in [Calls -> PCs]
  /\ copy \in [Calls -> Document \cup {NoDoc}]
  /\ base \in [Calls -> {"none", "current", "stale"}]
  /\ attempt \in [Calls -> 1..MaxAttempts]
  /\ waiting \in [Requests -> SUBSET Consoles]
  /\ again \subseteq Calls

\* Only signatures a console could validate are in its document, whichever
\* console they came through (validate_proposal_signatures).
SignaturesTrusted ==
  \A c \in Consoles, o \in Orgs :
    doc[c] # NoDoc /\ SignedIn(doc[c].orgs, o) => o \in Trusts[c]

\* Who has signed in d has signed in e, no entry of d is missing in e, and none is
\* older there.
Keeps(d, e) ==
  \A o \in Orgs : d.orgs[o] # NotAsked =>
    /\ e.orgs[o] # NotAsked
    /\ e.orgs[o].ts >= d.orgs[o].ts
    /\ SignedIn(d.orgs, o) => SignedIn(e.orgs, o)

WriteKeeps(k) ==
  pc[k] = "write" /\ pc'[k] = "ok" /\ doc[k[2]] # NoDoc => Keeps(doc[k[2]], doc'[k[2]])

\* A write that CouchDB takes at the first attempt loses nobody's signature, though
\* the document was read before the request was sent to the other consoles
\* (createOrAppendSignature).
FirstWriteKeeps == [][\A k \in Calls : attempt[k] = 1 => WriteKeeps(k)]_vars

\* No write loses a signature: "each entry in orgs2sign will be merged with the
\* collection tx doc" (docs/signature_collection_apis.md).  The code violates it
\* when a write is repeated after a conflict (writeSignatureCollectionDoc).
EveryWriteKeeps == [][\A k \in Calls : WriteKeeps(k)]_vars

\* Console c has taken request r, without a conflict.
TakenBy(r, c) ==
  /\ \E n \in 1..MaxSends : pc[<<r, c, n>>] = "ok"
  /\ \A n \in 1..MaxSends : attempt[<<r, c, n>>] = 1

\* Console c was never asked, or refused: it changed nothing for r.
Untouched(r, c) ==
  \A n \in 1..MaxSends : pc[<<r, c, n>>] \in {"idle", "sent", "refused", "missing"}

\* Two consoles that took the same requests, no deletion and none of them after a
\* conflict, agree on who has signed, in whatever order the requests reached them.
\* (With a deletion they need not: a creation that is sent again may come after it
\* and begin the collection anew, without the signatures of before.)
SameSigners ==
  \A c, d \in Consoles :
    /\ doc[c] # NoDoc /\ doc[d] # NoDoc
    /\ \A r \in Requests :
         \/ Body[r].method # "DELETE" /\ TakenBy(r, c) /\ TakenBy(r, d)
         \/ Untouched(r, c) /\ Untouched(r, d)
    => \A o \in Orgs : SignedIn(doc[c].orgs, o) <=> SignedIn(doc[d].orgs, o)

\* A request of a user ends, though the consoles it is sent to may never answer,
\* send requests to one another at the same time, or have given up.
RequestsEnd ==
  \A r \in Requests : <>(pc[Root(r)] \in Answers \cup {"hung"})

=============================================================================

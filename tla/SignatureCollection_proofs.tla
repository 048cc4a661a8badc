--------------------- MODULE SignatureCollection_proofs ---------------------
(***************************************************************************)
(* Proofs about SignatureCollection, for any organizations, consoles,       *)
(* requests, certificates and bounds on repeated tries.                     *)
(***************************************************************************)
EXTENDS SignatureCollection, TLAPS

\* Handlers that write have a document to write, and one to merge into.
HandlersHaveCopies ==
  \A k \in Calls :
    /\ pc[k] \in {"write", "reread"} => copy[k] # NoDoc
    /\ pc[k] = "spread" /\ Method(k) = "PUT" => copy[k] # NoDoc

TypeInv == TypeOK /\ HandlersHaveCopies

TrustedIn(d, c) == d # NoDoc => \A o \in Orgs : SignedIn(d.orgs, o) => o \in Trusts[c]

\* The documents, and the copies that may become documents, have signatures the
\* console validated, and a handler that has yet to merge validated its request.
CopiesTrusted ==
  \A k \in Calls :
    /\ TrustedIn(copy[k], k[2])
    /\ pc[k] = "spread" /\ Method(k) # "DELETE" => Validated(k)

TrustInv == TypeInv /\ SignaturesTrusted /\ CopiesTrusted

\* The document, or what build_destinations leaves of it.
Read(k) == {doc[k[2]], Marked(doc[k[2]], Body[k[1]])}

\* A copy with the document's _rev that was never refused is what was read of the
\* document, or that with the request merged in.
CopiesFresh ==
  \A k \in Calls :
    /\ pc[k] = "reread" => attempt[k] > 1
    /\ base[k] = "current" /\ attempt[k] = 1 =>
         /\ pc[k] = "spread" /\ Method(k) # "DELETE" =>
              Method(k) = "PUT" /\ doc[k[2]] # NoDoc /\ copy[k] \in Read(k)
         /\ pc[k] = "write" =>
              doc[k[2]] # NoDoc /\ \E d \in Read(k) : copy[k] = Merged(d, Body[k[1]])

MergeInv == TypeInv /\ CopiesFresh

\* Signatures are newer than the entries that ask for them (the clocks of the
\* organizations that create a collection and that sign agree so far).
SignedAfterAsked ==
  \A q, r \in Requests, o \in Orgs :
    /\ Body[q].method = "POST"
    /\ Body[q].orgs[o] # NotAsked /\ ~SignedIn(Body[q].orgs, o)
    /\ SignedIn(Body[r].orgs, o)
    => Body[q].orgs[o].ts < Body[r].orgs[o].ts

\* The handler of the user's call is the first of its request, and not among those
\* it waits for.
RootsFirst ==
  \A r \in Requests :
    /\ At[r] \notin waiting[r]
    /\ pc[Root(r)] = "sent" =>
         waiting[r] = {} /\ \A l \in Calls : l[1] = r /\ l # Root(r) => pc[l] = "idle"

\* Only a handler that has tried to write has tried again.
RepeatsLate == \A k \in Calls : attempt[k] > 1 => pc[k] \in {"reread", "write", "ok", "hung"}

\* A handler that creates a document creates that of its request.
CopiesCreated ==
  \A k \in Calls :
    /\ pc[k] \in {"find", "remove"} => Body[k[1]].method = "DELETE"
    /\ base[k] = "none" /\ attempt[k] = 1 =>
         /\ pc[k] = "spread" => Method(k) # "PUT"
         /\ pc[k] = "write" => copy[k] = Created(Body[k[1]])

\* The entries of d without a signature are of a creation.
AskedIn(d) ==
  d # NoDoc =>
    \A o \in Orgs :
      d.orgs[o] # NotAsked /\ ~SignedIn(d.orgs, o) =>
        \E q \in Requests : Body[q].method = "POST" /\ Body[q].orgs[o] = d.orgs[o]

EntriesAsked == (\A c \in Consoles : AskedIn(doc[c])) /\ (\A k \in Calls : AskedIn(copy[k]))

\* The handlers that are done at console c, one of which has o's signature.
DoneAt(c) == {k \in Calls : k[2] = c /\ pc[k] = "ok"}
TakenFrom(c, o) == \E k \in DoneAt(c) : SignedIn(Body[k[1]].orgs, o)

\* At console c nothing was deleted, and no write repeated.
Undisturbed(c) ==
  /\ \A k \in Calls : k[2] = c => attempt[k] = 1
  /\ \A k \in DoneAt(c) : Body[k[1]].method # "DELETE"

\* Who has signed at an undisturbed console is who signed in the requests it took.
SignersTaken ==
  \A c \in Consoles : Undisturbed(c) =>
    IF doc[c] = NoDoc
    THEN DoneAt(c) = {}
    ELSE \A o \in Orgs : SignedIn(doc[c].orgs, o) <=> TakenFrom(c, o)

SignersInv == MergeInv /\ RootsFirst /\ RepeatsLate /\ CopiesCreated /\ EntriesAsked /\ SignersTaken

-----------------------------------------------------------------------------
LEMMA BodyFields ==
  ASSUME NEW k \in Calls
  PROVE  /\ k[1] \in Requests
         /\ k[2] \in Consoles
         /\ Body[k[1]] \in Bodies
         /\ Body[k[1]].orgs \in Collections
         /\ Method(k) \in {"POST", "PUT", "DELETE"}
BY ConstantsAssumption DEF Calls, Bodies, Method

\* While a sender waits, the handler of a call stays where it is or begins.
LEMMA AwaitMoves ==
  ASSUME TypeOK, NEW r \in Requests, NEW c \in Consoles, NEW n \in 1..MaxSends, Await(r, c, n)
  PROVE  /\ TypeOK'
         /\ UNCHANGED <<doc, copy, base, attempt>>
         /\ \A l \in Calls :
              pc'[l] = "sent" \/ (pc'[l] = pc[l] /\ Method(l)' = Method(l))
<1> USE DEF TypeOK, PCs
<1>1. CASE SendAgain(r, c, n)
  <2>1. n + 1 \in 1..MaxSends
    BY <1>1, ConstantsAssumption DEF SendAgain
  <2>2. <<r, c, n + 1>> \in Calls
    BY <2>1 DEF Calls
  <2>. QED BY <1>1, <2>2 DEF SendAgain, Method
<1>2. CASE Answer(r, c, n)
  <2>1. <<r, c, n>> \in Calls
    BY DEF Calls
  <2>2. TypeOK'
    BY <1>2, <2>1 DEF Answer
  <2>3. ASSUME NEW l \in Calls
        PROVE  pc'[l] = "sent" \/ (pc'[l] = pc[l] /\ Method(l)' = Method(l))
    <3>1. CASE l = <<r, c, n>>
      BY <3>1, <1>2, <2>1 DEF Answer, Method
    <3>2. CASE l # <<r, c, n>>
      BY <3>2, <1>2, <2>1 DEF Answer, Method
    <3>. QED BY <3>1, <3>2
  <2>. QED BY <1>2, <2>2, <2>3 DEF Answer
<1>3. CASE Timeout(r, c)
  BY <1>3 DEF Timeout, Method
<1>. QED BY <1>1, <1>2, <1>3 DEF Await

\* A merge of a document is a document.
LEMMA MergedType ==
  ASSUME NEW d \in Document, NEW b \in Bodies
  PROVE  Merged(d, b) \in Document
<1>1. ASSUME NEW o \in Orgs
      PROVE  MergedEntry(d.orgs[o], b.orgs[o]) \in Entry \cup {NotAsked}
  BY <1>1 DEF MergedEntry, Document, Bodies, Collections
<1>2. [o \in Orgs |-> MergedEntry(d.orgs[o], b.orgs[o])] \in Collections
  BY <1>1 DEF Collections
<1>3. (IF b.status = "" THEN d.status ELSE b.status) \in Statuses
  BY DEF Document, Bodies
<1>. QED BY <1>2, <1>3 DEF Merged, Document

\* So is what build_destinations leaves of a document.
LEMMA MarkedType ==
  ASSUME NEW d \in Document, NEW b \in Bodies
  PROVE  Marked(d, b) \in Document
<1> DEFINE entry(o) == IF d.orgs[o] # NotAsked /\ SignedIn(b.orgs, o)
                       THEN [d.orgs[o] EXCEPT !.sig = b.orgs[o].sig]
                       ELSE d.orgs[o]
<1>1. Marked(d, b) = [d EXCEPT !.orgs = [o \in Orgs |-> entry(o)]]
  BY DEF Marked, Document
<1>2. ASSUME NEW o \in Orgs
      PROVE  entry(o) \in Entry \cup {NotAsked}
  BY <1>2 DEF SignedIn, Document, Bodies, Collections, Entry
<1>3. [o \in Orgs |-> entry(o)] \in Collections
  BY <1>2 DEF Collections
<1>. QED BY <1>1, <1>3 DEF Document

\* What a handler writes is a document.
LEMMA ToWriteType ==
  ASSUME NEW k \in Calls, NEW d \in Document \cup {NoDoc}, Method(k) # "DELETE",
         Method(k) = "PUT" => d # NoDoc
  PROVE  ToWrite(k, d) \in Document
<1>1. CASE Method(k) = "POST"
  BY <1>1, BodyFields DEF ToWrite, Created, Document, Statuses
<1>2. CASE Method(k) = "PUT"
  BY <1>2, BodyFields, MergedType DEF ToWrite
<1>. QED BY <1>1, <1>2, BodyFields

LEMMA DocumentExists == \A d \in Document : d # NoDoc
BY ConstantsAssumption

\* The entries that build_destinations marks.
LEMMA MarkedEntries ==
  ASSUME NEW d \in Document, NEW b \in Bodies, NEW o \in Orgs
  PROVE  Marked(d, b).orgs[o] = IF d.orgs[o] # NotAsked /\ SignedIn(b.orgs, o)
                                THEN [d.orgs[o] EXCEPT !.sig = b.orgs[o].sig]
                                ELSE d.orgs[o]
BY DEF Marked, Document

\* A merge loses nobody's signature and brings back no older entry.
LEMMA MergeKeeps ==
  ASSUME NEW d \in Document, NEW b \in Bodies, NEW m \in {d, Marked(d, b)}
  PROVE  Keeps(d, Merged(m, b))
<1> SUFFICES ASSUME NEW o \in Orgs, d.orgs[o] # NotAsked
             PROVE  LET e == Merged(m, b) IN
                      /\ e.orgs[o] # NotAsked
                      /\ e.orgs[o].ts >= d.orgs[o].ts
                      /\ SignedIn(d.orgs, o) => SignedIn(e.orgs, o)
  BY DEF Keeps
<1>1. Merged(m, b).orgs[o] = MergedEntry(m.orgs[o], b.orgs[o])
  BY DEF Merged
<1>2. d.orgs[o] \in Entry
  BY DEF Document, Collections
<1>3. b.orgs[o] \in Entry \cup {NotAsked}
  BY DEF Bodies, Collections
<1>4. /\ m.orgs[o] \in Entry
      /\ m.orgs[o].ts = d.orgs[o].ts
      /\ SignedIn(d.orgs, o) => m.orgs[o].sig # Unsigned
  <2>1. CASE m = d
    BY <2>1, <1>2 DEF SignedIn
  <2>2. CASE m = Marked(d, b) /\ SignedIn(b.orgs, o)
    <3>1. m.orgs[o] = [d.orgs[o] EXCEPT !.sig = b.orgs[o].sig]
      BY <2>2, MarkedEntries
    <3>2. b.orgs[o].sig \in Nat /\ b.orgs[o].sig # Unsigned
      BY <2>2, <1>3 DEF SignedIn, Entry
    <3>. QED BY <3>1, <3>2, <1>2 DEF Entry
  <2>3. CASE m = Marked(d, b) /\ ~SignedIn(b.orgs, o)
    <3>1. m.orgs[o] = d.orgs[o]
      BY <2>3, MarkedEntries
    <3>. QED BY <3>1, <1>2 DEF SignedIn
  <2>. QED BY <2>1, <2>2, <2>3
<1>5. m.orgs[o] # NotAsked
  BY <1>4, ConstantsAssumption
<1>6. CASE b.orgs[o] # NotAsked /\ b.orgs[o].sig # Unsigned /\ b.orgs[o].ts > m.orgs[o].ts
  <2>1. Merged(m, b).orgs[o] = b.orgs[o]
    BY <1>1, <1>6 DEF MergedEntry
  <2>2. b.orgs[o].ts \in Nat /\ d.orgs[o].ts \in Nat
    BY <1>2, <1>3, <1>6 DEF Entry
  <2>. QED BY <2>1, <2>2, <1>4, <1>6 DEF SignedIn
<1>7. CASE ~(b.orgs[o] # NotAsked /\ b.orgs[o].sig # Unsigned /\ b.orgs[o].ts > m.orgs[o].ts)
  <2>1. Merged(m, b).orgs[o] = m.orgs[o]
    BY <1>1, <1>5, <1>7 DEF MergedEntry
  <2>2. d.orgs[o].ts \in Nat
    BY <1>2 DEF Entry
  <2>. QED BY <2>1, <2>2, <1>4, <1>5 DEF SignedIn
<1>. QED BY <1>6, <1>7

\* A merge has no signatures but those of the document and of the request.
LEMMA MergeTrusted ==
  ASSUME NEW k \in Calls, NEW d, d # NoDoc, TrustedIn(d, k[2]), Validated(k)
  PROVE  TrustedIn(Merged(d, Body[k[1]]), k[2])
<1> SUFFICES ASSUME NEW o \in Orgs, SignedIn(Merged(d, Body[k[1]]).orgs, o)
             PROVE  o \in Trusts[k[2]]
  BY DEF TrustedIn
<1>1. Merged(d, Body[k[1]]).orgs[o] = MergedEntry(d.orgs[o], Body[k[1]].orgs[o])
  BY DEF Merged
<1>2. SignedIn(d.orgs, o) \/ SignedIn(Body[k[1]].orgs, o)
  BY <1>1 DEF SignedIn, MergedEntry
<1>. QED BY <1>2 DEF TrustedIn, Validated

LEMMA MarkedTrusted ==
  ASSUME NEW k \in Calls, NEW d \in Document, TrustedIn(d, k[2]), Validated(k)
  PROVE  TrustedIn(Marked(d, Body[k[1]]), k[2])
<1> SUFFICES ASSUME NEW o \in Orgs, SignedIn(Marked(d, Body[k[1]]).orgs, o)
             PROVE  o \in Trusts[k[2]]
  BY DEF TrustedIn
<1>1. SignedIn(d.orgs, o) \/ SignedIn(Body[k[1]].orgs, o)
  BY BodyFields, MarkedEntries DEF SignedIn
<1>. QED BY <1>1, DocumentExists DEF TrustedIn, Validated

LEMMA ToWriteTrusted ==
  ASSUME NEW k \in Calls, NEW d, Method(k) # "POST" => d # NoDoc,
         TrustedIn(d, k[2]), Validated(k)
  PROVE  TrustedIn(ToWrite(k, d), k[2])
<1>1. CASE Method(k) = "POST"
  BY <1>1 DEF ToWrite, Created, TrustedIn, Validated
<1>2. CASE Method(k) # "POST"
  BY <1>2, MergeTrusted DEF ToWrite
<1>. QED BY <1>1, <1>2

-----------------------------------------------------------------------------
(* Type correctness.                                                        *)

LEMMA DestinationsType ==
  ASSUME NEW r \in Requests, NEW d
  PROVE  Destinations(r, d) \subseteq Consoles
BY ConstantsAssumption DEF Destinations

LEMMA OutdatedType ==
  ASSUME TypeOK, NEW c \in Consoles
  PROVE  Outdated(c) \in [Calls -> {"none", "current", "stale"}]
BY DEF TypeOK, Outdated

LEMMA TypeInit == Init => TypeInv
<1> SUFFICES ASSUME Init PROVE TypeInv
  OBVIOUS
<1>1. TypeOK
  BY ConstantsAssumption DEF Init, TypeOK, PCs, Answers
<1>2. HandlersHaveCopies
  BY DEF Init, HandlersHaveCopies
<1>. QED BY <1>1, <1>2 DEF TypeInv

\* One step of the handler of a call keeps the type invariant.
LEMMA TypeHandle ==
  ASSUME TypeInv, NEW k \in Calls, Handle(k)
  PROVE  TypeInv'
<1>k. /\ k[1] \in Requests
      /\ k[2] \in Consoles
      /\ Method(k) \in {"POST", "PUT", "DELETE"}
  BY BodyFields
<1>d. doc[k[2]] \in Document \cup {NoDoc} /\ copy[k] \in Document \cup {NoDoc}
  BY <1>k DEF TypeInv, TypeOK
<1>m. ASSUME UNCHANGED again, NEW l \in Calls
      PROVE  Method(l)' = Method(l)
  BY <1>m DEF Method
<1> USE DEF TypeInv, TypeOK, HandlersHaveCopies, PCs, Answers
<1>1. CASE Refuses(k)
  BY <1>1, <1>m DEF Refuses
<1>2. CASE Misses(k)
  BY <1>2, <1>m DEF Misses
<1>3. CASE Distribute(k)
  <2>1. waiting' \in [Requests -> SUBSET Consoles]
    BY <1>3, <1>k, DestinationsType DEF Distribute
  <2>2. pc' \in [Calls -> PCs]
    BY <1>3 DEF Distribute
  <2>m. Method(k) = "PUT" => /\ doc[k[2]] \in Document
                             /\ Marked(doc[k[2]], Body[k[1]]) \in Document
    BY <1>3, <1>d, BodyFields, MarkedType DEF Distribute, Accepts
  <2>3. TypeOK'
    BY <2>1, <2>2, <2>m, <1>3, <1>d DEF Distribute, Accepts
  <2>4. ASSUME NEW l \in Calls
        PROVE  /\ pc'[l] \in {"write", "reread"} => copy'[l] # NoDoc
               /\ pc'[l] = "spread" /\ Method(l) = "PUT" => copy'[l] # NoDoc
    <3>1. CASE l = k
      BY <3>1, <1>3, <2>m, DocumentExists DEF Distribute, Accepts
    <3>2. CASE l # k
      BY <3>2, <1>3 DEF Distribute
    <3>. QED BY <3>1, <3>2
  <2>. QED BY <2>3, <2>4, <1>3, <1>m DEF Distribute
<1>4. CASE Receive(k)
  <2>1. CASE Method(k) = "DELETE"
    BY <2>1, <1>4, <1>m DEF Receive, Accepts
  <2>2. CASE Method(k) # "DELETE"
    <3>1. ToWrite(k, doc[k[2]]) \in Document
      BY <2>2, <1>4, <1>d, ToWriteType DEF Receive, Accepts
    <3>. QED BY <2>2, <3>1, <1>4, <1>m, DocumentExists DEF Receive, Accepts
  <2>. QED BY <2>1, <2>2
<1>5. CASE Collected(k)
  <2>1. CASE Method(k) = "DELETE"
    BY <2>1, <1>5, <1>m DEF Collected
  <2>2. CASE Method(k) # "DELETE"
    <3>1. ToWrite(k, copy[k]) \in Document
      BY <2>2, <1>5, <1>d, ToWriteType DEF Collected
    <3>. QED BY <2>2, <3>1, <1>5, <1>m, DocumentExists DEF Collected
  <2>. QED BY <2>1, <2>2
<1>6. CASE Write(k)
  <2>1. copy[k] \in Document
    BY <1>6, <1>d DEF Write
  <2>. QED BY <2>1, <1>6, <1>k, <1>m, OutdatedType DEF Write
<1>7. CASE Conflict(k)
  <2>1. attempt' \in [Calls -> 1..MaxAttempts]
    BY <1>7, ConstantsAssumption DEF Conflict
  <2>. QED BY <2>1, <1>7, <1>m DEF Conflict
<1>8. CASE ReadAgain(k)
  BY <1>8, <1>m DEF ReadAgain
<1>9. CASE FindRev(k)
  BY <1>9, <1>m DEF FindRev
<1>10. CASE Remove(k)
  <2>1. base' \in [Calls -> {"none", "current", "stale"}]
    BY <1>10, <1>k, OutdatedType DEF Remove
  <2>. QED BY <2>1, <1>10, <1>k, <1>m DEF Remove
<1>. QED BY <1>1, <1>2, <1>3, <1>4, <1>5, <1>6, <1>7, <1>8, <1>9, <1>10 DEF Handle

\* So does a step of a sender that waits.
LEMMA TypeAwait ==
  ASSUME TypeInv, NEW r \in Requests, NEW c \in Consoles, NEW n \in 1..MaxSends, Await(r, c, n)
  PROVE  TypeInv'
BY AwaitMoves DEF TypeInv, HandlersHaveCopies

LEMMA TypeStutter == TypeInv /\ UNCHANGED vars => TypeInv'
BY DEF TypeInv, TypeOK, HandlersHaveCopies, Method, vars

\* Documents, copies and counters of attempts are well formed, whatever the
\* interleaving of the consoles (createOrAppendSignature, repeatWriteSafe).
THEOREM TypeCorrect == Spec => [](TypeOK /\ HandlersHaveCopies)
<1>1. TypeInv /\ [Next]_vars => TypeInv'
  BY TypeHandle, TypeAwait, TypeStutter DEF Next
<1>. QED BY TypeInit, <1>1, PTL DEF Spec, TypeInv

-----------------------------------------------------------------------------
(* Signatures are validated by every console that keeps them.               *)

LEMMA TrustInit == Init => TrustInv
<1> SUFFICES ASSUME Init PROVE TrustInv
  OBVIOUS
<1>1. SignaturesTrusted
  BY DEF Init, SignaturesTrusted
<1>2. CopiesTrusted
  BY DEF Init, CopiesTrusted, TrustedIn
<1>. QED BY <1>1, <1>2, TypeInit DEF TrustInv

LEMMA TrustHandle ==
  ASSUME TrustInv, NEW k \in Calls, Handle(k)
  PROVE  SignaturesTrusted' /\ CopiesTrusted'
<1>k. k[2] \in Consoles /\ Method(k) \in {"POST", "PUT", "DELETE"}
  BY BodyFields
<1>m. ASSUME UNCHANGED again, NEW l \in Calls
      PROVE  Method(l)' = Method(l) /\ Validated(l)' = Validated(l) /\ l[2] \in Consoles
  BY <1>m DEF Method, Validated, Calls
<1>d. TrustedIn(doc[k[2]], k[2])
  BY <1>k DEF TrustInv, SignaturesTrusted, TrustedIn
<1> USE DEF TrustInv, TypeInv, TypeOK, SignaturesTrusted, CopiesTrusted
<1>1. CASE \/ Refuses(k) \/ Misses(k) \/ Conflict(k) \/ ReadAgain(k) \/ FindRev(k)
  BY <1>1, <1>m DEF Refuses, Misses, Conflict, ReadAgain, FindRev
<1>2. CASE Distribute(k)
  <2>1. Method(k) = "PUT" => TrustedIn(Marked(doc[k[2]], Body[k[1]]), k[2])
    BY <1>2, <1>d, <1>k, MarkedTrusted DEF Distribute, Accepts
  <2>. QED BY <1>2, <1>d, <1>m, <2>1 DEF Distribute, Accepts
<1>3. CASE Receive(k)
  <2>1. CASE Method(k) = "DELETE"
    BY <2>1, <1>3, <1>m DEF Receive
  <2>2. CASE Method(k) # "DELETE"
    <3>1. TrustedIn(ToWrite(k, doc[k[2]]), k[2])
      BY <2>2, <1>3, <1>d, ToWriteTrusted DEF Receive, Accepts
    <3>. QED BY <2>2, <3>1, <1>3, <1>m DEF Receive
  <2>. QED BY <2>1, <2>2
<1>4. CASE Collected(k)
  <2>1. CASE Method(k) = "DELETE"
    BY <2>1, <1>4, <1>m DEF Collected
  <2>2. CASE Method(k) # "DELETE"
    <3>1. Validated(k) /\ (Method(k) = "PUT" => copy[k] # NoDoc)
      BY <2>2, <1>4 DEF Collected, HandlersHaveCopies
    <3>2. TrustedIn(ToWrite(k, copy[k]), k[2])
      BY <2>2, <3>1, <1>k, ToWriteTrusted
    <3>. QED BY <2>2, <3>2, <1>4, <1>m DEF Collected
  <2>. QED BY <2>1, <2>2
<1>5. CASE Write(k)
  <2>1. TrustedIn(NoDoc, k[2])
    BY DEF TrustedIn
  <2>2. CopiesTrusted'
    BY <2>1, <1>5, <1>m DEF Write
  <2>3. SignaturesTrusted'
    BY <1>5, <1>k DEF Write, TrustedIn
  <2>. QED BY <2>2, <2>3
<1>6. CASE Remove(k)
  <2>1. TrustedIn(NoDoc, k[2])
    BY DEF TrustedIn
  <2>2. CopiesTrusted'
    BY <2>1, <1>6, <1>m DEF Remove
  <2>3. SignaturesTrusted'
    BY <1>6, <1>k DEF Remove
  <2>. QED BY <2>2, <2>3
<1>. QED BY <1>1, <1>2, <1>3, <1>4, <1>5, <1>6 DEF Handle

LEMMA TrustAwait ==
  ASSUME TrustInv, NEW r \in Requests, NEW c \in Consoles, NEW n \in 1..MaxSends, Await(r, c, n)
  PROVE  SignaturesTrusted' /\ CopiesTrusted'
BY AwaitMoves DEF TrustInv, TypeInv, SignaturesTrusted, CopiesTrusted, Validated

\* A console never keeps a signature it could not validate itself, whichever
\* console the signature came through (validate_proposal_signatures).
THEOREM TrustedSignatures == Spec => []SignaturesTrusted
<1>1. TrustInv /\ UNCHANGED vars => TrustInv'
  BY TypeStutter
  DEF TrustInv, SignaturesTrusted, CopiesTrusted, Method, Validated, vars
<1>2. TrustInv /\ [Next]_vars => TrustInv'
  BY <1>1, TypeHandle, TypeAwait, TrustHandle, TrustAwait DEF TrustInv, Next
<1>3. TrustInv => SignaturesTrusted
  BY DEF TrustInv
<1>. QED BY TrustInit, <1>2, <1>3, PTL DEF Spec

-----------------------------------------------------------------------------
(* First attempts lose no signature.                                        *)

LEMMA MergeInit == Init => MergeInv
<1> SUFFICES ASSUME Init PROVE MergeInv
  OBVIOUS
<1>1. CopiesFresh
  BY DEF Init, CopiesFresh
<1>. QED BY <1>1, TypeInit DEF MergeInv

\* After a console's document changed no copy at the console is current.
LEMMA OutdatedAll ==
  ASSUME TypeOK, NEW c \in Consoles, NEW l \in Calls
  PROVE  /\ l[2] = c => Outdated(c)[l] # "current"
         /\ Outdated(c)[l] = "current" => base[l] = "current"
BY DEF TypeOK, Outdated

LEMMA FreshHandle ==
  ASSUME MergeInv, NEW k \in Calls, Handle(k)
  PROVE  CopiesFresh'
<1>k. k[2] \in Consoles /\ Method(k) \in {"POST", "PUT", "DELETE"}
  BY BodyFields
<1>m. ASSUME UNCHANGED again, NEW l \in Calls
      PROVE  Method(l)' = Method(l) /\ l[2] \in Consoles
  BY <1>m DEF Method, Calls
<1> USE DEF MergeInv, TypeInv, TypeOK, CopiesFresh, Read
<1>1. CASE Refuses(k) \/ Misses(k)
  BY <1>1, <1>m DEF Refuses, Misses
<1>2. CASE Distribute(k)
  <2>1. ASSUME NEW l \in Calls PROVE CopiesFresh!(l)'
    <3>1. CASE l = k
      BY <3>1, <1>2, <1>m, <1>k DEF Distribute, Accepts
    <3>2. CASE l # k
      BY <3>2, <1>2, <1>m DEF Distribute, Accepts
    <3>. QED BY <3>1, <3>2
  <2>. QED BY <2>1
<1>3. CASE Receive(k)
  <2>1. CASE Method(k) = "DELETE"
    BY <2>1, <1>3, <1>m DEF Receive, Accepts
  <2>2. CASE Method(k) # "DELETE"
    BY <2>2, <1>3, <1>m, <1>k DEF Receive, Accepts, ToWrite
  <2>. QED BY <2>1, <2>2
<1>4. CASE Collected(k)
  <2>1. CASE Method(k) = "DELETE"
    BY <2>1, <1>4, <1>m DEF Collected
  <2>2. CASE Method(k) # "DELETE"
    <3>1. base[k] = "current" /\ attempt[k] = 1 =>
            /\ doc[k[2]] # NoDoc
            /\ \E d \in Read(k) : ToWrite(k, copy[k]) = Merged(d, Body[k[1]])
      BY <2>2, <1>4 DEF Collected, ToWrite
    <3>. QED BY <2>2, <3>1, <1>4, <1>m DEF Collected
  <2>. QED BY <2>1, <2>2
<1>5. CASE Write(k)
  <2>1. ASSUME NEW l \in Calls PROVE CopiesFresh!(l)'
    <3>1. CASE l[2] = k[2]
      BY <3>1, <1>5, <1>k, OutdatedAll DEF Write
    <3>2. CASE l[2] # k[2]
      BY <3>2, <1>5, <1>m, <1>k, OutdatedAll DEF Write
    <3>. QED BY <3>1, <3>2
  <2>. QED BY <2>1
<1>6. CASE Conflict(k)
  BY <1>6, <1>m DEF Conflict, Accepted
<1>7. CASE ReadAgain(k)
  BY <1>7, <1>m DEF ReadAgain
<1>8. CASE FindRev(k)
  BY <1>8, <1>m DEF FindRev
<1>9. CASE Remove(k)
  <2>1. CASE base[k] # "current"
    BY <2>1, <1>9, <1>m DEF Remove
  <2>2. CASE base[k] = "current"
    <3>1. ASSUME NEW l \in Calls PROVE CopiesFresh!(l)'
      <4>1. CASE l[2] = k[2]
        BY <4>1, <2>2, <1>9, <1>k, OutdatedAll DEF Remove
      <4>2. CASE l[2] # k[2]
        BY <4>2, <2>2, <1>9, <1>m, <1>k, OutdatedAll DEF Remove
      <4>. QED BY <4>1, <4>2
    <3>. QED BY <3>1
  <2>. QED BY <2>1, <2>2
<1>. QED BY <1>1, <1>2, <1>3, <1>4, <1>5, <1>6, <1>7, <1>8, <1>9 DEF Handle

LEMMA FreshAwait ==
  ASSUME MergeInv, NEW r \in Requests, NEW c \in Consoles, NEW n \in 1..MaxSends, Await(r, c, n)
  PROVE  CopiesFresh'
BY AwaitMoves DEF MergeInv, TypeInv, CopiesFresh, Read

\* A copy with the document's _rev is the document, or its merge.
THEOREM MergeInvariant == Spec => []MergeInv
<1>1. MergeInv /\ UNCHANGED vars => MergeInv'
  BY TypeStutter DEF MergeInv, CopiesFresh, Read, Method, vars
<1>2. MergeInv /\ [Next]_vars => MergeInv'
  BY <1>1, TypeHandle, TypeAwait, FreshHandle, FreshAwait DEF MergeInv, Next
<1>. QED BY MergeInit, <1>2, PTL DEF Spec

\* Only Write answers ok to a handler that writes.
LEMMA OnlyWriteWrites ==
  ASSUME TypeOK, Next, NEW k \in Calls, pc[k] = "write", pc'[k] = "ok"
  PROVE  Write(k)
<1>1. ASSUME NEW l \in Calls, Handle(l), l # k
      PROVE  FALSE
  <2>1. CASE Distribute(l)
    BY <2>1, <1>1 DEF Distribute, TypeOK
  <2>2. CASE ~Distribute(l)
    <3>1. pc' = [pc EXCEPT ![l] = pc'[l]]
      BY <2>2, <1>1
      DEF TypeOK, Handle, Refuses, Misses, Receive, Collected, Write, Conflict, ReadAgain,
          FindRev, Remove
    <3>. QED BY <3>1, <1>1 DEF TypeOK
  <2>. QED BY <2>1, <2>2
<1>2. ASSUME Handle(k)
      PROVE  Write(k)
  BY <1>2
  DEF Handle, Refuses, Misses, Distribute, Accepts, Receive, Collected, Conflict, ReadAgain,
      FindRev, Remove, TypeOK
<1>3. ASSUME NEW r \in Requests, NEW c \in Consoles, NEW n \in 1..MaxSends, Await(r, c, n)
      PROVE  FALSE
  BY <1>3, AwaitMoves
<1>. QED BY <1>1, <1>2, <1>3 DEF Next

\* A write that CouchDB takes at once loses no signature of the document and
\* brings back no older one, though it was prepared from a document read before
\* the request was sent to other consoles (writeSignatureCollectionDoc).
THEOREM FirstWritesKeep == Spec => FirstWriteKeeps
<1>1. MergeInv /\ Next => \A k \in Calls : attempt[k] = 1 => WriteKeeps(k)
  <2> SUFFICES ASSUME MergeInv, Next, NEW k \in Calls, attempt[k] = 1,
                      pc[k] = "write", pc'[k] = "ok", doc[k[2]] # NoDoc
               PROVE  Keeps(doc[k[2]], doc'[k[2]])
    BY DEF WriteKeeps
  <2>1. k[2] \in Consoles /\ Body[k[1]] \in Bodies
    BY BodyFields
  <2>2. Write(k)
    BY OnlyWriteWrites DEF MergeInv, TypeInv
  <2>3. doc[k[2]] \in Document /\ base[k] = "current"
    BY <2>1, <2>2 DEF Write, Accepted, MergeInv, TypeInv, TypeOK
  <2>4. PICK d \in Read(k) : copy[k] = Merged(d, Body[k[1]])
    BY <2>2, <2>3 DEF Write, MergeInv, CopiesFresh
  <2>5. doc'[k[2]] = Merged(d, Body[k[1]])
    BY <2>1, <2>2, <2>4 DEF Write, MergeInv, TypeInv, TypeOK
  <2>. QED BY <2>1, <2>3, <2>4, <2>5, MergeKeeps DEF Read
<1>2. MergeInv /\ [Next]_vars => [\A k \in Calls : attempt[k] = 1 => WriteKeeps(k)]_vars
  BY <1>1
<1>. QED BY MergeInvariant, <1>2, PTL DEF Spec, FirstWriteKeeps

-----------------------------------------------------------------------------
(* Consoles agree on who has signed.                                        *)

\* A merge adds the signatures of the request to those of the document.
LEMMA MergeSigners ==
  ASSUME SignedAfterAsked, NEW d \in Document, AskedIn(d), NEW r \in Requests,
         NEW m \in {d, Marked(d, Body[r])}, NEW o \in Orgs
  PROVE  SignedIn(Merged(m, Body[r]).orgs, o) <=> SignedIn(d.orgs, o) \/ SignedIn(Body[r].orgs, o)
<1> DEFINE new == Body[r].orgs[o]
<1>1. Body[r] \in Bodies /\ new \in Entry \cup {NotAsked} /\ d.orgs[o] \in Entry \cup {NotAsked}
  <2>1. Body[r] \in Bodies
    BY ConstantsAssumption
  <2>. QED BY <2>1 DEF Bodies, Collections, Document
<1>2. Merged(m, Body[r]).orgs[o] = MergedEntry(m.orgs[o], new)
  BY DEF Merged
<1>3. CASE ~SignedIn(Body[r].orgs, o)
  <2>1. m.orgs[o] = d.orgs[o]
    BY <1>1, <1>3, MarkedEntries
  <2>2. MergedEntry(m.orgs[o], new) = m.orgs[o]
    BY <1>3 DEF MergedEntry, SignedIn
  <2>. QED BY <1>2, <1>3, <2>1, <2>2 DEF SignedIn
<1>4. CASE SignedIn(Body[r].orgs, o) /\ d.orgs[o] = NotAsked
  <2>1. m.orgs[o] = NotAsked
    BY <1>1, <1>4, MarkedEntries
  <2>2. MergedEntry(m.orgs[o], new) = new
    BY <2>1, <1>4 DEF MergedEntry, SignedIn
  <2>. QED BY <1>2, <1>4, <2>2 DEF SignedIn
<1>5. CASE SignedIn(Body[r].orgs, o) /\ SignedIn(d.orgs, o)
  <2>1. m.orgs[o] = d.orgs[o] \/ m.orgs[o] = [d.orgs[o] EXCEPT !.sig = new.sig]
    BY <1>1, MarkedEntries
  <2>2. d.orgs[o] \in Entry /\ new \in Entry /\ new.sig # Unsigned
    BY <1>1, <1>5 DEF SignedIn
  <2>3. m.orgs[o] \in Entry /\ m.orgs[o].sig # Unsigned
    BY <2>1, <2>2, <1>5 DEF SignedIn, Entry
  <2>4. MergedEntry(m.orgs[o], new) \in {m.orgs[o], new}
    BY DEF MergedEntry
  <2>. QED BY <1>2, <1>5, <2>2, <2>3, <2>4, ConstantsAssumption DEF SignedIn
<1>6. CASE SignedIn(Body[r].orgs, o) /\ d.orgs[o] # NotAsked /\ ~SignedIn(d.orgs, o)
  <2>1. d.orgs[o] \in Entry /\ new \in Entry
    BY <1>1, <1>6 DEF SignedIn
  <2>2. d.orgs[o].ts < new.ts
    <3>1. PICK q \in Requests : Body[q].method = "POST" /\ Body[q].orgs[o] = d.orgs[o]
      BY <1>6, DocumentExists DEF AskedIn
    <3>2. Body[q].orgs[o] # NotAsked /\ ~SignedIn(Body[q].orgs, o)
      BY <3>1, <1>6 DEF SignedIn
    <3>. QED BY <3>1, <3>2, <1>6 DEF SignedAfterAsked
  <2>3. m.orgs[o].ts = d.orgs[o].ts /\ m.orgs[o] \in Entry
    <3>1. m.orgs[o] = d.orgs[o] \/ m.orgs[o] = [d.orgs[o] EXCEPT !.sig = new.sig]
      BY <1>1, MarkedEntries
    <3>. QED BY <3>1, <2>1 DEF Entry
  <2>4. MergedEntry(m.orgs[o], new) = new
    BY <2>1, <2>2, <2>3, <1>6 DEF MergedEntry, SignedIn, Entry
  <2>. QED BY <1>2, <1>6, <2>4 DEF SignedIn
<1>. QED BY <1>3, <1>4, <1>5, <1>6

\* Neither marking nor merging brings in entries without a signature.
LEMMA MarkedAsked ==
  ASSUME NEW d \in Document, NEW b \in Bodies, AskedIn(d)
  PROVE  AskedIn(Marked(d, b))
<1> SUFFICES ASSUME NEW o \in Orgs, Marked(d, b).orgs[o] # NotAsked,
                    ~SignedIn(Marked(d, b).orgs, o)
             PROVE  Marked(d, b).orgs[o] = d.orgs[o]
  BY DocumentExists DEF AskedIn, SignedIn
<1>1. d.orgs[o] \in Entry \cup {NotAsked} /\ b.orgs[o] \in Entry \cup {NotAsked}
  BY DEF Document, Bodies, Collections
<1>. QED BY <1>1, MarkedEntries DEF SignedIn, Entry

LEMMA MergedAsked ==
  ASSUME NEW d \in Document, NEW b \in Bodies, AskedIn(d)
  PROVE  AskedIn(Merged(d, b))
<1> SUFFICES ASSUME NEW o \in Orgs, ~SignedIn(Merged(d, b).orgs, o)
             PROVE  Merged(d, b).orgs[o] = d.orgs[o] \/ Merged(d, b).orgs[o] = NotAsked
  BY DocumentExists DEF AskedIn, SignedIn
<1>1. Merged(d, b).orgs[o] = MergedEntry(d.orgs[o], b.orgs[o])
  BY DEF Merged
<1>. QED BY <1>1 DEF MergedEntry, SignedIn

LEMMA CreatedAsked ==
  ASSUME NEW k \in Calls, Method(k) = "POST"
  PROVE  AskedIn(Created(Body[k[1]]))
BY BodyFields DEF Method, AskedIn, Created, SignedIn

LEMMA RootIsCall ==
  ASSUME NEW r \in Requests
  PROVE  /\ Root(r) \in Calls
         /\ Root(r)[1] = r
         /\ At[r] \in Consoles
BY ConstantsAssumption DEF Root, Calls

LEMMA SignersInit == Init => SignersInv
<1> SUFFICES ASSUME Init PROVE SignersInv
  OBVIOUS
<1>1. RootsFirst
  BY RootIsCall DEF Init, RootsFirst, IsRoot
<1>2. RepeatsLate /\ CopiesCreated /\ EntriesAsked
  BY DEF Init, RepeatsLate, CopiesCreated, EntriesAsked, AskedIn
<1>3. SignersTaken
  BY DEF Init, SignersTaken, DoneAt
<1>. QED BY <1>1, <1>2, <1>3, MergeInit DEF SignersInv
\* A step of a handler moves no other, except one that waits to be asked.
LEMMA OthersStay ==
  ASSUME SignersInv, NEW k \in Calls, Handle(k), NEW l \in Calls, l # k
  PROVE  /\ pc'[l] = pc[l] \/ (pc[l] = "idle" /\ pc'[l] = "sent" /\ l[2] \in waiting'[k[1]] /\ IsRoot(k))
         /\ attempt'[l] = attempt[l]
         /\ copy'[l] = copy[l]
         /\ Method(l)' = Method(l)
         /\ base'[l] # base[l] => base[l] = "current" /\ base'[l] = "stale"
<1> USE DEF SignersInv, MergeInv, TypeInv, TypeOK, Method
<1>1. CASE Distribute(k)
  <2>1. k = Root(k[1]) /\ k[1] \in Requests /\ pc[k] = "sent"
    BY <1>1, BodyFields DEF Distribute, Accepts, IsRoot
  <2>2. l[1] = k[1] => pc[l] = "idle"
    BY <2>1 DEF RootsFirst
  <2>. QED BY <1>1, <2>1, <2>2 DEF Distribute, Accepts
<1>2. CASE Refuses(k) \/ Misses(k) \/ Receive(k) \/ Collected(k) \/ Conflict(k) \/ ReadAgain(k)
           \/ FindRev(k)
  BY <1>2 DEF Refuses, Misses, Receive, Accepts, Collected, Conflict, ReadAgain, FindRev
<1>3. CASE Write(k) \/ Remove(k)
  BY <1>3 DEF Write, Remove, Outdated
<1>. QED BY <1>1, <1>2, <1>3 DEF Handle

\* A handler that is done stays done, and a repeated write is never forgotten.
LEMMA HandleGrows ==
  ASSUME SignersInv, NEW k \in Calls, Handle(k)
  PROVE  /\ pc[k] \notin {"ok", "idle"} /\ pc'[k] # "idle"
         /\ attempt'[k] = 1 => attempt[k] = 1
         /\ pc'[k] = "ok" => pc[k] \in {"write", "find", "remove"}
         /\ waiting' # waiting => IsRoot(k) /\ pc[k] = "sent"
<1> USE DEF SignersInv, MergeInv, TypeInv, TypeOK
<1>1. CASE Distribute(k)
  BY <1>1 DEF Distribute, Accepts
<1>2. CASE Conflict(k)
  BY <1>2, ConstantsAssumption DEF Conflict
<1>3. CASE Refuses(k) \/ Misses(k) \/ Receive(k) \/ Collected(k) \/ ReadAgain(k)
  BY <1>3 DEF Refuses, Misses, Receive, Accepts, Collected, ReadAgain
<1>4. CASE FindRev(k) \/ Write(k) \/ Remove(k)
  BY <1>4 DEF FindRev, Write, Remove
<1>. QED BY <1>1, <1>2, <1>3, <1>4 DEF Handle

LEMMA RootsHandle ==
  ASSUME SignersInv, NEW k \in Calls, Handle(k)
  PROVE  RootsFirst'
<1>1. CASE Distribute(k)
  <2>1. k = Root(k[1]) /\ k[1] \in Requests /\ pc'[k] = "spread"
    BY <1>1, BodyFields DEF Distribute, IsRoot, SignersInv, MergeInv, TypeInv, TypeOK
  <2>2. waiting' = [waiting EXCEPT ![k[1]] = Destinations(k[1], doc[k[2]])]
    BY <1>1 DEF Distribute
  <2>3. At[k[1]] \notin Destinations(k[1], doc[k[2]])
    BY DEF Destinations
  <2>4. ASSUME NEW r \in Requests, r # k[1]
        PROVE  RootsFirst!(r)'
    <3>1. waiting'[r] = waiting[r]
      BY <2>2, <2>4, <2>1 DEF SignersInv, MergeInv, TypeInv, TypeOK
    <3>2. \A l \in Calls : l[1] = r => pc'[l] = pc[l]
      BY <1>1, <2>1, <2>4 DEF Distribute
    <3>. QED BY <3>1, <3>2, RootIsCall DEF RootsFirst, SignersInv
  <2>5. RootsFirst!(k[1])'
    BY <2>1, <2>2, <2>3 DEF SignersInv, MergeInv, TypeInv, TypeOK
  <2>. QED BY <2>4, <2>5, <2>1 DEF RootsFirst
<1>2. CASE ~Distribute(k)
  <2>1. waiting' = waiting /\ \A l \in Calls : l # k => pc'[l] = pc[l]
    BY <1>2 DEF Handle, Refuses, Misses, Receive, Collected, Write, Conflict, ReadAgain,
                FindRev, Remove, SignersInv, MergeInv, TypeInv, TypeOK
  <2>2. pc'[k] # "sent" /\ pc[k] # "idle"
    BY <1>2 DEF Handle, Refuses, Misses, Receive, Accepts, Collected, Write, Conflict, ReadAgain,
                FindRev, Remove, SignersInv, MergeInv, TypeInv, TypeOK
  <2>. QED BY <2>1, <2>2, RootIsCall DEF RootsFirst, SignersInv
<1>. QED BY <1>1, <1>2

LEMMA RepeatsHandle ==
  ASSUME SignersInv, NEW k \in Calls, Handle(k)
  PROVE  RepeatsLate'
<1>1. ASSUME NEW l \in Calls, l # k
      PROVE  RepeatsLate!(l)'
  BY <1>1, OthersStay DEF RepeatsLate, SignersInv
<1>2. RepeatsLate!(k)'
  BY DEF Handle, Refuses, Misses, Distribute, Receive, Accepts, Collected, Write, Conflict,
         ReadAgain, FindRev, Remove, SignersInv, MergeInv, TypeInv, TypeOK, RepeatsLate
<1>. QED BY <1>1, <1>2 DEF RepeatsLate

LEMMA CreatedHandle ==
  ASSUME SignersInv, NEW k \in Calls, Handle(k)
  PROVE  CopiesCreated'
<1>k. k[2] \in Consoles /\ Method(k) \in {"POST", "PUT", "DELETE"}
  BY BodyFields
<1>m. Method(k)' = Method(k)
  BY DEF Handle, Refuses, Misses, Distribute, Receive, Collected, Write, Conflict, ReadAgain,
         FindRev, Remove, Method
<1>1. ASSUME NEW l \in Calls, l # k
      PROVE  CopiesCreated!(l)'
  BY <1>1, OthersStay DEF CopiesCreated, SignersInv
<1>2. CopiesCreated!(k)'
  <2> USE <1>k, <1>m DEF CopiesCreated, SignersInv, MergeInv, TypeInv, TypeOK
  <2>1. CASE Distribute(k)
    BY <2>1 DEF Distribute, Accepts
  <2>2. CASE Receive(k)
    <3>1. Method(k) = "DELETE" => Body[k[1]].method = "DELETE"
      BY DEF Method
    <3>2. base'[k] = "none" /\ Method(k) # "DELETE" => copy'[k] = Created(Body[k[1]])
      BY <2>2 DEF Receive, Accepts, ToWrite
    <3>. QED BY <2>2, <3>1, <3>2 DEF Receive, Accepts
  <2>3. CASE Collected(k)
    <3>1. Method(k) = "DELETE" => Body[k[1]].method = "DELETE"
      BY DEF Method
    <3>2. base[k] = "none" /\ attempt[k] = 1 /\ Method(k) # "DELETE" =>
            copy'[k] = Created(Body[k[1]])
      BY <2>3 DEF Collected, ToWrite
    <3>. QED BY <2>3, <3>1, <3>2 DEF Collected
  <2>4. CASE Refuses(k) \/ Misses(k) \/ Write(k) \/ Conflict(k)
    BY <2>4 DEF Refuses, Misses, Write, Conflict
  <2>5. CASE ReadAgain(k)
    BY <2>5 DEF ReadAgain, CopiesFresh
  <2>6. CASE FindRev(k) \/ Remove(k)
    BY <2>6 DEF FindRev, Remove
  <2>. QED BY <2>1, <2>2, <2>3, <2>4, <2>5, <2>6 DEF Handle
<1>. QED BY <1>1, <1>2 DEF CopiesCreated

LEMMA AskedHandle ==
  ASSUME SignersInv, NEW k \in Calls, Handle(k)
  PROVE  EntriesAsked'
<1>k. /\ k[2] \in Consoles /\ Body[k[1]] \in Bodies /\ Method(k) \in {"POST", "PUT", "DELETE"}
      /\ AskedIn(doc[k[2]]) /\ AskedIn(copy[k]) /\ AskedIn(NoDoc)
      /\ doc[k[2]] \in Document \cup {NoDoc} /\ copy[k] \in Document \cup {NoDoc}
  BY BodyFields DEF SignersInv, EntriesAsked, AskedIn, MergeInv, TypeInv, TypeOK
<1>1. AskedIn(copy'[k])
  <2>1. CASE Distribute(k)
    <3>1. Method(k) = "PUT" => AskedIn(Marked(doc[k[2]], Body[k[1]]))
      BY <2>1, <1>k, MarkedAsked DEF Distribute, Accepts
    <3>. QED BY <2>1, <1>k, <3>1 DEF Distribute, SignersInv, MergeInv, TypeInv, TypeOK
  <2>2. CASE Receive(k)
    <3>1. Method(k) = "POST" => AskedIn(ToWrite(k, doc[k[2]]))
      BY CreatedAsked DEF ToWrite
    <3>2. Method(k) = "PUT" => AskedIn(ToWrite(k, doc[k[2]]))
      BY <2>2, <1>k, MergedAsked DEF Receive, Accepts, ToWrite
    <3>. QED BY <2>2, <1>k, <3>1, <3>2 DEF Receive, SignersInv, MergeInv, TypeInv, TypeOK
  <2>3. CASE Collected(k)
    <3>1. Method(k) = "POST" => AskedIn(ToWrite(k, copy[k]))
      BY CreatedAsked DEF ToWrite
    <3>2. Method(k) = "PUT" => AskedIn(ToWrite(k, copy[k]))
      BY <2>3, <1>k, MergedAsked
      DEF Collected, ToWrite, SignersInv, MergeInv, TypeInv, HandlersHaveCopies
    <3>. QED BY <2>3, <1>k, <3>1, <3>2 DEF Collected, SignersInv, MergeInv, TypeInv, TypeOK
  <2>4. CASE Write(k) \/ Remove(k)
    BY <2>4, <1>k DEF Write, Remove, SignersInv, MergeInv, TypeInv, TypeOK
  <2>5. CASE Refuses(k) \/ Misses(k) \/ Conflict(k) \/ ReadAgain(k) \/ FindRev(k)
    BY <2>5, <1>k DEF Refuses, Misses, Conflict, ReadAgain, FindRev
  <2>. QED BY <2>1, <2>2, <2>3, <2>4, <2>5 DEF Handle
<1>2. \A l \in Calls : AskedIn(copy'[l])
  BY <1>1, OthersStay DEF SignersInv, EntriesAsked
<1>3. ASSUME NEW c \in Consoles
      PROVE  AskedIn(doc'[c])
  <2>1. doc'[c] \in {doc[c], copy[k], NoDoc}
    BY DEF Handle, Refuses, Misses, Distribute, Receive, Collected, Write, Conflict, ReadAgain,
           FindRev, Remove, SignersInv, MergeInv, TypeInv, TypeOK
  <2>. QED BY <1>k, <2>1 DEF SignersInv, EntriesAsked
<1>4. (\A c \in Consoles : AskedIn(doc'[c])) /\ (\A l \in Calls : AskedIn(copy'[l])) => EntriesAsked'
  BY DEF EntriesAsked, AskedIn
<1>. QED BY <1>2, <1>3, <1>4

\* A first write adds the signatures of its request to those of the document, and
\* begins a document with them.
LEMMA FirstWriteSigners ==
  ASSUME SignersInv, SignedAfterAsked, NEW k \in Calls, Write(k), attempt[k] = 1, NEW o \in Orgs
  PROVE  SignedIn(doc'[k[2]].orgs, o) <=>
           \/ doc[k[2]] # NoDoc /\ SignedIn(doc[k[2]].orgs, o)
           \/ SignedIn(Body[k[1]].orgs, o)
<1>k. /\ k[1] \in Requests /\ k[2] \in Consoles
      /\ AskedIn(doc[k[2]]) /\ doc[k[2]] \in Document \cup {NoDoc}
  BY BodyFields DEF SignersInv, EntriesAsked, MergeInv, TypeInv, TypeOK
<1>1. doc'[k[2]] = copy[k]
  BY <1>k DEF Write, SignersInv, MergeInv, TypeInv, TypeOK
<1>2. CASE base[k] = "current"
  <2>1. doc[k[2]] # NoDoc
    BY <1>2 DEF Write, SignersInv, MergeInv, CopiesFresh
  <2>2. PICK d \in Read(k) : copy[k] = Merged(d, Body[k[1]])
    BY <1>2 DEF Write, SignersInv, MergeInv, CopiesFresh
  <2>3. d \in {doc[k[2]], Marked(doc[k[2]], Body[k[1]])}
    BY <2>2 DEF Read
  <2>. QED BY <1>k, <1>1, <2>1, <2>2, <2>3, MergeSigners
<1>3. CASE base[k] = "none" /\ doc[k[2]] = NoDoc
  <2>1. copy[k] = Created(Body[k[1]])
    BY <1>3 DEF Write, SignersInv, CopiesCreated
  <2>. QED BY <1>1, <1>3, <2>1 DEF Created
<1>. QED BY <1>2, <1>3 DEF Write, Accepted

LEMMA TakenHandle ==
  ASSUME SignersInv, SignedAfterAsked, NEW k \in Calls, Handle(k)
  PROVE  SignersTaken'
<1> SUFFICES ASSUME NEW c \in Consoles, Undisturbed(c)'
             PROVE  SignersTaken!(c)!2'
  BY DEF SignersTaken
<1>1. \A l \in Calls : l # k => (l \in DoneAt(c)' <=> l \in DoneAt(c))
  BY OthersStay DEF DoneAt
<1>2. k \notin DoneAt(c)
  BY HandleGrows DEF DoneAt
<1>3. Undisturbed(c)
  <2>1. \A l \in Calls : l[2] = c => attempt[l] = 1
    BY OthersStay, HandleGrows DEF Undisturbed
  <2>2. DoneAt(c) \subseteq DoneAt(c)'
    BY <1>1, <1>2 DEF DoneAt
  <2>. QED BY <2>1, <2>2 DEF Undisturbed
<1>4. CASE Write(k) /\ k[2] = c
  <2>1. DoneAt(c)' = DoneAt(c) \cup {k}
    <3>1. k \in DoneAt(c)'
      BY <1>4 DEF Write, DoneAt, SignersInv, MergeInv, TypeInv, TypeOK
    <3>. QED BY <1>1, <3>1 DEF DoneAt
  <2>2. doc'[c] = copy[k] /\ copy[k] # NoDoc /\ attempt[k] = 1
    BY <1>3, <1>4 DEF Write, Undisturbed, SignersInv, MergeInv, TypeInv, TypeOK, HandlersHaveCopies
  <2>3. ASSUME NEW o \in Orgs
        PROVE  SignedIn(doc'[c].orgs, o) <=> TakenFrom(c, o)'
    <3>1. SignedIn(doc'[c].orgs, o) <=>
            (doc[c] # NoDoc /\ SignedIn(doc[c].orgs, o)) \/ SignedIn(Body[k[1]].orgs, o)
      BY <1>4, <2>2, FirstWriteSigners
    <3>2. doc[c] # NoDoc /\ SignedIn(doc[c].orgs, o) <=> TakenFrom(c, o)
      BY <1>3 DEF SignersInv, SignersTaken, TakenFrom
    <3>3. TakenFrom(c, o)' <=> TakenFrom(c, o) \/ SignedIn(Body[k[1]].orgs, o)
      BY <2>1 DEF TakenFrom
    <3>. QED BY <3>1, <3>2, <3>3
  <2>4. \A o \in Orgs : SignedIn(doc[c].orgs, o)' <=> SignedIn(doc'[c].orgs, o)
    BY DEF SignedIn
  <2>. QED BY <2>2, <2>3, <2>4
<1>5. CASE ~(Write(k) /\ k[2] = c)
  <2>1. k \notin DoneAt(c)'
    <3>1. SUFFICES ASSUME k[2] = c, pc'[k] = "ok"
                   PROVE  FALSE
      BY DEF DoneAt
    <3>2. pc[k] \in {"find", "remove"}
      BY <3>1, <1>5, HandleGrows
      DEF Handle, Refuses, Misses, Distribute, Accepts, Receive, Collected, Conflict, ReadAgain,
          FindRev, Remove, SignersInv, MergeInv, TypeInv, TypeOK
    <3>3. Body[k[1]].method = "DELETE"
      BY <3>2 DEF SignersInv, CopiesCreated
    <3>4. k \in DoneAt(c)'
      BY <3>1 DEF DoneAt
    <3>. QED BY <3>3, <3>4 DEF Undisturbed
  <2>2. DoneAt(c)' = DoneAt(c)
    BY <1>1, <1>2, <2>1 DEF DoneAt
  <2>3. doc'[c] = doc[c]
    <3>1. CASE Remove(k) /\ k[2] = c
      BY <3>1, <2>1 DEF Remove, DoneAt, SignersInv, MergeInv, TypeInv, TypeOK
    <3>2. CASE ~(Remove(k) /\ k[2] = c)
      BY <3>2, <1>5
      DEF Handle, Refuses, Misses, Distribute, Receive, Collected, Write, Conflict, ReadAgain,
          FindRev, Remove, SignersInv, MergeInv, TypeInv, TypeOK
    <3>. QED BY <3>1, <3>2
  <2>4. \A o \in Orgs : /\ SignedIn(doc[c].orgs, o)' <=> SignedIn(doc[c].orgs, o)
                        /\ TakenFrom(c, o)' <=> TakenFrom(c, o)
    BY <2>2, <2>3 DEF SignedIn, TakenFrom
  <2>. QED BY <1>3, <2>2, <2>3, <2>4 DEF SignersInv, SignersTaken
<1>. QED BY <1>4, <1>5

\* What a sender that waits moves: a call nobody made yet, or one that was refused.
LEMMA AwaitBegins ==
  ASSUME SignersInv, NEW r \in Requests, NEW c \in Consoles, NEW n \in 1..MaxSends, Await(r, c, n)
  PROVE  /\ c \in waiting[r] /\ waiting' \in [Requests -> SUBSET Consoles]
         /\ \A q \in Requests : waiting'[q] \subseteq waiting[q]
         /\ \A l \in Calls :
              \/ pc'[l] = pc[l]
              \/ l[1] = r /\ l[2] = c /\ pc[l] \in {"idle", "refused"} /\ pc'[l] = "sent"
<1> USE DEF SignersInv, MergeInv, TypeInv, TypeOK
<1>1. CASE SendAgain(r, c, n)
  <2>1. n + 1 \in 1..MaxSends
    BY <1>1, ConstantsAssumption DEF SendAgain
  <2>2. <<r, c, n + 1>> \in Calls /\ pc[<<r, c, n + 1>>] = "idle"
    BY <1>1, <2>1 DEF SendAgain, Sent, Calls
  <2>. QED BY <1>1, <2>2 DEF SendAgain
<1>2. CASE Answer(r, c, n)
  BY <1>2 DEF Answer
<1>3. CASE Timeout(r, c)
  BY <1>3 DEF Timeout
<1>. QED BY <1>1, <1>2, <1>3 DEF Await

LEMMA SignersAwait ==
  ASSUME SignersInv, NEW r \in Requests, NEW c \in Consoles, NEW n \in 1..MaxSends, Await(r, c, n)
  PROVE  RootsFirst' /\ RepeatsLate' /\ CopiesCreated' /\ EntriesAsked' /\ SignersTaken'
<1>s. TypeOK /\ UNCHANGED <<doc, copy, base, attempt>>
  BY AwaitMoves DEF SignersInv, MergeInv, TypeInv
<1>1. RootsFirst'
  <2>1. c # At[r] /\ pc[Root(r)] # "sent"
    BY AwaitBegins DEF SignersInv, RootsFirst
  <2>2. ASSUME NEW q \in Requests
        PROVE  RootsFirst!(q)'
    <3>1. CASE q = r
      <4>1. Root(r)[2] = At[r]
        BY DEF Root
      <4>2. pc'[Root(r)] # "sent"
        BY <2>1, <4>1, AwaitBegins, RootIsCall
      <4>. QED BY <3>1, <4>2, AwaitBegins DEF SignersInv, RootsFirst
    <3>2. CASE q # r
      <4>1. \A l \in Calls : l[1] = q => pc'[l] = pc[l]
        BY <3>2, AwaitBegins
      <4>2. pc'[Root(q)] = pc[Root(q)] /\ waiting'[q] \subseteq waiting[q]
        BY <4>1, AwaitBegins, RootIsCall
      <4>. QED BY <4>1, <4>2 DEF SignersInv, RootsFirst
    <3>. QED BY <3>1, <3>2
  <2>. QED BY <2>2 DEF RootsFirst
<1>2. RepeatsLate'
  <2>1. \A l \in Calls : pc[l] \in {"reread", "write", "ok", "hung"} => pc'[l] = pc[l]
    BY AwaitBegins
  <2>2. \A l \in Calls : attempt'[l] = attempt[l]
    BY <1>s
  <2>. QED BY <2>1, <2>2 DEF SignersInv, RepeatsLate
<1>3. CopiesCreated'
  BY <1>s, AwaitMoves DEF SignersInv, MergeInv, TypeInv, CopiesCreated
<1>4. EntriesAsked'
  BY <1>s DEF SignersInv, EntriesAsked, AskedIn, SignedIn
<1>5. SignersTaken'
  <2>1. \A d \in Consoles : DoneAt(d)' = DoneAt(d)
    BY AwaitBegins DEF DoneAt
  <2>2. \A d \in Consoles : /\ Undisturbed(d)' <=> Undisturbed(d)
                            /\ \A o \in Orgs : TakenFrom(d, o)' <=> TakenFrom(d, o)
    BY <1>s, <2>1 DEF Undisturbed, TakenFrom
  <2>. QED BY <1>s, <2>1, <2>2 DEF SignersInv, SignersTaken, SignedIn
<1>. QED BY <1>1, <1>2, <1>3, <1>4, <1>5

LEMMA SignersStutter ==
  ASSUME SignersInv, UNCHANGED vars
  PROVE  RootsFirst' /\ RepeatsLate' /\ CopiesCreated' /\ EntriesAsked' /\ SignersTaken'
<1> USE DEF vars, SignersInv
<1>1. RootsFirst' /\ RepeatsLate' /\ CopiesCreated' /\ EntriesAsked'
  BY DEF RootsFirst, RepeatsLate, CopiesCreated, EntriesAsked, AskedIn, SignedIn, Method
<1>2. SignersTaken'
  BY DEF SignersTaken, Undisturbed, TakenFrom, DoneAt, SignedIn
<1>. QED BY <1>1, <1>2

\* Who has signed at a console is who signed in the requests the console has
\* taken, as long as nothing was deleted there and no write was repeated
\* (createOrAppendSignature).
THEOREM SignersInvariant == SignedAfterAsked => (Spec => []SignersInv)
<1> SUFFICES ASSUME SignedAfterAsked PROVE Spec => []SignersInv
  OBVIOUS
<1>1. MergeInv /\ [Next]_vars => MergeInv'
  <2>1. MergeInv /\ UNCHANGED vars => MergeInv'
    BY TypeStutter DEF MergeInv, CopiesFresh, Read, Method, vars
  <2>. QED BY <2>1, TypeHandle, TypeAwait, FreshHandle, FreshAwait DEF MergeInv, Next
<1>2. SignersInv /\ [Next]_vars => SignersInv'
  <2> SUFFICES ASSUME SignersInv, [Next]_vars
               PROVE  RootsFirst' /\ RepeatsLate' /\ CopiesCreated' /\ EntriesAsked' /\ SignersTaken'
    BY <1>1 DEF SignersInv
  <2>1. ASSUME NEW k \in Calls, Handle(k)
        PROVE  RootsFirst' /\ RepeatsLate' /\ CopiesCreated' /\ EntriesAsked' /\ SignersTaken'
    BY <2>1, RootsHandle, RepeatsHandle, CreatedHandle, AskedHandle, TakenHandle
  <2>. QED BY <2>1, SignersAwait, SignersStutter DEF Next
<1>. QED BY SignersInit, <1>2, PTL DEF Spec

\* Consoles that took the same requests agree on who has signed, though the
\* requests reached them in different orders, some twice (mergeSigWithDoc).
THEOREM SignersAgree == SignedAfterAsked => (Spec => []SameSigners)
<1>1. ASSUME SignersInv
      PROVE  SameSigners
  <2> SUFFICES ASSUME NEW c \in Consoles, NEW d \in Consoles,
                      doc[c] # NoDoc, doc[d] # NoDoc,
                      \A r \in Requests :
                        \/ Body[r].method # "DELETE" /\ TakenBy(r, c) /\ TakenBy(r, d)
                        \/ Untouched(r, c) /\ Untouched(r, d),
                      NEW o \in Orgs
               PROVE  SignedIn(doc[c].orgs, o) <=> SignedIn(doc[d].orgs, o)
    BY DEF SameSigners
  <2> DEFINE Same(e) == \A r \in Requests :
                          \/ Body[r].method # "DELETE" /\ TakenBy(r, e)
                          \/ Untouched(r, e)
  <2>1. ASSUME NEW e \in Consoles, Same(e)
        PROVE  Undisturbed(e)
    <3>1. ASSUME NEW k \in Calls, k[2] = e
          PROVE  attempt[k] = 1 /\ (pc[k] = "ok" => Body[k[1]].method # "DELETE")
      <4>1. /\ k[1] \in Requests /\ k[3] \in 1..MaxSends
            /\ k = <<k[1], e, k[3]>> /\ attempt[k] \in Nat /\ attempt[k] >= 1
        BY <3>1, <1>1, ConstantsAssumption DEF Calls, SignersInv, MergeInv, TypeInv, TypeOK
      <4>2. CASE Body[k[1]].method # "DELETE" /\ TakenBy(k[1], e)
        BY <4>1, <4>2 DEF TakenBy
      <4>3. CASE Untouched(k[1], e)
        BY <1>1, <4>1, <4>3 DEF Untouched, SignersInv, RepeatsLate
      <4>. QED BY <2>1, <4>1, <4>2, <4>3
    <3>. QED BY <3>1 DEF Undisturbed, DoneAt
  <2>2. ASSUME NEW e \in Consoles, doc[e] # NoDoc, Same(e)
        PROVE  SignedIn(doc[e].orgs, o) <=>
                 \E r \in Requests : TakenBy(r, e) /\ SignedIn(Body[r].orgs, o)
    <3>1. SignedIn(doc[e].orgs, o) <=> TakenFrom(e, o)
      BY <1>1, <2>1, <2>2 DEF SignersInv, SignersTaken
    <3>2. ASSUME NEW k \in DoneAt(e)
          PROVE  k[1] \in Requests /\ TakenBy(k[1], e)
      <4>1. k \in Calls /\ k[1] \in Requests /\ k[3] \in 1..MaxSends
            /\ k = <<k[1], e, k[3]>> /\ pc[k] = "ok"
        BY DEF DoneAt, Calls
      <4>2. ~Untouched(k[1], e)
        BY <4>1 DEF Untouched
      <4>. QED BY <2>2, <4>1, <4>2
    <3>3. ASSUME NEW r \in Requests, TakenBy(r, e)
          PROVE  \E k \in DoneAt(e) : k[1] = r
      <4>1. PICK n \in 1..MaxSends : pc[<<r, e, n>>] = "ok"
        BY <3>3 DEF TakenBy
      <4>2. <<r, e, n>> \in DoneAt(e)
        BY <4>1 DEF DoneAt, Calls
      <4>. QED BY <4>2
    <3>. QED BY <3>1, <3>2, <3>3 DEF TakenFrom
  <2>3. \A r \in Requests : Untouched(r, c) => ~TakenBy(r, c)
    BY DEF Untouched, TakenBy
  <2>4. \A r \in Requests : Untouched(r, d) => ~TakenBy(r, d)
    BY DEF Untouched, TakenBy
  <2>5. Same(c) /\ Same(d) /\ \A r \in Requests : TakenBy(r, c) <=> TakenBy(r, d)
    BY <2>3, <2>4
  <2>. QED BY <2>2, <2>5
<1>. QED BY SignersInvariant, <1>1, PTL


=============================================================================

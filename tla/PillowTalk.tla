----------------------------- MODULE PillowTalk -----------------------------
(***************************************************************************)
(* How athena processes talk to one another, libs/pillow_talk.js: a message *)
(* is a document of the system database, and every process follows the      *)
(* database's changes on a connection that stays open.  A connection that   *)
(* closes is opened again at the last sequence the process has seen; a      *)
(* process that could not ask for the sequence when it started and has had  *)
(* no message yet reconnects at "now" instead.  Closing and opening is one  *)
(* step here, as messages may take any time to arrive in any case.  Not     *)
(* modelled: tidy, which removes messages of two days ago.                  *)
(***************************************************************************)
EXTENDS Naturals, Sequences

CONSTANTS Processes, \* the athena processes
          Messages,  \* what they tell one another
          Unsure     \* those that may have started without the last sequence

VARIABLES
  feed,  \* the messages so far, in the order CouchDB gave them
  seen,  \* seen[p]: how many of them p has had, or will never have
  known  \* known[p]: p has a last_sequence

feedVars == <<feed, seen, known>>

FeedTypeOK ==
  /\ feed \in Seq(Messages)
  /\ seen \in [Processes -> 0..Len(feed)]
  /\ known \in [Processes -> BOOLEAN]

FeedInit ==
  /\ feed = <<>>
  /\ seen = [p \in Processes |-> 0]
  /\ known \in [Processes -> BOOLEAN]
  /\ \A p \in Processes \ Unsure : known[p]

Unseen(p) == seen[p] < Len(feed)

Message(p) == feed[seen[p] + 1]

Broadcast(m) == feed' = Append(feed, m) /\ UNCHANGED <<seen, known>>

\* The sequence is remembered before the subscriber is called.
Receive(p) ==
  /\ Unseen(p)
  /\ seen' = [seen EXCEPT ![p] = @ + 1]
  /\ known' = [known EXCEPT ![p] = TRUE]
  /\ UNCHANGED feed

\* A bug of this shape: the sequence is remembered, not used.
SinceNow(p) == Len(feed)

Since(p) == IF known[p] THEN seen[p] ELSE Len(feed)

Connect(p) ==
  /\ seen' = [seen EXCEPT ![p] = Since(p)]
  /\ UNCHANGED <<feed, known>>

\* A process that starts asks for the last sequence, and may get no answer.
Boot(p) ==
  /\ \E answered \in BOOLEAN : known' = [known EXCEPT ![p] = answered]
  /\ seen' = [seen EXCEPT ![p] = Len(feed)]
  /\ UNCHANGED feed
=============================================================================

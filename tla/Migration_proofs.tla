-------------------------- MODULE Migration_proofs --------------------------
(***************************************************************************)
(* Proofs about Migration, for any number of processes, start requests and  *)
(* polling chains: type correctness, and that it implements MigrationPlan.  *)
(***************************************************************************)
EXTENDS Migration, TLAPS

USE DEF Chains

\* The constants of the model are strings, sets and records the provers know.
LEMMA StepFacts ==
  /\ \A s \in Steps : Earlier(s) \subseteq Steps /\ Following(s) \in Steps
  /\ Polled \subseteq Messages /\ Polled \subseteq Steps
BY DEF Steps, Earlier, Following, Messages, Polled

\* Behind keeps an inbox an inbox.
LEMMA BehindType ==
  ASSUME NEW q \in Seq(Messages), NEW m \in Messages
  PROVE  Behind(q, m) \in Seq(Messages)
BY DEF Behind

LEMMA BroadcastType ==
  ASSUME Types, NEW m \in Messages, Broadcast(m)
  PROVE  inbox' \in [Processes -> Seq(Messages)] /\ monitor' \in [Processes -> Polled \cup {"off"}]
<1>1. \A p \in Processes : Behind(inbox[p], m) \in Seq(Messages)
  BY BehindType DEF Types
<1> QED
  BY <1>1 DEF Broadcast, Types

\* What chains do with their place, the settings document and the feed keeps the
\* types.
LEMMA GoToType ==
  ASSUME Types, NEW c \in Chains, NEW label \in Labels, GoTo(c, label)
  PROVE  pc' \in [Chains -> Labels] /\ step' \in [Chains -> Steps]
BY DEF Types, GoTo, Steps

LEMMA ReadDocType ==
  ASSUME ConstantsAssumption, Types, NEW c \in Chains, NEW label \in Labels,
         NEW failed \in Labels, ReadDoc(c, label, failed)
  PROVE  /\ pc' \in [Chains -> Labels] /\ step' \in [Chains -> Steps]
         /\ current' \subseteq Chains /\ faults' \in 0..MaxFaults
<1>1. CASE current' = current \cup {c} /\ GoTo(c, label) /\ UNCHANGED faults
  BY <1>1, GoToType DEF Types
<1>2. CASE Fails(c, failed)
  BY <1>2, GoToType DEF Types, Fails, ConstantsAssumption
<1> QED
  BY <1>1, <1>2 DEF ReadDoc

LEMMA WriteDocType ==
  ASSUME Types, NEW c \in Chains, NEW d \in MigrationStatus, NEW ok \in Labels,
         NEW refused \in Labels, WriteDoc(c, d, ok, refused)
  PROVE  /\ pc' \in [Chains -> Labels] /\ step' \in [Chains -> Steps]
         /\ doc' \in MigrationStatus /\ current' \subseteq Chains
BY GoToType DEF Types, WriteDoc, docVars

LEMMA TellType ==
  ASSUME Types, NEW c \in Chains, NEW m \in Messages, NEW label \in Labels, Tell(c, m, label)
  PROVE  Types'
BY GoToType, BroadcastType DEF Types, Tell, docVars, lockVars, workVars, restVars

\* The contents that are written to the settings document.
LEMMA StatusType ==
  ASSUME NEW d \in MigrationStatus, NEW s \in Steps
  PROVE  /\ Cleared(d) \in MigrationStatus
         /\ Begun(d, s) \in MigrationStatus
         /\ Finished(d, s) \in MigrationStatus
         /\ [d EXCEPT !.url = TRUE] \in MigrationStatus
         /\ [d EXCEPT !.complete = TRUE] \in MigrationStatus
         /\ [d EXCEPT !.error = TRUE] \in MigrationStatus
<1>1. d.done \in BOOLEAN /\ d.timed \in BOOLEAN /\ (d.done /\ s # "db") \in BOOLEAN
      /\ (d.timed \/ s = "ingress") \in BOOLEAN /\ (d.done \/ s = "db") \in BOOLEAN
  BY DEF MigrationStatus
<1> QED
  BY <1>1, Zenon DEF MigrationStatus, Cleared, Begun, Finished

\* Type correctness is kept by the steps a chain takes.
LEMMA AdvanceType ==
  ASSUME ConstantsAssumption, Types, AnnouncesPolled, NEW c \in Chains, Advance(c)
  PROVE  Types'
<1> USE DEF restVars, docVars, lockVars, chainVars, feedVars, workVars, Labels
<1>0. step[c] \in Steps /\ doc \in MigrationStatus
  BY DEF Types
<1>1. CASE Apply(c)
  <2>1. pc' \in [Chains -> Labels] /\ step' \in [Chains -> Steps]
    BY <1>1, GoToType DEF Apply, Refused
  <2> QED
    BY <1>1, <2>1 DEF Apply, Types
<1>2. CASE Award(c)
  <2>1. pc' \in [Chains -> Labels] /\ step' \in [Chains -> Steps]
    BY <1>2, GoToType DEF Award, Refused, AfterAward
  <2> QED
    BY <1>2, <2>1 DEF Award, Types
<1>3. CASE Clear(c)
  <2>1. pc' \in [Chains -> Labels] /\ step' \in [Chains -> Steps]
        /\ current' \subseteq Chains /\ faults' \in 0..MaxFaults
    BY <1>3, ReadDocType DEF Clear
  <2> QED
    BY <1>3, <2>1 DEF Clear, ReadDoc, Types
<1>4. CASE WriteClear(c)
  <2>1. pc' \in [Chains -> Labels] /\ step' \in [Chains -> Steps]
        /\ doc' \in MigrationStatus /\ current' \subseteq Chains
    BY <1>4, <1>0, WriteDocType, StatusType DEF WriteClear
  <2> QED
    BY <1>4, <2>1 DEF WriteClear, Types
<1>5. CASE Begin(c)
  <2>1. pc' \in [Chains -> Labels] /\ step' \in [Chains -> Steps]
        /\ current' \subseteq Chains /\ faults' \in 0..MaxFaults
    BY <1>5, ReadDocType DEF Begin, PauseAndRead
  <2>2. inbox' \in [Processes -> Seq(Messages)] /\ monitor' \in [Processes -> Polled \cup {"off"}]
    BY <1>5, BroadcastType DEF Begin, PauseAndRead, Messages, Types
  <2> QED
    BY <1>5, <2>1, <2>2 DEF Begin, PauseAndRead, ReadDoc, Types
<1>6. CASE WriteBegin(c)
  <2>1. pc' \in [Chains -> Labels] /\ step' \in [Chains -> Steps]
        /\ doc' \in MigrationStatus /\ current' \subseteq Chains
    BY <1>6, <1>0, WriteDocType, StatusType DEF WriteBegin, AfterBegin
  <2>2. late' \in BOOLEAN
    BY <1>6 DEF WriteBegin
  <2> QED
    BY <1>6, <2>1, <2>2 DEF WriteBegin, Types
<1>7. CASE Post(c)
  <2>1. pc' \in [Chains -> Labels] /\ step' \in [Chains -> Steps]
    BY <1>7, GoToType DEF Post, AfterPost
  <2>2. posts' \in [Steps -> 0..MaxPosts]
    BY <1>7, <1>0 DEF Post, Posted, Types, ConstantsAssumption
  <2> QED
    BY <1>7, <2>1, <2>2 DEF Post, Types
<1>8. CASE StoreUrl(c)
  <2>1. pc' \in [Chains -> Labels] /\ step' \in [Chains -> Steps]
    BY <1>8, GoToType DEF StoreUrl, Fails
  <2>2. url' \subseteq Processes /\ faults' \in 0..MaxFaults /\ current' \subseteq Chains
    BY <1>8 DEF StoreUrl, Fails, Types, ConstantsAssumption
  <2> QED
    BY <1>8, <2>1, <2>2 DEF StoreUrl, Types
<1>9. CASE WriteUrl(c)
  <2>1. pc' \in [Chains -> Labels] /\ step' \in [Chains -> Steps]
        /\ doc' \in MigrationStatus /\ current' \subseteq Chains
    BY <1>9, <1>0, WriteDocType, StatusType DEF WriteUrl
  <2> QED
    BY <1>9, <2>1 DEF WriteUrl, Types
<1>10. CASE Announce(c)
  BY <1>10, <1>0, StepFacts, TellType DEF Announce, AnnouncesPolled
<1>11. CASE Wait(c)
  <2>1. pc' \in [Chains -> Labels] /\ step' \in [Chains -> Steps]
    BY <1>11, GoToType DEF Wait
  <2> QED
    BY <1>11, <2>1 DEF Wait, Types
<1>12. CASE Finish(c)
  <2>1. pc' \in [Chains -> Labels] /\ step' \in [Chains -> Steps]
        /\ current' \subseteq Chains /\ faults' \in 0..MaxFaults
    BY <1>12, ReadDocType DEF Finish, PauseAndRead
  <2>2. inbox' \in [Processes -> Seq(Messages)] /\ monitor' \in [Processes -> Polled \cup {"off"}]
    BY <1>12, BroadcastType DEF Finish, PauseAndRead, Messages, Types
  <2> QED
    BY <1>12, <2>1, <2>2 DEF Finish, PauseAndRead, ReadDoc, Types
<1>13. CASE WriteFinish(c)
  <2>1. pc' \in [Chains -> Labels] /\ step' \in [Chains -> Steps]
        /\ doc' \in MigrationStatus /\ current' \subseteq Chains
    BY <1>13, <1>0, WriteDocType, StatusType DEF WriteFinish, AfterFinish
  <2> QED
    BY <1>13, <2>1 DEF WriteFinish, Types
<1>14. CASE Release(c)
  <2>1. pc' \in [Chains -> Labels] /\ step' \in [Chains -> Steps]
    BY <1>14, <1>0, StepFacts DEF Release, Types
  <2>2. lock' \in Chains \cup {Nobody} /\ lockCurrent' \subseteq Chains /\ faults' \in 0..MaxFaults
    BY <1>14 DEF Release, Types, ConstantsAssumption
  <2> QED
    BY <1>14, <2>1, <2>2 DEF Release, Types
<1>15. CASE Complete(c)
  <2>1. pc' \in [Chains -> Labels] /\ step' \in [Chains -> Steps]
        /\ current' \subseteq Chains /\ faults' \in 0..MaxFaults
    BY <1>15, ReadDocType DEF Complete, PauseAndRead
  <2>2. inbox' \in [Processes -> Seq(Messages)] /\ monitor' \in [Processes -> Polled \cup {"off"}]
    BY <1>15, BroadcastType DEF Complete, PauseAndRead, Messages, Types
  <2> QED
    BY <1>15, <2>1, <2>2 DEF Complete, PauseAndRead, ReadDoc, Types
<1>16. CASE WriteComplete(c)
  <2>1. pc' \in [Chains -> Labels] /\ step' \in [Chains -> Steps]
        /\ doc' \in MigrationStatus /\ current' \subseteq Chains
    BY <1>16, <1>0, WriteDocType, StatusType DEF WriteComplete
  <2> QED
    BY <1>16, <2>1 DEF WriteComplete, Types
<1>17. CASE RecordError(c)
  <2>1. pc' \in [Chains -> Labels] /\ step' \in [Chains -> Steps]
        /\ current' \subseteq Chains /\ faults' \in 0..MaxFaults
    BY <1>17, ReadDocType DEF RecordError, PauseAndRead
  <2>2. inbox' \in [Processes -> Seq(Messages)] /\ monitor' \in [Processes -> Polled \cup {"off"}]
    BY <1>17, BroadcastType DEF RecordError, PauseAndRead, Messages, Types
  <2> QED
    BY <1>17, <2>1, <2>2 DEF RecordError, PauseAndRead, ReadDoc, Types
<1>18. CASE WriteFail(c)
  <2>1. pc' \in [Chains -> Labels] /\ step' \in [Chains -> Steps]
        /\ doc' \in MigrationStatus /\ current' \subseteq Chains
    BY <1>18, <1>0, WriteDocType, StatusType DEF WriteFail
  <2> QED
    BY <1>18, <2>1 DEF WriteFail, Types
<1>19. CASE Unlock(c)
  <2>1. pc' \in [Chains -> Labels] /\ step' \in [Chains -> Steps]
    BY <1>19, GoToType DEF Unlock
  <2> QED
    BY <1>19, <2>1 DEF Unlock, Types
<1> QED
  BY <1>1, <1>2, <1>3, <1>4, <1>5, <1>6, <1>7, <1>8, <1>9, <1>10, <1>11, <1>12, <1>13, <1>14, <1>15, <1>16, <1>17, <1>18, <1>19 DEF Advance

\* Type correctness is kept by every step.
LEMMA TypeStep ==
  ASSUME ConstantsAssumption, Types, AnnouncesPolled, [Next]_vars
  PROVE  Types'
<1> USE DEF restVars, docVars, lockVars, chainVars, feedVars, workVars
<1>1. ASSUME NEW c \in Chains, Start(c)
      PROVE  Types'
  BY <1>1 DEF Start, Types, Labels, Steps
<1>2. ASSUME NEW c \in Chains, PollLate(c)
      PROVE  Types'
  BY <1>2, TellType DEF PollLate, Messages, Labels
<1>3. ASSUME NEW c \in Chains, PollDone(c)
      PROVE  Types'
  <2>1. monitor[Home[c]] \in Steps
    BY <1>3, StepFacts DEF PollDone, Ticks, Types, ConstantsAssumption
  <2> QED
    BY <1>3, <2>1 DEF PollDone, Types, Labels
<1>4. ASSUME NEW c \in Chains, Advance(c)
      PROVE  Types'
  BY <1>4, AdvanceType
<1>5. ASSUME NEW p \in Processes, Receive(p)
      PROVE  Types'
  <2>1. inbox[p] \in Seq(Messages) /\ inbox[p] # <<>>
    BY <1>5 DEF Receive, Types
  <2>2. Head(inbox[p]) \in Messages /\ Tail(inbox[p]) \in Seq(Messages)
    BY <2>1
  <2> QED
    BY <1>5, <2>2 DEF Receive, Types, Messages
<1>6. ASSUME NEW p \in Processes, Restart(p)
      PROVE  Types'
  BY <1>6 DEF Restart, Types, Labels, Steps, ConstantsAssumption
<1>7. ASSUME NEW s \in Steps, GetsReady(s)
      PROVE  Types'
  BY <1>7 DEF GetsReady, Types
<1>8. CASE LeaseEnds
  BY <1>8 DEF LeaseEnds, Types
<1>9. CASE TimeIsUp
  BY <1>9 DEF TimeIsUp, Types
<1>10. CASE UNCHANGED vars
  BY <1>10 DEF vars, Types
<1> QED
  BY <1>1, <1>2, <1>3, <1>4, <1>5, <1>6, <1>7, <1>8, <1>9, <1>10 DEF Next

\* Only what follows an accepted POST, other than that of a restore, leads to an
\* announcement.
LEMMA PolledStep ==
  ASSUME Types, AnnouncesPolled, [Next]_vars
  PROVE  AnnouncesPolled'
<1> USE DEF AnnouncesPolled, Types, Polled, Steps, GoTo, Fails, restVars, docVars, lockVars,
            chainVars, feedVars, workVars
<1>1. ASSUME NEW c \in Chains, Start(c) \/ PollLate(c) \/ PollDone(c)
      PROVE  AnnouncesPolled'
  BY <1>1 DEF Start, PollLate, PollDone, Tell
<1>2. ASSUME NEW c \in Chains, Apply(c) \/ Award(c) \/ Clear(c) \/ WriteClear(c) \/ Begin(c) \/ WriteBegin(c)
      PROVE  AnnouncesPolled'
  BY <1>2 DEF Apply, Award, Refused, AfterAward, Clear, WriteClear, Begin, WriteBegin, AfterBegin,
              PauseAndRead, ReadDoc, WriteDoc
<1>3. ASSUME NEW c \in Chains, Post(c)
      PROVE  AnnouncesPolled'
  BY <1>3 DEF Post, AfterPost
<1>4. ASSUME NEW c \in Chains, StoreUrl(c) \/ WriteUrl(c) \/ Announce(c) \/ Wait(c)
      PROVE  AnnouncesPolled'
  BY <1>4 DEF StoreUrl, WriteUrl, WriteDoc, Announce, Tell, Wait
<1>5. ASSUME NEW c \in Chains, Finish(c) \/ WriteFinish(c) \/ Release(c) \/ Complete(c)
      PROVE  AnnouncesPolled'
  BY <1>5 DEF Finish, WriteFinish, AfterFinish, Release, Complete, PauseAndRead, ReadDoc, WriteDoc
<1>6. ASSUME NEW c \in Chains, WriteComplete(c) \/ RecordError(c) \/ WriteFail(c) \/ Unlock(c)
      PROVE  AnnouncesPolled'
  BY <1>6 DEF WriteComplete, RecordError, WriteFail, Unlock, PauseAndRead, ReadDoc, WriteDoc
<1>7. ASSUME NEW p \in Processes, Receive(p) \/ Restart(p)
      PROVE  AnnouncesPolled'
  BY <1>7 DEF Receive, Restart
<1>8. CASE LeaseEnds \/ TimeIsUp \/ (\E s \in Steps : GetsReady(s)) \/ UNCHANGED vars
  BY <1>8 DEF LeaseEnds, TimeIsUp, GetsReady, vars
<1> QED
  BY <1>1, <1>2, <1>3, <1>4, <1>5, <1>6, <1>7, <1>8 DEF Next, Advance

LEMMA InitType == Init => TypeOK
<1> SUFFICES ASSUME Init
             PROVE  Types /\ AnnouncesPolled
  BY DEF TypeOK
<1>1. doc \in MigrationStatus
  BY DEF Init, MigrationStatus
<1>2. posts \in [Steps -> 0..MaxPosts] /\ faults \in 0..MaxFaults
  BY ConstantsAssumption DEF Init, ConstantsAssumption
<1>3. inbox \in [Processes -> Seq(Messages)] /\ monitor \in [Processes -> Polled \cup {"off"}]
  BY DEF Init
<1>4. pc \in [Chains -> Labels] /\ step \in [Chains -> Steps]
  BY DEF Init, Labels, Steps
<1> QED
  BY <1>1, <1>2, <1>3, <1>4 DEF Init, Types, AnnouncesPolled

\* Every variable keeps its type, whatever fails and however chains overlap.
THEOREM TypeCorrect == Spec => []TypeOK
<1>1. TypeOK /\ [Next]_vars => TypeOK'
  BY TypeStep, PolledStep, ConstantsAssumption DEF TypeOK
<1> QED
  BY <1>1, InitType, PTL DEF Spec

-----------------------------------------------------------------------------
(* MigrationPlan. *)

IInv == TypeOK /\ AskedInOrder /\ ChainsInOrder /\ EndIsTrue

LEMMA InitIInv == Init => IInv
<1> SUFFICES ASSUME Init
             PROVE  IInv
  OBVIOUS
<1>1. TypeOK
  BY InitType
<1>2. AskedInOrder /\ ChainsInOrder
  BY DEF Init, AskedInOrder, ChainsInOrder, Asked, Earlier, Steps
<1>3. EndIsTrue
  BY DEF Init, EndIsTrue
<1> QED
  BY <1>1, <1>2, <1>3 DEF IInv

\* The order of the steps.
LEMMA Order ==
  /\ Earlier("ingress") = {}
  /\ \A s \in Steps : Earlier(Following(s)) \subseteq Earlier(s) \cup {s}
  /\ Earlier("db") \cup {"db"} = Steps
BY DEF Earlier, Following, Steps

\* A chain that moves on within its step, or ends, keeps the order.
LEMMA MovesInOrder ==
  ASSUME IInv, NEW c \in Chains, NEW label, GoTo(c, label), ready' = ready,
         label \in {"finish", "finishing", "release", "complete", "completing"} => step[c] \in ready,
         label \in {"complete", "completing"} => step[c] = "db"
  PROVE  ChainsInOrder'
<1>1. pc \in [Chains -> Labels] /\ step \in [Chains -> Steps]
  BY DEF IInv, TypeOK, Types
<1> QED
  BY <1>1, Order DEF IInv, ChainsInOrder, GoTo

\* A step that asks for nothing and gets nothing done keeps the plan, unless it
\* marks an end that is not there.
LEMMA PlanKept ==
  ASSUME IInv, posts' = posts, ready' = ready,
         doc'.complete \/ doc'.done => doc.complete \/ doc.done \/ ready = Steps
  PROVE  /\ AskedInOrder' /\ EndIsTrue'
         /\ [Plan!Next]_<<Asked, ready, doc.complete \/ doc.done>>
<1>1. Asked' = Asked
  BY DEF Asked
<1>2. AskedInOrder' /\ EndIsTrue'
  BY <1>1 DEF IInv, AskedInOrder, EndIsTrue
<1>3. ASSUME (doc'.complete \/ doc'.done) <=> (doc.complete \/ doc.done)
      PROVE  [Plan!Next]_<<Asked, ready, doc.complete \/ doc.done>>
  <2>1. (doc.complete \/ doc.done)' = (doc.complete \/ doc.done)
    BY <1>3, Zenon
  <2> QED
    BY <1>1, <2>1
<1>4. ASSUME ~(doc'.complete \/ doc'.done)
      PROVE  [Plan!Next]_<<Asked, ready, doc.complete \/ doc.done>>
  <2>1. (doc.complete \/ doc.done)' = FALSE
    BY <1>4, Zenon
  <2>2. Plan!Restart
    BY <1>1, <2>1 DEF Plan!Restart
  <2> QED
    BY <2>2 DEF Plan!Next
<1>5. ASSUME (doc'.complete \/ doc'.done) /\ ready = Steps
      PROVE  [Plan!Next]_<<Asked, ready, doc.complete \/ doc.done>>
  <2>1. (doc.complete \/ doc.done)' = TRUE
    BY <1>5, Zenon
  <2>2. Plan!Complete
    BY <1>1, <1>5, <2>1 DEF Plan!Complete
  <2> QED
    BY <2>2 DEF Plan!Next
<1> QED
  BY <1>2, <1>3, <1>4, <1>5

\* A write of the settings document leaves it, or puts d there.
LEMMA WriteInOrder ==
  ASSUME IInv, NEW c \in Chains, NEW d, NEW ok, NEW refused, WriteDoc(c, d, ok, refused)
  PROVE  (doc' = doc \/ doc' = d) /\ (GoTo(c, ok) \/ GoTo(c, refused))
BY DEF WriteDoc, docVars

\* What a chain does once it has begun, as the plan sees it.
LEMMA AdvanceInOrder ==
  ASSUME ConstantsAssumption, IInv, NEW c \in Chains, Advance(c)
  PROVE  /\ AskedInOrder' /\ ChainsInOrder' /\ EndIsTrue'
         /\ [Plan!Next]_<<Asked, ready, doc.complete \/ doc.done>>
<1> USE DEF restVars, docVars, lockVars, chainVars, feedVars, workVars
<1>0. /\ pc \in [Chains -> Labels] /\ step \in [Chains -> Steps] /\ step[c] \in Steps
      /\ doc \in MigrationStatus /\ TypeOK
  BY DEF IInv, TypeOK, Types
<1>a. pc[c] \in {"finish", "finishing", "complete", "completing"} => step[c] \in ready
  BY DEF IInv, ChainsInOrder
<1>b. pc[c] \in {"complete", "completing"} => step[c] = "db"
  BY DEF IInv, ChainsInOrder
<1>c. step[c] = "db" /\ step[c] \in ready => ready = Steps
  <2>1. Earlier(step[c]) \subseteq ready /\ ready \subseteq Steps
    BY DEF IInv, ChainsInOrder, TypeOK, Types
  <2> QED
    BY <2>1, Order
<1>1. CASE Apply(c)
  <2>1. ChainsInOrder'
    BY <1>1, <1>0, <1>a, <1>b, MovesInOrder DEF Apply, Refused
  <2> QED
    BY <1>1, <2>1, PlanKept DEF Apply, Refused
<1>2. CASE Award(c)
  <2>1. ChainsInOrder'
    BY <1>2, <1>0, <1>a, <1>b, MovesInOrder DEF Award, Refused, AfterAward
  <2> QED
    BY <1>2, <2>1, PlanKept DEF Award, Refused, AfterAward
<1>3. CASE Clear(c)
  <2>1. ChainsInOrder'
    BY <1>3, <1>0, <1>a, <1>b, MovesInOrder DEF Clear, ReadDoc, Fails
  <2> QED
    BY <1>3, <2>1, PlanKept DEF Clear, ReadDoc, Fails
<1>4. CASE WriteClear(c)
  <2>1. ChainsInOrder'
    BY <1>4, <1>0, <1>a, <1>b, WriteInOrder, MovesInOrder DEF WriteClear
  <2>2. doc'.complete \/ doc'.done => doc.complete \/ doc.done \/ ready = Steps
    <3>1. doc' = doc \/ doc' = Cleared(doc)
      BY <1>4, <1>0, WriteInOrder DEF WriteClear
    <3>2. ~Cleared(doc).complete /\ ~Cleared(doc).done
      BY <1>0, Zenon DEF Cleared, MigrationStatus
    <3> QED
      BY <3>1, <3>2
  <2> QED
    BY <1>4, <2>1, <2>2, PlanKept DEF WriteClear
<1>5. CASE Begin(c)
  <2>1. ChainsInOrder'
    BY <1>5, <1>0, <1>a, <1>b, MovesInOrder DEF Begin, ReadDoc, PauseAndRead, Broadcast, Fails
  <2> QED
    BY <1>5, <2>1, PlanKept DEF Begin, ReadDoc, PauseAndRead, Broadcast, Fails
<1>6. CASE WriteBegin(c)
  <2>1. ChainsInOrder'
    BY <1>6, <1>0, <1>a, <1>b, WriteInOrder, MovesInOrder DEF WriteBegin, AfterBegin
  <2>2. doc'.complete \/ doc'.done => doc.complete \/ doc.done \/ ready = Steps
    <3>1. doc' = doc \/ doc' = Begun(doc, step[c])
      BY <1>6, <1>0, WriteInOrder DEF WriteBegin
    <3>2. Begun(doc, step[c]).complete = doc.complete
          /\ (Begun(doc, step[c]).done => doc.done)
      BY <1>0, Zenon DEF Begun, MigrationStatus
    <3> QED
      BY <3>1, <3>2
  <2> QED
    BY <1>6, <2>1, <2>2, PlanKept DEF WriteBegin
<1>7. CASE Post(c)
  <2>1. ChainsInOrder'
    BY <1>7, <1>0, MovesInOrder DEF Post, AfterPost
  <2>2. CASE posts' = posts
    BY <1>7, <2>1, <2>2, PlanKept DEF Post
  <2>3. CASE Posted(step[c])
    <3>1. Asked' = Asked \cup {step[c]}
      BY <2>3, <1>0, ConstantsAssumption DEF Posted, Asked, TypeOK, Types, ConstantsAssumption
    <3>2. Earlier(step[c]) \subseteq ready
      BY DEF IInv, ChainsInOrder
    <3>3. ready' = ready /\ doc' = doc
      BY <1>7 DEF Post
    <3>4. AskedInOrder' /\ EndIsTrue'
      BY <3>1, <3>2, <3>3 DEF IInv, AskedInOrder, EndIsTrue
    <3>5. Plan!Ask(step[c])
      BY <3>1, <3>2, <3>3 DEF Plan!Ask
    <3> QED
      BY <2>1, <3>4, <3>5, <1>0 DEF Plan!Next
  <2> QED
    BY <1>7, <2>2, <2>3 DEF Post
<1>8. CASE StoreUrl(c)
  <2>1. ChainsInOrder'
    BY <1>8, <1>0, <1>a, <1>b, MovesInOrder DEF StoreUrl, Fails
  <2> QED
    BY <1>8, <2>1, PlanKept DEF StoreUrl, Fails
<1>9. CASE WriteUrl(c)
  <2>1. ChainsInOrder'
    BY <1>9, <1>0, <1>a, <1>b, WriteInOrder, MovesInOrder DEF WriteUrl
  <2>2. doc'.complete \/ doc'.done => doc.complete \/ doc.done \/ ready = Steps
    BY <1>9, <1>0, WriteInOrder DEF WriteUrl, MigrationStatus
  <2> QED
    BY <1>9, <2>1, <2>2, PlanKept DEF WriteUrl
<1>10. CASE Announce(c)
  <2>1. ChainsInOrder'
    BY <1>10, <1>0, <1>a, <1>b, MovesInOrder DEF Announce, Tell, Broadcast
  <2> QED
    BY <1>10, <2>1, PlanKept DEF Announce, Tell, Broadcast
<1>11. CASE Wait(c)
  <2>1. ChainsInOrder'
    BY <1>11, <1>0, <1>a, <1>b, MovesInOrder DEF Wait, Labels
  <2> QED
    BY <1>11, <2>1, PlanKept DEF Wait, Labels
<1>12. CASE Finish(c)
  <2>1. ChainsInOrder'
    BY <1>12, <1>0, <1>a, <1>b, MovesInOrder DEF Finish, ReadDoc, PauseAndRead, Broadcast, Fails
  <2> QED
    BY <1>12, <2>1, PlanKept DEF Finish, ReadDoc, PauseAndRead, Broadcast, Fails
<1>13. CASE WriteFinish(c)
  <2>1. ChainsInOrder'
    BY <1>13, <1>0, <1>a, <1>b, WriteInOrder, MovesInOrder DEF WriteFinish, AfterFinish
  <2>2. doc'.complete \/ doc'.done => doc.complete \/ doc.done \/ ready = Steps
    <3>1. doc' = doc \/ doc' = Finished(doc, step[c])
      BY <1>13, <1>0, WriteInOrder DEF WriteFinish
    <3>2. Finished(doc, step[c]).complete = doc.complete
          /\ (Finished(doc, step[c]).done => doc.done \/ step[c] = "db")
      BY <1>0, Zenon DEF Finished, MigrationStatus
    <3>3. step[c] = "db" => ready = Steps
      BY <1>13, <1>a, <1>c DEF WriteFinish
    <3> QED
      BY <3>1, <3>2, <3>3
  <2> QED
    BY <1>13, <2>1, <2>2, PlanKept DEF WriteFinish
<1>14. CASE Release(c)
  <2>1. step[c] \in ready /\ Earlier(step[c]) \subseteq ready
    BY <1>14 DEF Release, IInv, ChainsInOrder
  <2>2. Earlier(Following(step[c])) \subseteq ready
    BY <2>1, <1>0, Order
  <2>3. ChainsInOrder'
    BY <1>14, <1>0, <2>2 DEF Release, IInv, ChainsInOrder
  <2> QED
    BY <1>14, <2>3, PlanKept DEF Release
<1>15. CASE Complete(c)
  <2>1. ChainsInOrder'
    BY <1>15, <1>0, <1>a, <1>b, MovesInOrder DEF Complete, ReadDoc, PauseAndRead, Broadcast, Fails
  <2> QED
    BY <1>15, <2>1, PlanKept DEF Complete, ReadDoc, PauseAndRead, Broadcast, Fails
<1>16. CASE WriteComplete(c)
  <2>1. ChainsInOrder'
    BY <1>16, <1>0, <1>a, <1>b, WriteInOrder, MovesInOrder DEF WriteComplete
  <2>2. doc'.complete \/ doc'.done => doc.complete \/ doc.done \/ ready = Steps
    <3>1. step[c] = "db" /\ step[c] \in ready
      BY <1>16, <1>a, <1>b DEF WriteComplete
    <3> QED
      BY <3>1, <1>c
  <2> QED
    BY <1>16, <2>1, <2>2, PlanKept DEF WriteComplete
<1>17. CASE RecordError(c)
  <2>1. ChainsInOrder'
    BY <1>17, <1>0, <1>a, <1>b, MovesInOrder DEF RecordError, ReadDoc, PauseAndRead, Broadcast, Fails
  <2> QED
    BY <1>17, <2>1, PlanKept DEF RecordError, ReadDoc, PauseAndRead, Broadcast, Fails
<1>18. CASE WriteFail(c)
  <2>1. ChainsInOrder'
    BY <1>18, <1>0, <1>a, <1>b, WriteInOrder, MovesInOrder DEF WriteFail
  <2>2. doc'.complete \/ doc'.done => doc.complete \/ doc.done \/ ready = Steps
    BY <1>18, <1>0, WriteInOrder DEF WriteFail, MigrationStatus
  <2> QED
    BY <1>18, <2>1, <2>2, PlanKept DEF WriteFail
<1>19. CASE Unlock(c)
  <2>1. ChainsInOrder'
    BY <1>19, <1>0, <1>a, <1>b, MovesInOrder DEF Unlock, Labels
  <2> QED
    BY <1>19, <2>1, PlanKept DEF Unlock, Labels
<1> QED
  BY <1>1, <1>2, <1>3, <1>4, <1>5, <1>6, <1>7, <1>8, <1>9, <1>10, <1>11, <1>12, <1>13, <1>14, <1>15, <1>16, <1>17, <1>18, <1>19 DEF Advance

\* Every step keeps the invariant, and is one of the plan's steps or none.
LEMMA StepInOrder ==
  ASSUME ConstantsAssumption, IInv, [Next]_vars
  PROVE  /\ IInv'
         /\ [Plan!Next]_<<Asked, ready, doc.complete \/ doc.done>>
<1> USE DEF restVars, docVars, lockVars, chainVars, feedVars, workVars
<1> DEFINE Kept == /\ AskedInOrder' /\ ChainsInOrder' /\ EndIsTrue'
                   /\ [Plan!Next]_<<Asked, ready, doc.complete \/ doc.done>>
<1>0. TypeOK /\ TypeOK'
  BY TypeStep, PolledStep DEF IInv, TypeOK
<1>k. ASSUME posts' = posts, ready' = ready, doc' = doc, ChainsInOrder'
      PROVE  Kept
  BY <1>k, PlanKept
<1>1. ASSUME NEW c \in Chains, Start(c)
      PROVE  Kept
  <2>1. ChainsInOrder'
    BY <1>0, <1>1, Order DEF Start, TypeOK, Types, IInv, ChainsInOrder
  <2> QED
    BY <1>1, <1>k, <2>1 DEF Start
<1>2. ASSUME NEW c \in Chains, PollLate(c)
      PROVE  Kept
  <2>1. ChainsInOrder'
    BY <1>2, MovesInOrder DEF PollLate, Tell
  <2> QED
    BY <1>2, <1>k, <2>1 DEF PollLate, Tell
<1>3. ASSUME NEW c \in Chains, PollDone(c)
      PROVE  Kept
  <2>1. monitor[Home[c]] \in ready /\ Earlier(monitor[Home[c]]) \subseteq ready
    BY <1>3 DEF PollDone, IInv, AskedInOrder
  <2>2. ChainsInOrder'
    BY <1>0, <1>3, <2>1 DEF PollDone, TypeOK, Types, IInv, ChainsInOrder
  <2> QED
    BY <1>3, <1>k, <2>2 DEF PollDone
<1>4. ASSUME NEW c \in Chains, Advance(c)
      PROVE  Kept
  BY <1>4, AdvanceInOrder
<1>5. ASSUME NEW p \in Processes, Receive(p)
      PROVE  Kept
  BY <1>5, <1>k DEF Receive, IInv, ChainsInOrder
<1>6. ASSUME NEW p \in Processes, Restart(p)
      PROVE  Kept
  <2>1. ChainsInOrder'
    BY <1>0, <1>6, Order DEF Restart, TypeOK, Types, IInv, ChainsInOrder
  <2> QED
    BY <1>6, <1>k, <2>1 DEF Restart
<1>7. ASSUME NEW s \in Steps, GetsReady(s)
      PROVE  Kept
  <2>1. s \in Asked /\ Asked' = Asked /\ ready' = ready \cup {s} /\ doc' = doc
    BY <1>7 DEF GetsReady, Asked
  <2>2. AskedInOrder' /\ ChainsInOrder'
    BY <1>7, <2>1 DEF GetsReady, IInv, AskedInOrder, ChainsInOrder
  <2>3. EndIsTrue'
    BY <1>0, <2>1 DEF IInv, EndIsTrue, TypeOK, Types
  <2>4. Plan!Finish(s)
    BY <2>1 DEF Plan!Finish
  <2> QED
    BY <2>2, <2>3, <2>4 DEF Plan!Next
<1>8. ASSUME LeaseEnds
      PROVE  Kept
  BY <1>8, <1>k DEF LeaseEnds, IInv, ChainsInOrder
<1>9. ASSUME TimeIsUp
      PROVE  Kept
  BY <1>9, <1>k DEF TimeIsUp, IInv, ChainsInOrder
<1>10. ASSUME UNCHANGED vars
      PROVE  Kept
  BY <1>10, <1>k DEF vars, IInv, ChainsInOrder
<1> QED
  BY <1>0, <1>1, <1>2, <1>3, <1>4, <1>5, <1>6, <1>7, <1>8, <1>9, <1>10 DEF Next, IInv

THEOREM IInvHolds == Spec => []IInv
<1>1. IInv /\ [Next]_vars => IInv'
  BY StepInOrder, ConstantsAssumption
<1> QED
  BY <1>1, InitIInv, PTL DEF Spec

\* However many processes poll, repeat and overtake one another, and whatever
\* fails: the migration follows the plan.
THEOREM FollowsPlan == Spec => ImplementsPlan
<1>1. Init => Plan!Init
  <2> SUFFICES ASSUME Init
               PROVE  Plan!Init
    OBVIOUS
  <2>1. (doc.complete \/ doc.done) = FALSE
    BY Zenon DEF Init
  <2>2. Asked = {}
    BY DEF Init, Asked
  <2> QED
    BY <2>1, <2>2 DEF Init, Plan!Init
<1>2. IInv /\ [Next]_vars => [Plan!Next]_<<Asked, ready, doc.complete \/ doc.done>>
  BY StepInOrder, ConstantsAssumption
<1> QED
  BY <1>1, <1>2, IInvHolds, PTL DEF Spec, ImplementsPlan, Plan!Spec
=============================================================================

---------------------------- MODULE MigrationPlan ----------------------------
(***************************************************************************)
(* What the migration of a console to a new cluster promises, whichever     *)
(* processes drive it and however often: the steps are ordered, the work of *)
(* a step is asked for only when the earlier ones are done, and the         *)
(* migration is complete only when all are.                                 *)
(***************************************************************************)
CONSTANTS
  Steps,      \* the steps of the migration
  Earlier(_)  \* the steps that come before one

VARIABLES
  asked,      \* the steps whose work has been asked for
  done,       \* the steps whose work is done
  complete    \* migration_complete

Init == asked = {} /\ done = {} /\ complete = FALSE

Ask(s) ==
  /\ Earlier(s) \subseteq done
  /\ asked' = asked \cup {s}
  /\ UNCHANGED <<done, complete>>

Finish(s) ==
  /\ s \in asked
  /\ done' = done \cup {s}
  /\ UNCHANGED <<asked, complete>>

Complete ==
  /\ done = Steps
  /\ complete' = TRUE
  /\ UNCHANGED <<asked, done>>

\* Only a new start takes the completion back; what was done stays done.
Restart == complete' = FALSE /\ UNCHANGED <<asked, done>>

Next == Complete \/ Restart \/ \E s \in Steps : Ask(s) \/ Finish(s)

Spec == Init /\ [][Next]_<<asked, done, complete>>
=============================================================================

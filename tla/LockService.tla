---------------------------- MODULE LockService ----------------------------
(***************************************************************************)
(* What callers of lochness.js expect of a lock: tasks enter one at a time, *)
(* and a task leaves when it is done or dies.                               *)
(***************************************************************************)
CONSTANT Tasks
VARIABLE working      \* the tasks doing the work the lock protects

Init == working = {}

Enter(t) == working = {} /\ working' = {t}

Leave(t) == t \in working /\ working' = working \ {t}

Next == \E t \in Tasks : Enter(t) \/ Leave(t)

Spec == Init /\ [][Next]_working
=============================================================================

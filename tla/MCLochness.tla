----------------------------- MODULE MCLochness -----------------------------
(***************************************************************************)
(* Lochness on three tasks in two processes whose clocks differ by Skew.    *)
(***************************************************************************)
EXTENDS Lochness, TLC

CONSTANTS t1, t2, t3, i1, i2,
  Skew,           \* how far the clock of i1 is ahead of that of i2
  LeaseTicks,     \* the lease every task asks for
  HoldTicks       \* how long a task may take from its stamp to its release

MCHome == t1 :> i1 @@ t2 :> i2 @@ t3 :> i2
MCOffset == i1 :> Skew @@ i2 :> 0
MCLease == [t \in Tasks |-> LeaseTicks]
MCMaxHold == [t \in Tasks |-> HoldTicks]

=============================================================================

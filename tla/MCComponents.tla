---------------------------- MODULE MCComponents ----------------------------
(***************************************************************************)
(* A peer and an ordering cluster, one node of which would have the peer's  *)
(* name.  Two deletions of one document, which may be for no more than the *)
(* document, one of them forced, and a deletion at the deployer.            *)
(***************************************************************************)
EXTENDS Components, TLC

CONSTANTS peer, cluster, del, forced, sweep, n1, n2, id1, id2

MCNodes == peer :> {n1} @@ cluster :> {n1, n2}
MCTarget == del :> id1 @@ forced :> id1
=============================================================================

------------------------------ MODULE MCQuery ------------------------------
(***************************************************************************)
(* Instances of UserQuery for TLC.                                         *)
(***************************************************************************)
EXTENDS UserQuery, MCRing

CONSTANT u3

(* u1 belongs to node 1 in a ring of three, u2 and u3 to node 0. *)
ThreeUsers == {u1, u2, u3}
HashThree == [u \in ThreeUsers |-> IF u = u1 THEN 1 ELSE IF u = u2 THEN 3 ELSE 0]

(* All nodes have formed the ring; nobody has registered u1. *)
RingQueryStart == RingOf(Nodes, {u2, u3}) /\ QueryInit

RingQuerySpec == RingQueryStart /\ [][QueryNext]_<<vars, queryVars>>

FairRingQuerySpec == RingQuerySpec /\ QueryFairness
=============================================================================

------------------------------- MODULE MCRing -------------------------------
(***************************************************************************)
(* Instances of Ring for TLC: values of the constants, and specifications  *)
(* that start in a state the overlay can be in.                            *)
(***************************************************************************)
EXTENDS Ring

CONSTANTS u1, u2        \* users (model values)

NoUsers == {}
NoHash == [u \in {} |-> 0]
OneUser == {u1}
HashOne == [u \in OneUser |-> 3]
TwoUsers == {u1, u2}
HashTwo == [u \in TwoUsers |-> IF u = u1 THEN 1 ELSE 3]
HashSame == [u \in TwoUsers |-> 3]

Bounds == [start |-> MaxStarts, leave |-> MaxLeaves, crash |-> MaxCrashes,
           boot |-> MaxBoots, register |-> MaxRegisters, round |-> MaxRounds]

(* The nodes of S in NormalState, forming the ring they ought to form,     *)
(* each record of us at its owner with a copy at the next node; no process *)
(* for the nodes of down, the others in InitedState.  Inputs not in open   *)
(* have used up their bounds: several scenarios make one run.              *)
Scenario(S, us, down, open) ==
    /\ kind = [n \in Nodes |-> IF n \in S THEN "Normal"
                               ELSE IF n \in down THEN "Down" ELSE "Inited"]
    /\ inc = [n \in Nodes |-> 0]
    /\ finger = [n \in Nodes |-> IF n \in S THEN RingFingers(S, n) ELSE NoFingers]
    /\ succ = [n \in Nodes |-> IF n \in S THEN RingSuccessors(S, n) ELSE NoSuccessors]
    /\ pred = [n \in Nodes |-> IF n \in S THEN RingPredecessor(S, n) ELSE EmptyChordId]
    /\ bootstrap = [n \in Nodes |-> EmptyChordId]
    /\ users = [n \in Nodes |-> SetToBag({u \in us : n \in S /\ n = Owner(S, u)})]
    /\ red = [n \in Nodes |->
                SetToBag({u \in us : n \in S /\ n = NodeAt(S, Add(Owner(S, u), 1))})]
    /\ local = [n \in Nodes |-> {}]
    /\ net = EmptyBag
    /\ ops = [op \in Operations |-> IF op \in open THEN 0 ELSE Bounds[op]]

RingOf(S, us) == Scenario(S, us, {}, Operations)

(* Only the founder is there: the state StartNode(true) makes. *)
FoundedSpec == RingOf(Founders, {}) /\ [][Next]_vars

(* All the nodes have formed the ring. *)
RingSpec == RingOf(Nodes, Users) /\ [][Next]_vars
FairRingSpec == RingSpec /\ Fairness

(* Run ring: two nodes join a founder; or one joins while users register;  *)
(* or a node of a full ring without records leaves.                        *)
RingStart ==
    \/ Scenario(Founders, {}, Nodes \ {0, 1, 2}, {"start"})
    \/ Scenario(Founders, {}, Nodes \ {0, 2}, {"start", "register"})
    \/ Scenario(Nodes, {}, {}, {"leave"})

FairRingStartSpec == RingStart /\ [][Next]_vars /\ Fairness

(* Run storm: a ring of all the nodes, one dies and is started again; or a *)
(* ring of two, with one record: a node leaves and starts again, or dies   *)
(* and does, or a third one comes.                                         *)
StormStart ==
    \/ Scenario(Nodes, Users, {}, {"crash", "boot", "round"})
    \/ Scenario({0, 2}, OneUser, {1}, {"start", "leave", "crash", "round"})
    \/ Scenario({0, 2}, OneUser, {1}, {"start", "crash", "boot"})

StormSpec == StormStart /\ [][Next]_vars
=============================================================================

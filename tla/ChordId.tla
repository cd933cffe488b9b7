------------------------------- MODULE ChordId -------------------------------
(***************************************************************************)
(* Identifiers of the overlay (ChordId.cpp, Constants.cpp).  A node and a  *)
(* user record both hash to an identifier on a ring of 2^NBITS positions.  *)
(* ChordId::compareTo compares the numbers only, so an identifier is       *)
(* modelled by its number; the address and port that travel with it name   *)
(* the same node and are left out.                                         *)
(***************************************************************************)
EXTENDS Integers

CONSTANT NBITS          \* Constants.h: 5 in the program

ASSUME NBITSAssumption == NBITS \in Nat \ {0}

(* 2^k is a positive number: used by the proofs, evaluated by TLC. *)
ASSUME PowersOfTwo == \A k \in 0..NBITS : 2^k \in Nat \ {0}

ChordSpace == 2^NBITS

Id == 0..(ChordSpace - 1)

(* The bounds Constants::Constants sets.  MaxChordId is the size of the    *)
(* ring, one more than its largest identifier.                             *)
MinChordId == 0
MaxChordId == ChordSpace

(* The default constructor's identifier, "no node". *)
EmptyChordId == -1

-----------------------------------------------------------------------------
(* Mutant: an arc across zero is taken the wrong way round. *)
BelongsWrongWay(x, first, second) ==
    \/ first = second /\ x # first
    \/ first < second /\ first < x /\ x < second
    \/ second < first /\ second < x /\ x < first

-----------------------------------------------------------------------------
(* x.BelongsRightInclusive(first, second): x is on the arc (first, second]. *)
BelongsRightInclusive(x, first, second) ==
    \/ first = second
    \/ first < second /\ first < x /\ x <= second
    \/ second < first /\ \/ first < x /\ x <= MaxChordId
                         \/ MinChordId <= x /\ x <= second

(* x.belongs(first, second): x is on the arc (first, second). *)
Belongs(x, first, second) ==
    \/ first = second /\ x # first
    \/ first < second /\ first < x /\ x < second
    \/ second < first /\ \/ first < x /\ x <= MaxChordId
                         \/ MinChordId <= x /\ x < second

(* ChordId::add *)
Add(x, y) == (x + y) % ChordSpace

-----------------------------------------------------------------------------
(* What the two tests are for: the clockwise distance between positions.   *)
Clockwise(a, b) == IF a <= b THEN b - a ELSE b - a + ChordSpace
=============================================================================

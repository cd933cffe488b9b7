----------------------------- MODULE FingerTable -----------------------------
(***************************************************************************)
(* The routing state of one node (FingerTable.cpp) and the operations of   *)
(* Node.cpp that rewrite it.  A finger table is a function 1..NBITS -> Cell *)
(* holding the "node" of each finger (its "start" is computed).  The       *)
(* successor list is a function 0..NSUCCLIST -> Cell: cell NSUCCLIST is the *)
(* memory that follows FingerTable::successor in the object, where the     *)
(* pointer localnode lives; a loop that runs one step too far writes it.   *)
(***************************************************************************)
EXTENDS ChordId, FiniteSetsExt

CONSTANT NSUCCLIST      \* Constants.h: 3 in the program

ASSUME NSUCCLISTAssumption == NSUCCLIST \in Nat /\ NSUCCLIST >= 2

(* The pointer localnode read as an identifier: no identifier has it. *)
LocalnodeWord == ChordSpace + 1

Cell == Id \cup {EmptyChordId, LocalnodeWord}

FingerIndex == 1..NBITS

(* The "start" FingerTable::initfingers gives finger i of node n. *)
Start(n, i) == Add(n, 2^(i - 1))

(* initfingers: no finger, no successor; the constructor sets localnode. *)
NoFingers == [i \in FingerIndex |-> EmptyChordId]
NoSuccessors ==
    [j \in 0..NSUCCLIST |-> IF j < NSUCCLIST THEN EmptyChordId ELSE LocalnodeWord]

ClearSuccList(s) ==
    [j \in 0..NSUCCLIST |-> IF j < NSUCCLIST THEN EmptyChordId ELSE s[j]]

(* getSuccNum: the index of the first empty cell. *)
SuccNum(s) == Min({j \in 0..NSUCCLIST : j = NSUCCLIST \/ s[j] = EmptyChordId})

-----------------------------------------------------------------------------
(* Set_Fingers(i, v) of node n: finger i becomes v, and so does each       *)
(* following finger as long as v is also the successor of its start.       *)
Covers(n, v, i) ==
    BelongsRightInclusive(Start(n, i), n, v) \/ Start(n, i) = n

(* Mutant: the finger itself is tested once more instead of the next. *)
LastCoveredFromSelf(n, i, v) ==
    Max({m \in i..NBITS : \A l \in i..(m - 1) : Covers(n, v, l)})

LastCovered(n, i, v) ==
    Max({m \in i..NBITS : \A l \in (i + 1)..m : Covers(n, v, l)})

Set_Fingers(n, f, i, v) ==
    [j \in FingerIndex |-> IF j \in i..LastCovered(n, i, v) THEN v ELSE f[j]]

(* Mutant: the lowest finger that precedes k. *)
LowestPrecedingFinger(n, f, s, k) ==
    LET preceding == {i \in FingerIndex : f[i] # EmptyChordId /\ Belongs(f[i], n, k)}
    IN  IF preceding # {} THEN f[Min(preceding)]
        ELSE IF s[0] # n THEN s[0] ELSE EmptyChordId

(* closestPrecedingFinger(k): the highest finger strictly between n and k, *)
(* else the first successor unless that is n itself.                       *)
ClosestPrecedingFinger(n, f, s, k) ==
    LET preceding == {i \in FingerIndex : f[i] # EmptyChordId /\ Belongs(f[i], n, k)}
    IN  IF preceding # {} THEN f[Max(preceding)]
        ELSE IF s[0] # n THEN s[0] ELSE EmptyChordId

-----------------------------------------------------------------------------
(* Mutant: the last successor is left out. *)
ContactsWithoutLast(n, s, includelist) ==
    [k \in 0..NSUCCLIST |->
        IF k = 0 THEN n
        ELSE IF includelist /\ k < SuccNum(s) THEN s[k - 1] ELSE EmptyChordId]

(* The Contact headers of a message by responder n: itself and, when the   *)
(* list is included, its successors.  A missing contact is EmptyChordId.   *)
ContactsOf(n, s, includelist) ==
    [k \in 0..NSUCCLIST |->
        IF k = 0 THEN n
        ELSE IF includelist /\ k <= SuccNum(s) THEN s[k - 1] ELSE EmptyChordId]

(* Mutants: the guard stops the copy at the end of the array; the first    *)
(* contact is always skipped.                                              *)
SetSuccListInArray(n, s, contacts, first) ==
    LET copied == {k \in first..(NSUCCLIST - 1) :
                      /\ \A h \in first..k : contacts[h] # EmptyChordId
                      /\ \A h \in first..(k - 1) : contacts[h] # n}
    IN  [j \in 0..NSUCCLIST |->
            IF j + first \in copied THEN contacts[j + first] ELSE ClearSuccList(s)[j]]

SetSuccListSkippingFirst(n, s, contacts, first) ==
    LET copied == {k \in 1..NSUCCLIST : \A h \in 1..k : contacts[h] # EmptyChordId}
    IN  [j \in 0..NSUCCLIST |->
            IF j + 1 \in copied THEN contacts[j + 1] ELSE ClearSuccList(s)[j]]

(* setSuccListWithContacts: contacts first, first+1, ... up to the last    *)
(* one present, or up to n itself, or up to contact NSUCCLIST, go to cells *)
(* 0, 1, ...                                                               *)
SetSuccListWithContacts(n, s, contacts, first) ==
    LET copied == {k \in first..NSUCCLIST :
                      /\ \A h \in first..k : contacts[h] # EmptyChordId
                      /\ \A h \in first..(k - 1) : contacts[h] # n}
    IN  [j \in 0..NSUCCLIST |->
            IF j + first \in copied THEN contacts[j + first] ELSE ClearSuccList(s)[j]]

-----------------------------------------------------------------------------
(* Mutants: the last finger is forgotten; the loop starts past the table. *)
FingersWithoutShort(n, f, v) ==
    [i \in FingerIndex |->
        LET others == {j \in i..NBITS : f[j] # v}
        IN  IF i = NBITS THEN f[i] ELSE IF others = {} THEN n ELSE f[Min(others)]]

FingersWithoutPastEnd(n, f, v) ==
    [i \in 1..(NBITS + 1) |->
        LET others == {j \in i..NBITS : f[j] # v}
        IN  IF others = {} THEN n ELSE f[Min(others)]]

(* set_node_inactive(v), the fingers: a finger on v takes the node of the  *)
(* next higher finger that is not on v, or n when there is none.           *)
FingersWithout(n, f, v) ==
    [i \in FingerIndex |->
        LET others == {j \in i..NBITS : f[j] # v}
        IN  IF others = {} THEN n ELSE f[Min(others)]]

(* Mutant: the node is not carried behind the list. *)
SuccListWithoutCarry(n, s, v) ==
    LET at == {i \in 0..(SuccNum(s) - 1) : s[i] = v}
    IN  IF at = {} THEN s
        ELSE [j \in 0..NSUCCLIST |->
                IF j \in Min(at)..(NSUCCLIST - 1) THEN s[j + 1] ELSE s[j]]

(* set_node_inactive(v), the list: from the first cell on v to the last    *)
(* cell before an empty one or n, every cell takes its right neighbour;    *)
(* the cell after them becomes empty, or v when the list was full.         *)
SuccListWithout(n, s, v) ==
    LET at    == {i \in 0..(SuccNum(s) - 1) : s[i] = v}
        first == Min(at)
        last  == Min({i \in first..(NSUCCLIST - 1) :
                        i = NSUCCLIST - 1 \/ s[i + 1] \in {EmptyChordId, n}})
    IN  IF at = {} THEN s
        ELSE [j \in 0..NSUCCLIST |->
                IF j \in first..last THEN s[j + 1]
                ELSE IF j # last + 1 THEN s[j]
                ELSE IF s[j] \in {EmptyChordId, n} THEN EmptyChordId ELSE v]
=============================================================================

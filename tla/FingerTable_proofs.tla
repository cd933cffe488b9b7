------------------------- MODULE FingerTable_proofs -------------------------
(***************************************************************************)
(* The arithmetic of the ring, for every NBITS: the comparisons of         *)
(* ChordId.cpp are the arcs the handlers take them for.  And what the      *)
(* operators of FingerTable return: the facts the proofs about the overlay *)
(* rest on.                                                                *)
(***************************************************************************)
EXTENDS FingerTable, FiniteSetTheorems, TLAPS

(* The ring has a position. *)
LEMMA RingSize == ChordSpace \in Nat \ {0}
BY NBITSAssumption, PowersOfTwo DEF ChordSpace

(* BelongsRightInclusive tests the arc (first, second]: the positions that *)
(* are not first and no further clockwise from it than second.  Between a  *)
(* node and itself it takes the whole circle, and "no node" for a bound    *)
(* just below position 0: the arc then ends, or begins, there.             *)
THEOREM RightInclusiveIsArc ==
    ASSUME NEW x \in Id, NEW first \in Id, NEW second \in Id
    PROVE  /\ first # second =>
                (BelongsRightInclusive(x, first, second)
                    <=> x # first /\ Clockwise(first, x) <= Clockwise(first, second))
           /\ BelongsRightInclusive(x, first, first)
           /\ BelongsRightInclusive(x, EmptyChordId, second) <=> x <= second
           /\ BelongsRightInclusive(x, first, EmptyChordId) <=> first < x
<1>1. first # second =>
        (BelongsRightInclusive(x, first, second)
            <=> x # first /\ Clockwise(first, x) <= Clockwise(first, second))
  BY RingSize DEF BelongsRightInclusive, Clockwise, Id, MinChordId, MaxChordId
<1>2. BelongsRightInclusive(x, first, first)
  BY DEF BelongsRightInclusive
<1>3. /\ BelongsRightInclusive(x, EmptyChordId, second) <=> x <= second
      /\ BelongsRightInclusive(x, first, EmptyChordId) <=> first < x
  BY RingSize DEF BelongsRightInclusive, Id, MinChordId, MaxChordId, EmptyChordId
<1>. QED  BY <1>1, <1>2, <1>3

(* belongs tests the arc (first, second), without its ends; between a node *)
(* and itself the circle without that node; with "no node" for a bound the *)
(* positions up to position 0, or from it.                                 *)
THEOREM BelongsIsArc ==
    ASSUME NEW x \in Id, NEW first \in Id, NEW second \in Id
    PROVE  /\ first # second =>
                (Belongs(x, first, second)
                    <=> x # first /\ Clockwise(first, x) < Clockwise(first, second))
           /\ Belongs(x, first, first) <=> x # first
           /\ Belongs(x, EmptyChordId, second) <=> x < second
           /\ Belongs(x, first, EmptyChordId) <=> first < x
<1>1. first # second =>
        (Belongs(x, first, second)
            <=> x # first /\ Clockwise(first, x) < Clockwise(first, second))
  BY RingSize DEF Belongs, Clockwise, Id, MinChordId, MaxChordId
<1>2. Belongs(x, first, first) <=> x # first
  BY RingSize DEF Belongs, Id
<1>3. /\ Belongs(x, EmptyChordId, second) <=> x < second
      /\ Belongs(x, first, EmptyChordId) <=> first < x
  BY RingSize DEF Belongs, Id, MinChordId, MaxChordId, EmptyChordId
<1>. QED  BY <1>1, <1>2, <1>3

(* A node answers for its own identifier whatever its predecessor is,      *)
(* "no node" included: a JOIN, whose To header is its receiver, is never   *)
(* redirected.                                                             *)
THEOREM OwnPosition ==
    ASSUME NEW n \in Id, NEW p \in Int
    PROVE  BelongsRightInclusive(n, p, n)
BY DEF BelongsRightInclusive, Id, MinChordId, MaxChordId

(* A nearer predecessor p of n splits the arc (pred, n] in two that do not *)
(* meet: the records TransferUserInfoToPred sends to p are those p answers *)
(* for, and n answers for those it keeps.                                  *)
THEOREM NearerPredecessorSplits ==
    ASSUME NEW n \in Id, NEW pred \in Id, NEW p \in Id, Belongs(p, pred, n), p # n,
           NEW x \in Id
    PROVE  /\ BelongsRightInclusive(x, pred, n)
                <=> BelongsRightInclusive(x, pred, p) \/ BelongsRightInclusive(x, p, n)
           /\ ~ (BelongsRightInclusive(x, pred, p) /\ BelongsRightInclusive(x, p, n))
BY RingSize DEF BelongsRightInclusive, Belongs, Id, MinChordId, MaxChordId

(* A redirect to a finger between n and k comes nearer to k: the requests  *)
(* of one lookup that go by fingers cannot return to a node.               *)
THEOREM RedirectComesNearer ==
    ASSUME NEW n \in Id, NEW k \in Id, NEW f \in Id, n # k, Belongs(f, n, k)
    PROVE  Clockwise(f, k) < Clockwise(n, k)
BY RingSize DEF Belongs, Clockwise, Id, MinChordId, MaxChordId

(* A node that is not nearer than the predecessor pred of n leaves pred    *)
(* on the arc from itself to n.                                            *)
LEMMA NotNearer ==
    ASSUME NEW n \in Id, NEW pred \in Id, NEW v \in Id, ~ Belongs(v, pred, n)
    PROVE  pred = v \/ Belongs(pred, v, n)
BY RingSize DEF Belongs, Id, MinChordId, MaxChordId

(* Of nodes p and n with n the nearer one clockwise of k, position k is on *)
(* the arc (p, n]: with predecessor p, n answers for it.                   *)
LEMMA NearestAnswers ==
    ASSUME NEW k \in Id, NEW n \in Id, NEW p \in Id, Clockwise(k, n) <= Clockwise(k, p)
    PROVE  BelongsRightInclusive(k, p, n)
BY RingSize DEF BelongsRightInclusive, Clockwise, Id, MinChordId, MaxChordId

-----------------------------------------------------------------------------
(* A non-empty set of natural numbers has a least member. *)
LEMMA LeastMember ==
    ASSUME NEW S \in SUBSET Nat, S # {}
    PROVE  \E m \in S : \A k \in S : m =< k
<1>. DEFINE R == {p \in Nat \X Nat : p[1] < p[2]}
<1>1. IsWellFoundedOn(R, Nat)
  <2>1. R = OpToRel(<, Nat)  BY Zenon DEF OpToRel
  <2>. QED  BY <2>1, NatLessThanWellFounded
<1>2. PICK m \in S : \A k \in S : <<k, m>> \notin R
  <2>. HIDE DEF R
  <2>. QED  BY <1>1, WFMin
<1>3. ASSUME NEW k \in S  PROVE m =< k
  <2>1. ~ k < m  BY <1>2
  <2>. QED  BY <2>1
<1>. QED  BY <1>3

(* A non-empty set of numbers has its minimum as a member. *)
LEMMA MinMember ==
    ASSUME NEW S \in SUBSET Nat, S # {}
    PROVE  Min(S) \in S
BY LeastMember DEF Min

(* A non-empty set of numbers up to a bound has its maximum as a member. *)
LEMMA MaxMember ==
    ASSUME NEW b \in Nat, NEW S \in SUBSET (0..b), S # {}
    PROVE  Max(S) \in S
<1>. DEFINE D == {x \in 0..b : b - x \in S}
<1>1. D \in SUBSET Nat
  OBVIOUS
<1>2. D # {}
  <2>1. PICK y \in S : TRUE  OBVIOUS
  <2>2. b - y \in 0..b /\ b - (b - y) = y  OBVIOUS
  <2>. QED  BY <2>1, <2>2
<1>3. PICK x \in D : \A z \in D : x =< z
  <2>. HIDE DEF D
  <2>. QED  BY <1>1, <1>2, LeastMember
<1>4. ASSUME NEW y \in S  PROVE b - x >= y
  <2>1. b - y \in D  OBVIOUS
  <2>2. x =< b - y  BY <1>3, <2>1
  <2>. QED  BY <1>3, <2>2
<1>5. b - x \in S  BY <1>3
<1>. QED  BY <1>4, <1>5 DEF Max

-----------------------------------------------------------------------------
(* The distance from a node to the start of a finger is positive. *)
LEMMA PowerType ==
    ASSUME NEW k \in 0..NBITS
    PROVE  2^k \in Nat \ {0}
BY PowersOfTwo

(* The ring has a position. *)
LEMMA SpaceType == ChordSpace \in Nat \ {0}
BY PowerType, NBITSAssumption DEF ChordSpace

(* The start of a finger is a position of the ring. *)
LEMMA StartType ==
    ASSUME NEW n \in Id, NEW i \in FingerIndex
    PROVE  Start(n, i) \in Id
<1>1. 2^(i - 1) \in Nat
  BY PowerType, NBITSAssumption DEF FingerIndex
<1>2. ASSUME NEW x \in Nat, NEW s \in Nat \ {0}  PROVE (x % s) \in 0..(s - 1)
  OBVIOUS
<1>3. ASSUME NEW p \in Nat  PROVE ((n + p) % ChordSpace) \in 0..(ChordSpace - 1)
  <2>1. n + p \in Nat  BY SpaceType DEF Id
  <2>. QED  BY <2>1, <1>2, SpaceType
<1>4. ((n + 2^(i - 1)) % ChordSpace) \in 0..(ChordSpace - 1)
  BY <1>1, <1>3
<1>. QED  BY <1>4 DEF Start, Add, Id

(* A cell of a table may hold every identifier, and "no node", which is none. *)
LEMMA IdsAreCells == Id \subseteq Cell /\ EmptyChordId \in Cell /\ EmptyChordId \notin Id
BY SpaceType DEF Cell, Id, EmptyChordId

(* getSuccNum returns an index of the list or its length. *)
LEMMA SuccNumType ==
    ASSUME NEW s
    PROVE  SuccNum(s) \in 0..NSUCCLIST
<1>. DEFINE S == {j \in 0..NSUCCLIST : j = NSUCCLIST \/ s[j] = EmptyChordId}
<1>1. S \in SUBSET Nat /\ S # {}
  BY NSUCCLISTAssumption
<1>2. Min(S) \in S
  <2>. HIDE DEF S
  <2>. QED  BY <1>1, MinMember
<1>. QED  BY <1>2 DEF SuccNum

(* Set_Fingers stops inside the finger table. *)
LEMMA LastCoveredType ==
    ASSUME NEW n, NEW v, NEW i \in FingerIndex
    PROVE  LastCovered(n, i, v) \in i..NBITS
<1>. DEFINE S == {m \in i..NBITS : \A l \in (i + 1)..m : Covers(n, v, l)}
<1>1. S \in SUBSET (0..NBITS) /\ i \in S
  BY NBITSAssumption DEF FingerIndex
<1>2. Max(S) \in S
  <2>. HIDE DEF S
  <2>. QED  BY <1>1, MaxMember, NBITSAssumption
<1>. QED  BY <1>2 DEF LastCovered

-----------------------------------------------------------------------------
(* What the operators put into a table comes from the table and from what  *)
(* they are given: for every set C of cells with the empty one.            *)

(* closestPrecedingFinger returns a finger, the first successor or nothing. *)
LEMMA ClosestPrecedingFingerIn ==
    ASSUME NEW C, EmptyChordId \in C,
           NEW n, NEW f \in [FingerIndex -> C], NEW s, s[0] \in C, NEW k
    PROVE  ClosestPrecedingFinger(n, f, s, k) \in C
<1>. DEFINE S == {i \in FingerIndex : f[i] # EmptyChordId /\ Belongs(f[i], n, k)}
<1>1. CASE S = {}
  BY <1>1 DEF ClosestPrecedingFinger
<1>2. CASE S # {}
  <2>1. S \in SUBSET (0..NBITS) /\ S \subseteq FingerIndex
    BY NBITSAssumption DEF FingerIndex
  <2>2. Max(S) \in S
    <3>. HIDE DEF S
    <3>. QED  BY <2>1, <1>2, MaxMember, NBITSAssumption
  <2>. QED  BY <1>2, <2>2 DEF ClosestPrecedingFinger
<1>. QED  BY <1>1, <1>2

(* A node whose first successor is another always has somewhere to redirect to. *)
LEMMA ClosestPrecedingFingerFound ==
    ASSUME NEW n, NEW f, NEW s, s[0] # n, s[0] # EmptyChordId, NEW k
    PROVE  ClosestPrecedingFinger(n, f, s, k) # EmptyChordId
<1>. DEFINE S == {i \in FingerIndex : f[i] # EmptyChordId /\ Belongs(f[i], n, k)}
<1>1. CASE S = {}
  BY <1>1 DEF ClosestPrecedingFinger
<1>2. CASE S # {}
  <2>1. S \in SUBSET (0..NBITS)
    BY NBITSAssumption DEF FingerIndex
  <2>2. Max(S) \in S
    <3>. HIDE DEF S
    <3>. QED  BY <2>1, <1>2, MaxMember, NBITSAssumption
  <2>. QED  BY <1>2, <2>2 DEF ClosestPrecedingFinger
<1>. QED  BY <1>1, <1>2

(* Set_Fingers puts v into the table and nothing else. *)
LEMMA SetFingersIn ==
    ASSUME NEW C, NEW n, NEW f \in [FingerIndex -> C], NEW i, NEW v \in C
    PROVE  Set_Fingers(n, f, i, v) \in [FingerIndex -> C]
BY DEF Set_Fingers

(* clearSuccList empties cells. *)
LEMMA ClearSuccListIn ==
    ASSUME NEW C, EmptyChordId \in C, NEW s \in [0..NSUCCLIST -> C]
    PROVE  ClearSuccList(s) \in [0..NSUCCLIST -> C]
BY DEF ClearSuccList

(* The Contact headers of a message are the responder and its successors. *)
LEMMA ContactsOfIn ==
    ASSUME NEW C, EmptyChordId \in C, NEW n \in C, NEW s \in [0..NSUCCLIST -> C], NEW b
    PROVE  ContactsOf(n, s, b) \in [0..NSUCCLIST -> C]
<1>1. ASSUME NEW k \in 0..NSUCCLIST, k # 0  PROVE s[k - 1] \in C
  BY <1>1, NSUCCLISTAssumption
<1>. QED  BY <1>1 DEF ContactsOf

(* setSuccListWithContacts copies contacts and keeps the cell behind the list. *)
LEMMA SetSuccListIn ==
    ASSUME NEW C, EmptyChordId \in C, NEW n, NEW s \in [0..NSUCCLIST -> C],
           NEW contacts \in [0..NSUCCLIST -> C], NEW first \in {0, 1}
    PROVE  SetSuccListWithContacts(n, s, contacts, first) \in [0..NSUCCLIST -> C]
<1>. DEFINE copied == {k \in first..NSUCCLIST :
                          /\ \A h \in first..k : contacts[h] # EmptyChordId
                          /\ \A h \in first..(k - 1) : contacts[h] # n}
<1>1. copied \subseteq 0..NSUCCLIST
  BY NSUCCLISTAssumption
<1>2. ASSUME NEW j \in 0..NSUCCLIST
      PROVE  (IF j + first \in copied THEN contacts[j + first] ELSE ClearSuccList(s)[j]) \in C
  <2>. HIDE DEF copied
  <2>. QED  BY <1>1, ClearSuccListIn
<1>. QED  BY <1>2, Zenon DEF SetSuccListWithContacts

(* setSuccListWithContacts from the first contact on puts it first, whatever it is. *)
LEMMA SetSuccListFirst ==
    ASSUME NEW n, NEW s, NEW contacts
    PROVE  SetSuccListWithContacts(n, s, contacts, 0)[0] = contacts[0]
<1>. DEFINE copied == {k \in 0..NSUCCLIST :
                          /\ \A h \in 0..k : contacts[h] # EmptyChordId
                          /\ \A h \in 0..(k - 1) : contacts[h] # n}
            list == SetSuccListWithContacts(n, s, contacts, 0)
<1>1. 0 \in copied <=> contacts[0] # EmptyChordId
  BY NSUCCLISTAssumption
<1>2. list[0] = IF 0 \in copied THEN contacts[0] ELSE ClearSuccList(s)[0]
  BY NSUCCLISTAssumption DEF SetSuccListWithContacts
<1>3. ClearSuccList(s)[0] = EmptyChordId
  BY NSUCCLISTAssumption DEF ClearSuccList
<1>. HIDE DEF copied, list
<1>4. list[0] = contacts[0]
  BY <1>1, <1>2, <1>3
<1>. QED  BY <1>4 DEF list

(* The second Contact header of a message with its list is the first successor. *)
LEMMA ContactsSecond ==
    ASSUME NEW n, NEW s, s[0] # EmptyChordId
    PROVE  ContactsOf(n, s, TRUE)[1] = s[0]
<1>. DEFINE S == {j \in 0..NSUCCLIST : j = NSUCCLIST \/ s[j] = EmptyChordId}
<1>1. S \in SUBSET Nat /\ S # {} /\ 0 \notin S
  BY NSUCCLISTAssumption
<1>2. Min(S) \in S
  <2>. HIDE DEF S
  <2>. QED  BY <1>1, MinMember
<1>3. SuccNum(s) \in S
  BY <1>2 DEF SuccNum
<1>4. SuccNum(s) >= 1
  <2>1. SuccNum(s) \in Nat /\ SuccNum(s) # 0
    <3>. HIDE DEF S
    <3>. QED  BY <1>1, <1>3
  <2>. QED  BY <2>1
<1>. QED  BY <1>4, SuccNumType, NSUCCLISTAssumption DEF ContactsOf

(* set_node_inactive puts n itself into the fingers and nothing else. *)
LEMMA FingersWithoutIn ==
    ASSUME NEW C, NEW n \in C, NEW f \in [FingerIndex -> C], NEW v
    PROVE  FingersWithout(n, f, v) \in [FingerIndex -> C]
<1>1. ASSUME NEW i \in FingerIndex, {j \in i..NBITS : f[j] # v} # {}
      PROVE  f[Min({j \in i..NBITS : f[j] # v})] \in C
  <2>. DEFINE S == {j \in i..NBITS : f[j] # v}
  <2>1. S \in SUBSET Nat /\ S \subseteq FingerIndex
    BY NBITSAssumption DEF FingerIndex
  <2>2. Min(S) \in S
    <3>. HIDE DEF S
    <3>. QED  BY <1>1, <2>1, MinMember DEF S
  <2>. QED  BY <2>1, <2>2
<1>. QED  BY <1>1 DEF FingersWithout

(* set_node_inactive moves the cells of the list. *)
LEMMA SuccListWithoutIn ==
    ASSUME NEW C, EmptyChordId \in C, NEW n, NEW s \in [0..NSUCCLIST -> C], NEW v \in C
    PROVE  SuccListWithout(n, s, v) \in [0..NSUCCLIST -> C]
<1>. DEFINE at    == {i \in 0..(SuccNum(s) - 1) : s[i] = v}
            first == Min(at)
            T     == {i \in first..(NSUCCLIST - 1) :
                        i = NSUCCLIST - 1 \/ s[i + 1] \in {EmptyChordId, n}}
            last  == Min(T)
<1>1. CASE at = {}
  BY <1>1 DEF SuccListWithout
<1>2. CASE at # {}
  <2>1. at \in SUBSET Nat /\ at \subseteq 0..(NSUCCLIST - 1)
    BY SuccNumType, NSUCCLISTAssumption
  <2>2. first \in 0..(NSUCCLIST - 1)
    <3>. HIDE DEF at
    <3>. QED  BY <1>2, <2>1, MinMember
  <2>3. last \in first..(NSUCCLIST - 1)
    <3>. HIDE DEF first
    <3>1. T \in SUBSET Nat /\ T # {} /\ T \subseteq first..(NSUCCLIST - 1)
      <4>1. NSUCCLIST - 1 \in T  BY <2>2, NSUCCLISTAssumption
      <4>2. first..(NSUCCLIST - 1) \subseteq Nat  BY <2>2, NSUCCLISTAssumption
      <4>. QED  BY <4>1, <4>2
    <3>. HIDE DEF T
    <3>. QED  BY <3>1, MinMember
  <2>4. ASSUME NEW j \in 0..NSUCCLIST
        PROVE  (IF j \in first..last THEN s[j + 1]
                ELSE IF j # last + 1 THEN s[j]
                ELSE IF s[j] \in {EmptyChordId, n} THEN EmptyChordId ELSE v) \in C
    <3>. HIDE DEF first, last
    <3>. QED  BY <2>2, <2>3, NSUCCLISTAssumption
  <2>. QED  BY <1>2, <2>4, Zenon DEF SuccListWithout
<1>. QED  BY <1>1, <1>2

-----------------------------------------------------------------------------
(* The same of tables of cells: the operators keep the types. *)

(* closestPrecedingFinger returns a cell of the table. *)
LEMMA ClosestPrecedingFingerType ==
    ASSUME NEW n, NEW f \in [FingerIndex -> Cell], NEW s \in [0..NSUCCLIST -> Cell], NEW k
    PROVE  ClosestPrecedingFinger(n, f, s, k) \in Cell
<1>1. s[0] \in Cell
  BY NSUCCLISTAssumption
<1>. QED  BY <1>1, ClosestPrecedingFingerIn, IdsAreCells

(* Set_Fingers keeps the type of the finger table. *)
LEMMA SetFingersType ==
    ASSUME NEW n, NEW f \in [FingerIndex -> Cell], NEW i, NEW v \in Cell
    PROVE  Set_Fingers(n, f, i, v) \in [FingerIndex -> Cell]
BY SetFingersIn

(* clearSuccList keeps the type of the list. *)
LEMMA ClearSuccListType ==
    ASSUME NEW s \in [0..NSUCCLIST -> Cell]
    PROVE  ClearSuccList(s) \in [0..NSUCCLIST -> Cell]
BY ClearSuccListIn, IdsAreCells

(* initfingers makes a table. *)
LEMMA EmptyTableType ==
    /\ NoFingers \in [FingerIndex -> Cell]
    /\ NoSuccessors \in [0..NSUCCLIST -> Cell]
BY IdsAreCells DEF NoFingers, NoSuccessors, Cell

(* The Contact headers of a message are cells of a table. *)
LEMMA ContactsOfType ==
    ASSUME NEW n \in Id, NEW s \in [0..NSUCCLIST -> Cell], NEW b
    PROVE  ContactsOf(n, s, b) \in [0..NSUCCLIST -> Cell]
BY ContactsOfIn, IdsAreCells

(* setSuccListWithContacts keeps the type of the list. *)
LEMMA SetSuccListType ==
    ASSUME NEW n, NEW s \in [0..NSUCCLIST -> Cell],
           NEW contacts \in [0..NSUCCLIST -> Cell], NEW first \in {0, 1}
    PROVE  SetSuccListWithContacts(n, s, contacts, first) \in [0..NSUCCLIST -> Cell]
BY SetSuccListIn, IdsAreCells

(* set_node_inactive keeps the type of the finger table. *)
LEMMA FingersWithoutType ==
    ASSUME NEW n \in Id, NEW f \in [FingerIndex -> Cell], NEW v
    PROVE  FingersWithout(n, f, v) \in [FingerIndex -> Cell]
BY FingersWithoutIn, IdsAreCells

(* set_node_inactive keeps the type of the list. *)
LEMMA SuccListWithoutType ==
    ASSUME NEW n, NEW s \in [0..NSUCCLIST -> Cell], NEW v \in Cell
    PROVE  SuccListWithout(n, s, v) \in [0..NSUCCLIST -> Cell]
BY SuccListWithoutIn, IdsAreCells
=============================================================================

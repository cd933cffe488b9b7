-------------------------- MODULE FingerLoops_proofs --------------------------
(***************************************************************************)
(* The loops of Node.cpp compute the closed forms of module FingerTable,   *)
(* for every ring, table, list and node: what holds before each iteration  *)
(* of each loop, and what follows from it when the loop ends.              *)
(***************************************************************************)
EXTENDS FingerLoops, FingerTable_proofs

Indices == 0..(NBITS + NSUCCLIST + 1)

(* Set_Fingers: cells start_index..i hold the node, which is the successor *)
(* of the start of each of them but the first.                             *)
SetFingersInv ==
    loop = "Set_Fingers" =>
        /\ arg.start_index \in FingerIndex
        /\ before \in [FingerIndex -> Cell]
        /\ i \in arg.start_index..NBITS
        /\ now = [k \in FingerIndex |->
                    IF k \in arg.start_index..i THEN arg.node ELSE before[k]]
        /\ \A l \in (arg.start_index + 1)..i : Covers(n, arg.node, l)
        /\ ended => i = NBITS \/ ~ Covers(n, arg.node, i + 1)

Precedes(l) == before[l] # EmptyChordId /\ Belongs(before[l], n, arg.k)

(* closestPrecedingFinger: no finger above i precedes the position.        *)
ClosestInv ==
    loop = "closestPrecedingFinger" =>
        /\ n \in Id /\ arg.k \in Id
        /\ now = before
        /\ i \in 0..NBITS
        /\ \A l \in (i + 1)..NBITS : ~ Precedes(l)
        /\ \/ value = (IF arg.succ[0] # n THEN arg.succ[0] ELSE EmptyChordId)
              /\ (ended => i = 0)
           \/ ended /\ i \in FingerIndex /\ Precedes(i) /\ value = before[i]

(* The node of the first finger from i on that is not on the node v. *)
NextFinger(k) ==
    LET others == {l \in k..NBITS : before[l] # arg.node}
    IN  IF others = {} THEN n ELSE before[Min(others)]

(* set_node_inactive: the fingers above i are done, "previous" is the node *)
(* that finger i takes if it is on the inactive node.                      *)
InactiveFingersInv ==
    loop = "inactive_fingers" =>
        /\ before \in [FingerIndex -> Cell]
        /\ i \in 0..NBITS
        /\ now = [k \in FingerIndex |-> IF k > i THEN NextFinger(k) ELSE before[k]]
        /\ value = NextFinger(i + 1)
        /\ ended => i = 0

(* set_node_inactive: either the node was not met before i, or it was met  *)
(* at cell f, is carried in cell i, and the cells between took their right *)
(* neighbours.  Searching, carrying, and the ends of both.                 *)
Searched == \A l \in 0..(i - 1) : before[l] # EmptyChordId /\ before[l] # arg.node

Carried(f, l) ==
    /\ f \in 0..(NSUCCLIST - 1) /\ l \in f..NSUCCLIST
    /\ before[f] = arg.node
    /\ \A k \in 0..(f - 1) : before[k] # EmptyChordId /\ before[k] # arg.node
    /\ \A k \in f..(l - 1) : before[k + 1] \notin {EmptyChordId, n}

(* The list with the cells from f on moved up to cell l, which holds x. *)
Shifted(f, l, x) ==
    [k \in 0..NSUCCLIST |->
        IF k \in f..(l - 1) THEN before[k + 1] ELSE IF k = l THEN x ELSE before[k]]

InactiveListInv ==
    loop = "inactive_list" =>
        /\ before \in [0..NSUCCLIST -> Cell] /\ arg.node \in Id /\ n \in Id
        /\ i \in 0..NSUCCLIST
        /\ \/ /\ Searched /\ now = before
              /\ ended => i >= SuccNum(before)
           \/ \E f \in 0..(i - 1) :
                /\ Carried(f, i) /\ now = Shifted(f, i, arg.node)
                /\ ended => i = NSUCCLIST
           \/ \E f \in 0..i :
                /\ ended /\ i < NSUCCLIST
                /\ Carried(f, i) /\ now = Shifted(f, i + 1, EmptyChordId)
                /\ before[i + 1] \in {EmptyChordId, n}

(* setSuccListWithContacts: the contacts before i are copied. *)
ContactsInv ==
    loop = "contacts" =>
        /\ arg.first \in {0, 1}
        /\ i \in arg.first..(NSUCCLIST + 1) /\ j = i - arg.first
        /\ now = [k \in 0..NSUCCLIST |->
                    IF k + arg.first \in arg.first..(i - 1) THEN arg.contacts[k + arg.first]
                    ELSE ClearSuccList(before)[k]]
        /\ \A h \in arg.first..(i - 1) : arg.contacts[h] # EmptyChordId
        /\ \A h \in arg.first..(i - 2) : arg.contacts[h] # n
        /\ i > arg.first /\ arg.contacts[i - 1] = n => ended
        /\ ended => \/ i > NSUCCLIST
                    \/ arg.contacts[i] = EmptyChordId
                    \/ i > arg.first /\ arg.contacts[i - 1] = n

LoopInv ==
    /\ SetFingersInv
    /\ ClosestInv
    /\ InactiveFingersInv
    /\ InactiveListInv
    /\ ContactsInv

-----------------------------------------------------------------------------
LEMMA MinIs ==
    ASSUME NEW S \in SUBSET Nat, NEW m \in S, \A k \in S : m =< k
    PROVE  Min(S) = m
<1>1. \A x \in S : (\A y \in S : x =< y) => x = m
  OBVIOUS
<1>. QED  BY <1>1 DEF Min

LEMMA MaxIs ==
    ASSUME NEW S \in SUBSET Nat, NEW m \in S, \A k \in S : k =< m
    PROVE  Max(S) = m
<1>1. \A x \in S : (\A y \in S : x >= y) => x = m
  OBVIOUS
<1>2. \A y \in S : m >= y
  OBVIOUS
<1>. QED  BY <1>1, <1>2 DEF Max

(* getSuccNum: what is before the first empty cell. *)
LEMMA SuccNumFacts ==
    ASSUME NEW s
    PROVE  /\ SuccNum(s) \in 0..NSUCCLIST
           /\ \A l \in 0..(SuccNum(s) - 1) : s[l] # EmptyChordId
           /\ SuccNum(s) = NSUCCLIST \/ s[SuccNum(s)] = EmptyChordId
<1>. DEFINE S == {k \in 0..NSUCCLIST : k = NSUCCLIST \/ s[k] = EmptyChordId}
<1>1. S \in SUBSET Nat /\ S # {}
  BY NSUCCLISTAssumption
<1>2. PICK m \in S : \A k \in S : m =< k
  <2>. HIDE DEF S
  <2>. QED  BY <1>1, LeastMember
<1>3. SuccNum(s) = m
  <2>1. Min(S) = m
    <3>. HIDE DEF S
    <3>. QED  BY <1>1, <1>2, MinIs
  <2>. QED  BY <2>1 DEF SuccNum
<1>4. ASSUME NEW l \in 0..(m - 1)  PROVE s[l] # EmptyChordId
  <2>1. l \in 0..NSUCCLIST /\ ~ m =< l
    BY <1>2, NSUCCLISTAssumption
  <2>. QED  BY <1>2, <2>1
<1>. QED  BY <1>2, <1>3, <1>4

-----------------------------------------------------------------------------
(* Set_Fingers *)
LEMMA SetFingersInit == Init => SetFingersInv
<1>. SUFFICES ASSUME Init, loop = "Set_Fingers"  PROVE SetFingersInv
  BY DEF SetFingersInv
<1>1. SetFingersBegins /\ n \in Id
  BY LocalsAssumption DEF Init, ClosestBegins, InactiveFingersBegins, InactiveListBegins,
      ContactsBegins, Begins
<1>2. Fingers \subseteq [FingerIndex -> Cell]
  BY <1>1, LocalsAssumption, IdsAreCells DEF Fingers, NodeIds
<1>3. arg.start_index \in FingerIndex
  BY <1>1 DEF SetFingersBegins
<1>4. /\ before \in [FingerIndex -> Cell] /\ i = arg.start_index /\ ended = FALSE
      /\ now = [before EXCEPT ![arg.start_index] = arg.node]
  BY <1>1, <1>2 DEF SetFingersBegins, Begins
<1>5. i \in arg.start_index..NBITS /\ arg.start_index..i = {i}
      /\ (arg.start_index + 1)..i = {}
  BY <1>3, <1>4, NBITSAssumption DEF FingerIndex
<1>6. now = [k \in FingerIndex |->
               IF k \in arg.start_index..i THEN arg.node ELSE before[k]]
  BY <1>4, <1>5
<1>. QED  BY <1>3, <1>4, <1>5, <1>6 DEF SetFingersInv

LEMMA SetFingersKeeps == SetFingersInv /\ [Next]_vars => SetFingersInv'
<1>. SUFFICES ASSUME SetFingersInv, [Next]_vars, loop' = "Set_Fingers"
              PROVE  SetFingersInv'
  BY DEF SetFingersInv
<1>1. CASE SetFingersStep
  <2>0. /\ arg.start_index \in FingerIndex /\ before \in [FingerIndex -> Cell]
        /\ i \in arg.start_index..NBITS /\ i \in FingerIndex
        /\ now = [k \in FingerIndex |->
                    IF k \in arg.start_index..i THEN arg.node ELSE before[k]]
        /\ \A l \in (arg.start_index + 1)..i : Covers(n, arg.node, l)
        /\ ~ ended /\ UNCHANGED given /\ now[i] = arg.node
    BY <1>1, NBITSAssumption
    DEF SetFingersStep, Runs, SetFingersInv, Ends, Continues, given, FingerIndex
  <2>1. CASE i <= NBITS - 1 /\ Covers(n, arg.node, i + 1)
    <3>1. now' = [now EXCEPT ![i + 1] = now[i]] /\ i' = i + 1 /\ ended' = FALSE
      BY <1>1, <2>0, <2>1 DEF SetFingersStep, Covers, Continues
    <3>2. i' \in arg.start_index..NBITS /\ i + 1 \in FingerIndex
      BY <2>0, <2>1, <3>1, NBITSAssumption DEF FingerIndex
    <3>3. now' = [k \in FingerIndex |->
                    IF k \in arg.start_index..i' THEN arg.node ELSE before[k]]
      <4>1. now' = [k \in FingerIndex |-> IF k = i + 1 THEN now[i] ELSE now[k]]
        BY <2>0, <3>1
      <4>2. \A k \in FingerIndex :
              k \in arg.start_index..i' <=> k \in arg.start_index..i \/ k = i + 1
        BY <2>0, <3>1, <3>2, NBITSAssumption DEF FingerIndex
      <4>3. \A k \in FingerIndex :
              now[k] = IF k \in arg.start_index..i THEN arg.node ELSE before[k]
        BY <2>0
      <4>. QED  BY <2>0, <4>1, <4>2, <4>3
    <3>4. \A l \in (arg.start_index + 1)..i' : Covers(n, arg.node, l)
      BY <2>0, <2>1, <3>1, NBITSAssumption DEF FingerIndex
    <3>. QED  BY <2>0, <3>1, <3>2, <3>3, <3>4 DEF SetFingersInv, given, Covers
  <2>2. CASE ~ (i <= NBITS - 1 /\ Covers(n, arg.node, i + 1))
    <3>1. Ends
      BY <1>1, <2>0, <2>2 DEF SetFingersStep, Covers
    <3>2. i = NBITS \/ ~ Covers(n, arg.node, i + 1)
      BY <2>0, <2>2, NBITSAssumption DEF FingerIndex
    <3>. QED  BY <2>0, <3>1, <3>2 DEF SetFingersInv, given, Ends, Covers
  <2>. QED  BY <2>1, <2>2
<1>2. CASE UNCHANGED vars
  BY <1>2 DEF SetFingersInv, vars, Covers
<1>3. ~ (ClosestStep \/ InactiveFingersStep \/ InactiveListStep \/ ContactsStep)
  BY DEF ClosestStep, InactiveFingersStep, InactiveListStep, ContactsStep, Runs, Ends,
      Continues, given
<1>. QED  BY <1>1, <1>2, <1>3 DEF Next

LEMMA SetFingersDone == SetFingersInv => SetFingersAsCoded
<1>. SUFFICES ASSUME SetFingersInv, loop = "Set_Fingers", ended
              PROVE  SetFingersAsCoded
  BY DEF SetFingersAsCoded, Ended
<1>. DEFINE a == arg.start_index
            S == {m \in a..NBITS : \A l \in (a + 1)..m : Covers(n, arg.node, l)}
<1>1. /\ a \in Nat /\ i \in a..NBITS
      /\ \A l \in (a + 1)..i : Covers(n, arg.node, l)
      /\ i = NBITS \/ ~ Covers(n, arg.node, i + 1)
      /\ now = [k \in FingerIndex |-> IF k \in a..i THEN arg.node ELSE before[k]]
  BY NBITSAssumption DEF SetFingersInv, FingerIndex
<1>2. S \in SUBSET Nat /\ i \in S
  BY <1>1, NBITSAssumption
<1>3. \A m \in S : m =< i
  <2>. SUFFICES ASSUME NEW m \in S, i < m  PROVE FALSE
    BY <1>1, <1>2, NBITSAssumption
  <2>1. i + 1 \in (a + 1)..m
    BY <1>1, <1>2
  <2>. QED  BY <1>1, <2>1, NBITSAssumption
<1>4. LastCovered(n, a, arg.node) = i
  <2>1. Max(S) = i
    <3>. HIDE DEF S
    <3>. QED  BY <1>2, <1>3, MaxIs
  <2>. QED  BY <2>1 DEF LastCovered
<1>. QED  BY <1>1, <1>4 DEF SetFingersAsCoded, Set_Fingers

-----------------------------------------------------------------------------
(* closestPrecedingFinger *)
LEMMA FirstSuccessor ==
    ASSUME NEW first
    PROVE  LET s == [NoSuccessors EXCEPT ![0] = first]
           IN  s[0] = first /\ (SuccNum(s) > 0 <=> first # EmptyChordId)
<1>. DEFINE s == [NoSuccessors EXCEPT ![0] = first]
<1>1. s[0] = first
  BY NSUCCLISTAssumption DEF NoSuccessors
<1>2. SuccNum(s) > 0 <=> first # EmptyChordId
  <2>. HIDE DEF s
  <2>. QED  BY <1>1, SuccNumFacts, NSUCCLISTAssumption
<1>. QED  BY <1>1, <1>2

LEMMA ClosestInit == Init => ClosestInv
<1>. SUFFICES ASSUME Init, loop = "closestPrecedingFinger"  PROVE ClosestInv
  BY DEF ClosestInv
<1>1. ClosestBegins /\ n \in Id
  BY LocalsAssumption DEF Init, SetFingersBegins, InactiveFingersBegins, InactiveListBegins,
      ContactsBegins, Begins
<1>2. PICK k \in Id, first \in NodeIds \cup {EmptyChordId} :
          arg = [k |-> k, succ |-> [NoSuccessors EXCEPT ![0] = first]]
  BY <1>1 DEF ClosestBegins
<1>3. arg.k = k /\ arg.succ[0] = first /\ (SuccNum(arg.succ) > 0 <=> first # EmptyChordId)
  BY <1>2, FirstSuccessor
<1>. QED  BY <1>1, <1>3, NBITSAssumption DEF ClosestBegins, ClosestInv, Begins

LEMMA ClosestKeeps == ClosestInv /\ [Next]_vars => ClosestInv'
<1>. SUFFICES ASSUME ClosestInv, [Next]_vars, loop' = "closestPrecedingFinger"
              PROVE  ClosestInv'
  BY DEF ClosestInv
<1>1. CASE ClosestStep
  <2>0. /\ n \in Id /\ arg.k \in Id /\ now = before /\ i \in 0..NBITS
        /\ \A l \in (i + 1)..NBITS : ~ Precedes(l)
        /\ value = (IF arg.succ[0] # n THEN arg.succ[0] ELSE EmptyChordId)
        /\ ~ ended /\ UNCHANGED <<given, now>>
    BY <1>1 DEF ClosestStep, Runs, ClosestInv, Ends, Continues, given
  <2>1. CASE i = 0
    BY <1>1, <2>0, <2>1 DEF ClosestStep, Ends, ClosestInv, given, Precedes
  <2>2. CASE i # 0 /\ Precedes(i)
    <3>1. ended' = TRUE /\ value' = now[i] /\ i' = i
      BY <1>1, <2>0, <2>2 DEF ClosestStep, Precedes
    <3>. QED  BY <2>0, <2>2, <3>1, NBITSAssumption DEF ClosestInv, given, Precedes, FingerIndex
  <2>3. CASE i # 0 /\ ~ Precedes(i)
    <3>1. i' = i - 1 /\ ended' = FALSE /\ value' = value
      BY <1>1, <2>0, <2>3 DEF ClosestStep, Precedes, Continues
    <3>2. i' \in 0..NBITS /\ \A l \in (i' + 1)..NBITS : l = i \/ l \in (i + 1)..NBITS
      BY <2>0, <2>3, <3>1, NBITSAssumption
    <3>3. \A l \in (i' + 1)..NBITS : ~ Precedes(l)
      BY <2>0, <2>3, <3>2
    <3>. QED  BY <2>0, <3>1, <3>2, <3>3 DEF ClosestInv, given, Precedes
  <2>. QED  BY <2>1, <2>2, <2>3
<1>2. CASE UNCHANGED vars
  BY <1>2 DEF ClosestInv, vars, Precedes
<1>3. ~ (SetFingersStep \/ InactiveFingersStep \/ InactiveListStep \/ ContactsStep)
  BY DEF SetFingersStep, InactiveFingersStep, InactiveListStep, ContactsStep, Runs, Ends,
      Continues, given
<1>. QED  BY <1>1, <1>2, <1>3 DEF Next

LEMMA ClosestDone == ClosestInv => ClosestAsCoded
<1>. SUFFICES ASSUME ClosestInv, loop = "closestPrecedingFinger", ended
              PROVE  ClosestAsCoded
  BY DEF ClosestAsCoded, Ended
<1>. DEFINE S == {l \in FingerIndex : before[l] # EmptyChordId /\ Belongs(before[l], n, arg.k)}
<1>1. /\ i \in 0..NBITS
      /\ \A l \in (i + 1)..NBITS : ~ Precedes(l)
      /\ \/ value = (IF arg.succ[0] # n THEN arg.succ[0] ELSE EmptyChordId) /\ i = 0
         \/ i \in FingerIndex /\ Precedes(i) /\ value = before[i]
  BY DEF ClosestInv
<1>2. CASE i = 0 /\ value = (IF arg.succ[0] # n THEN arg.succ[0] ELSE EmptyChordId)
  <2>1. S = {}
    BY <1>1, <1>2, NBITSAssumption DEF Precedes, FingerIndex
  <2>. QED  BY <1>2, <2>1 DEF ClosestAsCoded, ClosestPrecedingFinger
<1>3. CASE i \in FingerIndex /\ Precedes(i) /\ value = before[i]
  <2>1. S \in SUBSET Nat /\ i \in S
    BY <1>3, NBITSAssumption DEF FingerIndex, Precedes
  <2>2. ASSUME NEW m \in S  PROVE m =< i
    <3>1. m \notin (i + 1)..NBITS
      BY <1>1 DEF Precedes
    <3>. QED  BY <1>1, <3>1, NBITSAssumption DEF FingerIndex
  <2>3. Max(S) = i
    <3>. HIDE DEF S
    <3>. QED  BY <2>1, <2>2, MaxIs
  <2>4. S # {}
    BY <2>1
  <2>. QED  BY <1>3, <2>3, <2>4 DEF ClosestAsCoded, ClosestPrecedingFinger
<1>. QED  BY <1>1, <1>2, <1>3

LEMMA NearerDone == ClosestInv => FingersGetNearer
<1>. SUFFICES ASSUME ClosestInv, loop = "closestPrecedingFinger", ended,
                     value \in Id, value # arg.succ[0], arg.k # n
              PROVE  Clockwise(value, arg.k) < Clockwise(n, arg.k)
  BY DEF FingersGetNearer, Ended
<1>1. n \in Id /\ arg.k \in Id /\ value # EmptyChordId
  BY IdsAreCells DEF ClosestInv
<1>2. Belongs(value, n, arg.k)
  BY <1>1 DEF ClosestInv, Precedes
<1>. QED  BY <1>1, <1>2, RedirectComesNearer

-----------------------------------------------------------------------------
(* set_node_inactive, the fingers *)
LEMMA NextFingers ==
    ASSUME before \in [FingerIndex -> Cell]
    PROVE  /\ NextFinger(NBITS + 1) = n
           /\ \A k \in FingerIndex :
                NextFinger(k) = IF before[k] # arg.node THEN before[k] ELSE NextFinger(k + 1)
<1>. DEFINE Later(k) == {l \in k..NBITS : before[l] # arg.node}
<1>1. NextFinger(NBITS + 1) = n
  <2>1. Later(NBITS + 1) = {}
    BY NBITSAssumption
  <2>. QED  BY <2>1 DEF NextFinger
<1>2. ASSUME NEW k \in FingerIndex, before[k] # arg.node
      PROVE  NextFinger(k) = before[k]
  <2>1. Later(k) \in SUBSET Nat /\ k \in Later(k) /\ \A l \in Later(k) : k =< l
    BY <1>2, NBITSAssumption DEF FingerIndex
  <2>2. Min(Later(k)) = k
    <3>. HIDE DEF Later
    <3>. QED  BY <2>1, MinIs
  <2>3. Later(k) # {}
    BY <2>1
  <2>. QED  BY <2>2, <2>3 DEF NextFinger
<1>3. ASSUME NEW k \in FingerIndex, before[k] = arg.node
      PROVE  NextFinger(k) = NextFinger(k + 1)
  <2>1. Later(k) = Later(k + 1)
    BY <1>3, NBITSAssumption DEF FingerIndex
  <2>. QED  BY <2>1 DEF NextFinger
<1>. QED  BY <1>1, <1>2, <1>3

LEMMA InactiveFingersInit == Init => InactiveFingersInv
<1>. SUFFICES ASSUME Init, loop = "inactive_fingers"  PROVE InactiveFingersInv
  BY DEF InactiveFingersInv
<1>1. InactiveFingersBegins /\ n \in Id
  BY LocalsAssumption DEF Init, SetFingersBegins, ClosestBegins, InactiveListBegins,
      ContactsBegins, Begins
<1>2. before \in [FingerIndex -> Cell]
  <2>1. NodeIds \cup {EmptyChordId} \subseteq Cell
    BY <1>1, LocalsAssumption, IdsAreCells DEF NodeIds
  <2>. QED  BY <1>1, <2>1 DEF InactiveFingersBegins, Fingers
<1>3. \A k \in FingerIndex : ~ k > NBITS
  BY NBITSAssumption DEF FingerIndex
<1>4. before = [k \in FingerIndex |-> IF k > NBITS THEN NextFinger(k) ELSE before[k]]
  BY <1>2, <1>3
<1>. QED
  BY <1>1, <1>2, <1>4, NextFingers, NBITSAssumption
  DEF InactiveFingersBegins, InactiveFingersInv, Begins

LEMMA InactiveFingersKeeps == InactiveFingersInv /\ [Next]_vars => InactiveFingersInv'
<1>. SUFFICES ASSUME InactiveFingersInv, [Next]_vars, loop' = "inactive_fingers"
              PROVE  InactiveFingersInv'
  BY DEF InactiveFingersInv
<1>0. given' = given => \A k : NextFinger(k)' = NextFinger(k)
  BY DEF NextFinger, given
<1>1. CASE InactiveFingersStep
  <2>0. /\ before \in [FingerIndex -> Cell] /\ i \in 0..NBITS
        /\ now = [k \in FingerIndex |-> IF k > i THEN NextFinger(k) ELSE before[k]]
        /\ value = NextFinger(i + 1)
        /\ ~ ended /\ UNCHANGED given
    BY <1>1 DEF InactiveFingersStep, Runs, InactiveFingersInv, Ends, Continues
  <2>1. CASE i = 0
    BY <1>0, <1>1, <2>0, <2>1 DEF InactiveFingersStep, Ends, InactiveFingersInv, given
  <2>2. CASE i # 0
    <3>1. i \in FingerIndex /\ i' = i - 1 /\ ended' = FALSE /\ now[i] = before[i]
      BY <1>1, <2>0, <2>2, NBITSAssumption DEF InactiveFingersStep, Continues, FingerIndex
    <3>2. i' \in 0..NBITS /\ i' + 1 = i
          /\ \A k \in FingerIndex : k > i' <=> k > i \/ k = i
      BY <2>0, <3>1, NBITSAssumption DEF FingerIndex
    <3>3. value' = NextFinger(i) /\ now' = [now EXCEPT ![i] = NextFinger(i)]
      <4>1. CASE before[i] = arg.node
        <5>1. now' = [now EXCEPT ![i] = value] /\ value' = value
          BY <1>1, <2>2, <3>1, <4>1 DEF InactiveFingersStep
        <5>. QED  BY <2>0, <3>1, <4>1, <5>1, NextFingers
      <4>2. CASE before[i] # arg.node
        <5>1. now' = now /\ value' = before[i]
          BY <1>1, <2>2, <3>1, <4>2 DEF InactiveFingersStep
        <5>2. now = [now EXCEPT ![i] = now[i]]
          BY <2>0
        <5>. QED  BY <2>0, <3>1, <4>2, <5>1, <5>2, NextFingers
      <4>. QED  BY <4>1, <4>2
    <3>4. now' = [k \in FingerIndex |-> IF k > i' THEN NextFinger(k) ELSE before[k]]
      BY <2>0, <3>1, <3>2, <3>3
    <3>. QED  BY <1>0, <2>0, <3>1, <3>2, <3>3, <3>4 DEF InactiveFingersInv, given
  <2>. QED  BY <2>1, <2>2
<1>2. CASE UNCHANGED vars
  BY <1>0, <1>2 DEF InactiveFingersInv, vars, given
<1>3. ~ (SetFingersStep \/ ClosestStep \/ InactiveListStep \/ ContactsStep)
  BY DEF SetFingersStep, ClosestStep, InactiveListStep, ContactsStep, Runs, Ends,
      Continues, given
<1>. QED  BY <1>1, <1>2, <1>3 DEF Next

LEMMA InactiveFingersDone == InactiveFingersInv => InactiveFingersAsCoded
<1>. SUFFICES ASSUME InactiveFingersInv, loop = "inactive_fingers", ended
              PROVE  now = FingersWithout(n, before, arg.node)
  BY DEF InactiveFingersAsCoded, Ended
<1>1. now = [k \in FingerIndex |-> IF k > 0 THEN NextFinger(k) ELSE before[k]]
  BY DEF InactiveFingersInv
<1>2. \A k \in FingerIndex : k > 0
  BY NBITSAssumption DEF FingerIndex
<1>. QED  BY <1>1, <1>2 DEF FingersWithout, NextFinger

-----------------------------------------------------------------------------
(* setSuccListWithContacts *)
LEMMA ContactsInit == Init => ContactsInv
<1>. SUFFICES ASSUME Init, loop = "contacts"  PROVE ContactsInv
  BY DEF ContactsInv
<1>1. ContactsBegins
  BY DEF Init, SetFingersBegins, ClosestBegins, InactiveFingersBegins, InactiveListBegins, Begins
<1>2. arg.first \in {0, 1} /\ i = arg.first /\ j = 0 /\ now = ClearSuccList(before) /\ ~ ended
  BY <1>1 DEF ContactsBegins, Begins
<1>3. arg.first..(i - 1) = {} /\ arg.first..(i - 2) = {} /\ i \in arg.first..(NSUCCLIST + 1)
      /\ j = i - arg.first
  BY <1>2, NSUCCLISTAssumption
<1>4. now = [k \in 0..NSUCCLIST |-> ClearSuccList(before)[k]]
  BY <1>2 DEF ClearSuccList
<1>. QED  BY <1>2, <1>3, <1>4 DEF ContactsInv

LEMMA ContactsKeeps == ContactsInv /\ [Next]_vars => ContactsInv'
<1>. SUFFICES ASSUME ContactsInv, [Next]_vars, loop' = "contacts"
              PROVE  ContactsInv'
  BY DEF ContactsInv
<1>1. CASE ContactsStep
  <2>. DEFINE a == arg.first
              C == arg.contacts
  <2>0. /\ a \in {0, 1} /\ i \in a..(NSUCCLIST + 1) /\ j = i - a
        /\ now = [k \in 0..NSUCCLIST |->
                    IF k + a \in a..(i - 1) THEN C[k + a] ELSE ClearSuccList(before)[k]]
        /\ \A h \in a..(i - 1) : C[h] # EmptyChordId
        /\ \A h \in a..(i - 2) : C[h] # n
        /\ ~ (i > a /\ C[i - 1] = n)
        /\ ~ ended /\ UNCHANGED given
    BY <1>1 DEF ContactsStep, Runs, ContactsInv, Ends, given
  <2>1. CASE i > NSUCCLIST \/ C[i] = EmptyChordId
    <3>1. Ends
      BY <1>1, <2>1 DEF ContactsStep
    <3>. QED  BY <2>0, <2>1, <3>1 DEF ContactsInv, Ends, given
  <2>2. CASE ~ (i > NSUCCLIST \/ C[i] = EmptyChordId)
    <3>1. /\ now' = [now EXCEPT ![j] = C[i]] /\ ended' = (C[i] = n)
          /\ i' = i + 1 /\ j' = j + 1
      BY <1>1, <2>2 DEF ContactsStep
    <3>2. i \in Nat /\ i' \in a..(NSUCCLIST + 1) /\ j' = i' - a /\ j \in 0..NSUCCLIST
      BY <2>0, <2>2, <3>1, NSUCCLISTAssumption
    <3>3. \A h \in a..(i' - 1) : h = i \/ h \in a..(i - 1)
      BY <3>1, <3>2, <2>0
    <3>4. \A h \in a..(i' - 2) : h \in a..(i - 2) \/ (h = i - 1 /\ i > a)
      BY <3>1, <3>2, <2>0
    <3>5. now' = [k \in 0..NSUCCLIST |->
                    IF k + a \in a..(i' - 1) THEN C[k + a] ELSE ClearSuccList(before)[k]]
      <4>1. \A k \in 0..NSUCCLIST :
              /\ k + a \in a..(i' - 1) <=> k + a \in a..(i - 1) \/ k = j
              /\ k = j => k + a = i
        BY <2>0, <3>1, <3>2, NSUCCLISTAssumption
      <4>2. now' = [k \in 0..NSUCCLIST |-> IF k = j THEN C[i] ELSE now[k]]
        BY <2>0, <3>1
      <4>. QED  BY <2>0, <4>1, <4>2
    <3>6. i' - 1 = i /\ i' > a
      BY <3>1, <3>2, <2>0
    <3>7. \A h \in a..(i' - 1) : C[h] # EmptyChordId
      BY <2>0, <2>2, <3>3
    <3>8. \A h \in a..(i' - 2) : C[h] # n
      BY <2>0, <3>4
    <3>. QED  BY <2>0, <3>1, <3>2, <3>5, <3>6, <3>7, <3>8 DEF ContactsInv, given
  <2>. QED  BY <2>1, <2>2
<1>2. CASE UNCHANGED vars
  BY <1>2 DEF ContactsInv, vars
<1>3. ~ (SetFingersStep \/ ClosestStep \/ InactiveListStep \/ InactiveFingersStep)
  BY DEF SetFingersStep, ClosestStep, InactiveListStep, InactiveFingersStep, Runs, Ends,
      Continues, given
<1>. QED  BY <1>1, <1>2, <1>3 DEF Next

LEMMA ContactsDone == ContactsInv => ContactsAsCoded
<1>. SUFFICES ASSUME ContactsInv, loop = "contacts", ended
              PROVE  now = SetSuccListWithContacts(n, before, arg.contacts, arg.first)
  BY DEF ContactsAsCoded, Ended
<1>. DEFINE a == arg.first
            C == arg.contacts
            copied == {k \in a..NSUCCLIST :
                          /\ \A h \in a..k : C[h] # EmptyChordId
                          /\ \A h \in a..(k - 1) : C[h] # n}
<1>0. /\ a \in {0, 1} /\ i \in a..(NSUCCLIST + 1)
      /\ now = [k \in 0..NSUCCLIST |->
                    IF k + a \in a..(i - 1) THEN C[k + a] ELSE ClearSuccList(before)[k]]
      /\ \A h \in a..(i - 1) : C[h] # EmptyChordId
      /\ \A h \in a..(i - 2) : C[h] # n
      /\ i > NSUCCLIST \/ C[i] = EmptyChordId \/ (i > a /\ C[i - 1] = n)
  BY DEF ContactsInv
<1>1. ASSUME NEW k \in a..(i - 1)  PROVE k \in copied
  <2>1. k \in a..NSUCCLIST /\ a..k \subseteq a..(i - 1) /\ a..(k - 1) \subseteq a..(i - 2)
    BY <1>0, NSUCCLISTAssumption
  <2>. QED  BY <1>0, <2>1
<1>2. ASSUME NEW k \in copied  PROVE k \in a..(i - 1)
  <2>. SUFFICES ASSUME k >= i  PROVE FALSE
    BY <1>0, NSUCCLISTAssumption
  <2>1. i \in a..k /\ (i > a => i - 1 \in a..(k - 1)) /\ ~ i > NSUCCLIST
    BY <1>0, NSUCCLISTAssumption
  <2>. QED  BY <1>0, <2>1
<1>3. \A k : k + a \in a..(i - 1) <=> k + a \in copied
  BY <1>1, <1>2
<1>4. now = [k \in 0..NSUCCLIST |->
               IF k + a \in copied THEN C[k + a] ELSE ClearSuccList(before)[k]]
  <2>. HIDE DEF copied
  <2>. QED  BY <1>0, <1>3
<1>. QED  BY <1>4 DEF SetSuccListWithContacts

-----------------------------------------------------------------------------
(* set_node_inactive, the list *)
LEMMA InactiveListInit == Init => InactiveListInv
<1>. SUFFICES ASSUME Init, loop = "inactive_list"  PROVE InactiveListInv
  BY DEF InactiveListInv
<1>1. InactiveListBegins /\ n \in Id
  BY LocalsAssumption DEF Init, SetFingersBegins, ClosestBegins, InactiveFingersBegins,
      ContactsBegins, Begins
<1>2. before \in [0..NSUCCLIST -> Cell]
  <2>1. NodeIds \cup {EmptyChordId, LocalnodeWord} \subseteq Cell
    BY <1>1, LocalsAssumption, IdsAreCells DEF NodeIds, Cell
  <2>. QED  BY <1>1, <2>1 DEF InactiveListBegins, Lists
<1>3. arg.node \in Id
  BY <1>1, LocalsAssumption DEF InactiveListBegins
<1>4. now = before /\ i = 0 /\ ended = FALSE /\ Searched
  BY <1>1 DEF InactiveListBegins, Begins, Searched
<1>. QED  BY <1>1, <1>2, <1>3, <1>4, NSUCCLISTAssumption DEF InactiveListInv

(* The node is in cell i and takes its right neighbour's place. *)
LEMMA InactiveListShifts ==
    ASSUME before \in [0..NSUCCLIST -> Cell], arg.node \in Id, n \in Id,
           i \in 0..(NSUCCLIST - 1), NEW f \in 0..i, Carried(f, i),
           now = Shifted(f, i, arg.node), i < SuccNum(now), InactiveListStep
    PROVE  InactiveListInv'
<1>. DEFINE next == before[i + 1]
<1>0. i + 1 \in 0..NSUCCLIST /\ i \in 0..NSUCCLIST /\ i \in Nat /\ f \in Nat /\ f <= i
  BY NSUCCLISTAssumption
<1>1. now[i] = arg.node /\ now[i + 1] = next
  BY <1>0 DEF Shifted
<1>2. \A k \in 0..NSUCCLIST :
        /\ (k \in f..((i + 1) - 1) <=> k \in f..(i - 1) \/ k = i)
        /\ (k \in f..(i - 1) => k # i /\ k # i + 1)
  BY <1>0
<1>3. ASSUME NEW x
      PROVE  /\ [now EXCEPT ![i] = next, ![i + 1] = x] = Shifted(f, i + 1, x)
             /\ next = x => [now EXCEPT ![i] = next] = Shifted(f, i + 1, x)
  BY <1>0, <1>2 DEF Shifted
<1>4. /\ UNCHANGED given
      /\ now' = CASE next = EmptyChordId -> [now EXCEPT ![i] = next]
                   [] next = n -> [now EXCEPT ![i] = next, ![i + 1] = EmptyChordId]
                   [] OTHER    -> [now EXCEPT ![i] = next, ![i + 1] = arg.node]
      /\ ended' = (next \in {EmptyChordId, n})
      /\ i' = IF next \in {EmptyChordId, n} THEN i ELSE i + 1
  <2>1. ~ i >= SuccNum(now)
    BY <1>0, SuccNumFacts, NSUCCLISTAssumption
  <2>. QED  BY <1>1, <2>1 DEF InactiveListStep
<1>5. \A g, l : Carried(g, l)' <=> Carried(g, l)
  BY <1>4 DEF Carried, given
<1>6. \A g, l, x : Shifted(g, l, x)' = Shifted(g, l, x)
  BY <1>4 DEF Shifted, given
<1>7. CASE next \in {EmptyChordId, n}
  <2>1. now' = Shifted(f, i + 1, EmptyChordId) /\ i' = i /\ ended'
    BY <1>3, <1>4, <1>7
  <2>2. f \in 0..i' /\ i' < NSUCCLIST
    BY <2>1, <1>0, NSUCCLISTAssumption
  <2>. QED
    BY <1>0, <1>4, <1>5, <1>6, <1>7, <2>1, <2>2 DEF InactiveListInv, given
<1>8. CASE next \notin {EmptyChordId, n}
  <2>1. now' = Shifted(f, i + 1, arg.node) /\ i' = i + 1 /\ ~ ended'
    <3>1. next # EmptyChordId /\ next # n
      BY <1>8
    <3>2. now' = [now EXCEPT ![i] = next, ![i + 1] = arg.node]
      BY <1>4, <3>1
    <3>3. [now EXCEPT ![i] = next, ![i + 1] = arg.node] = Shifted(f, i + 1, arg.node)
      BY <1>3
    <3>4. i' = i + 1
      BY <1>4, <1>8
    <3>5. ~ ended'
      BY <1>4, <1>8
    <3>. QED  BY <3>2, <3>3, <3>4, <3>5
  <2>2. Carried(f, i + 1)
    <3>1. \A k \in f..((i + 1) - 1) : k = i \/ k \in f..(i - 1)
      BY <1>0
    <3>2. i + 1 \in f..NSUCCLIST
      BY <1>0
    <3>. QED  BY <1>8, <3>1, <3>2 DEF Carried
  <2>3. f \in 0..(i' - 1)
    BY <1>0, <2>1
  <2>. QED
    BY <1>0, <1>4, <1>5, <1>6, <2>1, <2>2, <2>3 DEF InactiveListInv, given
<1>. QED  BY <1>7, <1>8

LEMMA InactiveListKeeps == InactiveListInv /\ [Next]_vars => InactiveListInv'
<1>. SUFFICES ASSUME InactiveListInv, [Next]_vars, loop' = "inactive_list"
              PROVE  InactiveListInv'
  BY DEF InactiveListInv
<1>0. given' = given => /\ \A f, l : Carried(f, l)' <=> Carried(f, l)
                        /\ \A f, l, x : Shifted(f, l, x)' = Shifted(f, l, x)
  BY DEF Carried, Shifted, given
<1>1. CASE InactiveListStep
  <2>0. /\ before \in [0..NSUCCLIST -> Cell] /\ arg.node \in Id /\ n \in Id
        /\ i \in 0..NSUCCLIST /\ ~ ended /\ UNCHANGED given
        /\ \/ Searched /\ now = before
           \/ \E f \in 0..(i - 1) : Carried(f, i) /\ now = Shifted(f, i, arg.node)
    BY <1>1 DEF InactiveListStep, Runs, InactiveListInv, Ends, Continues, given
  <2>1. CASE Searched /\ now = before
    <3>1. CASE i >= SuccNum(before)
      <4>1. Ends
        BY <1>1, <2>1, <3>1 DEF InactiveListStep
      <4>. QED  BY <2>0, <2>1, <3>1, <4>1 DEF InactiveListInv, Ends, given, Searched
    <3>2. CASE ~ i >= SuccNum(before)
      <4>1. /\ i \in 0..(NSUCCLIST - 1) /\ i < SuccNum(before)
            /\ before[i] # EmptyChordId
        <5>1. i < SuccNum(before) /\ i \in 0..(SuccNum(before) - 1)
          BY <2>0, <3>2, SuccNumFacts, NSUCCLISTAssumption
        <5>. QED  BY <2>0, <5>1, SuccNumFacts, NSUCCLISTAssumption
      <4>2. CASE before[i] # arg.node
        <5>1. i' = i + 1 /\ now' = now /\ ended' = FALSE
          BY <1>1, <2>1, <3>2, <4>2 DEF InactiveListStep, Continues
        <5>2. \A l \in 0..(i' - 1) : l = i \/ l \in 0..(i - 1)
          BY <2>0, <5>1
        <5>3. i' \in 0..NSUCCLIST
          BY <4>1, <5>1, NSUCCLISTAssumption
        <5>. QED
          BY <2>0, <2>1, <4>1, <4>2, <5>1, <5>2, <5>3 DEF InactiveListInv, given, Searched
      <4>3. CASE before[i] = arg.node
        <5>1. Carried(i, i)
          BY <2>0, <2>1, <4>1, <4>3 DEF Carried, Searched
        <5>2. now = Shifted(i, i, arg.node)
          BY <2>0, <2>1, <4>3 DEF Shifted
        <5>3. i \in 0..i
          BY <4>1
        <5>. QED  BY <1>1, <2>0, <2>1, <4>1, <5>1, <5>2, <5>3, InactiveListShifts
      <4>. QED  BY <4>2, <4>3
    <3>. QED  BY <3>1, <3>2
  <2>2. ASSUME NEW f \in 0..(i - 1), Carried(f, i), now = Shifted(f, i, arg.node)
        PROVE  InactiveListInv'
    <3>1. \A k \in 0..i : now[k] # EmptyChordId
      <4>1. ASSUME NEW k \in 0..i  PROVE now[k] # EmptyChordId
        <5>1. k \in 0..NSUCCLIST /\ (k \in 0..(f - 1) \/ k \in f..(i - 1) \/ k = i)
          BY <2>0, NSUCCLISTAssumption
        <5>2. k \in 0..(f - 1) => k \notin f..(i - 1) /\ k # i
          BY <2>0, <2>2
        <5>3. k = i => k \notin f..(i - 1)
          BY <2>0
        <5>. QED  BY <2>0, <2>2, <5>1, <5>2, <5>3, IdsAreCells DEF Carried, Shifted
      <4>. QED  BY <4>1
    <3>2. i < NSUCCLIST => i < SuccNum(now)
      BY <2>0, <3>1, SuccNumFacts, NSUCCLISTAssumption
    <3>3. CASE i = NSUCCLIST
      <4>1. i >= SuccNum(now)
        BY <3>3, SuccNumFacts, NSUCCLISTAssumption
      <4>2. Ends
        BY <1>1, <4>1 DEF InactiveListStep
      <4>. QED  BY <1>0, <2>0, <2>2, <3>3, <4>2 DEF InactiveListInv, Ends, given
    <3>4. CASE i < NSUCCLIST
      <4>1. i \in 0..(NSUCCLIST - 1) /\ f \in 0..i
        BY <2>0, <3>4, NSUCCLISTAssumption
      <4>. QED  BY <1>1, <2>0, <2>2, <3>2, <3>4, <4>1, InactiveListShifts
    <3>. QED  BY <2>0, <3>3, <3>4, NSUCCLISTAssumption
  <2>. QED  BY <2>0, <2>1, <2>2
<1>2. CASE UNCHANGED vars
  BY <1>0, <1>2 DEF InactiveListInv, vars, given, Searched
<1>3. ~ (SetFingersStep \/ ClosestStep \/ InactiveFingersStep \/ ContactsStep)
  BY DEF SetFingersStep, ClosestStep, InactiveFingersStep, ContactsStep, Runs, Ends,
      Continues, given
<1>. QED  BY <1>1, <1>2, <1>3 DEF Next

(* The closed form, when the node is first met at f and the list is moved  *)
(* up to cell l.                                                           *)
LEMMA WithoutNode ==
    ASSUME before \in [0..NSUCCLIST -> Cell], arg.node \in Id,
           NEW l \in 0..(NSUCCLIST - 1), NEW f \in 0..l, Carried(f, l),
           l = NSUCCLIST - 1 \/ before[l + 1] \in {EmptyChordId, n}
    PROVE  SuccListWithout(n, before, arg.node)
             = Shifted(f, l + 1, IF before[l + 1] \in {EmptyChordId, n} THEN EmptyChordId
                                 ELSE arg.node)
<1>. DEFINE at == {k \in 0..(SuccNum(before) - 1) : before[k] = arg.node}
            T  == {k \in f..(NSUCCLIST - 1) :
                        k = NSUCCLIST - 1 \/ before[k + 1] \in {EmptyChordId, n}}
<1>0. f \in Nat /\ l \in Nat /\ f <= l /\ l < NSUCCLIST /\ NSUCCLIST \in Nat
  BY NSUCCLISTAssumption
<1>1. f \in at
  <2>1. \A k \in 0..f : before[k] # EmptyChordId
    <3>1. \A k \in 0..f : k \in 0..(f - 1) \/ k = f
      BY <1>0
    <3>. QED  BY <3>1, IdsAreCells DEF Carried
  <2>2. f < SuccNum(before)
    BY <1>0, <2>1, SuccNumFacts
  <2>. QED  BY <1>0, <2>2, SuccNumFacts DEF Carried
<1>2. \A k \in at : f =< k
  <2>. SUFFICES ASSUME NEW k \in at, k < f  PROVE FALSE
    BY <1>0, SuccNumFacts
  <2>1. k \in 0..(f - 1)
    BY <1>0, SuccNumFacts
  <2>. QED  BY <2>1 DEF Carried
<1>3. Min(at) = f
  <2>1. at \in SUBSET Nat
    BY SuccNumFacts, NSUCCLISTAssumption
  <2>. HIDE DEF at
  <2>. QED  BY <1>1, <1>2, <2>1, MinIs
<1>4. Min(T) = l
  <2>1. T \in SUBSET Nat /\ l \in T
    BY <1>0
  <2>2. \A k \in T : l =< k
    <3>. SUFFICES ASSUME NEW k \in T, k < l  PROVE FALSE
      BY <1>0
    <3>1. k \in f..(l - 1) /\ k # NSUCCLIST - 1
      BY <1>0
    <3>. QED  BY <3>1 DEF Carried
  <2>. HIDE DEF T
  <2>. QED  BY <2>1, <2>2, MinIs
<1>5. SuccListWithout(n, before, arg.node)
        = [k \in 0..NSUCCLIST |->
             IF k \in f..l THEN before[k + 1]
             ELSE IF k # l + 1 THEN before[k]
             ELSE IF before[k] \in {EmptyChordId, n} THEN EmptyChordId ELSE arg.node]
  BY <1>1, <1>3, <1>4 DEF SuccListWithout
<1>6. \A k \in 0..NSUCCLIST : k \in f..l <=> k \in f..((l + 1) - 1)
  BY <1>0
<1>. QED  BY <1>5, <1>6 DEF Shifted

LEMMA InactiveListDone == InactiveListInv => InactiveListAsCoded
<1>. SUFFICES ASSUME InactiveListInv, loop = "inactive_list", ended
              PROVE  now = SuccListWithout(n, before, arg.node)
  BY DEF InactiveListAsCoded, Ended
<1>0. /\ before \in [0..NSUCCLIST -> Cell] /\ arg.node \in Id /\ i \in 0..NSUCCLIST
      /\ NSUCCLIST \in Nat /\ NSUCCLIST >= 2
  BY NSUCCLISTAssumption DEF InactiveListInv
<1>1. CASE Searched /\ now = before /\ i >= SuccNum(before)
  <2>1. {k \in 0..(SuccNum(before) - 1) : before[k] = arg.node} = {}
    BY <1>0, <1>1, SuccNumFacts DEF Searched
  <2>. QED  BY <1>1, <2>1 DEF SuccListWithout
<1>2. ASSUME NEW f \in 0..(i - 1), Carried(f, i), now = Shifted(f, i, arg.node),
             i = NSUCCLIST
      PROVE  now = SuccListWithout(n, before, arg.node)
  <2>1. Carried(f, i - 1) /\ i - 1 \in 0..(NSUCCLIST - 1) /\ f \in 0..(i - 1)
    BY <1>0, <1>2 DEF Carried
  <2>2. (i - 1) + 1 = i /\ before[i] \notin {EmptyChordId, n}
    <3>1. i - 1 \in f..(i - 1)
      BY <1>0, <1>2
    <3>. QED  BY <1>0, <1>2, <3>1 DEF Carried
  <2>. QED  BY <1>0, <1>2, <2>1, <2>2, WithoutNode
<1>3. ASSUME NEW f \in 0..i, i < NSUCCLIST, Carried(f, i),
             now = Shifted(f, i + 1, EmptyChordId), before[i + 1] \in {EmptyChordId, n}
      PROVE  now = SuccListWithout(n, before, arg.node)
  <2>1. i \in 0..(NSUCCLIST - 1)
    BY <1>0, <1>3
  <2>. QED  BY <1>0, <1>3, <2>1, WithoutNode
<1>. QED  BY <1>1, <1>2, <1>3 DEF InactiveListInv

-----------------------------------------------------------------------------
(* What holds before each iteration of each loop.                          *)
LEMMA LoopInductive == Spec => []LoopInv
<1>1. Init => LoopInv
  BY SetFingersInit, ClosestInit, InactiveFingersInit, InactiveListInit, ContactsInit DEF LoopInv
<1>2. LoopInv /\ [Next]_vars => LoopInv'
  BY SetFingersKeeps, ClosestKeeps, InactiveFingersKeeps, InactiveListKeeps, ContactsKeeps
  DEF LoopInv
<1>. QED  BY <1>1, <1>2, PTL DEF Spec

(* Set_Fingers leaves the fingers of its closed form and returns the last  *)
(* finger it wrote (Node::Set_Fingers).                                    *)
THEOREM SetFingersComputes == Spec => []SetFingersAsCoded
BY LoopInductive, SetFingersDone, PTL DEF LoopInv

(* closestPrecedingFinger returns the highest finger that precedes the     *)
(* position, or the first successor (Node::closestPrecedingFinger).        *)
THEOREM ClosestComputes == Spec => []ClosestAsCoded
BY LoopInductive, ClosestDone, PTL DEF LoopInv

(* A finger it returns is nearer to the position than the node itself.     *)
THEOREM FingersAreNearer == Spec => []FingersGetNearer
BY LoopInductive, NearerDone, PTL DEF LoopInv

(* set_node_inactive gives each finger on the node the next one that is    *)
(* not (Node::set_node_inactive, the first loop).                          *)
THEOREM InactiveFingersComputes == Spec => []InactiveFingersAsCoded
BY LoopInductive, InactiveFingersDone, PTL DEF LoopInv

(* set_node_inactive moves the list up over the node, and writes the node  *)
(* behind a full list (Node::set_node_inactive, the second loop).          *)
THEOREM InactiveListComputes == Spec => []InactiveListAsCoded
BY LoopInductive, InactiveListDone, PTL DEF LoopInv

(* setSuccListWithContacts copies the contacts up to the node's own or to  *)
(* cell NSUCCLIST, one behind the list (Node::setSuccListWithContacts).    *)
THEOREM ContactsCompute == Spec => []ContactsAsCoded
BY LoopInductive, ContactsDone, PTL DEF LoopInv
=============================================================================

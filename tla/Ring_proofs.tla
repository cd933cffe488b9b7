----------------------------- MODULE Ring_proofs -----------------------------
(***************************************************************************)
(* The properties of every step of the overlay, proved for every number of *)
(* nodes, users and inputs, and for every loss of messages.                *)
(*                                                                         *)
(* One inductive invariant, IInv, carries them: the variables have their   *)
(* types, a node in NormalState knows a predecessor, and every transaction *)
(* is one the handlers can cope with (Sound).                              *)
(***************************************************************************)
EXTENDS Ring, FingerTable_proofs

NodesOK ==
    /\ kind \in [Nodes -> Kinds]
    /\ inc \in [Nodes -> Nat]
    /\ finger \in [Nodes -> [FingerIndex -> Cell]]
    /\ succ \in [Nodes -> [0..NSUCCLIST -> Cell]]
    /\ pred \in [Nodes -> Cell]
    /\ bootstrap \in [Nodes -> Cell]
    /\ RecordLists(users)
    /\ RecordLists(red)
    /\ local \in [Nodes -> SUBSET Users]
    /\ ops \in [Operations -> Nat]

(* What the handlers rely on: a JOIN and a STABILIZE reach only the node   *)
(* their To header names; a message whose predecessor its receiver adopts  *)
(* carries one; a JOIN is not redirected; a STABILIZE answer is up to date *)
(* with its request.                                                       *)
Sound(t) ==
    /\ t.type \in {"join", "stabilize"} => t.dst \subseteq {t.to}
    /\ t.type = "join" => t.phase # "redirect"
    /\ t.type = "leave" => t.phase = "request"
    /\ t.type = "leave" \/ (t.type \in {"join", "stabilize"} /\ t.phase = "ok")
         => t.predecessor # EmptyChordId
    /\ t.type = "stabilize" /\ t.phase = "ok" /\ t.predecessor \in Id
         => t.predecessor = t.src \/ Belongs(t.predecessor, t.src, t.to)

Fine == {t \in Transaction : Sound(t)}

(* Joined: it has the neighbours the answer to its JOIN named.             *)
NeighbourKnown ==
    \A n \in Nodes : kind[n] \in {"FTComputing", "Normal"} => pred[n] # EmptyChordId

IInv == NodesOK /\ NeighbourKnown /\ DOMAIN net \subseteq Fine

-----------------------------------------------------------------------------
(* Bags and transactions. *)

(* The transactions of a sum, a difference and a set. *)
LEMMA BagDomains ==
    /\ \A B, C : DOMAIN (B (+) C) = DOMAIN B \cup DOMAIN C
    /\ \A B, C : DOMAIN (B (-) C) \subseteq DOMAIN B
    /\ \A S : DOMAIN SetToBag(S) = S
    /\ DOMAIN EmptyBag = {}
<1>1. ASSUME NEW B, NEW C  PROVE DOMAIN (B (+) C) = DOMAIN B \cup DOMAIN C
  BY DEF (+)
<1>2. ASSUME NEW B, NEW C  PROVE DOMAIN (B (-) C) \subseteq DOMAIN B
  BY DEF (-)
<1>3. ASSUME NEW S  PROVE DOMAIN SetToBag(S) = S
  BY DEF SetToBag
<1>. QED  BY <1>1, <1>2, <1>3 DEF EmptyBag

(* Bag C has one e less than bag B. *)
Less(B, e, C) ==
    /\ IsABag(B) /\ IsABag(C)
    /\ e \in DOMAIN B /\ DOMAIN C \subseteq DOMAIN B
    /\ \A p \in DOMAIN B : p # e => p \in DOMAIN C /\ C[p] = B[p]
    /\ e \in DOMAIN C => C[e] = B[e] - 1
    /\ e \notin DOMAIN C => B[e] = 1

(* One transaction is taken out. *)
LEMMA BagLess ==
    ASSUME NEW B, IsABag(B), NEW e \in DOMAIN B
    PROVE  Less(B, e, B (-) SetToBag({e}))
<1>. DEFINE C == B (-) SetToBag({e})
<1>. DEFINE D == [p \in DOMAIN B |-> IF p = e THEN B[p] - 1 ELSE B[p]]
<1>1. DOMAIN SetToBag({e}) = {e} /\ SetToBag({e})[e] = 1
  BY DEF SetToBag
<1>2. D = [p \in DOMAIN B |-> IF p \in DOMAIN SetToBag({e})
                              THEN B[p] - SetToBag({e})[p] ELSE B[p]]
  BY <1>1
<1>3. C = [p \in {d \in DOMAIN D : D[d] > 0} |-> D[p]]
  BY <1>2 DEF (-)
<1>. HIDE DEF C
<1>4. \A p \in DOMAIN B : B[p] \in Nat /\ B[p] > 0
  BY DEF IsABag
<1>5. /\ DOMAIN D = DOMAIN B
      /\ \A p \in DOMAIN B : D[p] = (IF p = e THEN B[p] - 1 ELSE B[p])
  OBVIOUS
<1>. HIDE DEF D
<1>6. DOMAIN C = {d \in DOMAIN D : D[d] > 0} /\ \A p \in DOMAIN C : C[p] = D[p]
  BY <1>3
<1>7. \A p \in DOMAIN C : C[p] \in {l \in Nat : l > 0}
  BY <1>4, <1>5, <1>6
<1>8. C = [p \in DOMAIN C |-> C[p]]
  BY <1>3
<1>9. IsABag(C)
  BY <1>7, <1>8 DEF IsABag
<1>10. Less(B, e, C)
  BY <1>4, <1>5, <1>6, <1>9 DEF Less
<1>. QED  BY <1>10 DEF C

(* A transaction that ends leaves nothing but its replacement. *)
LEMMA ReplaceDomain ==
    ASSUME NEW t, NEW ts, Replace(t, ts)
    PROVE  DOMAIN net' \subseteq DOMAIN net \cup DOMAIN ts
<1>1. net' = (net (-) SetToBag({t})) (+) ts
  BY DEF Replace
<1>2. DOMAIN net' = DOMAIN (net (-) SetToBag({t})) \cup DOMAIN ts
  BY <1>1, BagDomains, Zenon
<1>3. DOMAIN (net (-) SetToBag({t})) \subseteq DOMAIN net
  BY BagDomains, Zenon
<1>. QED  BY <1>2, <1>3

(* The state of a node, by the type invariant. *)
LEMMA NodeFacts ==
    ASSUME NodesOK, NEW n \in Nodes
    PROVE  /\ n \in Id /\ n \in Cell /\ n # EmptyChordId
           /\ inc[n] \in Nat /\ kind[n] \in Kinds
           /\ finger[n] \in [FingerIndex -> Cell]
           /\ succ[n] \in [0..NSUCCLIST -> Cell]
           /\ succ[n][0] \in Cell /\ succ[n][1] \in Cell
           /\ pred[n] \in Cell
           /\ RecordList(users[n]) /\ RecordList(red[n])
           /\ DOMAIN users[n] \subseteq Users /\ DOMAIN red[n] \subseteq Users
<1>1. RecordList(users[n]) /\ RecordList(red[n])
  BY DEF NodesOK, RecordLists
<1>2. DOMAIN users[n] \subseteq Users /\ DOMAIN red[n] \subseteq Users
  BY <1>1 DEF RecordList
<1>. QED  BY <1>1, <1>2, NodesAssumption, IdsAreCells, NSUCCLISTAssumption DEF NodesOK

(* The parts of a transaction. *)
LEMMA TransactionFacts ==
    ASSUME NEW t \in Fine
    PROVE  /\ t.src \in Nodes /\ t.dst \subseteq Nodes /\ t.inc \in Nat
           /\ t.type \in Types /\ t.phase \in Phases
           /\ t.contacts \in [0..NSUCCLIST -> Cell]
           /\ t.contacts[0] \in Cell /\ t.contacts[1] \in Cell
           /\ t.predecessor \in Cell
           /\ t.type \notin UserTypes => t.to \in Cell
           /\ t.type \in UserTypes => t.to \in Users
           /\ Sound(t)
BY NSUCCLISTAssumption DEF Fine, Transaction, TransactionOf, Types, UserTypes

(* A transaction that changes its phase and its answer keeps its kind. *)
LEMMA TransactionUpdate ==
    ASSUME NEW t \in Transaction, NEW phase \in Phases, NEW dst \in SUBSET Nodes,
           NEW contacts \in [0..NSUCCLIST -> Cell], NEW p \in Cell
    PROVE  [t EXCEPT !.phase = phase, !.dst = dst,
                     !.contacts = contacts, !.predecessor = p] \in Transaction
BY DEF Transaction, TransactionOf

(* A request without contacts has empty ones. *)
LEMMA NoContactsType == NoContacts \in [0..NSUCCLIST -> Cell]
BY IdsAreCells DEF NoContacts

(* Every request but LEAVE, whatever node it is for, is sound. *)
LEMMA RequestFine ==
    ASSUME NodesOK, NEW n \in Nodes, NEW type \in Types \ {"leave"}, NEW target, NEW to,
           type \in UserTypes => to \in Users,
           type \notin UserTypes => to \in Cell,
           type \in {"join", "stabilize"} => to = target
    PROVE  Request(type, n, target, to) \in Fine
<1>. DEFINE t == Request(type, n, target, to)
<1>1. t = [type |-> type, phase |-> "request", src |-> n, inc |-> inc[n],
           dst |-> {target} \cap Nodes, to |-> to,
           contacts |-> NoContacts, predecessor |-> EmptyChordId]
  BY DEF Request
<1>2. ASSUME type \in UserTypes  PROVE t \in Transaction
  <2>1. t \in TransactionOf(UserTypes, Users)
    BY <1>1, <1>2, NodeFacts, NoContactsType, IdsAreCells DEF TransactionOf, Phases
  <2>. QED  BY <2>1 DEF Transaction
<1>3. ASSUME type \notin UserTypes  PROVE t \in Transaction
  <2>1. t \in TransactionOf(Types \ UserTypes, Cell)
    BY <1>1, <1>3, NodeFacts, NoContactsType, IdsAreCells DEF TransactionOf, Phases
  <2>. QED  BY <2>1 DEF Transaction
<1>4. Sound(t)
  BY <1>1 DEF Sound
<1>. QED  BY <1>2, <1>3, <1>4 DEF Fine

(* A LEAVE that carries a predecessor is sound. *)
LEMMA LeaveRequestFine ==
    ASSUME NodesOK, NEW n \in Nodes, NEW target, NEW to \in Cell,
           NEW s \in [0..NSUCCLIST -> Cell], NEW p \in Cell, p # EmptyChordId
    PROVE  LeaveRequest(n, target, to, s, p) \in Fine
<1>. DEFINE t == LeaveRequest(n, target, to, s, p)
<1>1. ContactsOf(n, s, TRUE) \in [0..NSUCCLIST -> Cell]
  BY NodeFacts, ContactsOfType
<1>2. t = [type |-> "leave", phase |-> "request", src |-> n, inc |-> inc[n],
           dst |-> {target} \cap Nodes, to |-> to,
           contacts |-> ContactsOf(n, s, TRUE), predecessor |-> p]
  <2>. DEFINE r == [type |-> "leave", phase |-> "request", src |-> n, inc |-> inc[n],
                    dst |-> {target} \cap Nodes, to |-> to,
                    contacts |-> NoContacts, predecessor |-> EmptyChordId]
  <2>1. t = [r EXCEPT !.contacts = ContactsOf(n, s, TRUE), !.predecessor = p]
    BY DEF LeaveRequest, Request
  <2>. HIDE DEF t
  <2>. QED  BY <2>1
<1>3. t \in TransactionOf(Types \ UserTypes, Cell)
  <2>. HIDE DEF t
  <2>. QED  BY <1>1, <1>2, NodeFacts DEF TransactionOf, Phases, Types, UserTypes
<1>4. Sound(t)
  BY <1>2 DEF Sound
<1>. QED  BY <1>3, <1>4 DEF Fine, Transaction

(* Requests for records are sound. *)
LEMMA UserRequestsFine ==
    ASSUME NodesOK, NEW n \in Nodes, NEW type \in UserTypes, NEW target,
           NEW list, DOMAIN list \subseteq Users
    PROVE  DOMAIN UserRequests(type, n, target, list) \subseteq Fine
BY RequestFine DEF UserRequests, UserTypes, Types

(* An answer is sound when it carries the predecessor its type promises. *)
LEMMA AnswerFine ==
    ASSUME NEW t \in Fine, NEW phase \in {"ok", "redirect"},
           NEW contacts \in [0..NSUCCLIST -> Cell], NEW p \in Cell,
           t.type # "leave",
           t.type = "join" => phase = "ok",
           t.type \in {"join", "stabilize"} /\ phase = "ok" => p # EmptyChordId,
           t.type = "stabilize" /\ phase = "ok" /\ p \in Id
             => p = t.src \/ Belongs(p, t.src, t.to)
    PROVE  DOMAIN Answer(t, phase, contacts, p) \subseteq Fine
<1>. DEFINE a == [t EXCEPT !.phase = phase, !.dst = {},
                           !.contacts = contacts, !.predecessor = p]
<1>1. a \in Transaction
  BY TransactionUpdate DEF Fine, Phases
<1>2. /\ a.type = t.type /\ a.phase = phase /\ a.dst = {} /\ a.predecessor = p
      /\ a.src = t.src /\ a.to = t.to
  BY DEF Fine, Transaction, TransactionOf
<1>3. Sound(a)
  BY <1>2 DEF Sound
<1>4. a \in Fine
  BY <1>1, <1>3 DEF Fine
<1>5. DOMAIN Answer(t, phase, contacts, p) \subseteq {a}
  BY BagDomains DEF Answer
<1>. QED  BY <1>4, <1>5

(* The requests to the neighbours: their To header is their target. *)
LEMMA StabilizeRequestsFine ==
    ASSUME NodesOK, NEW n \in Nodes, NEW s \in [0..NSUCCLIST -> Cell], NEW p \in Cell
    PROVE  /\ StabilizeRequests(n, s, p) \subseteq Fine
           /\ NotifyRequests(n, s, p) \subseteq Fine
<1>1. s[0] \in Cell
  BY NSUCCLISTAssumption
<1>2. ASSUME NEW target \in Cell  PROVE Request("stabilize", n, target, target) \in Fine
  BY RequestFine DEF Types, UserTypes
<1>. QED  BY <1>1, <1>2 DEF StabilizeRequests, StabilizeRequest, NotifyRequests

(* Redundant copies are sound requests. *)
LEMMA RedundantCopiesFine ==
    ASSUME NodesOK, NEW n \in Nodes, NEW target, NEW list, DOMAIN list \subseteq Users
    PROVE  DOMAIN RedundantCopies(n, target, list) \subseteq Fine
BY UserRequestsFine, BagDomains DEF RedundantCopies, UserTypes

(* The records a nearer predecessor gets are sound requests. *)
LEMMA TransferRequestsFine ==
    ASSUME NodesOK, NEW n \in Nodes, NEW p
    PROVE  DOMAIN TransferRequests(n, p) \subseteq Fine
<1>1. DOMAIN UserRequests("red_register", n, p, red[n]) \subseteq Fine
  BY UserRequestsFine, NodeFacts DEF UserTypes
<1>2. DOMAIN UserRequests("user_registration", n, p, Misplaced(n, p)) \subseteq Fine
  <2>1. DOMAIN Misplaced(n, p) \subseteq Users
    BY NodeFacts DEF Misplaced
  <2>. QED  BY <2>1, UserRequestsFine DEF UserTypes
<1>3. DOMAIN TransferRequests(n, p)
        = DOMAIN UserRequests("red_register", n, p, red[n])
            \cup DOMAIN UserRequests("user_registration", n, p, Misplaced(n, p))
  BY BagDomains, Zenon DEF TransferRequests
<1>. QED  BY <1>1, <1>2, <1>3

(* The lookup of the next finger is a sound request. *)
LEMMA LookupFingerFine ==
    ASSUME NodesOK, NEW n \in Nodes, NEW s, NEW k \in FingerIndex \cup {NBITS + 1}
    PROVE  DOMAIN LookupFinger(n, s, k) \subseteq Fine
<1>1. CASE k <= NBITS /\ s[0] \notin {n, EmptyChordId}
  <2>1. Start(n, k) \in Cell
    BY <1>1, StartType, NodeFacts, IdsAreCells, NBITSAssumption DEF FingerIndex
  <2>2. Request("findsucc", n, s[0], Start(n, k)) \in Fine
    BY <2>1, RequestFine DEF Types, UserTypes
  <2>. QED  BY <1>1, <2>2, BagDomains DEF LookupFinger
<1>2. CASE ~ (k <= NBITS /\ s[0] \notin {n, EmptyChordId})
  BY <1>2, BagDomains DEF LookupFinger
<1>. QED  BY <1>1, <1>2

(* What a step may do to the transactions: replace one and add others. *)
LEMMA NetReplaced ==
    ASSUME DOMAIN net \subseteq Fine, NEW t, NEW ts, Replace(t, ts), DOMAIN ts \subseteq Fine
    PROVE  DOMAIN net' \subseteq Fine
BY ReplaceDomain

(* What a step without a transaction of its own sends. *)
LEMMA NetSent ==
    ASSUME DOMAIN net \subseteq Fine, NEW ts, DOMAIN ts \subseteq Fine, net' = net (+) ts
    PROVE  DOMAIN net' \subseteq Fine
<1>1. DOMAIN net' = DOMAIN net \cup DOMAIN ts
  BY BagDomains, Zenon
<1>. QED  BY <1>1

LEMMA NetAdded ==
    ASSUME DOMAIN net \subseteq Fine, NEW S, S \subseteq Fine, net' = net (+) SetToBag(S)
    PROVE  DOMAIN net' \subseteq Fine
<1>1. DOMAIN SetToBag(S) = S
  BY BagDomains, Zenon
<1>. QED  BY <1>1, NetSent

(* A step that changes no node keeps the invariant if its messages are sound. *)
LEMMA NodesKept ==
    ASSUME IInv, KeepNodes, DOMAIN net' \subseteq Fine
    PROVE  IInv'
BY DEF IInv, KeepNodes, NodesOK, NeighbourKnown, table, records, Fine, Sound

(* An input is counted by a number. *)
LEMMA SpendType ==
    ASSUME ops \in [Operations -> Nat], NEW op \in Operations, NEW max, Spend(op, max)
    PROVE  ops' \in [Operations -> Nat]
BY DEF Spend

(* Lists of records: the empty one, new entries, entries that come and go. *)
LEMMA RecordListType ==
    /\ RecordList(EmptyBag)
    /\ \A us \in SUBSET Users : RecordList(SetToBag(us))
    /\ \A l, m : RecordList(l) /\ RecordList(m) => RecordList(l (+) m) /\ RecordList(l (-) m)
<1>1. ASSUME NEW us \in SUBSET Users  PROVE RecordList(SetToBag(us))
  BY DEF RecordList, IsABag, SetToBag
<1>2. RecordList(EmptyBag)
  BY <1>1 DEF EmptyBag
<1>3. ASSUME NEW l, NEW m, RecordList(l), RecordList(m)
      PROVE  RecordList(l (+) m) /\ RecordList(l (-) m)
  <2>1. /\ \A u \in DOMAIN l : l[u] \in Nat /\ l[u] > 0
        /\ \A u \in DOMAIN m : m[u] \in Nat /\ m[u] > 0
    BY <1>3 DEF RecordList, IsABag
  <2>2. RecordList(l (+) m)
    BY <1>3, <2>1 DEF RecordList, IsABag, (+)
  <2>3. RecordList(l (-) m)
    BY <1>3, <2>1 DEF RecordList, IsABag, (-)
  <2>. QED  BY <2>2, <2>3
<1>. QED  BY <1>1, <1>2, <1>3

LEMMA RecordsType ==
    ASSUME NEW f, RecordLists(f), NEW n \in Nodes, NEW list, RecordList(list)
    PROVE  /\ RecordLists([f EXCEPT ![n] = @ (+) list])
           /\ RecordLists([f EXCEPT ![n] = @ (-) list])
           /\ RecordLists([f EXCEPT ![n] = list])
           /\ RecordLists([f EXCEPT ![n] = EmptyBag])
<1>1. ASSUME NEW l, RecordList(l)  PROVE RecordLists([f EXCEPT ![n] = l])
  BY <1>1 DEF RecordLists
<1>2. RecordList(f[n] (+) list) /\ RecordList(f[n] (-) list) /\ RecordList(EmptyBag)
  BY RecordListType DEF RecordLists
<1>. QED  BY <1>1, <1>2

(* A list that is emptied, if at all. *)
LEMMA RecordsCleared ==
    ASSUME NEW f, RecordLists(f), NEW n \in Nodes, NEW g, g = f \/ g = [f EXCEPT ![n] = EmptyBag]
    PROVE  RecordLists(g)
BY RecordsType, RecordListType

(* A process that dies in a handler keeps the invariant. *)
LEMMA Faulted ==
    ASSUME IInv, NEW n \in Nodes, Fault(n), DOMAIN net' \subseteq Fine
    PROVE  IInv'
<1>1. NodesOK'
  BY DEF IInv, Fault, NodesOK, Kinds, table, records
<1>2. NeighbourKnown'
  BY DEF IInv, Fault, NodesOK, NeighbourKnown, table
<1>. QED  BY <1>1, <1>2 DEF IInv, Fine, Sound

-----------------------------------------------------------------------------
(* Module Registry. *)

(* RegisterUser keeps the invariant. *)
LEMMA RegisterUserStep ==
    ASSUME IInv, NEW n \in Nodes, NEW u \in Users, RegisterUser(n, u)
    PROVE  IInv'
<1>. USE DEF IInv
<1>1. NodesOK'
  <2>1. ops' \in [Operations -> Nat]
    BY SpendType DEF NodesOK, RegisterUser, Operations
  <2>2. /\ RecordLists(users)'
        /\ RecordLists(red)'
        /\ local' \in [Nodes -> SUBSET Users]
    <3>1. RecordList(SetToBag({u}))
      BY RecordListType
    <3>2. local' = [local EXCEPT ![n] = @ \cup {u}]
      BY DEF RegisterUser
    <3>3. users' = users \/ users' = [users EXCEPT ![n] = @ (+) SetToBag({u})]
      BY DEF RegisterUser
    <3>4. red' = red \/ red' = [red EXCEPT ![n] = @ (+) SetToBag({u})]
      BY DEF RegisterUser
    <3>5. RecordLists([users EXCEPT ![n] = @ (+) SetToBag({u})])
      BY <3>1, RecordsType DEF NodesOK
    <3>6. RecordLists([red EXCEPT ![n] = @ (+) SetToBag({u})])
      BY <3>1, RecordsType DEF NodesOK
    <3>7. local' \in [Nodes -> SUBSET Users]
      BY <3>2 DEF NodesOK
    <3>. QED  BY <3>3, <3>4, <3>5, <3>6, <3>7 DEF NodesOK
  <2>. QED  BY <2>1, <2>2 DEF NodesOK, RegisterUser, table
<1>2. NeighbourKnown'
  BY DEF NeighbourKnown, RegisterUser, table
<1>3. DOMAIN net' \subseteq Fine
  <2>1. CASE Owns(n, u)
    <3>1. DOMAIN RedundantCopies(n, succ[n][0], SetToBag({u})) \subseteq Fine
      BY RedundantCopiesFine, BagDomains
    <3>2. net' = net (+) RedundantCopies(n, succ[n][0], SetToBag({u}))
      BY <2>1 DEF RegisterUser
    <3>. QED  BY <3>1, <3>2, NetSent
  <2>2. CASE ~ Owns(n, u)
    <3>1. PICK next : net' = net (+) SetToBag({Request("user_registration", n, next, u)})
      BY <2>2 DEF RegisterUser
    <3>2. Request("user_registration", n, next, u) \in Fine
      BY RequestFine DEF Types, UserTypes
    <3>. QED  BY <3>1, <3>2, NetAdded
  <2>. QED  BY <2>1, <2>2
<1>. QED  BY <1>1, <1>2, <1>3

(* A redirect that names one node is sound. *)
LEMMA RedirectFine ==
    ASSUME NEW t \in Fine, t.type \notin {"leave", "join"}, NEW next \in Cell
    PROVE  DOMAIN Answer(t, "redirect", [NoContacts EXCEPT ![0] = next], EmptyChordId)
             \subseteq Fine
<1>1. [NoContacts EXCEPT ![0] = next] \in [0..NSUCCLIST -> Cell]
  BY NoContactsType
<1>. QED  BY <1>1, AnswerFine, IdsAreCells

(* onUserReg keeps the invariant. *)
LEMMA OnUserRegStep ==
    ASSUME IInv, NEW n \in Nodes, NEW t \in DOMAIN net, OnUserReg(n, t)
    PROVE  IInv'
<1>. USE DEF IInv
<1>0. t \in Fine /\ t.type = "user_registration" /\ t.to \in Users
  BY TransactionFacts DEF OnUserReg, Arrives, UserTypes
<1>1. NodesOK'
  <2>1. RecordList(SetToBag({t.to}))
    BY <1>0, RecordListType
  <2>2. users' = users \/ users' = [users EXCEPT ![n] = @ (+) SetToBag({t.to})]
    BY DEF OnUserReg
  <2>3. RecordLists([users EXCEPT ![n] = @ (+) SetToBag({t.to})])
    BY <2>1, RecordsType DEF NodesOK
  <2>4. RecordLists(users')
    BY <2>2, <2>3 DEF NodesOK
  <2>. QED  BY <2>4 DEF NodesOK, OnUserReg, table
<1>2. NeighbourKnown'
  BY DEF NeighbourKnown, OnUserReg, table
<1>3. DOMAIN net' \subseteq Fine
  <2>1. CASE Owns(n, t.to)
    <3>1. DOMAIN RedundantCopies(n, succ[n][0], SetToBag({t.to})) \subseteq Fine
      BY <1>0, RedundantCopiesFine, BagDomains
    <3>2. Replace(t, RedundantCopies(n, succ[n][0], SetToBag({t.to})))
      BY <2>1 DEF OnUserReg
    <3>. QED  BY <3>1, <3>2, NetReplaced
  <2>2. CASE ~ Owns(n, t.to)
    <3>. DEFINE next == ClosestPrecedingFinger(n, finger[n], succ[n], Hash[t.to])
                ts == IF next = EmptyChordId THEN EmptyBag
                      ELSE Answer(t, "redirect", [NoContacts EXCEPT ![0] = next], EmptyChordId)
    <3>1. next \in Cell
      BY ClosestPrecedingFingerType, NodeFacts
    <3>2. DOMAIN ts \subseteq Fine
      <4>. HIDE DEF next
      <4>. QED  BY <3>1, <1>0, RedirectFine, BagDomains
    <3>3. Replace(t, ts)
      BY <2>2 DEF OnUserReg
    <3>. QED  BY <3>2, <3>3, NetReplaced
  <2>. QED  BY <2>1, <2>2
<1>. QED  BY <1>1, <1>2, <1>3

(* onUserRegRedirect keeps the invariant, the null dereference included. *)
LEMMA OnUserRegRedirectStep ==
    ASSUME IInv, NEW n \in Nodes, NEW t \in DOMAIN net, OnUserRegRedirect(n, t)
    PROVE  IInv'
<1>. USE DEF IInv
<1>0. t \in Fine /\ t.type = "user_registration" /\ t.to \in Users
  BY TransactionFacts DEF OnUserRegRedirect, Returns, UserTypes
<1>1. CASE RegisteredHere(n, t.to)
  <2>1. Request("user_registration", n, t.contacts[0], t.to) \in Fine
    BY <1>0, RequestFine DEF Types, UserTypes
  <2>2. DOMAIN net' \subseteq Fine
    BY <1>1, <2>1, NetReplaced, BagDomains DEF OnUserRegRedirect
  <2>. QED  BY <1>1, <2>2, NodesKept DEF OnUserRegRedirect, KeepNodes
<1>2. CASE ~ RegisteredHere(n, t.to)
  <2>1. DOMAIN net' \subseteq Fine
    BY <1>2, NetReplaced, BagDomains DEF OnUserRegRedirect
  <2>. QED  BY <1>2, <2>1, Faulted DEF OnUserRegRedirect
<1>. QED  BY <1>1, <1>2

(* onRedRegister keeps the invariant. *)
LEMMA OnRedRegisterStep ==
    ASSUME IInv, NEW n \in Nodes, NEW t \in DOMAIN net, OnRedRegister(n, t)
    PROVE  IInv'
<1>. USE DEF IInv
<1>0. t \in Fine /\ t.to \in Users
  BY TransactionFacts DEF OnRedRegister, Arrives, UserTypes
<1>1. NodesOK'
  <2>1. RecordList(SetToBag({t.to}))
    BY <1>0, RecordListType
  <2>2. RecordLists(red)'
    BY <2>1, RecordsType DEF NodesOK, OnRedRegister
  <2>. QED  BY <2>2 DEF NodesOK, OnRedRegister, table
<1>2. NeighbourKnown'
  BY DEF NeighbourKnown, OnRedRegister, table
<1>3. DOMAIN net' \subseteq Fine
  BY NetReplaced, BagDomains DEF OnRedRegister
<1>. QED  BY <1>1, <1>2, <1>3

-----------------------------------------------------------------------------
(* Module Joining. *)

(* A node alone knows itself as predecessor. *)
LEMMA BecomeFirstStep ==
    ASSUME NodesOK, NeighbourKnown, NEW n \in Nodes, BecomeFirst(n),
           UNCHANGED <<inc, bootstrap, records>>, ops' \in [Operations -> Nat]
    PROVE  NodesOK' /\ NeighbourKnown'
<1>1. n \in Cell /\ n # EmptyChordId
  BY NodeFacts
<1>2. finger' \in [Nodes -> [FingerIndex -> Cell]]
  <2>1. Set_Fingers(n, finger[n], 1, n) \in [FingerIndex -> Cell]
    BY <1>1, SetFingersType, NodeFacts
  <2>. QED  BY <2>1 DEF BecomeFirst, NodesOK
<1>3. NodesOK'
  BY <1>1, <1>2, NSUCCLISTAssumption DEF BecomeFirst, NodesOK, Kinds, records
<1>4. NeighbourKnown'
  BY <1>1 DEF BecomeFirst, NodesOK, NeighbourKnown
<1>. QED  BY <1>3, <1>4

(* StartNode(true) keeps the invariant, from every state. *)
LEMMA StartFirstStep ==
    ASSUME IInv, NEW n \in Nodes, StartFirst(n)
    PROVE  IInv'
<1>1. ops' \in [Operations -> Nat]
  BY SpendType DEF IInv, NodesOK, StartFirst, Operations
<1>2. NodesOK' /\ NeighbourKnown'
  BY <1>1, BecomeFirstStep DEF IInv, StartFirst
<1>. QED  BY <1>2 DEF IInv, StartFirst

(* The discovery request is sound. *)
LEMMA MulticastRequestFine ==
    ASSUME NodesOK, NEW n \in Nodes
    PROVE  MulticastRequest(n) \in Fine
<1>. DEFINE r == Request("multicast", n, n, n)
            m == MulticastRequest(n)
<1>1. r \in Fine
  BY RequestFine, NodeFacts DEF Types, UserTypes
<1>2. r.type = "multicast"
  BY DEF Request
<1>3. m = [r EXCEPT !.dst = Nodes \ {n}]
  BY DEF MulticastRequest
<1>. HIDE DEF r, m
<1>4. m \in Transaction
  BY <1>1, <1>3 DEF Fine, Transaction, TransactionOf
<1>5. m.type = "multicast"
  BY <1>1, <1>2, <1>3 DEF Fine, Transaction, TransactionOf
<1>6. m \in Fine
  BY <1>4, <1>5 DEF Fine, Sound
<1>. QED  BY <1>6 DEF m

(* StartNode keeps the invariant, from every state. *)
LEMMA StartNodeStep ==
    ASSUME IInv, NEW n \in Nodes, StartNode(n)
    PROVE  IInv'
<1>. USE DEF IInv
<1>1. NodesOK'
  <2>1. ops' \in [Operations -> Nat]
    BY SpendType DEF NodesOK, StartNode, Operations
  <2>. QED  BY <2>1 DEF NodesOK, StartNode, Kinds, table, records
<1>2. NeighbourKnown'
  BY DEF NodesOK, NeighbourKnown, StartNode, table
<1>3. DOMAIN net' \subseteq Fine
  BY MulticastRequestFine, NetAdded DEF StartNode
<1>. QED  BY <1>1, <1>2, <1>3

(* An answer that names one node. *)
LEMMA ContactFine ==
    ASSUME NEW t \in Fine, t.type \in {"multicast", "findsucc"}, NEW v \in Cell
    PROVE  DOMAIN Answer(t, "ok", [NoContacts EXCEPT ![0] = v], EmptyChordId) \subseteq Fine
<1>1. [NoContacts EXCEPT ![0] = v] \in [0..NSUCCLIST -> Cell]
  BY NoContactsType
<1>. QED  BY <1>1, AnswerFine, IdsAreCells

(* onDiscoverReg keeps the invariant. *)
LEMMA OnDiscoverRegStep ==
    ASSUME IInv, NEW n \in Nodes, NEW t \in DOMAIN net, OnDiscoverReg(n, t)
    PROVE  IInv'
<1>. USE DEF IInv
<1>1. DOMAIN net' \subseteq Fine
  BY ContactFine, NodeFacts, NetReplaced DEF OnDiscoverReg, Arrives
<1>. QED  BY <1>1, NodesKept DEF OnDiscoverReg, KeepNodes

(* onDiscoverOK keeps the invariant: the JOIN names the node it goes to. *)
LEMMA OnDiscoverOKStep ==
    ASSUME IInv, NEW n \in Nodes, NEW t \in DOMAIN net, OnDiscoverOK(n, t)
    PROVE  IInv'
<1>. USE DEF IInv
<1>0. t \in Fine /\ t.contacts[0] \in Cell
  BY TransactionFacts
<1>1. NodesOK'
  BY <1>0 DEF NodesOK, OnDiscoverOK, Kinds, table, records
<1>2. NeighbourKnown'
  BY DEF NodesOK, NeighbourKnown, OnDiscoverOK, table
<1>3. DOMAIN net' \subseteq Fine
  <2>1. Request("join", n, t.contacts[0], t.contacts[0]) \in Fine
    BY <1>0, RequestFine DEF Types, UserTypes
  <2>. QED  BY <2>1, NetReplaced, BagDomains DEF OnDiscoverOK, JoinRequest
<1>. QED  BY <1>1, <1>2, <1>3

(* onNoNodeFind keeps the invariant. *)
LEMMA OnNoNodeFindStep ==
    ASSUME IInv, NEW n \in Nodes, NEW t \in DOMAIN net, OnNoNodeFind(n, t)
    PROVE  IInv'
<1>. USE DEF IInv
<1>1. NodesOK' /\ NeighbourKnown'
  <2>1. ops' \in [Operations -> Nat]
    BY DEF NodesOK, OnNoNodeFind
  <2>. QED  BY <2>1, BecomeFirstStep DEF OnNoNodeFind
<1>2. DOMAIN net' \subseteq Fine
  BY NetReplaced, BagDomains DEF OnNoNodeFind
<1>. QED  BY <1>1, <1>2

(* A JOIN names its receiver, which answers for its own position. *)
LEMMA OnJoinRegStep ==
    ASSUME IInv, NEW n \in Nodes, NEW t \in DOMAIN net, OnJoinReg(n, t)
    PROVE  IInv'
<1>. USE DEF IInv
<1>0. t \in Fine /\ t.type = "join" /\ n \in Id /\ t.to = n
  BY TransactionFacts, NodeFacts DEF OnJoinReg, Arrives, Sound
<1>1. pred[n] \in Cell /\ pred[n] # EmptyChordId /\ pred[n] \in Int
  BY NodeFacts, SpaceType DEF OnJoinReg, Arrives, NeighbourKnown,
                              Cell, Id, EmptyChordId, LocalnodeWord
<1>. DEFINE contacts == ContactsOf(n, succ[n], succ[n][0] # n)
<1>2. contacts \in [0..NSUCCLIST -> Cell]
  BY <1>0, NodeFacts, ContactsOfType
<1>3. DOMAIN Answer(t, "ok", contacts, pred[n]) \subseteq Fine
  <2>. HIDE DEF contacts
  <2>. QED  BY <1>0, <1>1, <1>2, AnswerFine
<1>4. Replace(t, Answer(t, "ok", contacts, pred[n]))
  BY <1>0, <1>1, OwnPosition DEF OnJoinReg, Lookup
<1>5. DOMAIN net' \subseteq Fine
  BY <1>3, <1>4, NetReplaced
<1>. QED  BY <1>5, NodesKept DEF OnJoinReg, KeepNodes

(* onFindSuccReg keeps the invariant. *)
LEMMA OnFindSuccRegStep ==
    ASSUME IInv, NEW n \in Nodes, NEW t \in DOMAIN net, OnFindSuccReg(n, t)
    PROVE  IInv'
<1>. USE DEF IInv
<1>0. t \in Fine /\ t.type = "findsucc"
  BY DEF OnFindSuccReg, Arrives
<1>. DEFINE ok == Answer(t, "ok", [NoContacts EXCEPT ![0] = n], EmptyChordId)
            next == ClosestPrecedingFinger(n, finger[n], succ[n], t.to)
            other == IF next = EmptyChordId THEN EmptyBag
                     ELSE Answer(t, "redirect", [NoContacts EXCEPT ![0] = next], EmptyChordId)
<1>1. DOMAIN ok \subseteq Fine
  BY <1>0, ContactFine, NodeFacts
<1>2. DOMAIN other \subseteq Fine
  <2>1. next \in Cell
    BY ClosestPrecedingFingerType, NodeFacts
  <2>. HIDE DEF next
  <2>. QED  BY <2>1, <1>0, RedirectFine, BagDomains
<1>3. Replace(t, ok) \/ Replace(t, other)
  BY DEF OnFindSuccReg, Lookup
<1>4. DOMAIN net' \subseteq Fine
  <2>. HIDE DEF ok, other
  <2>. QED  BY <1>1, <1>2, <1>3, NetReplaced
<1>. QED  BY <1>4, NodesKept DEF OnFindSuccReg, KeepNodes

(* onJoinOK keeps the invariant: the answer carries a predecessor. *)
LEMMA OnJoinOKStep ==
    ASSUME IInv, NEW n \in Nodes, NEW t \in DOMAIN net, OnJoinOK(n, t)
    PROVE  IInv'
<1>. USE DEF IInv
<1>. DEFINE contact == t.contacts[0]
            k == LastCovered(n, 1, contact) + 1
            list == SetSuccListWithContacts(n, succ[n], t.contacts, 0)
<1>0. /\ t \in Fine /\ contact \in Cell /\ t.contacts \in [0..NSUCCLIST -> Cell]
      /\ t.predecessor \in Cell /\ t.predecessor # EmptyChordId
  BY TransactionFacts DEF OnJoinOK, Returns, Sound
<1>1. /\ list \in [0..NSUCCLIST -> Cell]
      /\ Set_Fingers(n, finger[n], 1, contact) \in [FingerIndex -> Cell]
  BY <1>0, NodeFacts, SetSuccListType, SetFingersType
<1>2. k \in FingerIndex \cup {NBITS + 1}
  BY LastCoveredType, NBITSAssumption DEF FingerIndex
<1>3. /\ finger' = [finger EXCEPT ![n] = Set_Fingers(n, @, 1, contact)]
      /\ succ' = [succ EXCEPT ![n] = list]
      /\ pred' = [pred EXCEPT ![n] = t.predecessor]
      /\ kind' \in {[kind EXCEPT ![n] = "FTComputing"], [kind EXCEPT ![n] = "Normal"]}
      /\ UNCHANGED <<inc, bootstrap, records, ops>>
      /\ \/ /\ k <= NBITS
            /\ Replace(t, SetToBag({Request("findsucc", n, contact, Start(n, k))}))
         \/ Replace(t, SetToBag(NotifyRequests(n, list, t.predecessor)))
  BY DEF OnJoinOK
<1>. HIDE DEF contact, k, list
<1>4. finger' \in [Nodes -> [FingerIndex -> Cell]]
  BY <1>1, <1>3 DEF NodesOK
<1>5. NodesOK'
  BY <1>0, <1>1, <1>3, <1>4 DEF NodesOK, Kinds, records
<1>6. NeighbourKnown'
  BY <1>0, <1>3 DEF NodesOK, NeighbourKnown
<1>7. DOMAIN net' \subseteq Fine
  <2>1. ASSUME k <= NBITS  PROVE Request("findsucc", n, contact, Start(n, k)) \in Fine
    <3>1. Start(n, k) \in Cell
      BY <1>2, <2>1, StartType, NodeFacts, IdsAreCells, NBITSAssumption DEF FingerIndex
    <3>. QED  BY <3>1, RequestFine DEF Types, UserTypes
  <2>2. NotifyRequests(n, list, t.predecessor) \subseteq Fine
    BY <1>0, <1>1, StabilizeRequestsFine
  <2>. QED  BY <1>3, <2>1, <2>2, NetReplaced, BagDomains
<1>. QED  BY <1>5, <1>6, <1>7

(* A finger that is found changes the fingers only, and ends FTComputing. *)
LEMMA FingerFoundStep ==
    ASSUME IInv, NEW n \in Nodes, NEW t \in DOMAIN net, NEW v \in Cell,
           kind[n] \in {"FTComputing", "Normal"}, FingerFound(n, t, v)
    PROVE  IInv'
<1>. USE DEF IInv
<1>1. PICK i \in FingerIndex :
        LET k == LastCovered(n, i, v) + 1
        IN  /\ finger' = [finger EXCEPT ![n] = Set_Fingers(n, @, i, v)]
            /\ Replace(t, IF k <= NBITS
                          THEN SetToBag({Request("findsucc", n, v, Start(n, k))})
                          ELSE IF kind[n] = "FTComputing"
                          THEN SetToBag(NotifyRequests(n, succ[n], pred[n]))
                          ELSE EmptyBag)
            /\ kind' = IF k > NBITS THEN [kind EXCEPT ![n] = "Normal"] ELSE kind
            /\ UNCHANGED <<inc, succ, pred, bootstrap, records, ops>>
  BY DEF FingerFound
<1>. DEFINE k == LastCovered(n, i, v) + 1
<1>2. k \in FingerIndex \cup {NBITS + 1}
  BY LastCoveredType, NBITSAssumption DEF FingerIndex
<1>3. finger' \in [Nodes -> [FingerIndex -> Cell]]
  <2>1. Set_Fingers(n, finger[n], i, v) \in [FingerIndex -> Cell]
    BY NodeFacts, SetFingersType
  <2>. QED  BY <1>1, <2>1 DEF NodesOK
<1>4. kind' \in {kind, [kind EXCEPT ![n] = "Normal"]}
  BY <1>1
<1>5. NodesOK'
  BY <1>1, <1>3, <1>4 DEF NodesOK, Kinds, records
<1>6. NeighbourKnown'
  BY <1>1, <1>4 DEF NodesOK, NeighbourKnown
<1>7. DOMAIN net' \subseteq Fine
  <2>1. CASE k <= NBITS
    <3>1. Start(n, k) \in Cell
      BY <1>2, <2>1, StartType, NodeFacts, IdsAreCells, NBITSAssumption DEF FingerIndex
    <3>2. Request("findsucc", n, v, Start(n, k)) \in Fine
      BY <3>1, RequestFine DEF Types, UserTypes
    <3>3. Replace(t, SetToBag({Request("findsucc", n, v, Start(n, k))}))
      BY <1>1, <2>1
    <3>. QED  BY <3>2, <3>3, NetReplaced, BagDomains
  <2>2. CASE ~ (k <= NBITS)
    <3>1. NotifyRequests(n, succ[n], pred[n]) \subseteq Fine
      BY StabilizeRequestsFine, NodeFacts
    <3>2. \/ Replace(t, SetToBag(NotifyRequests(n, succ[n], pred[n])))
          \/ Replace(t, EmptyBag)
      BY <1>1, <2>2
    <3>. QED  BY <3>1, <3>2, NetReplaced, BagDomains
  <2>. QED  BY <2>1, <2>2
<1>. QED  BY <1>5, <1>6, <1>7

(* onFindSuccOK and onFindSuccRedirect keep the invariant. *)
LEMMA OnFindSuccStep ==
    ASSUME IInv, NEW n \in Nodes, NEW t \in DOMAIN net,
           OnFindSuccOK(n, t) \/ OnFindSuccRedirect(n, t)
    PROVE  IInv'
<1>0. /\ t \in Fine /\ t.contacts[0] \in Cell /\ n \in Cell
      /\ t.type = "findsucc" /\ t.to \in Cell
  BY TransactionFacts, NodeFacts
     DEF IInv, OnFindSuccOK, OnFindSuccRedirect, Returns, UserTypes
<1>1. CASE OnFindSuccOK(n, t)
  BY <1>0, <1>1, FingerFoundStep DEF OnFindSuccOK
<1>2. CASE OnFindSuccRedirect(n, t) /\ t.contacts[0] = n
  BY <1>0, <1>2, FingerFoundStep DEF OnFindSuccRedirect, FollowRedirect
<1>3. CASE OnFindSuccRedirect(n, t) /\ t.contacts[0] # n
  <2>1. Request("findsucc", n, t.contacts[0], t.to) \in Fine
    BY <1>0, RequestFine DEF Types, UserTypes, IInv
  <2>2. DOMAIN net' \subseteq Fine
    BY <1>3, <2>1, NetReplaced, BagDomains DEF OnFindSuccRedirect, FollowRedirect, IInv
  <2>. QED  BY <1>3, <2>2, NodesKept DEF OnFindSuccRedirect, FollowRedirect, KeepNodes
<1>. QED  BY <1>1, <1>2, <1>3

-----------------------------------------------------------------------------
(* Module Stabilization. *)

(* A stabilize round keeps the invariant. *)
LEMMA StabilizeStep ==
    ASSUME IInv, NEW n \in Nodes, Stabilize(n)
    PROVE  IInv'
<1>. USE DEF IInv
<1>1. NodesOK'
  <2>1. ops' \in [Operations -> Nat]
    BY SpendType DEF NodesOK, Stabilize, Operations
  <2>. QED  BY <2>1 DEF NodesOK, Stabilize, table, records
<1>2. NeighbourKnown'
  BY DEF NeighbourKnown, Stabilize, table
<1>3. DOMAIN net' \subseteq Fine
  <2>1. StabilizeRequests(n, succ[n], pred[n]) \subseteq Fine
    BY StabilizeRequestsFine, NodeFacts
  <2>. QED  BY <2>1, NetAdded DEF Stabilize
<1>. QED  BY <1>1, <1>2, <1>3

(* The records that go to a nearer predecessor. *)
LEMMA TransferType ==
    ASSUME NodesOK, NEW n \in Nodes, NEW p, TransferUserInfoToPred(n, p)
    PROVE  /\ RecordLists(users)'
           /\ RecordLists(red)'
           /\ local' \in [Nodes -> SUBSET Users]
<1>1. RecordList(Misplaced(n, p))
  BY NodeFacts DEF Misplaced, RecordList, IsABag
<1>. QED  BY <1>1, RecordsType DEF TransferUserInfoToPred, NodesOK

(* The answer to a STABILIZE: the predecessor it carries is the sender or  *)
(* a node that the sender has not passed.                                  *)
LEMMA OnStabilizeRegStep ==
    ASSUME IInv, NEW n \in Nodes, NEW t \in DOMAIN net, OnStabilizeReg(n, t)
    PROVE  IInv'
<1>. USE DEF IInv
<1>. DEFINE p == IF NearerPredecessor(n, t.src) THEN t.src ELSE pred[n]
            s == IF NearerSuccessor(n, t.src) THEN [succ[n] EXCEPT ![0] = t.src] ELSE succ[n]
            transfers == IF NearerPredecessor(n, t.src)
                         THEN TransferRequests(n, t.src) ELSE EmptyBag
            contacts == ContactsOf(n, s, s[0] # n)
<1>0. /\ t \in Fine /\ t.type = "stabilize" /\ t.to = n /\ kind[n] = "Normal"
      /\ t.src \in Nodes /\ t.src \in Id /\ t.src \in Cell /\ t.src # EmptyChordId
  BY TransactionFacts, NodeFacts DEF OnStabilizeReg, Arrives, Sound
<1>1. pred[n] \in Cell /\ pred[n] # EmptyChordId
  BY <1>0, NodeFacts DEF NeighbourKnown
<1>2. p \in Cell /\ p # EmptyChordId
  BY <1>0, <1>1
<1>3. s \in [0..NSUCCLIST -> Cell]
  BY <1>0, NodeFacts
<1>4. contacts \in [0..NSUCCLIST -> Cell]
  <2>. HIDE DEF s
  <2>. QED  BY <1>3, NodeFacts, ContactsOfType
<1>5. p \in Id => p = t.src \/ Belongs(p, t.src, n)
  BY <1>0, NodeFacts, NotNearer DEF NearerPredecessor
<1>6. /\ pred' = [pred EXCEPT ![n] = p]
      /\ succ' = [succ EXCEPT ![n] = s]
      /\ finger' \in {finger, [finger EXCEPT ![n] = Set_Fingers(n, @, 1, t.src)]}
      /\ TransferUserInfoToPred(n, t.src) \/ UNCHANGED records
      /\ Replace(t, transfers (+) Answer(t, "ok", contacts, p))
      /\ UNCHANGED <<kind, inc, bootstrap, ops>>
  BY DEF OnStabilizeReg
<1>7. DOMAIN transfers \subseteq Fine
  BY TransferRequestsFine, BagDomains
<1>. HIDE DEF p, s, transfers, contacts
<1>8. finger' \in [Nodes -> [FingerIndex -> Cell]]
  <2>1. Set_Fingers(n, finger[n], 1, t.src) \in [FingerIndex -> Cell]
    BY <1>0, NodeFacts, SetFingersType
  <2>. QED  BY <1>6, <2>1 DEF NodesOK
<1>9. /\ RecordLists(users)'
      /\ RecordLists(red)'
      /\ local' \in [Nodes -> SUBSET Users]
  BY <1>6, TransferType DEF NodesOK, records
<1>10. NodesOK'
  BY <1>2, <1>3, <1>6, <1>8, <1>9 DEF NodesOK
<1>11. NeighbourKnown'
  BY <1>2, <1>6 DEF NodesOK, NeighbourKnown
<1>12. DOMAIN net' \subseteq Fine
  <2>1. DOMAIN Answer(t, "ok", contacts, p) \subseteq Fine
    BY <1>0, <1>2, <1>4, <1>5, AnswerFine
  <2>2. DOMAIN (transfers (+) Answer(t, "ok", contacts, p))
          = DOMAIN transfers \cup DOMAIN Answer(t, "ok", contacts, p)
    BY BagDomains, Zenon
  <2>3. DOMAIN (transfers (+) Answer(t, "ok", contacts, p)) \subseteq Fine
    BY <1>7, <2>1, <2>2, Zenon
  <2>. QED  BY <1>6, <2>3, NetReplaced
<1>. QED  BY <1>10, <1>11, <1>12

(* The end of onStabilizeOK adds at most one FINDSUCC. *)
LEMMA OnStabilizeOKFromSuccStep ==
    ASSUME IInv, NEW n \in Nodes, NEW t \in DOMAIN net, OnStabilizeOKFromSucc(n, t)
    PROVE  IInv'
<1>. USE DEF IInv
<1>. DEFINE v == IF t.predecessor = n THEN t.contacts[0] ELSE t.predecessor
            s == IF NearerSuccessor(n, t.predecessor)
                 THEN [ClearSuccList(succ[n]) EXCEPT ![0] = t.predecessor]
                 ELSE SetSuccListWithContacts(n, succ[n], t.contacts, 0)
            k == LastCovered(n, 1, v) + 1
<1>0. /\ t \in Fine /\ t.contacts \in [0..NSUCCLIST -> Cell]
      /\ t.contacts[0] \in Cell /\ t.predecessor \in Cell
  BY TransactionFacts
<1>1. v \in Cell
  BY <1>0
<1>2. s \in [0..NSUCCLIST -> Cell]
  BY <1>0, NodeFacts, ClearSuccListType, SetSuccListType
<1>3. k \in FingerIndex \cup {NBITS + 1}
  BY LastCoveredType, NBITSAssumption DEF FingerIndex
<1>4. /\ finger' \in {finger, [finger EXCEPT ![n] = Set_Fingers(n, @, 1, v)]}
      /\ succ' \in {succ, [succ EXCEPT ![n] = s]}
      /\ Replace(t, LookupFinger(n, s, k)) \/ Replace(t, EmptyBag)
      /\ UNCHANGED <<kind, inc, pred, bootstrap, records, ops>>
  BY DEF OnStabilizeOKFromSucc
<1>. HIDE DEF v, s, k
<1>5. finger' \in [Nodes -> [FingerIndex -> Cell]]
  <2>1. Set_Fingers(n, finger[n], 1, v) \in [FingerIndex -> Cell]
    BY <1>1, NodeFacts, SetFingersType
  <2>. QED  BY <1>4, <2>1 DEF NodesOK
<1>6. NodesOK'
  <2>1. succ' \in [Nodes -> [0..NSUCCLIST -> Cell]]
    BY <1>2, <1>4 DEF NodesOK
  <2>. QED  BY <1>4, <1>5, <2>1 DEF NodesOK, records
<1>7. NeighbourKnown'
  BY <1>4 DEF NeighbourKnown
<1>8. DOMAIN net' \subseteq Fine
  BY <1>3, <1>4, LookupFingerFine, NetReplaced, BagDomains
<1>. QED  BY <1>6, <1>7, <1>8

(* A nearer predecessor is a contact that is there. *)
LEMMA OnStabilizeOKFromPredStep ==
    ASSUME IInv, NEW n \in Nodes, NEW t \in DOMAIN net, OnStabilizeOKFromPred(n, t)
    PROVE  IInv'
<1>. USE DEF IInv
<1>. DEFINE first == t.contacts[1]
<1>0. t \in Fine /\ first \in Cell
  BY TransactionFacts
<1>1. CASE first = EmptyChordId
  <2>1. DOMAIN net' \subseteq Fine
    BY <1>1, NetReplaced, BagDomains DEF OnStabilizeOKFromPred
  <2>. QED  BY <1>1, <2>1, Faulted DEF OnStabilizeOKFromPred
<1>2. CASE first # EmptyChordId /\ NearerPredecessor(n, first)
  <2>. DEFINE ts == TransferRequests(n, first) (+) LookupFinger(n, succ[n], 1)
  <2>1. /\ pred' = [pred EXCEPT ![n] = first]
        /\ TransferUserInfoToPred(n, first)
        /\ Replace(t, ts)
        /\ UNCHANGED <<kind, inc, finger, succ, bootstrap, ops>>
    BY <1>2 DEF OnStabilizeOKFromPred
  <2>2. NodesOK'
    BY <1>0, <2>1, TransferType DEF NodesOK
  <2>3. NeighbourKnown'
    BY <1>2, <2>1 DEF NodesOK, NeighbourKnown
  <2>4. DOMAIN ts \subseteq Fine
    <3>1. DOMAIN ts = DOMAIN TransferRequests(n, first)
                        \cup DOMAIN LookupFinger(n, succ[n], 1)
      BY BagDomains, Zenon
    <3>2. DOMAIN TransferRequests(n, first) \subseteq Fine
      BY TransferRequestsFine
    <3>3. DOMAIN LookupFinger(n, succ[n], 1) \subseteq Fine
      <4>1. 1 \in FingerIndex \cup {NBITS + 1}
        BY NBITSAssumption DEF FingerIndex
      <4>. QED  BY <4>1, LookupFingerFine
    <3>. HIDE DEF ts
    <3>. QED  BY <3>1, <3>2, <3>3
  <2>. QED  BY <2>1, <2>2, <2>3, <2>4, NetReplaced
<1>3. CASE first # EmptyChordId /\ ~ NearerPredecessor(n, first)
  <2>1. DOMAIN net' \subseteq Fine
    BY <1>3, NetReplaced, BagDomains DEF OnStabilizeOKFromPred
  <2>. QED  BY <1>3, <2>1, NodesKept DEF OnStabilizeOKFromPred, KeepNodes
<1>. QED  BY <1>1, <1>2, <1>3

(* Leave keeps the invariant: a node in NormalState has a predecessor to name. *)
LEMMA LeaveStep ==
    ASSUME IInv, NEW n \in Nodes, Leave(n)
    PROVE  IInv'
<1>. USE DEF IInv
<1>. DEFINE s == succ[n][0]
            toSucc == s \notin {EmptyChordId, n}
            leaves == {LeaveRequest(n, target, n, succ[n], pred[n]) :
                          target \in {s, pred[n]} \ {EmptyChordId, n}}
            moved == HandedOver(n, s)
            over == IF toSucc THEN moved ELSE EmptyBag
<1>0. /\ n \in Cell /\ succ[n] \in [0..NSUCCLIST -> Cell]
      /\ pred[n] \in Cell /\ pred[n] # EmptyChordId
  BY NodeFacts DEF NeighbourKnown, Leave
<1>1. /\ ops' \in [Operations -> Nat]
      /\ net' = net (+) SetToBag(leaves) (+) over
      /\ users' = users \/ users' = [users EXCEPT ![n] = EmptyBag]
      /\ red' = red \/ red' = [red EXCEPT ![n] = EmptyBag]
      /\ kind' = [kind EXCEPT ![n] = "Closed"]
      /\ UNCHANGED <<inc, table, bootstrap, local>>
  <2>1. ops' \in [Operations -> Nat]
    BY SpendType DEF NodesOK, Leave, Operations
  <2>. QED  BY <2>1 DEF Leave
<1>2. leaves \subseteq Fine
  BY <1>0, LeaveRequestFine
<1>3. DOMAIN over \subseteq Fine
  <2>1. DOMAIN moved \subseteq Fine
    <3>1. /\ DOMAIN UserRequests("user_registration", n, s, users[n]) \subseteq Fine
          /\ DOMAIN UserRequests("red_register", n, s, red[n]) \subseteq Fine
      BY UserRequestsFine, NodeFacts DEF UserTypes
    <3>2. DOMAIN moved = DOMAIN UserRequests("user_registration", n, s, users[n])
                           \cup DOMAIN UserRequests("red_register", n, s, red[n])
      BY BagDomains, Zenon DEF HandedOver
    <3>. QED  BY <3>1, <3>2
  <2>. HIDE DEF moved
  <2>. QED  BY <2>1, BagDomains
<1>. HIDE DEF leaves, over
<1>7. RecordLists(users') /\ RecordLists(red')
  BY <1>1, RecordsCleared DEF NodesOK
<1>4. NodesOK'
  BY <1>1, <1>7 DEF NodesOK, Kinds, table
<1>5. NeighbourKnown'
  BY <1>1 DEF NodesOK, NeighbourKnown, table
<1>6. DOMAIN net' \subseteq Fine
  <2>1. DOMAIN (net (+) SetToBag(leaves)) = DOMAIN net \cup DOMAIN SetToBag(leaves)
    BY BagDomains, Zenon
  <2>2. DOMAIN net' = DOMAIN (net (+) SetToBag(leaves)) \cup DOMAIN over
    BY <1>1, BagDomains, Zenon
  <2>3. DOMAIN SetToBag(leaves) = leaves
    BY BagDomains, Zenon
  <2>. QED  BY <1>2, <1>3, <2>1, <2>2, <2>3
<1>. QED  BY <1>4, <1>5, <1>6

(* A node that leaves names its own predecessor in the LEAVE. *)
LEMMA OnLeaveRegGracefulStep ==
    ASSUME IInv, NEW n \in Nodes, NEW t \in DOMAIN net, OnLeaveRegGraceful(n, t)
    PROVE  IInv'
<1>. USE DEF IInv
<1>. DEFINE list == SetSuccListWithContacts(n, succ[n], t.contacts, 1)
            s == SuccListWithout(n, list, t.to)
<1>0. /\ t \in Fine /\ t.contacts \in [0..NSUCCLIST -> Cell] /\ t.to \in Cell
      /\ t.predecessor \in Cell /\ t.predecessor # EmptyChordId
  BY TransactionFacts DEF OnLeaveRegGraceful, Arrives, Sound, UserTypes
<1>1. s \in [0..NSUCCLIST -> Cell]
  <2>1. list \in [0..NSUCCLIST -> Cell]
    BY <1>0, NodeFacts, SetSuccListType
  <2>. HIDE DEF list
  <2>. QED  BY <1>0, <2>1, SuccListWithoutType
<1>2. FingersWithout(n, finger[n], t.to) \in [FingerIndex -> Cell]
  BY NodeFacts, FingersWithoutType
<1>3. /\ pred' \in {pred, [pred EXCEPT ![n] = t.predecessor]}
      /\ red' = red \/ red' = [red EXCEPT ![n] = EmptyBag]
      /\ succ' \in {succ, [succ EXCEPT ![n] = s]}
      /\ finger' \in {finger, [finger EXCEPT ![n] = FingersWithout(n, @, t.to)]}
      /\ Replace(t, EmptyBag)
      /\ UNCHANGED <<kind, inc, bootstrap, users, local, ops>>
  BY DEF OnLeaveRegGraceful
<1>. HIDE DEF s
<1>4. NodesOK'
  <2>1. finger' \in [Nodes -> [FingerIndex -> Cell]]
    BY <1>2, <1>3 DEF NodesOK
  <2>2. RecordLists(red')
    BY <1>3, RecordsCleared DEF NodesOK
  <2>3. succ' \in [Nodes -> [0..NSUCCLIST -> Cell]]
    BY <1>1, <1>3 DEF NodesOK
  <2>4. pred' \in [Nodes -> Cell]
    BY <1>0, <1>3 DEF NodesOK
  <2>. QED  BY <1>3, <2>1, <2>2, <2>3, <2>4 DEF NodesOK
<1>5. NeighbourKnown'
  BY <1>0, <1>3 DEF NodesOK, NeighbourKnown
<1>6. DOMAIN net' \subseteq Fine
  BY <1>3, NetReplaced, BagDomains
<1>. QED  BY <1>4, <1>5, <1>6

(* Copies that become records leave lists of records. *)
LEMMA AdoptCopiesType ==
    ASSUME NodesOK, NEW n \in Nodes, AdoptCopies(n)
    PROVE  RecordLists(users)' /\ RecordLists(red)'
<1>1. RecordList(red[n])
  BY NodeFacts
<1>2. /\ users' = [users EXCEPT ![n] = @ (+) red[n]]
      /\ red' = [red EXCEPT ![n] = EmptyBag]
  BY DEF AdoptCopies
<1>. QED  BY <1>1, <1>2, RecordsType DEF NodesOK

(* The node that announces a dead one becomes the predecessor. *)
LEMMA OnLeaveRegFailedStep ==
    ASSUME IInv, NEW n \in Nodes, NEW t \in DOMAIN net, OnLeaveRegFailed(n, t)
    PROVE  IInv'
<1>. USE DEF IInv
<1>. DEFINE fromPred == t.to = pred[n]
            fromSucc == t.to = succ[n][0]
            p == IF fromPred THEN t.src ELSE pred[n]
            s == IF fromSucc THEN SuccListWithout(n, succ[n], t.to) ELSE succ[n]
            copies == RedundantCopies(n, succ[n][0], red[n])
            told == IF fromPred
                    THEN copies (+) SetToBag(StabilizeRequests(n, succ[n], p))
                    ELSE EmptyBag
            asked == IF fromSucc THEN SetToBag(StabilizeRequests(n, s, p)) ELSE EmptyBag
<1>0. /\ t \in Fine /\ t.to \in Cell /\ kind[n] = "Normal"
      /\ t.src \in Nodes /\ t.src \in Cell /\ t.src # EmptyChordId
      /\ pred[n] \in Cell /\ pred[n] # EmptyChordId
      /\ succ[n] \in [0..NSUCCLIST -> Cell]
  <2>1. kind[n] = "Normal" /\ t.type = "leave" /\ t \in Fine
    BY DEF OnLeaveRegFailed, Arrives
  <2>. QED  BY <2>1, TransactionFacts, NodeFacts DEF NeighbourKnown, UserTypes
<1>1. p \in Cell /\ p # EmptyChordId
  BY <1>0
<1>2. s \in [0..NSUCCLIST -> Cell]
  BY <1>0, SuccListWithoutType
<1>3. FingersWithout(n, finger[n], t.to) \in [FingerIndex -> Cell]
  BY NodeFacts, FingersWithoutType
<1>4. /\ pred' = [pred EXCEPT ![n] = p]
      /\ succ' = [succ EXCEPT ![n] = s]
      /\ finger' \in {finger, [finger EXCEPT ![n] = FingersWithout(n, @, t.to)]}
      /\ AdoptCopies(n) \/ UNCHANGED <<users, red>>
      /\ Replace(t, told (+) asked)
      /\ UNCHANGED <<kind, inc, bootstrap, local, ops>>
  BY DEF OnLeaveRegFailed
<1>5. DOMAIN told \subseteq Fine
  <2>1. DOMAIN copies \subseteq Fine /\ StabilizeRequests(n, succ[n], p) \subseteq Fine
    <3>. HIDE DEF p
    <3>. QED  BY <1>0, <1>1, StabilizeRequestsFine, RedundantCopiesFine, NodeFacts
  <2>. HIDE DEF copies, p
  <2>2. DOMAIN (copies (+) SetToBag(StabilizeRequests(n, succ[n], p)))
          = DOMAIN copies \cup DOMAIN SetToBag(StabilizeRequests(n, succ[n], p))
    BY BagDomains, Zenon
  <2>3. DOMAIN SetToBag(StabilizeRequests(n, succ[n], p)) = StabilizeRequests(n, succ[n], p)
    BY BagDomains, Zenon
  <2>. QED  BY <2>1, <2>2, <2>3, BagDomains
<1>6. DOMAIN asked \subseteq Fine
  <2>. HIDE DEF s, p
  <2>. QED  BY <1>1, <1>2, StabilizeRequestsFine, BagDomains
<1>. HIDE DEF p, s, told, asked
<1>7. /\ finger' \in [Nodes -> [FingerIndex -> Cell]]
      /\ RecordLists(users)'
      /\ RecordLists(red)'
  BY <1>3, <1>4, AdoptCopiesType DEF NodesOK
<1>8. NodesOK'
  BY <1>1, <1>2, <1>4, <1>7 DEF NodesOK
<1>9. NeighbourKnown'
  BY <1>1, <1>4 DEF NodesOK, NeighbourKnown
<1>10. DOMAIN net' \subseteq Fine
  <2>1. DOMAIN (told (+) asked) = DOMAIN told \cup DOMAIN asked
    BY BagDomains, Zenon
  <2>2. DOMAIN (told (+) asked) \subseteq Fine
    BY <1>5, <1>6, <2>1, Zenon
  <2>. QED  BY <1>4, <2>2, NetReplaced
<1>. QED  BY <1>8, <1>9, <1>10

(* The double free keeps the invariant. *)
LEMMA OnLeaveRegFreesTwiceStep ==
    ASSUME IInv, NEW n \in Nodes, NEW t \in DOMAIN net, OnLeaveRegFreesTwice(n, t)
    PROVE  IInv'
<1>1. DOMAIN net' \subseteq Fine
  BY NetReplaced, BagDomains DEF IInv, OnLeaveRegFreesTwice
<1>. QED  BY <1>1, Faulted DEF OnLeaveRegFreesTwice

(* A node left alone is its own predecessor. *)
LEMMA OnLastNeighbourFailureStep ==
    ASSUME IInv, NEW n \in Nodes, NEW t \in DOMAIN net, OnLastNeighbourFailure(n, t)
    PROVE  IInv'
<1>. USE DEF IInv
<1>0. /\ t \in Fine /\ t.to \in Cell /\ n \in Cell /\ n # EmptyChordId
  <2>1. t.type = "stabilize" /\ t \in Fine
    BY DEF OnLastNeighbourFailure, StabilizeTimeout, Returns
  <2>. QED  BY <2>1, TransactionFacts, NodeFacts DEF UserTypes
<1>1. /\ FingersWithout(n, finger[n], t.to) \in [FingerIndex -> Cell]
      /\ SuccListWithout(n, succ[n], t.to) \in [0..NSUCCLIST -> Cell]
  BY <1>0, NodeFacts, FingersWithoutType, SuccListWithoutType
<1>2. /\ pred' = [pred EXCEPT ![n] = n]
      /\ succ' = [succ EXCEPT ![n] = SuccListWithout(n, @, t.to)]
      /\ finger' = [finger EXCEPT ![n] = FingersWithout(n, @, t.to)]
      /\ AdoptCopies(n)
      /\ Replace(t, EmptyBag)
      /\ UNCHANGED <<kind, inc, bootstrap, local, ops>>
  BY DEF OnLastNeighbourFailure
<1>3. /\ finger' \in [Nodes -> [FingerIndex -> Cell]]
      /\ succ' \in [Nodes -> [0..NSUCCLIST -> Cell]]
  BY <1>1, <1>2 DEF NodesOK
<1>4. NodesOK'
  BY <1>0, <1>2, <1>3, AdoptCopiesType DEF NodesOK
<1>5. NeighbourKnown'
  BY <1>0, <1>2 DEF NodesOK, NeighbourKnown
<1>6. DOMAIN net' \subseteq Fine
  BY <1>2, NetReplaced, BagDomains
<1>. QED  BY <1>4, <1>5, <1>6

(* The LEAVE for a dead successor carries the predecessor of its sender. *)
LEMMA OnSuccessorFailureStep ==
    ASSUME IInv, NEW n \in Nodes, NEW t \in DOMAIN net, OnSuccessorFailure(n, t)
    PROVE  IInv'
<1>. USE DEF IInv
<1>. DEFINE second == succ[n][1]
            list == SuccListWithout(n, succ[n], t.to)
            leave == {LeaveRequest(n, second, t.to, list, pred[n])}
            copies == UserRequests("red_register", n, second, users[n])
<1>0. /\ t \in Fine /\ t.to \in Cell /\ pred[n] \in Cell /\ pred[n] # EmptyChordId
  <2>1. t.type = "stabilize" /\ t \in Fine /\ kind[n] = "Normal"
    BY DEF OnSuccessorFailure, StabilizeTimeout, Returns
  <2>. QED  BY <2>1, TransactionFacts, NodeFacts DEF UserTypes, NeighbourKnown
<1>1. /\ FingersWithout(n, finger[n], t.to) \in [FingerIndex -> Cell]
      /\ list \in [0..NSUCCLIST -> Cell]
  BY <1>0, NodeFacts, FingersWithoutType, SuccListWithoutType
<1>2. leave \subseteq Fine /\ DOMAIN copies \subseteq Fine
  <2>. HIDE DEF list
  <2>. QED  BY <1>0, <1>1, LeaveRequestFine, UserRequestsFine, NodeFacts DEF UserTypes
<1>3. /\ succ' = [succ EXCEPT ![n] = list]
      /\ finger' = [finger EXCEPT ![n] = FingersWithout(n, @, t.to)]
      /\ Replace(t, SetToBag(leave) (+) copies)
      /\ UNCHANGED <<kind, inc, pred, bootstrap, records, ops>>
  BY DEF OnSuccessorFailure
<1>. HIDE DEF leave, copies, list
<1>4. finger' \in [Nodes -> [FingerIndex -> Cell]]
  BY <1>1, <1>3 DEF NodesOK
<1>5. NodesOK'
  BY <1>1, <1>3, <1>4 DEF NodesOK, records
<1>6. NeighbourKnown'
  BY <1>3 DEF NeighbourKnown
<1>7. DOMAIN net' \subseteq Fine
  <2>1. DOMAIN (SetToBag(leave) (+) copies) = DOMAIN SetToBag(leave) \cup DOMAIN copies
    BY BagDomains, Zenon
  <2>2. DOMAIN SetToBag(leave) = leave
    BY BagDomains, Zenon
  <2>3. DOMAIN (SetToBag(leave) (+) copies) \subseteq Fine
    BY <1>2, <2>1, <2>2, Zenon
  <2>. QED  BY <1>3, <2>3, NetReplaced
<1>. QED  BY <1>5, <1>6, <1>7

(* Answers and failures of nodes that are no neighbours any more. *)
LEMMA StaleStep ==
    ASSUME IInv, NEW n \in Nodes, NEW t \in DOMAIN net,
           OnStabilizeOKFromOther(n, t) \/ OnOtherFailure(n, t)
    PROVE  IInv'
<1>1. DOMAIN net' \subseteq Fine
  BY NetReplaced, BagDomains DEF IInv, OnStabilizeOKFromOther, OnOtherFailure
<1>. QED  BY <1>1, NodesKept DEF OnStabilizeOKFromOther, OnOtherFailure, KeepNodes

-----------------------------------------------------------------------------
(* Module Overlay. *)

(* The invariant holds when the processes start. *)
LEMMA InitStep == Init => IInv
<1>. SUFFICES ASSUME Init  PROVE IInv
  OBVIOUS
<1>1. NodesOK
  <2>1. RecordLists(users) /\ RecordLists(red)
    <3>1. RecordLists([n \in Nodes |-> EmptyBag])
      BY RecordListType DEF RecordLists
    <3>. QED  BY <3>1 DEF Init
  <2>. QED  BY <2>1, EmptyTableType, IdsAreCells DEF Init, NodesOK, Kinds, Operations
<1>2. NeighbourKnown
  BY DEF Init, NeighbourKnown
<1>3. DOMAIN net \subseteq Fine
  BY BagDomains DEF Init
<1>. QED  BY <1>1, <1>2, <1>3 DEF IInv

(* A process that dies keeps the invariant. *)
LEMMA CrashStep ==
    ASSUME IInv, NEW n \in Nodes, Crash(n)
    PROVE  IInv'
<1>1. ops' \in [Operations -> Nat]
  BY SpendType DEF IInv, NodesOK, Crash, Operations
<1>2. NodesOK'
  BY <1>1 DEF IInv, NodesOK, Crash, Kinds, table, records
<1>3. NeighbourKnown'
  BY DEF IInv, NodesOK, NeighbourKnown, Crash, table
<1>. QED  BY <1>2, <1>3 DEF IInv, Crash

(* A new process keeps the invariant. *)
LEMMA BootStep ==
    ASSUME IInv, NEW n \in Nodes, Boot(n)
    PROVE  IInv'
<1>1. ops' \in [Operations -> Nat]
  BY SpendType DEF IInv, NodesOK, Boot, Operations
<1>2. NodesOK'
  <2>1. RecordLists(users') /\ RecordLists(red')
    BY RecordsCleared DEF IInv, NodesOK, Boot
  <2>. QED  BY <1>1, <2>1, EmptyTableType, IdsAreCells DEF IInv, NodesOK, Boot, Kinds
<1>3. NeighbourKnown'
  BY DEF IInv, NodesOK, NeighbourKnown, Boot
<1>. QED  BY <1>2, <1>3 DEF IInv, Boot

(* A request that reaches one node less is as sound as before. *)
LEMMA UnansweredFine ==
    ASSUME NEW t \in Fine, NEW n
    PROVE  DOMAIN Unanswered(t, n) \subseteq Fine
<1>. DEFINE u == [t EXCEPT !.dst = @ \ {n}]
<1>1. u \in Transaction
  BY DEF Fine, Transaction, TransactionOf
<1>2. /\ u.type = t.type /\ u.phase = t.phase /\ u.dst \subseteq t.dst
      /\ u.predecessor = t.predecessor /\ u.src = t.src /\ u.to = t.to
  BY DEF Fine, Transaction, TransactionOf
<1>3. u \in Fine
  BY <1>1, <1>2 DEF Fine, Sound
<1>. HIDE DEF u
<1>4. DOMAIN Unanswered(t, n) \subseteq {u}
  BY BagDomains DEF Unanswered, u
<1>. QED  BY <1>3, <1>4

(* A request that is ignored keeps the invariant. *)
LEMMA IgnoreRequestStep ==
    ASSUME IInv, NEW n, NEW t \in DOMAIN net, IgnoreRequest(n, t)
    PROVE  IInv'
<1>1. DOMAIN net' \subseteq Fine
  BY UnansweredFine, NetReplaced DEF IInv, IgnoreRequest
<1>. QED  BY <1>1, NodesKept DEF IgnoreRequest

(* A lost response leaves its request unanswered; a LEAVE has none. *)
LEMMA LoseResponseStep ==
    ASSUME IInv, NEW t \in DOMAIN net, LoseResponse(t)
    PROVE  IInv'
<1>. DEFINE r == [t EXCEPT !.phase = "request", !.contacts = NoContacts,
                           !.predecessor = EmptyChordId]
<1>0. t \in Fine /\ t.phase # "request" /\ Replace(t, SetToBag({r}))
  BY DEF IInv, LoseResponse
<1>1. r \in Transaction
  BY <1>0, NoContactsType, IdsAreCells DEF Fine, Transaction, TransactionOf, Phases
<1>2. r.type = t.type /\ r.phase = "request" /\ r.dst = t.dst /\ r.to = t.to
  BY <1>0 DEF Fine, Transaction, TransactionOf
<1>3. r \in Fine
  BY <1>0, <1>1, <1>2 DEF Fine, Sound
<1>. HIDE DEF r
<1>4. DOMAIN net' \subseteq Fine
  BY <1>0, <1>3, NetReplaced, BagDomains DEF IInv
<1>. QED  BY <1>4, NodesKept DEF LoseResponse

(* A transaction that ends without effect keeps the invariant. *)
LEMMA EndStep ==
    ASSUME IInv, NEW t \in DOMAIN net, IgnoreResponse(t) \/ EndUnanswered(t)
    PROVE  IInv'
<1>1. DOMAIN net' \subseteq Fine
  BY NetReplaced, BagDomains DEF IInv, IgnoreResponse, EndUnanswered
<1>. QED  BY <1>1, NodesKept DEF IgnoreResponse, EndUnanswered

(* What the application, the machine and the stabilize thread do to a node. *)
LEMMA InputStep ==
    ASSUME IInv, NEW n \in Nodes, Input(n) \/ Stabilize(n)
    PROVE  IInv'
BY StartFirstStep, StartNodeStep, RegisterUserStep, LeaveStep, CrashStep, BootStep,
   StabilizeStep DEF Input

(* Every step of a transaction. *)
LEMMA HandleStep ==
    ASSUME IInv, NEW t \in DOMAIN net, Handle(t)
    PROVE  IInv'
<1>0. t.src \in Nodes /\ t.dst \subseteq Nodes
  BY TransactionFacts DEF IInv
<1>1. ASSUME NEW n \in Nodes, ReceiveRequest(n, t)  PROVE IInv'
  BY <1>1, OnDiscoverRegStep, OnJoinRegStep, OnFindSuccRegStep, OnStabilizeRegStep,
     OnLeaveRegGracefulStep, OnLeaveRegFailedStep, OnLeaveRegFreesTwiceStep,
     OnUserRegStep, OnRedRegisterStep, IgnoreRequestStep DEF ReceiveRequest
<1>2. ASSUME NEW n \in Nodes, ReceiveResponse(n, t)  PROVE IInv'
  BY <1>2, OnDiscoverOKStep, OnJoinOKStep, OnFindSuccStep, OnStabilizeOKFromSuccStep,
     OnStabilizeOKFromPredStep, StaleStep, OnUserRegRedirectStep DEF ReceiveResponse
<1>3. ASSUME NEW n \in Nodes, Timeout(n, t)  PROVE IInv'
  BY <1>3, OnNoNodeFindStep, OnLastNeighbourFailureStep, OnSuccessorFailureStep,
     StaleStep DEF Timeout
<1>. QED  BY <1>0, <1>1, <1>2, <1>3, LoseResponseStep, EndStep DEF Handle

(* Every step of the overlay keeps the invariant. *)
LEMMA NextStep == IInv /\ [Next]_vars => IInv'
<1>. SUFFICES ASSUME IInv, [Next]_vars  PROVE IInv'
  OBVIOUS
<1>1. CASE Next
  BY <1>1, InputStep, HandleStep DEF Next
<1>2. CASE UNCHANGED vars
  <2>1. DOMAIN net' \subseteq Fine
    BY <1>2 DEF IInv, vars
  <2>. QED  BY <1>2, <2>1, NodesKept DEF KeepNodes, vars
<1>. QED  BY <1>1, <1>2

-----------------------------------------------------------------------------
(* IInv holds in every reachable state: whatever nodes start, leave, die   *)
(* and come back, and whatever messages are lost.                          *)
THEOREM Inductive == Spec => []IInv
BY InitStep, NextStep, PTL DEF Spec

(* Every variable keeps its type. *)
THEOREM Typing == Spec => []TypeOK
<1>1. IInv => TypeOK
  BY DEF IInv, NodesOK, TypeOK, Fine
<1>. QED  BY <1>1, Inductive, PTL

(* A node in NormalState knows a predecessor, so that onJoinReg,           *)
(* onFindSuccReg and onUserReg compare with a node.                        *)
THEOREM PredecessorIsKnown == Spec => []PredecessorKnown
<1>1. IInv => PredecessorKnown
  BY DEF IInv, NeighbourKnown, PredecessorKnown, Members
<1>. QED  BY <1>1, Inductive, PTL

(* JoiningState::onJoinRedirect is dead code. *)
THEOREM JoinIsNeverRedirected == Spec => []JoinNeverRedirected
<1>1. IInv => JoinNeverRedirected
  BY DEF IInv, Fine, Sound, JoinNeverRedirected
<1>. QED  BY <1>1, Inductive, PTL

(* Every STABILIZE answer carries the asker or a node nearer to the one    *)
(* that answers: the last case of onStabilizeOK does not happen.           *)
THEOREM AnswersAreNearer == Spec => []AnswersNearer
<1>1. IInv => AnswersNearer
  BY DEF IInv, Fine, Sound, AnswersNearer
<1>. QED  BY <1>1, Inductive, PTL

-----------------------------------------------------------------------------
(* The overlay implements NodeStates: for every number of nodes and inputs *)
(* and every loss of messages, each step moves one node along the life     *)
(* cycle or moves none.  IInv says which node a handler runs at.           *)

LEMMA KindsLive == \A k \in Kinds : k \notin Dead => k \in States!Living
BY DEF Kinds, Dead, States!Living

(* Steps along an edge, to death and out of it. *)
LEMMA GoStep ==
    ASSUME NEW n \in Nodes, NEW to, kind' = [kind EXCEPT ![n] = to],
           <<kind[n], to>> \in States!Edges, to \in States!Living
    PROVE  States!Next
BY DEF States!Next, States!Go, States!Move

LEMMA DieStep ==
    ASSUME NEW n \in Nodes, NEW to \in States!Gone, kind' = [kind EXCEPT ![n] = to],
           kind[n] \in States!Living
    PROVE  States!Next
BY DEF States!Next, States!Die, States!Move

LEMMA StartStep ==
    ASSUME NEW n \in Nodes, kind[n] \in StartFrom,
           \/ kind' = [kind EXCEPT ![n] = "Discoving"]
           \/ n \in Founders /\ kind' = [kind EXCEPT ![n] = "Normal"]
    PROVE  States!Next
BY DEF States!Next, States!Start, States!Move

LEMMA AgainStep ==
    ASSUME NEW n \in Nodes, kind[n] \in Dead, kind' = [kind EXCEPT ![n] = "Inited"]
    PROVE  States!Next
BY DEF States!Next, States!Again, States!Move, States!Gone, Dead

(* A handler that dereferences a null pointer. *)
LEMMA FaultStep ==
    ASSUME NEW n \in Nodes, kind[n] = "Normal", Fault(n)
    PROVE  States!Next
<1>1. "Faulted" \in States!Gone /\ "Normal" \in States!Living
  BY DEF States!Gone, States!Living
<1>. QED  BY <1>1, DieStep DEF Fault

LEMMA InputKinds ==
    ASSUME IInv, NEW n \in Nodes, Input(n) \/ Stabilize(n)
    PROVE  [States!Next]_kind
<1>1. CASE StartFirst(n)
  BY <1>1, StartStep DEF StartFirst, BecomeFirst
<1>2. CASE StartNode(n)
  BY <1>2, StartStep DEF StartNode
<1>3. CASE \E u \in Users : RegisterUser(n, u)
  BY <1>3 DEF RegisterUser
<1>4. CASE Leave(n)
  <2>1. <<"Normal", "Closed">> \in States!Edges /\ "Closed" \in States!Living
    BY DEF States!Edges, States!Living
  <2>2. kind[n] = "Normal" /\ kind' = [kind EXCEPT ![n] = "Closed"]
    BY <1>4 DEF Leave
  <2>. QED  BY <2>1, <2>2, GoStep
<1>5. CASE Crash(n)
  <2>1. kind[n] \in States!Living
    BY <1>5, KindsLive DEF Crash, Live, IInv, NodesOK
  <2>2. "Down" \in States!Gone
    BY DEF States!Gone
  <2>. QED  BY <1>5, <2>1, <2>2, DieStep DEF Crash
<1>6. CASE Boot(n)
  BY <1>6, AgainStep DEF Boot
<1>7. CASE Stabilize(n)
  BY <1>7 DEF Stabilize
<1>. QED  BY <1>1, <1>2, <1>3, <1>4, <1>5, <1>6, <1>7 DEF Input

LEMMA RequestKinds ==
    ASSUME NEW n \in Nodes, NEW t, ReceiveRequest(n, t)
    PROVE  [States!Next]_kind
<1>1. CASE OnLeaveRegFreesTwice(n, t)
  BY <1>1, FaultStep DEF OnLeaveRegFreesTwice, Arrives
<1>2. CASE OnDiscoverReg(n, t) \/ OnJoinReg(n, t) \/ OnFindSuccReg(n, t)
  BY <1>2 DEF OnDiscoverReg, OnJoinReg, OnFindSuccReg
<1>3. CASE OnStabilizeReg(n, t)
  BY <1>3 DEF OnStabilizeReg
<1>4. CASE OnLeaveRegGraceful(n, t) \/ OnLeaveRegFailed(n, t)
  BY <1>4 DEF OnLeaveRegGraceful, OnLeaveRegFailed
<1>5. CASE OnUserReg(n, t) \/ OnRedRegister(n, t)
  BY <1>5 DEF OnUserReg, OnRedRegister
<1>6. CASE IgnoreRequest(n, t)
  BY <1>6 DEF IgnoreRequest, KeepNodes
<1>. QED  BY <1>1, <1>2, <1>3, <1>4, <1>5, <1>6 DEF ReceiveRequest

(* The computation of the fingers ends in NormalState. *)
LEMMA FingerFoundKinds ==
    ASSUME IInv, NEW n \in Nodes, kind[n] \in {"FTComputing", "Normal"},
           NEW t, NEW v, FingerFound(n, t, v)
    PROVE  [States!Next]_kind
<1>1. kind' = kind \/ kind' = [kind EXCEPT ![n] = "Normal"]
  BY DEF FingerFound
<1>2. CASE kind[n] = "Normal"
  BY <1>1, <1>2 DEF IInv, NodesOK
<1>3. CASE kind[n] = "FTComputing"
  <2>1. <<"FTComputing", "Normal">> \in States!Edges /\ "Normal" \in States!Living
    BY DEF States!Edges, States!Living
  <2>. QED  BY <1>1, <1>3, <2>1, GoStep
<1>. QED  BY <1>2, <1>3

LEMMA ResponseKinds ==
    ASSUME IInv, NEW n \in Nodes, NEW t, ReceiveResponse(n, t)
    PROVE  [States!Next]_kind
<1>1. CASE OnDiscoverOK(n, t)
  <2>1. <<"Discoving", "Joining">> \in States!Edges /\ "Joining" \in States!Living
    BY DEF States!Edges, States!Living
  <2>. QED  BY <1>1, <2>1, GoStep DEF OnDiscoverOK
<1>2. CASE OnJoinOK(n, t)
  <2>1. /\ <<"Joining", "FTComputing">> \in States!Edges
        /\ <<"Joining", "Normal">> \in States!Edges
        /\ "FTComputing" \in States!Living /\ "Normal" \in States!Living
    BY DEF States!Edges, States!Living
  <2>2. /\ kind[n] = "Joining"
        /\ \/ kind' = [kind EXCEPT ![n] = "FTComputing"]
           \/ kind' = [kind EXCEPT ![n] = "Normal"]
    BY <1>2 DEF OnJoinOK
  <2>. QED  BY <2>1, <2>2, GoStep
<1>3. CASE OnFindSuccOK(n, t)
  BY <1>3, FingerFoundKinds DEF OnFindSuccOK
<1>4. CASE OnFindSuccRedirect(n, t)
  BY <1>4, FingerFoundKinds DEF OnFindSuccRedirect, FollowRedirect
<1>5. CASE OnStabilizeOKFromSucc(n, t) \/ OnStabilizeOKFromOther(n, t)
  BY <1>5 DEF OnStabilizeOKFromSucc, OnStabilizeOKFromOther
<1>6. CASE OnStabilizeOKFromPred(n, t)
  BY <1>6, FaultStep DEF OnStabilizeOKFromPred, StabilizeReturns
<1>7. CASE OnUserRegRedirect(n, t)
  BY <1>7, FaultStep DEF OnUserRegRedirect
<1>. QED  BY <1>1, <1>2, <1>3, <1>4, <1>5, <1>6, <1>7 DEF ReceiveResponse

LEMMA TimeoutKinds ==
    ASSUME NEW n \in Nodes, NEW t, Timeout(n, t)
    PROVE  [States!Next]_kind
<1>1. CASE OnNoNodeFind(n, t)
  <2>1. <<"Discoving", "Normal">> \in States!Edges /\ "Normal" \in States!Living
    BY DEF States!Edges, States!Living
  <2>. QED  BY <1>1, <2>1, GoStep DEF OnNoNodeFind, BecomeFirst
<1>2. CASE OnLastNeighbourFailure(n, t) \/ OnSuccessorFailure(n, t) \/ OnOtherFailure(n, t)
  BY <1>2 DEF OnLastNeighbourFailure, OnSuccessorFailure, OnOtherFailure
<1>. QED  BY <1>1, <1>2 DEF Timeout

LEMMA HandleKinds ==
    ASSUME IInv, NEW t \in DOMAIN net, Handle(t)
    PROVE  [States!Next]_kind
<1>1. t.src \in Nodes /\ t.dst \subseteq Nodes
  BY TransactionFacts DEF IInv
<1>2. CASE IgnoreResponse(t) \/ LoseResponse(t) \/ EndUnanswered(t)
  BY <1>2 DEF IgnoreResponse, LoseResponse, EndUnanswered, KeepNodes
<1>. QED  BY <1>1, <1>2, RequestKinds, ResponseKinds, TimeoutKinds DEF Handle

LEMMA NextKinds == IInv /\ [Next]_vars => [States!Next]_kind
<1>1. ASSUME IInv, Next  PROVE [States!Next]_kind
  BY <1>1, InputKinds, HandleKinds DEF Next
<1>2. UNCHANGED vars => UNCHANGED kind
  BY DEF vars
<1>. QED  BY <1>1, <1>2

(* The overlay implements the life cycle of Node.h: no answer and no       *)
(* timeout, however late, finds a node in a state in which it would move   *)
(* the node off that path (the Handle of every state).                     *)
THEOREM LifeCycleKept == Spec => NodeLifeCycle
<1>1. Init => States!Init
  BY DEF Init, States!Init
<1>2. IInv /\ [Next]_vars => [States!Next]_kind
  BY NextKinds
<1>. QED  BY <1>1, <1>2, Inductive, PTL DEF Spec, NodeLifeCycle, States!Spec
=============================================================================

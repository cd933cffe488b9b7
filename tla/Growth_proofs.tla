--------------------------- MODULE Growth_proofs ----------------------------
(***************************************************************************)
(* What holds of the overlay while it grows: nodes start and join in any   *)
(* order and at any moment, users register, rounds are run, and nobody     *)
(* leaves, dies or is started again. Every position has an owner, every    *)
(* member has a successor, every redirect names somebody, and no record is *)
(* lost, for every number of nodes and users.                              *)
(*                                                                         *)
(* GInv says more than these: what each node that has been placed in the   *)
(* ring knows, and what each message must bring so that its receiver comes *)
(* to know it. A record is kept by a member or is on its way in a          *)
(* registration; a registration reaches a member that handles it, hence a  *)
(* record never ends with its transaction.                                 *)
(*                                                                         *)
(* The first section shows that net is a bag: only then does a transaction *)
(* that ends leave all the others, and the records in them, under way.     *)
(***************************************************************************)
EXTENDS Scenario_proofs

-----------------------------------------------------------------------------
(* Bags of transactions: what a sum keeps, and that net is a bag. *)

(* The bags that are sent are bags, and so are sums. *)
LEMMA BagsClosed ==
    /\ IsABag(EmptyBag)
    /\ \A S : IsABag(SetToBag(S))
    /\ \A B, C : IsABag(B) /\ IsABag(C) => IsABag(B (+) C)
<1>1. IsABag(EmptyBag)
  BY DEF IsABag, EmptyBag, SetToBag
<1>2. ASSUME NEW S  PROVE IsABag(SetToBag(S))
  BY DEF IsABag, SetToBag
<1>3. ASSUME NEW B, NEW C, IsABag(B), IsABag(C)  PROVE IsABag(B (+) C)
  <2>. DEFINE D == B (+) C
  <2>1. D = [e \in DOMAIN B \cup DOMAIN C |->
              (IF e \in DOMAIN B THEN B[e] ELSE 0) + (IF e \in DOMAIN C THEN C[e] ELSE 0)]
    BY DEF (+)
  <2>. HIDE DEF D
  <2>2. \A e \in DOMAIN B : B[e] \in Nat /\ B[e] > 0
    BY <1>3 DEF IsABag
  <2>3. \A e \in DOMAIN C : C[e] \in Nat /\ C[e] > 0
    BY <1>3 DEF IsABag
  <2>4. DOMAIN D = DOMAIN B \cup DOMAIN C
    BY <2>1
  <2>5. \A e \in DOMAIN D : D[e] \in {k \in Nat : k > 0}
    BY <2>1, <2>2, <2>3
  <2>6. D = [e \in DOMAIN D |-> D[e]]
    BY <2>1
  <2>7. IsABag(D)
    BY <2>5, <2>6 DEF IsABag
  <2>. QED  BY <2>7 DEF D
<1>. QED  BY <1>1, <1>2, <1>3

(* A transaction taken out of net leaves a bag with all the others. *)
LEMMA NetLess ==
    ASSUME IsABag(net), NEW t \in DOMAIN net
    PROVE  /\ IsABag(net (-) SetToBag({t}))
           /\ DOMAIN net \ {t} \subseteq DOMAIN (net (-) SetToBag({t}))
<1>1. Less(net, t, net (-) SetToBag({t}))
  BY BagLess
<1>. DEFINE C == net (-) SetToBag({t})
<1>2. Less(net, t, C)
  BY <1>1
<1>. HIDE DEF C
<1>3. IsABag(C) /\ DOMAIN net \ {t} \subseteq DOMAIN C
  BY <1>2 DEF Less
<1>. QED  BY <1>3 DEF C

(* A transaction that ends and what it gives rise to leave a bag. *)
LEMMA ReplaceBag ==
    ASSUME IsABag(net), NEW t \in DOMAIN net, NEW ts, Replace(t, ts), IsABag(ts)
    PROVE  IsABag(net')
<1>. DEFINE C == net (-) SetToBag({t})
<1>1. net' = C (+) ts /\ IsABag(C)
  BY NetLess DEF Replace
<1>. HIDE DEF C
<1>. QED  BY <1>1, BagsClosed, Zenon

(* They leave the other transactions under way, *)
LEMMA ReplaceKeeps ==
    ASSUME IsABag(net), NEW t \in DOMAIN net, NEW ts, Replace(t, ts)
    PROVE  DOMAIN net \ {t} \subseteq DOMAIN net' /\ DOMAIN ts \subseteq DOMAIN net'
<1>. DEFINE C == net (-) SetToBag({t})
<1>1. net' = C (+) ts /\ DOMAIN net \ {t} \subseteq DOMAIN C
  BY NetLess DEF Replace
<1>. HIDE DEF C
<1>2. DOMAIN net' = DOMAIN C \cup DOMAIN ts
  BY <1>1, BagDomains, Zenon
<1>. QED  BY <1>1, <1>2

(* and so do new ones. *)
LEMMA AddKeeps ==
    ASSUME NEW S, net' = net (+) SetToBag(S)
    PROVE  DOMAIN net' = DOMAIN net \cup S
<1>1. DOMAIN net' = DOMAIN net \cup DOMAIN SetToBag(S)
  BY BagDomains, Zenon
<1>2. DOMAIN SetToBag(S) = S
  BY BagDomains, Zenon
<1>. QED  BY <1>1, <1>2

(* One request for each entry of a list is a bag, too. *)
LEMMA UserBags ==
    ASSUME NEW type, NEW n, NEW target, NEW list
    PROVE  /\ \A r : r \in DOMAIN UserRequests(type, n, target, list)
                      <=> \E u \in DOMAIN list : r = Request(type, n, target, u)
           /\ IsABag(list) => IsABag(UserRequests(type, n, target, list))
<1>. DEFINE D == UserRequests(type, n, target, list)
<1>1. D = [t \in {Request(type, n, target, u) : u \in DOMAIN list} |-> list[t.to]]
  BY DEF UserRequests
<1>. HIDE DEF D
<1>2. DOMAIN D = {Request(type, n, target, u) : u \in DOMAIN list}
  BY <1>1
<1>3. ASSUME IsABag(list)  PROVE IsABag(D)
  <2>1. \A u \in DOMAIN list : list[u] \in Nat /\ list[u] > 0
    BY <1>3 DEF IsABag
  <2>2. ASSUME NEW t \in DOMAIN D  PROVE D[t] \in {k \in Nat : k > 0}
    <3>1. PICK u \in DOMAIN list : t = Request(type, n, target, u)
      BY <1>2
    <3>2. t.to = u
      BY <3>1 DEF Request
    <3>. QED  BY <1>1, <1>2, <2>1, <3>2
  <2>3. D = [t \in DOMAIN D |-> D[t]]
    BY <1>1
  <2>. QED  BY <2>2, <2>3 DEF IsABag
<1>. QED  BY <1>2, <1>3 DEF D

(* The lists of records are bags, and so is all that is made of them. *)
LEMMA RecordBags ==
    ASSUME IInv, NEW n \in Nodes, NEW target
    PROVE  /\ IsABag(users[n]) /\ IsABag(red[n]) /\ IsABag(Misplaced(n, target))
           /\ IsABag(HandedOver(n, target)) /\ IsABag(TransferRequests(n, target))
           /\ \A list : IsABag(list) => IsABag(RedundantCopies(n, target, list))
<1>1. IsABag(users[n]) /\ IsABag(red[n])
  BY NodeFacts DEF IInv, RecordList
<1>2. IsABag(Misplaced(n, target))
  <2>. DEFINE D == Misplaced(n, target)
  <2>1. D = [u \in DOMAIN D |-> users[n][u]] /\ DOMAIN D \subseteq DOMAIN users[n]
    BY DEF Misplaced
  <2>. HIDE DEF D
  <2>2. \A u \in DOMAIN D : D[u] \in {k \in Nat : k > 0}
    BY <1>1, <2>1 DEF IsABag
  <2>3. IsABag(D)
    BY <2>1, <2>2 DEF IsABag
  <2>. QED  BY <2>3 DEF D
<1>3. IsABag(HandedOver(n, target)) /\ IsABag(TransferRequests(n, target))
  BY <1>1, <1>2, UserBags, BagsClosed DEF HandedOver, TransferRequests
<1>. QED  BY <1>1, <1>2, <1>3, UserBags, BagsClosed DEF RedundantCopies

(* What the application and the stabilize thread send. *)
LEMMA InputBag ==
    ASSUME IInv, IsABag(net), NEW n \in Nodes, Input(n) \/ Stabilize(n)
    PROVE  IsABag(net')
<1>1. CASE Leave(n)
  <2>1. \E S : \/ net' = (net (+) SetToBag(S)) (+) HandedOver(n, succ[n][0])
               \/ net' = (net (+) SetToBag(S)) (+) EmptyBag
    BY <1>1 DEF Leave
  <2>. QED  BY <2>1, RecordBags, BagsClosed
<1>2. CASE \E u \in Users : RegisterUser(n, u)
  <2>1. \E B : net' = net (+) B /\ IsABag(B)
    <3>1. PICK u \in Users : RegisterUser(n, u)
      BY <1>2
    <3>2. \/ net' = net (+) RedundantCopies(n, succ[n][0], SetToBag({u}))
          \/ \E S : net' = net (+) SetToBag(S)
      BY <3>1 DEF RegisterUser
    <3>. QED  BY <3>2, RecordBags, BagsClosed
  <2>. QED  BY <2>1, BagsClosed
<1>3. CASE StartFirst(n) \/ StartNode(n) \/ Crash(n) \/ Boot(n) \/ Stabilize(n)
  <2>1. net' = net \/ \E S : net' = net (+) SetToBag(S)
    BY <1>3 DEF StartFirst, StartNode, Crash, Boot, Stabilize
  <2>. QED  BY <2>1, BagsClosed, Zenon
<1>. QED  BY <1>1, <1>2, <1>3 DEF Input

(* What the handlers answer with are bags. *)
LEMMA MessageBags ==
    /\ \A t, phase, contacts, p : IsABag(Answer(t, phase, contacts, p))
    /\ \A n, s, k : IsABag(LookupFinger(n, s, k))
    /\ \A t, n : IsABag(Unanswered(t, n))
    /\ \A n, t, ok : IsABag(ok) => IsABag(Lookup(n, t, ok))
<1>1. \A t, phase, contacts, p : IsABag(Answer(t, phase, contacts, p))
  BY BagsClosed DEF Answer
<1>2. \A n, s, k : IsABag(LookupFinger(n, s, k))
  BY BagsClosed DEF LookupFinger
<1>3. \A t, n : IsABag(Unanswered(t, n))
  BY BagsClosed DEF Unanswered
<1>4. \A n, t, ok : IsABag(ok) => IsABag(Lookup(n, t, ok))
  BY <1>1, BagsClosed DEF Lookup
<1>. QED  BY <1>1, <1>2, <1>3, <1>4

(* The arrival of a request. *)
LEMMA RequestBag ==
    ASSUME IInv, IsABag(net), NEW n \in Nodes, NEW t \in DOMAIN net, ReceiveRequest(n, t)
    PROVE  IsABag(net')
<1>1. PICK ts : Replace(t, ts) /\ IsABag(ts)
  <2>1. CASE OnDiscoverReg(n, t) \/ OnJoinReg(n, t) \/ OnFindSuccReg(n, t)
    BY <2>1, MessageBags DEF OnDiscoverReg, OnJoinReg, OnFindSuccReg
  <2>2. CASE OnStabilizeReg(n, t)
    <3>1. \E A, contacts, p : Replace(t, A (+) Answer(t, "ok", contacts, p)) /\ IsABag(A)
      <4>. DEFINE A == IF NearerPredecessor(n, t.src)
                       THEN TransferRequests(n, t.src) ELSE EmptyBag
      <4>1. IsABag(A)
        BY RecordBags, BagsClosed
      <4>2. \E contacts, p : Replace(t, A (+) Answer(t, "ok", contacts, p))
        BY <2>2 DEF OnStabilizeReg
      <4>. HIDE DEF A
      <4>. QED  BY <4>1, <4>2
    <3>. QED  BY <3>1, MessageBags, BagsClosed, Zenon
  <2>3. CASE OnLeaveRegFailed(n, t)
    <3>1. \E A, B : Replace(t, A (+) B) /\ IsABag(A) /\ IsABag(B)
      <4>. DEFINE p == IF t.to = pred[n] THEN t.src ELSE pred[n]
                  s == IF t.to = succ[n][0] THEN SuccListWithout(n, succ[n], t.to) ELSE succ[n]
                  A == IF t.to = pred[n]
                       THEN RedundantCopies(n, succ[n][0], red[n])
                              (+) SetToBag(StabilizeRequests(n, succ[n], p))
                       ELSE EmptyBag
                  B == IF t.to = succ[n][0]
                       THEN SetToBag(StabilizeRequests(n, s, p)) ELSE EmptyBag
      <4>1. Replace(t, A (+) B)
        BY <2>3 DEF OnLeaveRegFailed
      <4>2. IsABag(A) /\ IsABag(B)
        BY RecordBags, BagsClosed
      <4>. HIDE DEF A, B
      <4>. QED  BY <4>1, <4>2
    <3>. QED  BY <3>1, BagsClosed, Zenon
  <2>4. CASE OnLeaveRegGraceful(n, t) \/ OnLeaveRegFreesTwice(n, t) \/ OnRedRegister(n, t)
    BY <2>4, BagsClosed DEF OnLeaveRegGraceful, OnLeaveRegFreesTwice, OnRedRegister
  <2>5. CASE OnUserReg(n, t)
    <3>1. \/ \E u : Replace(t, RedundantCopies(n, succ[n][0], SetToBag({u})))
          \/ Replace(t, EmptyBag)
          \/ \E contacts, p : Replace(t, Answer(t, "redirect", contacts, p))
      BY <2>5 DEF OnUserReg
    <3>. QED  BY <3>1, RecordBags, BagsClosed, MessageBags
  <2>6. CASE IgnoreRequest(n, t)
    BY <2>6, MessageBags DEF IgnoreRequest
  <2>. QED  BY <2>1, <2>2, <2>3, <2>4, <2>5, <2>6 DEF ReceiveRequest
<1>. QED  BY <1>1, ReplaceBag

(* The arrival of a response. *)
LEMMA ResponseBag ==
    ASSUME IInv, IsABag(net), NEW n \in Nodes, NEW t \in DOMAIN net, ReceiveResponse(n, t)
    PROVE  IsABag(net')
<1>1. PICK ts : Replace(t, ts) /\ IsABag(ts)
  <2>1. CASE OnDiscoverOK(n, t) \/ OnJoinOK(n, t)
    BY <2>1, BagsClosed DEF OnDiscoverOK, OnJoinOK
  <2>2. CASE OnFindSuccOK(n, t) \/ OnFindSuccRedirect(n, t)
    <3>1. ASSUME NEW v, FingerFound(n, t, v)  PROVE \E ts : Replace(t, ts) /\ IsABag(ts)
      BY <3>1, BagsClosed DEF FingerFound
    <3>. QED  BY <2>2, <3>1, BagsClosed DEF OnFindSuccOK, OnFindSuccRedirect, FollowRedirect
  <2>3. CASE OnStabilizeOKFromSucc(n, t)
    BY <2>3, MessageBags, BagsClosed DEF OnStabilizeOKFromSucc
  <2>4. CASE OnStabilizeOKFromPred(n, t)
    <3>1. \/ Replace(t, EmptyBag)
          \/ \E p, k : Replace(t, TransferRequests(n, p) (+) LookupFinger(n, succ[n], k))
      BY <2>4 DEF OnStabilizeOKFromPred
    <3>. QED  BY <3>1, RecordBags, MessageBags, BagsClosed
  <2>5. CASE OnStabilizeOKFromOther(n, t) \/ OnUserRegRedirect(n, t)
    BY <2>5, BagsClosed DEF OnStabilizeOKFromOther, OnUserRegRedirect
  <2>. QED  BY <2>1, <2>2, <2>3, <2>4, <2>5 DEF ReceiveResponse
<1>. QED  BY <1>1, ReplaceBag

(* Every way in which a transaction goes on or ends. *)
LEMMA HandleBag ==
    ASSUME IInv, IsABag(net), NEW t \in DOMAIN net, Handle(t)
    PROVE  IsABag(net')
<1>1. t.src \in Nodes /\ t.dst \subseteq Nodes
  BY TransactionFacts DEF IInv
<1>2. ASSUME \/ Timeout(t.src, t) /\ ~ OnSuccessorFailure(t.src, t)
             \/ IgnoreResponse(t) \/ LoseResponse(t) \/ EndUnanswered(t)
      PROVE  IsABag(net')
  <2>1. \E ts : Replace(t, ts) /\ IsABag(ts)
    BY <1>2, BagsClosed
       DEF Timeout, OnNoNodeFind, OnLastNeighbourFailure, OnOtherFailure,
           IgnoreResponse, LoseResponse, EndUnanswered
  <2>. QED  BY <2>1, ReplaceBag
<1>3. ASSUME OnSuccessorFailure(t.src, t)  PROVE IsABag(net')
  <2>1. \E S, target : Replace(t, SetToBag(S)
                                    (+) UserRequests("red_register", t.src, target, users[t.src]))
    BY <1>3 DEF OnSuccessorFailure
  <2>2. IsABag(users[t.src])
    BY <1>1, RecordBags
  <2>3. \E ts : Replace(t, ts) /\ IsABag(ts)
    BY <2>1, <2>2, UserBags, BagsClosed
  <2>. QED  BY <2>3, ReplaceBag
<1>. QED  BY <1>1, <1>2, <1>3, RequestBag, ResponseBag DEF Handle

(* The transactions under way are always a bag, of every overlay: none is *)
(* counted zero or negative times, whatever handlers put in and take out. *)
THEOREM NetIsABag == Spec => []IsABag(net)
<1>1. Init => IsABag(net)
  BY BagsClosed DEF Init
<1>2. IInv /\ IsABag(net) /\ [Next]_vars => IsABag(net)'
  BY InputBag, HandleBag DEF Next, vars
<1>. QED  BY <1>1, <1>2, Inductive, PTL DEF Spec

-----------------------------------------------------------------------------
(* The invariant, and what one transaction must be like. *)

(* Nobody has left, died or been started again. *)
Growing == ops["leave"] = 0 /\ ops["crash"] = 0 /\ ops["boot"] = 0

(* Nobody is dead or gone. *)
AllUp == \A n \in Nodes : kind[n] \notin Dead \cup {"Closed"}

(* The nodes with neighbours: those after the answer to their JOIN. *)
Placed == {n \in Nodes : kind[n] \in {"FTComputing", "Normal"}}

(* What a placed node knows: fingers to nodes, a successor, a             *)
(* predecessor; one that is its own successor is its own predecessor,     *)
(* hence alone.                                                           *)
TablesGrown ==
    /\ finger \in [Nodes -> [FingerIndex -> Nodes \cup {EmptyChordId}]]
    /\ \A n \in Placed :
        /\ succ[n][0] \in Nodes
        /\ pred[n] \in Nodes
        /\ succ[n][0] = n => pred[n] = n

(* What a transaction brings: its sender is still there to take the       *)
(* answer, an answer has a contact where its receiver reads one, a        *)
(* STABILIZE is never to oneself, and a registration is of a registered   *)
(* user, on its way between members.                                      *)
Useful(t) ==
    /\ t.inc = inc[t.src]
    /\ t.type # "leave"
    /\ t.type \in {"multicast", "join", "findsucc", "stabilize"} /\ t.phase # "request"
         => t.contacts[0] \in Nodes
    /\ t.type \in {"join", "stabilize"} /\ t.phase # "request" => t.predecessor \in Nodes
    /\ t.type = "stabilize" => t.to \in Nodes /\ t.to # t.src
    /\ t.type = "stabilize" /\ t.phase = "ok" => t.contacts[1] \in Nodes
    /\ t.type = "user_registration" =>
        /\ t.src \in Members
        /\ t.to \in Registered
        /\ t.phase = "request" => t.dst # {} /\ t.dst \subseteq Members
        /\ t.phase # "request" => t.contacts[0] \in Nodes

(* Every transaction is such. *)
AllUseful == \A t \in DOMAIN net : Useful(t)

(* Only registered users have records. *)
RecordsKnown == \A n \in Nodes : DOMAIN users[n] \subseteq Registered

(* The invariant of growing. *)
GInv == AllUp /\ TablesGrown /\ AllUseful /\ RecordsKnown /\ RecordsHeld

(* All that is known of a state before a step. *)
Before == IInv /\ SInv /\ IsABag(net) /\ GInv

(* A step that loses no process, no member and no registration. *)
Grows ==
    /\ inc' = inc
    /\ AllUp'
    /\ Members \subseteq Members'
    /\ Registered \subseteq Registered'

-----------------------------------------------------------------------------
(* A node moves on to NormalState. *)
LEMMA Rises ==
    ASSUME IInv, AllUp, NEW n \in Nodes, UNCHANGED <<inc, local>>,
           NEW to \in {"Discoving", "Joining", "FTComputing", "Normal"},
           kind' = [kind EXCEPT ![n] = to], kind[n] # "Normal" \/ to = "Normal"
    PROVE  Grows
<1>1. \A m \in Nodes : kind'[m] = IF m = n THEN to ELSE kind[m]
  BY DEF IInv, NodesOK
<1>. QED  BY <1>1 DEF Grows, AllUp, Members, Registered, Dead

(* No node moves. *)
LEMMA Stays ==
    ASSUME AllUp, UNCHANGED <<kind, inc, local>>
    PROVE  Grows
BY DEF Grows, AllUp, Members, Registered

(* While nobody is gone, a settled node is a member. *)
LEMMA MetMember ==
    ASSUME AllUp, NEW v \in Met, v \in Nodes
    PROVE  v \in Members
BY DEF AllUp, Met, Settled, Members, Dead

(* The neighbours of a placed node are members. *)
LEMMA PlacedFacts ==
    ASSUME Before, NEW n \in Placed
    PROVE  /\ n \in Nodes
           /\ succ[n][0] \in Nodes /\ succ[n][0] \in Members
           /\ pred[n] \in Nodes /\ pred[n] \in Members
           /\ succ[n][0] = n => pred[n] = n
<1>1. /\ n \in Nodes /\ succ[n][0] \in Nodes /\ pred[n] \in Nodes
      /\ succ[n][0] = n => pred[n] = n
  BY DEF Before, GInv, TablesGrown, Placed
<1>2. succ[n][0] \in Met /\ pred[n] \in Met
  BY <1>1, NSUCCLISTAssumption DEF Before, SInv, TablesMet
<1>. QED  BY <1>1, <1>2, MetMember DEF Before, GInv

(* Members are placed. *)
LEMMA MembersPlaced == Members \subseteq Placed
BY DEF Members, Placed

(* A node that is not alone redirects to a member, for every position. *)
LEMMA NextContact ==
    ASSUME Before, NEW n \in Members, pred[n] # n, NEW k
    PROVE  ClosestPrecedingFinger(n, finger[n], succ[n], k) \in Members
<1>. DEFINE next == ClosestPrecedingFinger(n, finger[n], succ[n], k)
<1>1. /\ n \in Nodes /\ succ[n][0] \in Nodes /\ succ[n][0] # n
      /\ finger[n] \in [FingerIndex -> Nodes \cup {EmptyChordId}]
  BY PlacedFacts, MembersPlaced DEF Before, GInv, TablesGrown
<1>2. succ[n][0] # EmptyChordId
  BY <1>1, NodeFacts DEF Before, IInv
<1>3. next # EmptyChordId
  BY <1>1, <1>2, ClosestPrecedingFingerFound
<1>4. next \in Nodes
  <2>1. next \in Nodes \cup {EmptyChordId}
    BY <1>1, ClosestPrecedingFingerIn
  <2>. QED  BY <1>3, <2>1
<1>5. next \in Met
  <2>1. finger[n] \in [FingerIndex -> Met] /\ succ[n][0] \in Met
    BY <1>1, NSUCCLISTAssumption DEF Before, SInv, TablesMet
  <2>. QED  BY <2>1, EmptyMet, ClosestPrecedingFingerIn
<1>. HIDE DEF next
<1>6. next \in Members
  BY <1>4, <1>5, MetMember DEF Before, GInv
<1>. QED  BY <1>6 DEF next

(* A node that does not answer for a position is not alone. *)
LEMMA NotAlone ==
    ASSUME NEW n, NEW x, ~ BelongsRightInclusive(x, pred[n], n)
    PROVE  pred[n] # n
BY DEF BelongsRightInclusive

(* Steps that change no table. *)
LEMMA TablesStay ==
    ASSUME TablesGrown, UNCHANGED table, Placed' \subseteq Placed
    PROVE  TablesGrown'
BY DEF TablesGrown, table

-----------------------------------------------------------------------------
(* A transaction stays useful while the overlay grows. *)
LEMMA UsefulKept ==
    ASSUME Grows, NEW t, Useful(t)
    PROVE  Useful(t)'
BY DEF Grows, Useful

(* It may be replaced by useful ones, *)
LEMMA NetUseful ==
    ASSUME Grows, AllUseful, NEW t, NEW ts, Replace(t, ts), \A o \in DOMAIN ts : Useful(o)'
    PROVE  AllUseful'
BY ReplaceDomain, UsefulKept DEF AllUseful

(* or useful ones may be sent. *)
LEMMA NetUsefulMore ==
    ASSUME Grows, AllUseful, NEW S, net' = net (+) SetToBag(S), \A o \in S : Useful(o)'
    PROVE  AllUseful'
BY AddKeeps, UsefulKept DEF AllUseful

LEMMA NetUsefulSum ==
    ASSUME Grows, AllUseful, NEW ts, net' = net (+) ts, \A o \in DOMAIN ts : Useful(o)'
    PROVE  AllUseful'
<1>1. DOMAIN net' = DOMAIN net \cup DOMAIN ts
  BY BagDomains, Zenon
<1>. QED  BY <1>1, UsefulKept DEF AllUseful

(* A FINDSUCC, a JOIN and a redundant copy. *)
LEMMA PlainUseful ==
    ASSUME Grows, NEW n, NEW type \in {"findsucc", "join", "red_register"},
           NEW target, NEW to, NEW r, r = Request(type, n, target, to)
    PROVE  Useful(r)'
<1>1. r.type = type /\ r.src = n /\ r.inc = inc[n] /\ r.phase = "request"
  BY DEF Request
<1>. QED  BY <1>1 DEF Useful, Grows

(* A STABILIZE to another node. *)
LEMMA StabilizeUseful ==
    ASSUME Grows, NEW n, NEW target \in Nodes, target # n,
           NEW r, r = Request("stabilize", n, target, target)
    PROVE  Useful(r)'
<1>1. r.type = "stabilize" /\ r.src = n /\ r.inc = inc[n] /\ r.phase = "request" /\ r.to = target
  BY DEF Request
<1>. QED  BY <1>1 DEF Useful, Grows

(* The requests of a round, and those of a joiner, which are to other     *)
(* nodes.                                                                 *)
LEMMA NeighboursUseful ==
    ASSUME Grows, NEW n, NEW s, s[0] \in Nodes, NEW p \in Nodes
    PROVE  /\ \A r \in StabilizeRequests(n, s, p) : Useful(r)'
           /\ s[0] # n /\ p # n => \A r \in NotifyRequests(n, s, p) : Useful(r)'
BY StabilizeUseful DEF StabilizeRequests, StabilizeRequest, NotifyRequests

(* A registration from a member to a member. *)
LEMMA RecordUseful ==
    ASSUME Grows, NEW n \in Members, NEW target \in Members, NEW u \in Registered',
           NEW r, r = Request("user_registration", n, target, u)
    PROVE  Useful(r)'
<1>1. /\ r.type = "user_registration" /\ r.src = n /\ r.inc = inc[n] /\ r.phase = "request"
      /\ r.to = u /\ r.dst = {target} \cap Nodes
  BY DEF Request
<1>2. target \in Nodes
  BY DEF Members
<1>. QED  BY <1>1, <1>2 DEF Useful, Grows

(* Redundant copies carry no record that counts. *)
LEMMA CopiesUseful ==
    ASSUME Grows, NEW n, NEW target, NEW list
    PROVE  /\ \A r \in DOMAIN UserRequests("red_register", n, target, list) : Useful(r)'
           /\ \A r \in DOMAIN RedundantCopies(n, target, list) : Useful(r)'
<1>1. \A r \in DOMAIN UserRequests("red_register", n, target, list) : Useful(r)'
  <2>1. \A r \in DOMAIN UserRequests("red_register", n, target, list) :
            \E u : r = Request("red_register", n, target, u)
    BY UserBags
  <2>. QED  BY <2>1, PlainUseful
<1>. QED  BY <1>1, BagDomains DEF RedundantCopies

(* What onStabilizeReg hands over are registered users. *)
LEMMA TransfersUseful ==
    ASSUME Grows, RecordsKnown, NEW n \in Members, NEW p \in Members
    PROVE  \A r \in DOMAIN TransferRequests(n, p) : Useful(r)'
<1>. DEFINE copies == UserRequests("red_register", n, p, red[n])
            moved == UserRequests("user_registration", n, p, Misplaced(n, p))
<1>1. \A u \in DOMAIN Misplaced(n, p) : u \in Registered'
  BY DEF Misplaced, RecordsKnown, Grows, Members
<1>2. \A r \in DOMAIN moved :
        \E u \in DOMAIN Misplaced(n, p) : r = Request("user_registration", n, p, u)
  BY UserBags
<1>3. DOMAIN TransferRequests(n, p) = DOMAIN copies \cup DOMAIN moved
  BY BagDomains, Zenon DEF TransferRequests
<1>4. \A r \in DOMAIN copies : Useful(r)'
  BY CopiesUseful
<1>. HIDE DEF copies, moved
<1>5. \A r \in DOMAIN moved : Useful(r)'
  BY <1>1, <1>2, RecordUseful
<1>. QED  BY <1>3, <1>4, <1>5

(* The FINDSUCC for the next finger. *)
LEMMA LookupFingerUseful ==
    ASSUME Grows, NEW n, NEW s, NEW k
    PROVE  \A r \in DOMAIN LookupFinger(n, s, k) : Useful(r)'
<1>1. \A r : r = Request("findsucc", n, s[0], Start(n, k)) => Useful(r)'
  BY PlainUseful
<1>2. LookupFinger(n, s, k) \in {EmptyBag, SetToBag({Request("findsucc", n, s[0], Start(n, k))})}
  BY DEF LookupFinger
<1>. QED  BY <1>1, <1>2, BagDomains

(* An answer with a contact, and a predecessor where one is read. *)
LEMMA AnswerUseful ==
    ASSUME Grows, NEW t \in Fine, Useful(t), NEW phase \in {"ok", "redirect"},
           NEW contacts, contacts[0] \in Nodes, NEW p,
           t.type \in {"join", "stabilize"} => p \in Nodes,
           t.type = "stabilize" => contacts[1] \in Nodes
    PROVE  \A a \in DOMAIN Answer(t, phase, contacts, p) : Useful(a)'
<1>. DEFINE a == [t EXCEPT !.phase = phase, !.dst = {},
                           !.contacts = contacts, !.predecessor = p]
<1>1. /\ a.type = t.type /\ a.phase = phase /\ a.src = t.src /\ a.to = t.to
      /\ a.contacts = contacts /\ a.predecessor = p /\ a.inc = t.inc
  BY DEF Fine, Transaction, TransactionOf
<1>2. PICK b : b = a
  OBVIOUS
<1>3. Useful(b)'
  <2>. HIDE DEF a
  <2>1. Useful(t)'
    BY UsefulKept
  <2>. QED  BY <1>1, <1>2, <2>1 DEF Useful
<1>4. DOMAIN Answer(t, phase, contacts, p) \subseteq {b}
  BY <1>2, BagDomains DEF Answer
<1>. QED  BY <1>3, <1>4

(* An answer with one contact. *)
LEMMA ContactUseful ==
    ASSUME Grows, NEW t \in Fine, Useful(t), t.type \notin {"join", "stabilize"},
           NEW phase \in {"ok", "redirect"}, NEW v \in Nodes
    PROVE  \A a \in DOMAIN Answer(t, phase, [NoContacts EXCEPT ![0] = v], EmptyChordId) :
               Useful(a)'
<1>1. [NoContacts EXCEPT ![0] = v][0] \in Nodes
  BY NSUCCLISTAssumption DEF NoContacts
<1>. QED  BY <1>1, AnswerUseful

-----------------------------------------------------------------------------
(* A record is kept by a member or is under way. *)
Carried(u) ==
    (\E n \in Members : u \in DOMAIN users[n])
        \/ \E t \in DOMAIN net : t.to = u /\ t.type = "user_registration"

(* RecordsHeld says that the records of all registered users are carried. *)
LEMMA HeldIsCarried ==
    /\ RecordsHeld <=> \A u \in Registered : Carried(u)
    /\ RecordsHeld' <=> \A u \in Registered' : Carried(u)'
BY DEF RecordsHeld, Carried, InFlight, BagIn, BagToSet

(* Steps that move no record, at the end of a transaction without one, *)
LEMMA StillHeld ==
    ASSUME Before, Grows, NEW t \in DOMAIN net, NEW ts, Replace(t, ts),
           t.type # "user_registration", UNCHANGED <<users, local>>
    PROVE  RecordsKnown' /\ RecordsHeld'
<1>1. Registered' = Registered
  BY DEF Registered
<1>2. RecordsKnown'
  BY <1>1 DEF Before, GInv, RecordsKnown
<1>3. ASSUME NEW u, Carried(u)  PROVE Carried(u)'
  BY <1>3, ReplaceKeeps DEF Before, Grows, Carried
<1>. QED  BY <1>1, <1>2, <1>3, HeldIsCarried DEF Before, GInv

(* and when messages are sent only. *)
LEMMA StillHeldMore ==
    ASSUME Before, Grows, NEW S, net' = net (+) SetToBag(S), UNCHANGED <<users, local>>
    PROVE  RecordsKnown' /\ RecordsHeld'
<1>1. Registered' = Registered
  BY DEF Registered
<1>2. RecordsKnown'
  BY <1>1 DEF Before, GInv, RecordsKnown
<1>3. ASSUME NEW u, Carried(u)  PROVE Carried(u)'
  BY <1>3, AddKeeps DEF Grows, Carried
<1>. QED  BY <1>1, <1>2, <1>3, HeldIsCarried DEF Before, GInv

(* A transaction without a record ends; the tables stay. *)
LEMMA PlainGrown ==
    ASSUME Before, Grows, NEW t \in DOMAIN net, NEW ts, Replace(t, ts),
           t.type # "user_registration", UNCHANGED <<table, users, local>>,
           Placed' \subseteq Placed, \A o \in DOMAIN ts : Useful(o)'
    PROVE  GInv'
<1>1. TablesGrown' /\ AllUseful' /\ RecordsKnown' /\ RecordsHeld'
  BY TablesStay, NetUseful, StillHeld DEF Before, GInv
<1>. QED  BY <1>1 DEF GInv, Grows

-----------------------------------------------------------------------------
(* Starts, registrations, rounds and the answers to lookups. *)

(* What is known of one transaction. *)
LEMMA NetFacts ==
    ASSUME Before, NEW t \in DOMAIN net
    PROVE  /\ t \in Fine /\ Sound(t) /\ Told(t) /\ Useful(t)
           /\ t.src \in Nodes /\ t.dst \subseteq Nodes
BY TransactionFacts DEF Before, IInv, SInv, AllTold, GInv, AllUseful

(* The same nodes are placed when none changes its state. *)
LEMMA SamePlaced == kind' = kind => Placed' = Placed
BY DEF Placed

(* One more record at one node. *)
LEMMA OneMore ==
    ASSUME NodesOK, NEW n \in Nodes, NEW u, users' = [users EXCEPT ![n] = @ (+) SetToBag({u})]
    PROVE  \A m \in Nodes : DOMAIN users'[m] = IF m = n THEN DOMAIN users[m] \cup {u}
                                               ELSE DOMAIN users[m]
<1>1. users = [m \in Nodes |-> users[m]]
  BY DEF NodesOK, RecordLists
<1>2. \A m \in Nodes : users'[m] = IF m = n THEN users[m] (+) SetToBag({u}) ELSE users[m]
  BY <1>1
<1>3. DOMAIN (users[n] (+) SetToBag({u})) = DOMAIN users[n] \cup DOMAIN SetToBag({u})
  BY BagDomains, Zenon
<1>4. DOMAIN SetToBag({u}) = {u}
  BY BagDomains, Zenon
<1>. QED  BY <1>2, <1>3, <1>4

(* A new record is kept here or sent to a member. *)
LEMMA RegisterUserGrown ==
    ASSUME RegisterFrom \subseteq {"Normal"}, Before,
           NEW n \in Nodes, NEW u \in Users, RegisterUser(n, u)
    PROVE  GInv'
<1>1. /\ n \in Members /\ UNCHANGED <<kind, inc, table>>
      /\ local' = [local EXCEPT ![n] = @ \cup {u}]
  BY DEF RegisterUser, Members
<1>2. Registered' = Registered \cup {u}
  <2>1. \A m \in Nodes : local'[m] = IF m = n THEN local[m] \cup {u} ELSE local[m]
    BY <1>1 DEF Before, IInv, NodesOK
  <2>. QED  BY <2>1 DEF Registered
<1>3. Grows /\ TablesGrown'
  BY <1>1, <1>2, TablesStay, SamePlaced DEF Before, GInv, Grows, AllUp, Members
<1>4. CASE Owns(n, u)
  <2>. DEFINE copies == RedundantCopies(n, succ[n][0], SetToBag({u}))
  <2>1. /\ net' = net (+) copies
        /\ users' = [users EXCEPT ![n] = @ (+) SetToBag({u})]
    BY <1>4 DEF RegisterUser
  <2>2. AllUseful'
    BY <1>3, <2>1, NetUsefulSum, CopiesUseful DEF Before, GInv
  <2>3. \A m \in Nodes : DOMAIN users'[m] = IF m = n THEN DOMAIN users[m] \cup {u}
                                            ELSE DOMAIN users[m]
    BY <2>1, OneMore DEF Before, IInv
  <2>4. RecordsKnown'
    BY <1>2, <2>3 DEF Before, GInv, RecordsKnown
  <2>5. ASSUME NEW v, Carried(v) \/ v = u  PROVE Carried(v)'
    <3>1. CASE v = u
      BY <1>1, <1>3, <2>3, <3>1 DEF Carried, Grows
    <3>2. CASE \E m \in Members : v \in DOMAIN users[m]
      BY <1>3, <2>3, <3>2 DEF Carried, Grows, Members
    <3>3. CASE \E t \in DOMAIN net : t.to = v /\ t.type = "user_registration"
      <4>. HIDE DEF copies
      <4>1. DOMAIN net' = DOMAIN net \cup DOMAIN copies
        BY <2>1, BagDomains, Zenon
      <4>. QED  BY <3>3, <4>1 DEF Carried
    <3>. QED  BY <2>5, <3>1, <3>2, <3>3 DEF Carried
  <2>6. RecordsHeld'
    BY <1>2, <2>5, HeldIsCarried DEF Before, GInv
  <2>. QED  BY <1>3, <2>2, <2>4, <2>6 DEF GInv, Grows
<1>5. CASE ~ Owns(n, u)
  <2>. DEFINE next == ClosestPrecedingFinger(n, finger[n], succ[n], Hash[u])
  <2>1. next \in Members
    BY <1>1, <1>5, NotAlone, NextContact DEF Owns
  <2>2. PICK r : /\ net' = net (+) SetToBag({r})
                 /\ r = Request("user_registration", n, next, u)
    BY <1>5 DEF RegisterUser
  <2>3. users' = users
    BY <1>5 DEF RegisterUser
  <2>. HIDE DEF next
  <2>4. AllUseful'
    BY <1>1, <1>2, <1>3, <2>1, <2>2, NetUsefulMore, RecordUseful DEF Before, GInv
  <2>5. RecordsKnown'
    BY <1>2, <2>3 DEF Before, GInv, RecordsKnown
  <2>6. r.type = "user_registration" /\ r.to = u
    BY <2>2 DEF Request
  <2>7. ASSUME NEW v, Carried(v) \/ v = u  PROVE Carried(v)'
    BY <1>3, <2>2, <2>3, <2>6, <2>7, AddKeeps DEF Carried, Grows
  <2>8. RecordsHeld'
    BY <1>2, <2>7, HeldIsCarried DEF Before, GInv
  <2>. QED  BY <1>3, <2>4, <2>5, <2>8 DEF GInv, Grows
<1>. QED  BY <1>4, <1>5

(* The founder is alone with itself. *)
LEMMA BecomeFirstGrown ==
    ASSUME Before, NEW n \in Nodes, kind[n] # "Normal", BecomeFirst(n), UNCHANGED <<inc, local>>
    PROVE  Grows /\ TablesGrown'
<1>1. Grows
  BY Rises DEF BecomeFirst, Before, GInv
<1>2. Set_Fingers(n, finger[n], 1, n) \in [FingerIndex -> Nodes \cup {EmptyChordId}]
  BY SetFingersIn DEF Before, GInv, TablesGrown
<1>3. finger' \in [Nodes -> [FingerIndex -> Nodes \cup {EmptyChordId}]]
  BY <1>2 DEF BecomeFirst, Before, GInv, TablesGrown
<1>4. \A m \in Nodes : m # n => /\ pred'[m] = pred[m] /\ succ'[m] = succ[m]
                                /\ kind'[m] = kind[m]
  BY DEF BecomeFirst, Before, IInv, NodesOK
<1>5. pred'[n] = n /\ succ'[n][0] = n
  BY NSUCCLISTAssumption DEF BecomeFirst, Before, IInv, NodesOK
<1>. QED  BY <1>1, <1>3, <1>4, <1>5 DEF TablesGrown, Placed, Before, GInv

(* StartNode, of the founder and of everybody else. *)
LEMMA StartGrown ==
    ASSUME StartedOnce, Before, NEW n \in Nodes, StartFirst(n) \/ StartNode(n)
    PROVE  GInv'
<1>0. kind[n] # "Normal"
  BY DEF StartFirst, StartNode, StartedOnce
<1>1. CASE StartFirst(n)
  <2>1. Grows /\ TablesGrown' /\ UNCHANGED <<net, users, local>>
    BY <1>0, <1>1, BecomeFirstGrown DEF StartFirst, records
  <2>2. AllUseful' /\ RecordsKnown'
    BY <2>1, UsefulKept DEF Before, GInv, AllUseful, RecordsKnown, Grows
  <2>3. RecordsHeld'
    BY <2>1, HeldIsCarried DEF Before, GInv, Carried, Grows, Registered
  <2>. QED  BY <2>1, <2>2, <2>3 DEF GInv, Grows
<1>2. CASE StartNode(n)
  <2>1. /\ kind' = [kind EXCEPT ![n] = "Discoving"]
        /\ UNCHANGED <<inc, table, users, local>>
    BY <1>2 DEF StartNode, records
  <2>2. Grows
    BY <1>0, <2>1, Rises DEF Before, GInv
  <2>3. Placed' \subseteq Placed
    BY <2>1 DEF Placed, Before, IInv, NodesOK
  <2>4. PICK r : r = MulticastRequest(n) /\ net' = net (+) SetToBag({r})
    BY <1>2 DEF StartNode
  <2>5. r.type = "multicast" /\ r.src = n /\ r.inc = inc[n] /\ r.phase = "request"
    BY <2>4 DEF MulticastRequest, Request
  <2>6. Useful(r)'
    BY <2>2, <2>5 DEF Useful, Grows
  <2>7. TablesGrown' /\ AllUseful' /\ RecordsKnown' /\ RecordsHeld'
    BY <2>1, <2>2, <2>3, <2>4, <2>6, TablesStay, NetUsefulMore, StillHeldMore DEF Before, GInv
  <2>. QED  BY <2>2, <2>7 DEF GInv, Grows
<1>. QED  BY <1>1, <1>2

(* A round asks a successor and a predecessor that are other nodes. *)
LEMMA StabilizeGrown ==
    ASSUME Before, NEW n \in Nodes, Stabilize(n)
    PROVE  GInv'
<1>1. /\ UNCHANGED <<kind, inc, table, users, local>> /\ n \in Members
      /\ net' = net (+) SetToBag(StabilizeRequests(n, succ[n], pred[n]))
  BY DEF Stabilize, records, Members
<1>2. Grows /\ Placed' = Placed
  BY <1>1, Stays, SamePlaced DEF Before, GInv
<1>3. \A r \in StabilizeRequests(n, succ[n], pred[n]) : Useful(r)'
  BY <1>1, <1>2, PlacedFacts, MembersPlaced, NeighboursUseful
<1>4. TablesGrown' /\ AllUseful' /\ RecordsKnown' /\ RecordsHeld'
  BY <1>1, <1>2, <1>3, TablesStay, NetUsefulMore, StillHeldMore DEF Before, GInv
<1>. QED  BY <1>2, <1>4 DEF GInv, Grows

(* The answer to a lookup, its own or a redirect, names a node. *)
LEMMA LookupUseful ==
    ASSUME Before, Grows, NEW n \in Members, NEW t \in DOMAIN net,
           t.type \in {"join", "findsucc"},
           t.type = "join" => BelongsRightInclusive(t.to, pred[n], n),
           NEW contacts, contacts[0] \in Nodes, NEW p, t.type = "join" => p \in Nodes
    PROVE  \A a \in DOMAIN Lookup(n, t, Answer(t, "ok", contacts, p)) : Useful(a)'
<1>1. t \in Fine /\ Useful(t)
  BY NetFacts
<1>2. CASE BelongsRightInclusive(t.to, pred[n], n)
  <2>1. \A a \in DOMAIN Answer(t, "ok", contacts, p) : Useful(a)'
    BY <1>1, AnswerUseful
  <2>. QED  BY <1>2, <2>1 DEF Lookup
<1>3. CASE ~ BelongsRightInclusive(t.to, pred[n], n)
  <2>. DEFINE next == ClosestPrecedingFinger(n, finger[n], succ[n], t.to)
  <2>1. next \in Nodes
    BY <1>3, NotAlone, NextContact DEF Members
  <2>2. Lookup(n, t, Answer(t, "ok", contacts, p))
          \in {EmptyBag, Answer(t, "redirect", [NoContacts EXCEPT ![0] = next], EmptyChordId)}
    BY <1>3 DEF Lookup
  <2>. HIDE DEF next
  <2>3. \A a \in DOMAIN Answer(t, "redirect", [NoContacts EXCEPT ![0] = next], EmptyChordId) :
            Useful(a)'
    BY <1>1, <1>3, <2>1, ContactUseful
  <2>. QED  BY <2>2, <2>3, BagDomains
<1>. QED  BY <1>2, <1>3

(* The answers to MULTICAST, JOIN and FINDSUCC. *)
LEMMA LookupsGrown ==
    ASSUME Before, NEW n \in Nodes, NEW t \in DOMAIN net,
           OnDiscoverReg(n, t) \/ OnJoinReg(n, t) \/ OnFindSuccReg(n, t)
    PROVE  GInv'
<1>1. UNCHANGED <<kind, inc, table, users, local>> /\ n \in Members
  BY DEF OnDiscoverReg, OnJoinReg, OnFindSuccReg, Arrives, records, Members
<1>2. Grows /\ Placed' = Placed
  BY <1>1, Stays, SamePlaced DEF Before, GInv
<1>3. t \in Fine /\ Sound(t) /\ Useful(t) /\ n \in Nodes /\ pred[n] \in Nodes
  BY <1>1, NetFacts, PlacedFacts, MembersPlaced
<1>4. [NoContacts EXCEPT ![0] = n][0] = n
  BY NSUCCLISTAssumption DEF NoContacts
<1>5. PICK ts : /\ Replace(t, ts) /\ t.type # "user_registration"
                /\ \A o \in DOMAIN ts : Useful(o)'
  <2>1. CASE OnDiscoverReg(n, t)
    <3>. DEFINE ts == Answer(t, "ok", [NoContacts EXCEPT ![0] = n], EmptyChordId)
    <3>1. Replace(t, ts) /\ t.type = "multicast"
      BY <2>1 DEF OnDiscoverReg, Arrives
    <3>2. \A o \in DOMAIN ts : Useful(o)'
      BY <1>2, <1>3, <3>1, ContactUseful
    <3>. HIDE DEF ts
    <3>. QED  BY <3>1, <3>2
  <2>2. CASE OnJoinReg(n, t)
    <3>. DEFINE contacts == ContactsOf(n, succ[n], succ[n][0] # n)
                ts == Lookup(n, t, Answer(t, "ok", contacts, pred[n]))
    <3>1. Replace(t, ts) /\ t.type = "join" /\ n \in t.dst
      BY <2>2 DEF OnJoinReg, Arrives
    <3>2. t.to = n
      BY <1>3, <3>1 DEF Sound
    <3>3. pred[n] \in Int /\ n \in Id
      <4>1. Nodes \subseteq Id /\ Id \subseteq Int
        BY NodesAssumption, SpaceType DEF Id
      <4>. QED  BY <1>3, <4>1
    <3>4. BelongsRightInclusive(t.to, pred[n], n)
      BY <3>2, <3>3, OwnPosition
    <3>5. contacts[0] = n
      BY NSUCCLISTAssumption DEF ContactsOf
    <3>. HIDE DEF contacts
    <3>6. \A o \in DOMAIN ts : Useful(o)'
      BY <1>1, <1>2, <1>3, <3>1, <3>4, <3>5, LookupUseful
    <3>. HIDE DEF ts
    <3>. QED  BY <3>1, <3>6
  <2>3. CASE OnFindSuccReg(n, t)
    <3>. DEFINE ts == Lookup(n, t, Answer(t, "ok", [NoContacts EXCEPT ![0] = n], EmptyChordId))
    <3>1. Replace(t, ts) /\ t.type = "findsucc"
      BY <2>3 DEF OnFindSuccReg, Arrives
    <3>2. \A o \in DOMAIN ts : Useful(o)'
      BY <1>1, <1>2, <1>3, <1>4, <3>1, LookupUseful
    <3>. HIDE DEF ts
    <3>. QED  BY <3>1, <3>2
  <2>. QED  BY <2>1, <2>2, <2>3
<1>. QED  BY <1>1, <1>2, <1>5, PlainGrown

-----------------------------------------------------------------------------
(* Where records move: onStabilizeReg, onUserReg and its redirect. *)

(* A difference keeps what is not taken out. *)
LEMMA OthersStay ==
    ASSUME NEW B, NEW C, IsABag(B)
    PROVE  DOMAIN B \ DOMAIN C \subseteq DOMAIN (B (-) C)
<1>1. \A e \in DOMAIN B : B[e] \in Nat /\ B[e] > 0
  BY DEF IsABag
<1>. QED  BY <1>1 DEF (-)

(* transferUserInfoToPred deletes the records that it sends: each one is  *)
(* under way now.                                                         *)
LEMMA TransferHeld ==
    ASSUME Before, Grows, NEW n \in Nodes, NEW p, TransferUserInfoToPred(n, p),
           NEW t \in DOMAIN net, NEW ts, Replace(t, ts), t.type # "user_registration",
           DOMAIN TransferRequests(n, p) \subseteq DOMAIN ts
    PROVE  RecordsKnown' /\ RecordsHeld'
<1>. DEFINE moved == UserRequests("user_registration", n, p, Misplaced(n, p))
<1>1. local' = local /\ users' = [users EXCEPT ![n] = @ (-) Misplaced(n, p)]
  BY DEF TransferUserInfoToPred
<1>2. Registered' = Registered
  BY <1>1 DEF Registered
<1>3. \A m \in Nodes : users'[m] = IF m = n THEN users[m] (-) Misplaced(n, p) ELSE users[m]
  <2>1. users = [m \in Nodes |-> users[m]]
    BY DEF Before, IInv, NodesOK, RecordLists
  <2>. QED  BY <1>1, <2>1
<1>4. /\ DOMAIN (users[n] (-) Misplaced(n, p)) \subseteq DOMAIN users[n]
      /\ DOMAIN users[n] \ DOMAIN Misplaced(n, p) \subseteq DOMAIN (users[n] (-) Misplaced(n, p))
  BY RecordBags, OthersStay, BagDomains DEF Before
<1>5. RecordsKnown'
  BY <1>2, <1>3, <1>4 DEF Before, GInv, RecordsKnown
<1>6. DOMAIN net \ {t} \subseteq DOMAIN net' /\ DOMAIN ts \subseteq DOMAIN net'
  BY ReplaceKeeps DEF Before
<1>7. \A u \in DOMAIN Misplaced(n, p) :
        \A r : r = Request("user_registration", n, p, u) => r \in DOMAIN moved
  BY UserBags
<1>8. DOMAIN moved \subseteq DOMAIN net'
  <2>1. DOMAIN TransferRequests(n, p)
          = DOMAIN UserRequests("red_register", n, p, red[n]) \cup DOMAIN moved
    BY BagDomains, Zenon DEF TransferRequests
  <2>. HIDE DEF moved
  <2>. QED  BY <1>6, <2>1
<1>. HIDE DEF moved
<1>9. ASSUME NEW v, Carried(v)  PROVE Carried(v)'
  <2>1. CASE \E o \in DOMAIN net : o.to = v /\ o.type = "user_registration"
    BY <1>6, <2>1 DEF Carried
  <2>2. CASE v \in DOMAIN Misplaced(n, p)
    <3>1. PICK r : r = Request("user_registration", n, p, v)
      OBVIOUS
    <3>2. r \in DOMAIN net'
      BY <1>7, <1>8, <2>2, <3>1
    <3>3. r.to = v /\ r.type = "user_registration"
      BY <3>1 DEF Request
    <3>. QED  BY <3>2, <3>3 DEF Carried
  <2>3. CASE v \notin DOMAIN Misplaced(n, p) /\ \E m \in Members : v \in DOMAIN users[m]
    BY <1>3, <1>4, <2>3 DEF Carried, Grows, Members
  <2>. QED  BY <1>9, <2>1, <2>2, <2>3 DEF Carried
<1>. QED  BY <1>2, <1>5, <1>9, HeldIsCarried DEF Before, GInv

(* What lies between two positions is not the first of them. *)
LEMMA BelongsInside ==
    ASSUME NEW x \in Id, NEW first \in Id, NEW second \in Id
    PROVE  /\ Belongs(x, first, second) => x # first
           /\ x # first => Belongs(x, first, first)
BY SpaceType DEF Belongs, Id, MinChordId, MaxChordId

(* A new neighbour: the sender is another node, the answer names the      *)
(* receiver and its new successor, and the records of the sender are on   *)
(* their way.                                                             *)
LEMMA OnStabilizeRegGrown ==
    ASSUME Before, NEW n \in Nodes, NEW t \in DOMAIN net, OnStabilizeReg(n, t)
    PROVE  GInv'
<1>. DEFINE nearer == NearerPredecessor(n, t.src)
            closer == NearerSuccessor(n, t.src)
            p == IF nearer THEN t.src ELSE pred[n]
            s == IF closer THEN [succ[n] EXCEPT ![0] = t.src] ELSE succ[n]
            f == Set_Fingers(n, finger[n], 1, t.src)
            transfers == IF nearer THEN TransferRequests(n, t.src) ELSE EmptyBag
            contacts == ContactsOf(n, s, s[0] # n)
            ts == transfers (+) Answer(t, "ok", contacts, p)
<1>1. /\ Arrives("stabilize", n, t)
      /\ pred' = [pred EXCEPT ![n] = p]
      /\ succ' = [succ EXCEPT ![n] = s]
      /\ finger' = finger \/ finger' = [finger EXCEPT ![n] = f]
      /\ IF nearer THEN TransferUserInfoToPred(n, t.src) ELSE UNCHANGED records
      /\ Replace(t, ts)
      /\ kind' = kind /\ inc' = inc /\ local' = local
  <2>1. finger' = finger \/ finger' = [finger EXCEPT ![n] = f]
    BY DEF OnStabilizeReg
  <2>2. IF nearer THEN TransferUserInfoToPred(n, t.src) ELSE UNCHANGED records
    BY DEF OnStabilizeReg
  <2>3. local' = local
    BY <2>2 DEF TransferUserInfoToPred, records
  <2>. QED  BY <2>1, <2>2, <2>3 DEF OnStabilizeReg
<1>2. Grows /\ Placed' = Placed
  BY <1>1, Stays, SamePlaced DEF Before, GInv
<1>3. /\ n \in Members /\ t \in Fine /\ Useful(t) /\ Told(t) /\ t.type = "stabilize"
      /\ t.to = n /\ t.src \in Nodes /\ t.src # n
  <2>1. t \in Fine /\ Sound(t) /\ Useful(t) /\ Told(t) /\ t.src \in Nodes
    BY NetFacts
  <2>2. n \in Members /\ t.type = "stabilize" /\ n \in t.dst
    BY <1>1 DEF Arrives, Members
  <2>3. t.to = n
    BY <2>1, <2>2 DEF Sound
  <2>. QED  BY <2>1, <2>2, <2>3 DEF Useful
<1>4. t.src \in Members
  <2>1. t.src \in Met
    BY <1>3, SettledMet DEF Told
  <2>. QED  BY <1>3, <2>1, MetMember DEF Before, GInv
<1>5. /\ succ[n][0] \in Nodes /\ pred[n] \in Nodes /\ p \in Nodes
  BY <1>3, PlacedFacts, MembersPlaced
<1>6. s[0] \in Nodes /\ s[0] # n
  <2>1. succ[n] \in [0..NSUCCLIST -> Cell]
    BY NodeFacts DEF Before, IInv
  <2>2. CASE closer
    BY <1>3, <2>1, <2>2, NSUCCLISTAssumption
  <2>3. CASE ~ closer
    <3>1. succ[n][0] # n
      BY <1>3, <2>3, BelongsInside, NodesAssumption DEF NearerSuccessor
    <3>. QED  BY <1>5, <2>3, <3>1
  <2>. QED  BY <2>2, <2>3
<1>7. contacts[0] = n /\ contacts[1] = s[0]
  <2>. HIDE DEF s
  <2>1. s[0] # EmptyChordId
    BY <1>6, NodesAssumption, IdsAreCells
  <2>2. contacts = ContactsOf(n, s, TRUE)
    BY <1>6, Zenon
  <2>3. contacts[0] = n
    BY NSUCCLISTAssumption DEF ContactsOf
  <2>. QED  BY <2>1, <2>2, <2>3, ContactsSecond, Zenon
<1>8. \A r \in DOMAIN transfers : Useful(r)'
  BY <1>2, <1>3, <1>4, TransfersUseful, BagDomains DEF Before, GInv
<1>9. f \in [FingerIndex -> Nodes \cup {EmptyChordId}]
  BY <1>3, SetFingersIn DEF Before, GInv, TablesGrown
<1>10. DOMAIN transfers \subseteq DOMAIN ts /\ \A r \in DOMAIN ts : Useful(r)'
  <2>. HIDE DEF s, p, contacts, transfers
  <2>1. DOMAIN ts = DOMAIN transfers \cup DOMAIN Answer(t, "ok", contacts, p)
    BY BagDomains, Zenon
  <2>2. \A a \in DOMAIN Answer(t, "ok", contacts, p) : Useful(a)'
    BY <1>2, <1>3, <1>5, <1>6, <1>7, AnswerUseful
  <2>. HIDE DEF ts
  <2>. QED  BY <1>8, <2>1, <2>2
<1>11. RecordsKnown' /\ RecordsHeld'
  <2>. HIDE DEF ts
  <2>1. CASE nearer
    BY <1>1, <1>2, <1>3, <1>10, <2>1, TransferHeld
  <2>2. CASE ~ nearer
    <3>1. UNCHANGED <<users, local>>
      BY <1>1, <2>2 DEF records
    <3>. QED  BY <1>1, <1>2, <1>3, <3>1, StillHeld
  <2>. QED  BY <2>1, <2>2
<1>. HIDE DEF p, s, f, ts, contacts
<1>12. AllUseful'
  BY <1>1, <1>2, <1>10, NetUseful DEF Before, GInv
<1>13. TablesGrown'
  <2>1. /\ \A m \in Nodes : m # n => succ'[m] = succ[m] /\ pred'[m] = pred[m]
        /\ succ'[n] = s /\ pred'[n] = p
    BY <1>1 DEF Before, IInv, NodesOK
  <2>2. finger' \in [Nodes -> [FingerIndex -> Nodes \cup {EmptyChordId}]]
    BY <1>1, <1>9 DEF Before, GInv, TablesGrown
  <2>. QED  BY <1>2, <1>5, <1>6, <2>1, <2>2 DEF Before, GInv, TablesGrown, Placed
<1>. QED  BY <1>2, <1>11, <1>12, <1>13 DEF GInv, Grows

(* The owner keeps the record; a member that is not the owner answers     *)
(* with a member nearer to it.                                            *)
LEMMA OnUserRegGrown ==
    ASSUME Before, NEW n \in Nodes, NEW t \in DOMAIN net, OnUserReg(n, t)
    PROVE  GInv'
<1>1. UNCHANGED <<kind, inc, table, local>> /\ n \in Members /\ t.type = "user_registration"
  BY DEF OnUserReg, Arrives, Members
<1>2. Grows /\ TablesGrown' /\ Registered' = Registered
  BY <1>1, Stays, SamePlaced, TablesStay DEF Before, GInv, Registered
<1>3. t \in Fine /\ Useful(t)
  BY NetFacts
<1>4. ASSUME NEW ts, Replace(t, ts), Carried(t.to)',
             \A m \in Members : DOMAIN users[m] \subseteq DOMAIN users'[m]
      PROVE  RecordsHeld'
  <2>1. DOMAIN net \ {t} \subseteq DOMAIN net'
    BY <1>4, ReplaceKeeps DEF Before
  <2>2. ASSUME NEW v, Carried(v)  PROVE Carried(v)'
    BY <1>2, <1>4, <2>1, <2>2 DEF Carried, Grows
  <2>. QED  BY <1>2, <2>2, HeldIsCarried DEF Before, GInv
<1>5. CASE Owns(n, t.to)
  <2>1. /\ users' = [users EXCEPT ![n] = @ (+) SetToBag({t.to})]
        /\ Replace(t, RedundantCopies(n, succ[n][0], SetToBag({t.to})))
    BY <1>5 DEF OnUserReg
  <2>2. \A m \in Nodes : DOMAIN users'[m] = IF m = n THEN DOMAIN users[m] \cup {t.to}
                                            ELSE DOMAIN users[m]
    BY <2>1, OneMore DEF Before, IInv
  <2>3. RecordsKnown'
    BY <1>1, <1>2, <1>3, <2>2 DEF Before, GInv, RecordsKnown, Useful
  <2>4. AllUseful'
    BY <1>2, <2>1, NetUseful, CopiesUseful DEF Before, GInv
  <2>5. Carried(t.to)'
    BY <1>1, <1>2, <2>2 DEF Carried, Grows
  <2>6. RecordsHeld'
    BY <1>4, <2>1, <2>2, <2>5 DEF Members
  <2>. QED  BY <1>2, <2>3, <2>4, <2>6 DEF GInv, Grows
<1>6. CASE ~ Owns(n, t.to)
  <2>. DEFINE next == ClosestPrecedingFinger(n, finger[n], succ[n], Hash[t.to])
              a == [t EXCEPT !.phase = "redirect", !.dst = {},
                             !.contacts = [NoContacts EXCEPT ![0] = next],
                             !.predecessor = EmptyChordId]
  <2>1. next \in Nodes /\ next # EmptyChordId
    <3>1. next \in Members
      BY <1>1, <1>6, NotAlone, NextContact DEF Owns
    <3>. QED  BY <3>1, NodesAssumption, IdsAreCells DEF Members
  <2>2. /\ users' = users
        /\ Replace(t, Answer(t, "redirect", [NoContacts EXCEPT ![0] = next], EmptyChordId))
    <3>. HIDE DEF next
    <3>1. /\ users' = users
          /\ Replace(t, IF next = EmptyChordId THEN EmptyBag
                        ELSE Answer(t, "redirect", [NoContacts EXCEPT ![0] = next], EmptyChordId))
      BY <1>6 DEF OnUserReg, next
    <3>. QED  BY <2>1, <3>1
  <2>3. a.to = t.to /\ a.type = "user_registration"
    BY <1>1, <1>3 DEF Fine, Transaction, TransactionOf
  <2>4. Answer(t, "redirect", [NoContacts EXCEPT ![0] = next], EmptyChordId) = SetToBag({a})
    <3>1. HasClient(t)
      BY <1>1, <1>3 DEF HasClient, Useful, Members, Dead
    <3>. QED  BY <3>1 DEF Answer
  <2>5. \A o \in DOMAIN Answer(t, "redirect", [NoContacts EXCEPT ![0] = next], EmptyChordId) :
            Useful(o)'
    <3>. HIDE DEF next
    <3>. QED  BY <1>1, <1>2, <1>3, <2>1, ContactUseful
  <2>. HIDE DEF next, a
  <2>6. AllUseful'
    BY <1>2, <2>2, <2>5, NetUseful DEF Before, GInv
  <2>7. a \in DOMAIN net'
    <3>1. Replace(t, SetToBag({a}))
      BY <2>2, <2>4
    <3>2. DOMAIN SetToBag({a}) = {a}
      BY BagDomains, Zenon
    <3>. QED  BY <3>1, <3>2, ReplaceKeeps DEF Before
  <2>8. RecordsHeld'
    BY <1>4, <2>2, <2>3, <2>7 DEF Carried
  <2>9. RecordsKnown'
    BY <1>2, <2>2 DEF Before, GInv, RecordsKnown
  <2>. QED  BY <1>2, <2>6, <2>8, <2>9 DEF GInv, Grows
<1>. QED  BY <1>5, <1>6

(* The record goes on to the member named. *)
LEMMA OnUserRegRedirectGrown ==
    ASSUME Before, NEW n \in Nodes, NEW t \in DOMAIN net, OnUserRegRedirect(n, t),
           RegisteredHere(n, t.to)
    PROVE  GInv'
<1>1. PICK r : /\ r = Request("user_registration", n, t.contacts[0], t.to)
               /\ Replace(t, SetToBag({r}))
               /\ UNCHANGED <<kind, inc, table, users, local>>
  BY DEF OnUserRegRedirect, records
<1>2. Grows /\ TablesGrown' /\ Registered' = Registered
  BY <1>1, Stays, SamePlaced, TablesStay DEF Before, GInv, Registered
<1>3. t \in Fine /\ Useful(t) /\ Told(t) /\ t.type = "user_registration" /\ t.phase = "redirect"
      /\ n = t.src
  BY NetFacts DEF OnUserRegRedirect, Returns
<1>4. t.contacts[0] \in Members
  <2>1. t.contacts[0] \in Nodes /\ t.contacts[0] \in Met
    BY <1>3, NSUCCLISTAssumption DEF Useful, Told
  <2>. QED  BY <2>1, MetMember DEF Before, GInv
<1>5. Useful(r)'
  BY <1>1, <1>2, <1>3, <1>4, RecordUseful DEF Useful
<1>6. r.to = t.to /\ r.type = "user_registration"
  BY <1>1 DEF Request
<1>7. DOMAIN net \ {t} \subseteq DOMAIN net' /\ r \in DOMAIN net'
  <2>1. DOMAIN SetToBag({r}) = {r}
    BY BagDomains, Zenon
  <2>. QED  BY <1>1, <2>1, ReplaceKeeps DEF Before
<1>8. RecordsHeld'
  <2>1. ASSUME NEW v, Carried(v)  PROVE Carried(v)'
    BY <1>1, <1>2, <1>6, <1>7, <2>1 DEF Carried, Grows
  <2>. QED  BY <1>2, <2>1, HeldIsCarried DEF Before, GInv
<1>9. RecordsKnown'
  BY <1>1, <1>2 DEF Before, GInv, RecordsKnown
<1>10. AllUseful'
  BY <1>1, <1>2, <1>5, NetUseful, BagDomains DEF Before, GInv
<1>. QED  BY <1>2, <1>8, <1>9, <1>10 DEF GInv, Grows

(* A redundant copy is stored. *)
LEMMA OnRedRegisterGrown ==
    ASSUME Before, NEW n \in Nodes, NEW t \in DOMAIN net, OnRedRegister(n, t)
    PROVE  GInv'
<1>1. UNCHANGED <<kind, inc, table, users, local>> /\ Replace(t, EmptyBag)
      /\ t.type = "red_register"
  BY DEF OnRedRegister, Arrives
<1>2. Grows /\ Placed' = Placed
  BY <1>1, Stays, SamePlaced DEF Before, GInv
<1>. QED  BY <1>1, <1>2, PlainGrown, BagDomains

(* A request that is ignored is no registration: those reach members      *)
(* only.                                                                  *)
LEMMA IgnoreRequestGrown ==
    ASSUME Before, NEW n \in Nodes, NEW t \in DOMAIN net, IgnoreRequest(n, t)
    PROVE  GInv'
<1>1. UNCHANGED <<kind, inc, table, users, local>> /\ Replace(t, Unanswered(t, n))
      /\ t.phase = "request" /\ n \in t.dst /\ kind[n] # "Normal"
  BY DEF IgnoreRequest, KeepNodes, records
<1>2. Grows /\ Placed' = Placed
  BY <1>1, Stays, SamePlaced DEF Before, GInv
<1>3. t \in Fine /\ Useful(t)
  BY NetFacts
<1>4. t.type # "user_registration"
  BY <1>1, <1>3 DEF Useful, Members
<1>5. PICK a : a = [t EXCEPT !.dst = @ \ {n}]
  OBVIOUS
<1>6. Useful(a)'
  <2>1. /\ a.type = t.type /\ a.phase = t.phase /\ a.src = t.src /\ a.to = t.to
        /\ a.contacts = t.contacts /\ a.predecessor = t.predecessor /\ a.inc = t.inc
    BY <1>3, <1>5 DEF Fine, Transaction, TransactionOf
  <2>2. Useful(t)'
    BY <1>2, <1>3, UsefulKept
  <2>. QED  BY <1>4, <2>1, <2>2 DEF Useful
<1>7. DOMAIN Unanswered(t, n) \subseteq {a}
  BY <1>5, BagDomains DEF Unanswered
<1>. QED  BY <1>1, <1>2, <1>4, <1>6, <1>7, PlainGrown

-----------------------------------------------------------------------------
(* What the answers do to the node that asked. *)

(* The JOIN to the node that answered. *)
LEMMA OnDiscoverOKGrown ==
    ASSUME Before, NEW n \in Nodes, NEW t \in DOMAIN net, OnDiscoverOK(n, t)
    PROVE  GInv'
<1>1. PICK r : /\ r = Request("join", n, t.contacts[0], t.contacts[0])
               /\ Replace(t, SetToBag({r}))
               /\ kind' = [kind EXCEPT ![n] = "Joining"] /\ kind[n] = "Discoving"
               /\ UNCHANGED <<inc, table, users, local>> /\ t.type = "multicast"
  BY DEF OnDiscoverOK, JoinRequest, Returns, records
<1>2. Grows /\ Placed' \subseteq Placed
  BY <1>1, Rises DEF Before, GInv, Placed, IInv, NodesOK
<1>3. Useful(r)'
  BY <1>1, <1>2, PlainUseful
<1>. QED  BY <1>1, <1>2, <1>3, PlainGrown, BagDomains

(* The joiner is placed: it has a successor and a predecessor that are    *)
(* other nodes.                                                           *)
LEMMA OnJoinOKGrown ==
    ASSUME Before, NEW n \in Nodes, NEW t \in DOMAIN net, OnJoinOK(n, t)
    PROVE  GInv'
<1>. DEFINE contact == t.contacts[0]
            k == LastCovered(n, 1, contact) + 1
            list == SetSuccListWithContacts(n, succ[n], t.contacts, 0)
            f == Set_Fingers(n, finger[n], 1, contact)
<1>1. /\ finger' = [finger EXCEPT ![n] = f]
      /\ succ' = [succ EXCEPT ![n] = list]
      /\ pred' = [pred EXCEPT ![n] = t.predecessor]
      /\ \/ /\ kind' = [kind EXCEPT ![n] = "FTComputing"]
            /\ Replace(t, SetToBag({Request("findsucc", n, contact, Start(n, k))}))
         \/ /\ kind' = [kind EXCEPT ![n] = "Normal"]
            /\ Replace(t, SetToBag(NotifyRequests(n, list, t.predecessor)))
      /\ UNCHANGED <<inc, users, local>>
      /\ kind[n] = "Joining" /\ t.type = "join" /\ t.phase = "ok"
  BY DEF OnJoinOK, Returns, records
<1>2. Grows
  BY <1>1, Rises DEF Before, GInv
<1>3. /\ contact \in Nodes /\ contact # n
      /\ t.predecessor \in Nodes /\ t.predecessor # n
  <2>1. Useful(t) /\ Told(t)
    BY NetFacts
  <2>2. contact \in Nodes /\ contact \in Met /\ t.predecessor \in Nodes /\ t.predecessor \in Met
    BY <1>1, <2>1, NSUCCLISTAssumption DEF Useful, Told
  <2>3. n \notin Members
    BY <1>1 DEF Members
  <2>. QED  BY <2>2, <2>3, MetMember DEF Before, GInv
<1>4. list[0] = contact
  BY SetSuccListFirst
<1>5. f \in [FingerIndex -> Nodes \cup {EmptyChordId}]
  BY <1>3, SetFingersIn DEF Before, GInv, TablesGrown
<1>. HIDE DEF contact, k, list, f
<1>6. TablesGrown'
  <2>1. /\ \A m \in Nodes : m # n => /\ succ'[m] = succ[m] /\ pred'[m] = pred[m]
                                     /\ kind'[m] = kind[m]
        /\ succ'[n] = list /\ pred'[n] = t.predecessor
    BY <1>1 DEF Before, IInv, NodesOK
  <2>2. finger' \in [Nodes -> [FingerIndex -> Nodes \cup {EmptyChordId}]]
    BY <1>1, <1>5 DEF Before, GInv, TablesGrown
  <2>. QED  BY <1>3, <1>4, <2>1, <2>2 DEF Before, GInv, TablesGrown, Placed
<1>7. ASSUME NEW S, Replace(t, SetToBag(S)), \A r \in S : Useful(r)'  PROVE GInv'
  <2>1. AllUseful'
    BY <1>2, <1>7, NetUseful, BagDomains DEF Before, GInv
  <2>2. RecordsKnown' /\ RecordsHeld'
    BY <1>1, <1>2, <1>7, StillHeld
  <2>. QED  BY <1>2, <1>6, <2>1, <2>2 DEF GInv, Grows
<1>8. \A r \in {Request("findsucc", n, contact, Start(n, k))} : Useful(r)'
  BY <1>2, PlainUseful
<1>9. \A r \in NotifyRequests(n, list, t.predecessor) : Useful(r)'
  BY <1>2, <1>3, <1>4, NeighboursUseful
<1>. QED  BY <1>1, <1>7, <1>8, <1>9

(* Fingers are filled in with a node; the last one makes a joiner a       *)
(* member.                                                                *)
LEMMA FingerFoundGrown ==
    ASSUME Before, NEW n \in Placed, NEW t \in DOMAIN net, t.type = "findsucc",
           NEW v \in Nodes, FingerFound(n, t, v)
    PROVE  GInv'
<1>1. PICK i \in FingerIndex :
        LET k == LastCovered(n, i, v) + 1
        IN  /\ finger' = [finger EXCEPT ![n] = Set_Fingers(n, @, i, v)]
            /\ Replace(t, IF k <= NBITS
                          THEN SetToBag({Request("findsucc", n, v, Start(n, k))})
                          ELSE IF kind[n] = "FTComputing"
                          THEN SetToBag(NotifyRequests(n, succ[n], pred[n]))
                          ELSE EmptyBag)
            /\ kind' = IF k > NBITS THEN [kind EXCEPT ![n] = "Normal"] ELSE kind
            /\ UNCHANGED <<inc, succ, pred, bootstrap, records, ops>>
  BY DEF FingerFound
<1>. DEFINE k == LastCovered(n, i, v) + 1
            f == Set_Fingers(n, finger[n], i, v)
<1>2. /\ finger' = [finger EXCEPT ![n] = f]
      /\ Replace(t, IF k <= NBITS
                    THEN SetToBag({Request("findsucc", n, v, Start(n, k))})
                    ELSE IF kind[n] = "FTComputing"
                    THEN SetToBag(NotifyRequests(n, succ[n], pred[n]))
                    ELSE EmptyBag)
      /\ kind' = [kind EXCEPT ![n] = "Normal"] \/ kind' = kind
      /\ UNCHANGED <<inc, succ, pred, users, local>>
  BY <1>1 DEF records
<1>3. n \in Nodes /\ f \in [FingerIndex -> Nodes \cup {EmptyChordId}]
  BY SetFingersIn DEF Before, GInv, TablesGrown, Placed
<1>4. Grows
  BY <1>2, <1>3, Rises, Stays DEF Before, GInv
<1>. HIDE DEF k, f
<1>5. TablesGrown'
  <2>1. Placed' \subseteq Placed
    BY <1>2 DEF Placed, Before, IInv, NodesOK
  <2>2. finger' \in [Nodes -> [FingerIndex -> Nodes \cup {EmptyChordId}]]
    BY <1>2, <1>3 DEF Before, GInv, TablesGrown
  <2>. QED  BY <1>2, <2>1, <2>2 DEF Before, GInv, TablesGrown
<1>6. ASSUME NEW ts, Replace(t, ts), \A r \in DOMAIN ts : Useful(r)'  PROVE GInv'
  <2>1. AllUseful'
    BY <1>4, <1>6, NetUseful DEF Before, GInv
  <2>2. RecordsKnown' /\ RecordsHeld'
    BY <1>2, <1>4, <1>6, StillHeld
  <2>. QED  BY <1>4, <1>5, <2>1, <2>2 DEF GInv, Grows
<1>7. \A r \in DOMAIN SetToBag({Request("findsucc", n, v, Start(n, k))}) : Useful(r)'
  BY <1>4, PlainUseful, BagDomains
<1>8. ASSUME kind[n] = "FTComputing"
      PROVE  \A r \in DOMAIN SetToBag(NotifyRequests(n, succ[n], pred[n])) : Useful(r)'
  <2>1. n \notin Members
    BY <1>8 DEF Members
  <2>2. /\ succ[n][0] \in Nodes /\ succ[n][0] # n
        /\ pred[n] \in Nodes /\ pred[n] # n
    BY <2>1, PlacedFacts
  <2>3. \A r \in NotifyRequests(n, succ[n], pred[n]) : Useful(r)'
    BY <1>4, <2>2, NeighboursUseful
  <2>4. DOMAIN SetToBag(NotifyRequests(n, succ[n], pred[n])) = NotifyRequests(n, succ[n], pred[n])
    BY BagDomains, Zenon
  <2>. QED  BY <2>3, <2>4
<1>9. \A r \in DOMAIN EmptyBag : Useful(r)'
  BY BagDomains
<1>. QED  BY <1>2, <1>6, <1>7, <1>8, <1>9

(* onFindSuccOK and the redirect. *)
LEMMA OnFindSuccGrown ==
    ASSUME Before, NEW n \in Nodes, NEW t \in DOMAIN net,
           OnFindSuccOK(n, t) \/ OnFindSuccRedirect(n, t)
    PROVE  GInv'
<1>1. n \in Placed /\ t.type = "findsucc" /\ t.phase # "request"
  BY DEF OnFindSuccOK, OnFindSuccRedirect, Returns, Placed
<1>2. t.contacts[0] \in Nodes
  BY <1>1, NetFacts DEF Useful
<1>3. CASE FingerFound(n, t, t.contacts[0])
  BY <1>1, <1>2, <1>3, FingerFoundGrown
<1>4. CASE /\ Replace(t, SetToBag({Request("findsucc", n, t.contacts[0], t.to)}))
           /\ UNCHANGED <<kind, inc, table, records>>
  <2>1. PICK r : r = Request("findsucc", n, t.contacts[0], t.to) /\ Replace(t, SetToBag({r}))
    BY <1>4
  <2>2. Grows /\ Placed' = Placed /\ UNCHANGED <<table, users, local>>
    BY <1>4, Stays, SamePlaced DEF Before, GInv, records
  <2>3. Useful(r)'
    BY <2>1, <2>2, PlainUseful
  <2>. QED  BY <1>1, <2>1, <2>2, <2>3, PlainGrown, BagDomains
<1>. QED  BY <1>3, <1>4 DEF OnFindSuccOK, OnFindSuccRedirect, FollowRedirect

(* What the answer to a STABILIZE brings. *)
LEMMA StabilizeAnswer ==
    ASSUME Before, NEW n \in Nodes, NEW t \in DOMAIN net, StabilizeReturns(n, t)
    PROVE  /\ t.type = "stabilize" /\ n \in Members
           /\ t.contacts[0] \in Nodes /\ t.contacts[0] = t.to
           /\ t.predecessor \in Nodes /\ t.to # n
           /\ t.contacts[1] \in Nodes /\ t.contacts[1] \in Members
<1>1. /\ t.type = "stabilize" /\ t.phase = "ok" /\ t.src = n /\ n \in Members
  BY DEF StabilizeReturns, Returns, Members
<1>2. Useful(t) /\ Told(t)
  BY NetFacts
<1>3. t.contacts[1] \in Nodes /\ t.contacts[1] \in Met
  BY <1>1, <1>2, NSUCCLISTAssumption DEF Useful, Told
<1>4. t.contacts[1] \in Members
  BY <1>3, MetMember DEF Before, GInv
<1>. QED  BY <1>1, <1>2, <1>3, <1>4 DEF Useful, Told

(* A nearer successor, or the list of the one there is; a successor       *)
(* stays.                                                                 *)
LEMMA OnStabilizeOKFromSuccGrown ==
    ASSUME Before, NEW n \in Nodes, NEW t \in DOMAIN net, OnStabilizeOKFromSucc(n, t)
    PROVE  GInv'
<1>. DEFINE v == IF t.predecessor = n THEN t.contacts[0] ELSE t.predecessor
            nearer == [ClearSuccList(succ[n]) EXCEPT ![0] = t.predecessor]
            list == SetSuccListWithContacts(n, succ[n], t.contacts, 0)
            s == IF NearerSuccessor(n, t.predecessor) THEN nearer ELSE list
            k == LastCovered(n, 1, v) + 1
            f == Set_Fingers(n, finger[n], 1, v)
<1>1. /\ StabilizeReturns(n, t) /\ t.to = succ[n][0]
      /\ finger' = finger \/ finger' = [finger EXCEPT ![n] = f]
      /\ succ' = succ \/ succ' = [succ EXCEPT ![n] = s]
      /\ Replace(t, LookupFinger(n, s, k)) \/ Replace(t, EmptyBag)
      /\ UNCHANGED <<kind, inc, pred, users, local>>
  BY DEF OnStabilizeOKFromSucc, records
<1>2. Grows /\ Placed' = Placed
  BY <1>1, Stays, SamePlaced DEF Before, GInv
<1>3. /\ t.type = "stabilize" /\ n \in Members /\ t.contacts[0] = t.to /\ t.to \in Nodes
      /\ t.predecessor \in Nodes /\ t.to # n
  BY <1>1, StabilizeAnswer
<1>4. s[0] \in Nodes /\ s[0] # n
  <2>1. nearer[0] = t.predecessor
    BY NSUCCLISTAssumption DEF ClearSuccList
  <2>2. list[0] = t.to
    BY <1>3, SetSuccListFirst
  <2>3. NearerSuccessor(n, t.predecessor) => t.predecessor # n
    BY <1>1, <1>3, BelongsInside, NodesAssumption DEF NearerSuccessor
  <2>. HIDE DEF nearer, list
  <2>. QED  BY <1>3, <2>1, <2>2, <2>3
<1>5. f \in [FingerIndex -> Nodes \cup {EmptyChordId}]
  <2>1. v \in Nodes
    BY <1>3
  <2>. HIDE DEF v
  <2>. QED  BY <2>1, SetFingersIn DEF Before, GInv, TablesGrown
<1>. HIDE DEF v, s, k, f
<1>6. TablesGrown'
  <2>1. /\ \A m \in Nodes : m # n => succ'[m] = succ[m]
        /\ succ'[n] = s \/ succ'[n] = succ[n]
    BY <1>1 DEF Before, IInv, NodesOK
  <2>2. finger' \in [Nodes -> [FingerIndex -> Nodes \cup {EmptyChordId}]]
    BY <1>1, <1>5 DEF Before, GInv, TablesGrown
  <2>3. ASSUME NEW m \in Placed'
        PROVE  /\ succ'[m][0] \in Nodes /\ pred'[m] \in Nodes
               /\ succ'[m][0] = m => pred'[m] = m
    <3>1. /\ m \in Nodes /\ succ[m][0] \in Nodes /\ pred'[m] \in Nodes
          /\ succ[m][0] = m => pred'[m] = m
      BY <1>1, <1>2, PlacedFacts
    <3>. QED  BY <1>4, <2>1, <3>1
  <2>. QED  BY <2>2, <2>3 DEF TablesGrown
<1>7. PICK ts : Replace(t, ts) /\ \A r \in DOMAIN ts : Useful(r)'
  BY <1>1, <1>2, LookupFingerUseful, BagDomains
<1>8. AllUseful' /\ RecordsKnown' /\ RecordsHeld'
  BY <1>1, <1>2, <1>3, <1>7, NetUseful, StillHeld DEF Before, GInv
<1>. QED  BY <1>2, <1>6, <1>8 DEF GInv, Grows

(* A nearer predecessor, and the records of its arc on their way to it. *)
LEMMA OnStabilizeOKFromPredGrown ==
    ASSUME Before, NEW n \in Nodes, NEW t \in DOMAIN net, OnStabilizeOKFromPred(n, t)
    PROVE  GInv'
<1>. DEFINE first == t.contacts[1]
<1>1. /\ StabilizeReturns(n, t) /\ t.to = pred[n]
      /\ first = EmptyChordId \/ first # EmptyChordId
  BY DEF OnStabilizeOKFromPred
<1>2. /\ t.type = "stabilize" /\ n \in Members /\ first \in Members /\ first \in Nodes
      /\ t.to # n
  BY <1>1, StabilizeAnswer
<1>3. first # EmptyChordId
  BY <1>2, NodesAssumption, IdsAreCells
<1>. HIDE DEF first
<1>4. CASE NearerPredecessor(n, first)
  <2>. DEFINE ts == TransferRequests(n, first) (+) LookupFinger(n, succ[n], 1)
  <2>1. /\ pred' = [pred EXCEPT ![n] = first]
        /\ TransferUserInfoToPred(n, first)
        /\ Replace(t, ts)
        /\ UNCHANGED <<kind, inc, finger, succ>>
    BY <1>3, <1>4 DEF OnStabilizeOKFromPred, first
  <2>2. Grows /\ Placed' = Placed
    BY <2>1, Stays, SamePlaced DEF Before, GInv, TransferUserInfoToPred
  <2>3. /\ DOMAIN TransferRequests(n, first) \subseteq DOMAIN ts
        /\ \A r \in DOMAIN ts : Useful(r)'
    <3>1. DOMAIN ts = DOMAIN TransferRequests(n, first) \cup DOMAIN LookupFinger(n, succ[n], 1)
      BY BagDomains, Zenon
    <3>2. \A r \in DOMAIN TransferRequests(n, first) : Useful(r)'
      BY <1>2, <2>2, TransfersUseful DEF Before, GInv
    <3>. HIDE DEF ts
    <3>. QED  BY <2>2, <3>1, <3>2, LookupFingerUseful
  <2>. HIDE DEF ts
  <2>4. RecordsKnown' /\ RecordsHeld' /\ AllUseful'
    BY <1>2, <2>1, <2>2, <2>3, TransferHeld, NetUseful DEF Before, GInv
  <2>5. TablesGrown'
    <3>1. \A m \in Nodes : pred'[m] = IF m = n THEN first ELSE pred[m]
      BY <2>1 DEF Before, IInv, NodesOK
    <3>2. succ[n][0] # n
      BY <1>1, <1>2, PlacedFacts, MembersPlaced
    <3>. QED  BY <1>2, <2>1, <2>2, <3>1, <3>2 DEF Before, GInv, TablesGrown
  <2>. QED  BY <2>2, <2>4, <2>5 DEF GInv, Grows
<1>5. CASE ~ NearerPredecessor(n, first)
  <2>1. UNCHANGED <<kind, inc, table, users, local>> /\ Replace(t, EmptyBag)
    BY <1>3, <1>5 DEF OnStabilizeOKFromPred, records, first
  <2>2. Grows /\ Placed' = Placed
    BY <2>1, Stays, SamePlaced DEF Before, GInv
  <2>. QED  BY <1>2, <2>1, <2>2, PlainGrown, BagDomains
<1>. QED  BY <1>4, <1>5

(* A discovery that nobody answered makes a founder. *)
LEMMA OnNoNodeFindGrown ==
    ASSUME Before, NEW n \in Nodes, NEW t \in DOMAIN net, OnNoNodeFind(n, t)
    PROVE  GInv'
<1>1. /\ Replace(t, EmptyBag) /\ t.type = "multicast" /\ kind[n] = "Discoving"
      /\ BecomeFirst(n) /\ UNCHANGED <<inc, users, local>>
  BY DEF OnNoNodeFind, Returns, records
<1>2. Grows /\ TablesGrown'
  BY <1>1, BecomeFirstGrown
<1>3. AllUseful' /\ RecordsKnown' /\ RecordsHeld'
  BY <1>1, <1>2, NetUseful, StillHeld, BagDomains DEF Before, GInv
<1>. QED  BY <1>2, <1>3 DEF GInv, Grows

(* A transaction without a record ends without effect. *)
LEMMA EndGrown ==
    ASSUME Before, NEW t \in DOMAIN net, t.type # "user_registration", Replace(t, EmptyBag),
           UNCHANGED <<kind, inc, table, users, local>>
    PROVE  GInv'
<1>1. Grows /\ Placed' = Placed
  BY Stays, SamePlaced DEF Before, GInv
<1>. QED  BY <1>1, PlainGrown, BagDomains

-----------------------------------------------------------------------------
(* The steps together, and what follows. *)

(* No STABILIZE fails while everybody is up. *)
LEMMA NoTimeout ==
    ASSUME ~ Lossy, Before, NEW n, NEW t \in DOMAIN net
    PROVE  ~ StabilizeTimeout(n, t)
<1>. SUFFICES ASSUME StabilizeTimeout(n, t)  PROVE FALSE
  OBVIOUS
<1>1. Told(t) /\ Useful(t)
  BY NetFacts
<1>2. t.to \notin Members /\ t.to \in Met
  BY <1>1, TimeoutGone
<1>3. t.to \in Nodes
  BY <1>1 DEF Useful, StabilizeTimeout, Returns
<1>. QED  BY <1>2, <1>3, MetMember DEF Before, GInv

(* What the application does while the overlay grows: it starts nodes and *)
(* registers users.                                                       *)
LEMMA InputGrown ==
    ASSUME StartedOnce, RegisterFrom \subseteq {"Normal"}, Before, Growing, Growing',
           NEW n \in Nodes, Input(n)
    PROVE  GInv'
<1>1. \A op \in Operations : \A max : Spend(op, max) => ops'[op] # 0
  BY DEF Spend, Before, IInv, NodesOK
<1>2. ~ Leave(n) /\ ~ Crash(n) /\ ~ Boot(n)
  BY <1>1 DEF Leave, Crash, Boot, Growing, Operations
<1>. QED  BY <1>2, StartGrown, RegisterUserGrown DEF Input

(* The arrival of a request; there is no LEAVE. *)
LEMMA RequestGrown ==
    ASSUME Before, NEW n \in Nodes, NEW t \in DOMAIN net, ReceiveRequest(n, t)
    PROVE  GInv'
<1>1. t.type # "leave"
  BY NetFacts DEF Useful
<1>2. ~ OnLeaveRegGraceful(n, t) /\ ~ OnLeaveRegFailed(n, t) /\ ~ OnLeaveRegFreesTwice(n, t)
  BY <1>1 DEF OnLeaveRegGraceful, OnLeaveRegFailed, OnLeaveRegFreesTwice, Arrives
<1>. QED
  BY <1>2, LookupsGrown, OnStabilizeRegGrown, OnUserRegGrown, OnRedRegisterGrown,
     IgnoreRequestGrown DEF ReceiveRequest

(* The arrival of a response. *)
LEMMA ResponseGrown ==
    ASSUME Before, NEW n \in Nodes, NEW t \in DOMAIN net, ReceiveResponse(n, t),
           OnUserRegRedirect(n, t) => RegisteredHere(n, t.to)
    PROVE  GInv'
<1>1. ASSUME OnStabilizeOKFromOther(n, t)  PROVE GInv'
  BY <1>1, EndGrown DEF OnStabilizeOKFromOther, StabilizeReturns, Returns, records
<1>. QED
  BY <1>1, OnDiscoverOKGrown, OnJoinOKGrown, OnFindSuccGrown, OnStabilizeOKFromSuccGrown,
     OnStabilizeOKFromPredGrown, OnUserRegRedirectGrown DEF ReceiveResponse

(* A transaction that ends unheard is no registration: its sender is in   *)
(* NormalState, the state that handles its answers, and its receiver      *)
(* lives.                                                                 *)
LEMMA NoRecordLost ==
    ASSUME ~ Lossy, Before, NEW t \in DOMAIN net, IgnoreResponse(t) \/ EndUnanswered(t)
    PROVE  t.type # "user_registration"
<1>. SUFFICES ASSUME t.type = "user_registration"  PROVE FALSE
  OBVIOUS
<1>1. t \in Fine /\ Useful(t)
  BY NetFacts
<1>2. t.src \in Members /\ HasClient(t)
  BY <1>1 DEF Useful, HasClient, Members, Dead
<1>3. CASE IgnoreResponse(t)
  <2>1. ResponseHandledIn(t.type) = {"Normal"}
    BY DEF ResponseHandledIn
  <2>. QED  BY <1>2, <1>3, <2>1 DEF IgnoreResponse, Members
<1>4. CASE EndUnanswered(t)
  <2>1. t.to \in Users
    BY <1>1, TransactionFacts DEF UserTypes
  <2>2. t.to \notin {EmptyChordId, LocalnodeWord}
    BY <2>1, UsersAssumption DEF Cell
  <2>3. t.dst # {} /\ t.dst \subseteq Live
    BY <1>1, <1>4 DEF EndUnanswered, Useful, Members, Live, Dead
  <2>. QED  BY <1>4, <2>2, <2>3 DEF EndUnanswered
<1>. QED  BY <1>3, <1>4

(* Every way in which a transaction goes on or ends. *)
LEMMA HandleGrown ==
    ASSUME ~ Lossy, Before, NEW t \in DOMAIN net, Handle(t),
           OnUserRegRedirect(t.src, t) => RegisteredHere(t.src, t.to)
    PROVE  GInv'
<1>0. t.src \in Nodes /\ t.dst \subseteq Nodes
  BY NetFacts
<1>1. ASSUME NEW n \in t.dst, ReceiveRequest(n, t)  PROVE GInv'
  BY <1>0, <1>1, RequestGrown
<1>2. ASSUME ReceiveResponse(t.src, t)  PROVE GInv'
  BY <1>0, <1>2, ResponseGrown
<1>3. ASSUME Timeout(t.src, t)  PROVE GInv'
  BY <1>0, <1>3, NoTimeout, OnNoNodeFindGrown
     DEF Timeout, OnLastNeighbourFailure, OnSuccessorFailure, OnOtherFailure
<1>4. ASSUME IgnoreResponse(t) \/ EndUnanswered(t)  PROVE GInv'
  <2>1. Replace(t, EmptyBag) /\ UNCHANGED <<kind, inc, table, users, local>>
    BY <1>4 DEF IgnoreResponse, EndUnanswered, KeepNodes, records
  <2>. QED  BY <1>4, <2>1, NoRecordLost, EndGrown
<1>. QED  BY <1>1, <1>2, <1>3, <1>4 DEF Handle, LoseResponse

(* Nothing happens. *)
LEMMA VarsGrown ==
    ASSUME GInv, UNCHANGED vars
    PROVE  GInv'
<1>. USE DEF vars, table, records
<1>1. AllUp' /\ TablesGrown'
  BY DEF GInv, AllUp, TablesGrown, Placed
<1>2. Registered' = Registered /\ Members' = Members
  BY DEF Registered, Members
<1>3. AllUseful'
  BY <1>2 DEF GInv, AllUseful, Useful
<1>4. RecordsKnown' /\ RecordsHeld'
  BY <1>2 DEF GInv, RecordsKnown, RecordsHeld, InFlight
<1>. QED  BY <1>1, <1>3, <1>4 DEF GInv

(* Every step in which no process dies of a redirected registration. *)
LEMMA NextGrown ==
    ASSUME StartedOnce, ~ Lossy, RegisterFrom \subseteq {"Normal"},
           Before, Growing, Growing', [Next]_vars,
           \A t \in DOMAIN net : OnUserRegRedirect(t.src, t) => RegisteredHere(t.src, t.to)
    PROVE  GInv'
<1>1. CASE UNCHANGED vars
  BY <1>1, VarsGrown DEF Before
<1>2. ASSUME NEW n \in Nodes, Input(n) \/ Stabilize(n)  PROVE GInv'
  BY <1>2, InputGrown, StabilizeGrown
<1>3. ASSUME NEW t \in DOMAIN net, Handle(t)  PROVE GInv'
  BY <1>3, HandleGrown
<1>. QED  BY <1>1, <1>2, <1>3 DEF Next

(* At first there are neither members nor messages. *)
LEMMA InitGrown == Init => GInv
<1>. SUFFICES ASSUME Init  PROVE GInv
  OBVIOUS
<1>1. AllUp /\ Placed = {} /\ Registered = {}
  BY DEF Init, AllUp, Placed, Registered, Dead
<1>2. TablesGrown
  BY <1>1 DEF Init, TablesGrown, NoFingers
<1>3. AllUseful
  BY BagDomains DEF Init, AllUseful
<1>4. RecordsKnown /\ RecordsHeld
  BY <1>1, BagDomains DEF Init, RecordsKnown, RecordsHeld
<1>. QED  BY <1>1, <1>2, <1>3, <1>4 DEF GInv

(* The processes that live after a step did not die in it. *)
LEMMA NoFaultGrown ==
    ASSUME StartedOnce, ~ Lossy, RegisterFrom \subseteq {"Normal"}
    PROVE  Before /\ Growing /\ Growing' /\ NoFault' /\ [Next]_vars => GInv'
<1>. SUFFICES ASSUME Before, Growing, Growing', NoFault', [Next]_vars  PROVE GInv'
  OBVIOUS
<1>1. ASSUME NEW t \in DOMAIN net, OnUserRegRedirect(t.src, t)
      PROVE  RegisteredHere(t.src, t.to)
  <2>1. ~ Fault(t.src)
    BY NetFacts DEF Fault, NoFault, Before, IInv, NodesOK
  <2>. QED  BY <1>1, <2>1 DEF OnUserRegRedirect
<1>. QED  BY <1>1, NextGrown

(* The invariant of an overlay that grows, for every number of nodes and  *)
(* users, every order of messages and joins at any moment: of those       *)
(* behaviours in which no process dies of a redirect it cannot resolve    *)
(* (onUserRegRedirect).                                                   *)
THEOREM GrowsSoundly ==
    ASSUME StartedOnce, ~ Lossy, RegisterFrom \subseteq {"Normal"}
    PROVE  Spec /\ [](Growing /\ NoFault) => []Before
<1>1. Init => GInv
  BY InitGrown
<1>2. Before /\ Growing /\ Growing' /\ NoFault' /\ [Next]_vars => GInv'
  BY NoFaultGrown
<1>3. Growing => Standing
  BY DEF Growing, Standing
<1>4. Before <=> IInv /\ SInv /\ IsABag(net) /\ GInv
  BY DEF Before
<1>. QED
  BY <1>1, <1>2, <1>3, <1>4, Inductive, ToldOfSettled, NetIsABag, PTL DEF Spec

-----------------------------------------------------------------------------
(* The member nearest to a position clockwise answers for it, since its   *)
(* predecessor is a member, too, and not nearer.                          *)
LEMMA EveryPositionCovered == Before => Covered
<1>. SUFFICES ASSUME Before, NEW k \in Id, Members # {}
     PROVE  \E n \in Members : BelongsRightInclusive(k, pred[n], n)
  BY DEF Covered
<1>. DEFINE D == {Clockwise(k, m) : m \in Members}
<1>1. Members \subseteq Id
  BY NodesAssumption DEF Members
<1>2. \A m \in Id : Clockwise(k, m) \in Nat
  BY RingSize DEF Clockwise, Id
<1>3. D \in SUBSET Nat /\ D # {}
  BY <1>1, <1>2
<1>4. PICK d \in D : \A e \in D : d <= e
  <2>. HIDE DEF D
  <2>. QED  BY <1>3, LeastMember
<1>5. PICK n \in Members : d = Clockwise(k, n)
  BY <1>4
<1>6. pred[n] \in Members
  BY PlacedFacts, MembersPlaced
<1>7. Clockwise(k, n) <= Clockwise(k, pred[n])
  BY <1>4, <1>5, <1>6
<1>. QED  BY <1>1, <1>6, <1>7, NearestAnswers

(* Members are placed. *)
LEMMA SuccessorFound == Before => SuccessorKnown
BY PlacedFacts, MembersPlaced, NodesAssumption, IdsAreCells DEF SuccessorKnown

(* A redirect names a member. *)
LEMMA LookupGoesOn == Before => LookupGetsOn
<1>. SUFFICES ASSUME Before, NEW n \in Members, pred[n] # n, NEW k \in Id
     PROVE  ClosestPrecedingFinger(n, finger[n], succ[n], k) # EmptyChordId
  BY DEF LookupGetsOn
<1>. QED  BY NextContact, NodesAssumption, IdsAreCells DEF Members

(* Every position has a member that answers for it (onJoinReg,            *)
(* onFindSuccReg and onUserReg of NormalState), at every moment of        *)
(* growth: a member never gives an arc up to a joiner that is not in      *)
(* NormalState yet.                                                       *)
THEOREM PositionsAreCovered ==
    ASSUME StartedOnce, ~ Lossy, RegisterFrom \subseteq {"Normal"}
    PROVE  Spec /\ [](Growing /\ NoFault) => []Covered
BY EveryPositionCovered, GrowsSoundly, PTL

(* Every member has a successor that is a node at every moment of growth: *)
(* no late STABILIZE answer leaves its list empty (onStabilizeOK).        *)
THEOREM SuccessorIsKnown ==
    ASSUME StartedOnce, ~ Lossy, RegisterFrom \subseteq {"Normal"}
    PROVE  Spec /\ [](Growing /\ NoFault) => []SuccessorKnown
BY SuccessorFound, GrowsSoundly, PTL

(* A member that is not alone has somebody to redirect every lookup to    *)
(* (closestPrecedingFinger), at every moment of growth: the property that *)
(* run lookup shows to fail after a death.                                *)
THEOREM LookupsGetOn ==
    ASSUME StartedOnce, ~ Lossy, RegisterFrom \subseteq {"Normal"}
    PROVE  Spec /\ [](Growing /\ NoFault) => []LookupGetsOn
BY LookupGoesOn, GrowsSoundly, PTL

(* The record of every registered user is kept by a member or on its way  *)
(* to one at every moment of growth, although transferUserInfoToPred      *)
(* deletes what it sends and knows nothing of the node it sends it to.    *)
THEOREM RecordsAreHeld ==
    ASSUME StartedOnce, ~ Lossy, RegisterFrom \subseteq {"Normal"}
    PROVE  Spec /\ [](Growing /\ NoFault) => []RecordsHeld
<1>1. Before => RecordsHeld
  BY DEF Before, GInv
<1>. QED  BY <1>1, GrowsSoundly, PTL

-----------------------------------------------------------------------------
(* No user has been registered. *)
Unregistered == ops["register"] = 0

(* Registrations are counted. *)
Counted == Unregistered => Registered = {}

(* Only RegisterUser makes a registered user. *)
LEMMA CountedStep ==
    ASSUME IInv, Counted, [Next]_vars
    PROVE  Counted'
<1>1. ASSUME UNCHANGED <<local, ops>>  PROVE Counted'
  BY <1>1 DEF Counted, Unregistered, Registered
<1>2. CASE UNCHANGED vars
  BY <1>1, <1>2 DEF vars, records
<1>3. ASSUME NEW n \in Nodes, NEW op \in Operations, NEW max, Spend(op, max),
             local' = local \/ local' = [local EXCEPT ![n] = {}] \/ op = "register"
      PROVE  Counted'
  <2>. SUFFICES ASSUME Unregistered'  PROVE Registered' = {}
    BY DEF Counted
  <2>1. Unregistered /\ op # "register"
    BY <1>3 DEF Spend, Unregistered, IInv, NodesOK, Operations
  <2>2. \A m \in Nodes : local'[m] = local[m] \/ local'[m] = {}
    BY <1>3, <2>1 DEF IInv, NodesOK
  <2>. QED  BY <2>1, <2>2 DEF Counted, Registered
<1>4. ASSUME NEW n \in Nodes, Input(n) \/ Stabilize(n)  PROVE Counted'
  <2>1. \/ UNCHANGED <<local, ops>>
        \/ \E op \in Operations : \E max :
              /\ Spend(op, max)
              /\ local' = local \/ local' = [local EXCEPT ![n] = {}] \/ op = "register"
    BY <1>4 DEF Input, StartFirst, StartNode, RegisterUser, Leave, Crash, Boot, Stabilize,
       records, Operations
  <2>. QED  BY <1>1, <1>3, <2>1
<1>5. ASSUME NEW t \in DOMAIN net, Handle(t)  PROVE Counted'
  <2>1. ASSUME NEW n, ReceiveRequest(n, t)  PROVE UNCHANGED <<local, ops>>
    BY <2>1 DEF ReceiveRequest, OnDiscoverReg, OnJoinReg, OnFindSuccReg, OnStabilizeReg,
       TransferUserInfoToPred, OnLeaveRegGraceful, OnLeaveRegFailed, OnLeaveRegFreesTwice,
       OnUserReg, OnRedRegister, IgnoreRequest, KeepNodes, Fault, records
  <2>2. ASSUME NEW n, ReceiveResponse(n, t)  PROVE UNCHANGED <<local, ops>>
    BY <2>2 DEF ReceiveResponse, OnDiscoverOK, OnJoinOK, OnFindSuccOK, OnFindSuccRedirect,
       FollowRedirect, FingerFound, OnStabilizeOKFromSucc, OnStabilizeOKFromPred,
       OnStabilizeOKFromOther, OnUserRegRedirect, TransferUserInfoToPred, Fault, records
  <2>3. ASSUME \/ \E n : Timeout(n, t)
               \/ IgnoreResponse(t) \/ LoseResponse(t) \/ EndUnanswered(t)
        PROVE  UNCHANGED <<local, ops>>
    BY <2>3 DEF Timeout, OnNoNodeFind, OnLastNeighbourFailure, OnSuccessorFailure,
       OnOtherFailure, IgnoreResponse, LoseResponse, EndUnanswered, KeepNodes, records
  <2>. QED  BY <1>1, <1>5, <2>1, <2>2, <2>3 DEF Handle
<1>. QED  BY <1>2, <1>4, <1>5 DEF Next

(* No process of an overlay that grows and has no users dies: no answer   *)
(* to a STABILIZE lacks the contact that onStabilizeOK dereferences. With *)
(* users a redirect that comes back to a node that transferred a record   *)
(* may end it (onUserRegRedirect).                                        *)
THEOREM NoProcessDies ==
    ASSUME StartedOnce, ~ Lossy, RegisterFrom \subseteq {"Normal"}
    PROVE  Spec /\ [](Growing /\ Unregistered) => []NoFault
<1>1. Init => GInv /\ Counted
  BY InitGrown DEF Init, Counted, Registered
<1>2. IInv /\ Counted /\ [Next]_vars => Counted'
  BY CountedStep
<1>3. Before /\ Counted /\ Growing /\ Unregistered /\ Growing' /\ [Next]_vars => GInv'
  <2>. SUFFICES ASSUME Before, Counted, Growing, Unregistered, Growing', [Next]_vars
       PROVE  GInv'
    OBVIOUS
  <2>1. ASSUME NEW t \in DOMAIN net  PROVE ~ OnUserRegRedirect(t.src, t)
    <3>1. t.type # "user_registration"
      BY NetFacts DEF Useful, Counted
    <3>. QED  BY <3>1 DEF OnUserRegRedirect, Returns
  <2>. QED  BY <2>1, NextGrown
<1>4. Growing => Standing
  BY DEF Growing, Standing
<1>5. Before <=> IInv /\ SInv /\ IsABag(net) /\ GInv
  BY DEF Before
<1>6. Before => NoFault
  BY DEF Before, GInv, AllUp, NoFault, Dead
<1>. QED
  BY <1>1, <1>2, <1>3, <1>4, <1>5, <1>6, Inductive, ToldOfSettled, NetIsABag, PTL DEF Spec
=============================================================================

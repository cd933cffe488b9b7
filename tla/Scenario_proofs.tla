-------------------------- MODULE Scenario_proofs ---------------------------
(***************************************************************************)
(* The properties of the overlay that fail once a process is started       *)
(* again, or once a message of a live node is lost, proved for every       *)
(* overlay in which neither happens: any number of starts, joins, leaves,  *)
(* deaths, registrations and rounds, in any order, for every number of     *)
(* nodes.                                                                  *)
(*                                                                         *)
(* A node gives a neighbour up for a worse one only when somebody says     *)
(* that the neighbour is gone: a LEAVE, which names the leaver as To, or   *)
(* the end of a STABILIZE that nobody answered. The invariant SInv says    *)
(* that nobody is named so who is a member of the ring, and, which makes   *)
(* this inductive, that tables and messages name only nodes that are, or   *)
(* once were, in NormalState.                                              *)
(***************************************************************************)
EXTENDS Ring_proofs

(* The application starts a process in InitedState only, not a node that  *)
(* left and kept its table.                                               *)
StartedOnce == StartFrom \cap {"Normal", "Closed"} = {}

(* No process has been started again after its death. *)
Standing == ops["boot"] = 0

-----------------------------------------------------------------------------
(* The nodes that have got to NormalState or past it: they will not come  *)
(* to it again while Standing.                                            *)
Settled == {n \in Nodes : kind[n] \in Dead \cup {"Normal", "Closed"}}

(* What a table may name: nobody, the memory behind the list, or a        *)
(* settled node.                                                          *)
Met == (Cell \ Nodes) \cup Settled

(* Every pointer of every node is to a settled node, or to none. *)
TablesMet ==
    /\ finger \in [Nodes -> [FingerIndex -> Met]]
    /\ succ \in [Nodes -> [0..NSUCCLIST -> Met]]
    /\ pred \in [Nodes -> Met]

(* What one transaction tells its receiver: settled nodes only; who is    *)
(* named as gone by a LEAVE is no member, and a STABILIZE fails to reach  *)
(* its To header only if that is no member either (see TimeoutGone).      *)
Told(t) ==
    /\ t.contacts \in [0..NSUCCLIST -> Met]
    /\ t.predecessor \in Met
    /\ t.type \in {"stabilize", "leave"} => t.src \in Settled /\ t.to \in Met
    /\ t.type = "leave" => t.to \notin Members
    /\ t.type = "stabilize" /\ t.phase = "request" => t.to \in t.dst \/ t.to \notin Members
    /\ t.type = "stabilize" /\ t.phase = "ok" => t.contacts[0] = t.to

(* Every transaction under way tells such things only. *)
AllTold == \A t \in DOMAIN net : Told(t)

(* The inductive invariant of this module, together with IInv. *)
SInv == TablesMet /\ AllTold

(* A step after which the settled are settled and who was gone is gone. *)
Steady == Settled \subseteq Settled' /\ Members' \cap Settled \subseteq Members

(* After a steady step the same nodes can be named, and who was gone is   *)
(* gone.                                                                  *)
LEMMA SteadyMet ==
    ASSUME Steady
    PROVE  Met \subseteq Met' /\ \A v \in Met : v \notin Members => v \notin Members'
BY DEF Steady, Met, Members

(* A pointer to nobody is always allowed. *)
LEMMA EmptyMet == EmptyChordId \in Met /\ EmptyChordId \in Met'
BY IdsAreCells, NodesAssumption DEF Met

(* A settled node can be named. *)
LEMMA SettledMet == Settled \subseteq Met /\ Settled' \subseteq Met'
BY DEF Met

(* The members are settled. *)
LEMMA MembersSettled == Members \subseteq Settled /\ Members' \subseteq Settled'
BY DEF Members, Settled

(* A step that changes no state of a node is steady. *)
LEMMA SteadySame == kind' = kind => Steady
BY DEF Steady, Settled, Members

(* So is a step of a node that is on its way to NormalState. *)
LEMMA SteadyFrom ==
    ASSUME IInv, NEW n \in Nodes, kind[n] \notin Dead \cup {"Normal", "Closed"},
           NEW to, kind' = [kind EXCEPT ![n] = to]
    PROVE  Steady
<1>1. \A m \in Nodes : m # n => kind'[m] = kind[m]
  BY DEF IInv, NodesOK
<1>. QED  BY <1>1 DEF Steady, Settled, Members

(* So are a leave and a death. *)
LEMMA SteadyTo ==
    ASSUME IInv, NEW n \in Nodes, NEW to \in Dead \cup {"Closed"},
           kind' = [kind EXCEPT ![n] = to]
    PROVE  Steady
<1>1. \A m \in Nodes : kind'[m] = IF m = n THEN to ELSE kind[m]
  BY DEF IInv, NodesOK
<1>. QED  BY <1>1 DEF Steady, Settled, Members, Dead

(* A transaction goes on saying what is true. *)
LEMMA ToldKept ==
    ASSUME Steady, NEW t, Told(t)
    PROVE  Told(t)'
<1>1. /\ Met \subseteq Met' /\ Settled \subseteq Settled'
      /\ \A v \in Met : v \notin Members => v \notin Members'
  BY SteadyMet DEF Steady
<1>2. t.contacts \in [0..NSUCCLIST -> Met']
  BY <1>1 DEF Told
<1>. QED  BY <1>1, <1>2 DEF Told

(* A transaction is replaced by others of that kind. *)
LEMMA NetTold ==
    ASSUME Steady, AllTold, NEW t, NEW ts, Replace(t, ts), \A o \in DOMAIN ts : Told(o)'
    PROVE  AllTold'
BY ReplaceDomain, ToldKept DEF AllTold

(* A node sends new transactions of that kind. *)
LEMMA NetToldSent ==
    ASSUME Steady, AllTold, NEW ts, net' = net (+) ts, \A o \in DOMAIN ts : Told(o)'
    PROVE  AllTold'
<1>1. DOMAIN net' = DOMAIN net \cup DOMAIN ts
  BY BagDomains, Zenon
<1>. QED  BY <1>1, ToldKept DEF AllTold

LEMMA NetToldMore ==
    ASSUME Steady, AllTold, NEW S, net' = net (+) SetToBag(S), \A o \in S : Told(o)'
    PROVE  AllTold'
<1>1. DOMAIN SetToBag(S) = S
  BY BagDomains, Zenon
<1>. QED  BY <1>1, NetToldSent

(* A transaction ends and nothing is sent. *)
LEMMA NetToldLess ==
    ASSUME Steady, AllTold, NEW t, Replace(t, EmptyBag)
    PROVE  AllTold'
BY NetTold, BagDomains

(* The tables of before a steady step are allowed after it. *)
LEMMA TablesKept ==
    ASSUME Steady, TablesMet
    PROVE  /\ finger \in [Nodes -> [FingerIndex -> Met']]
           /\ succ \in [Nodes -> [0..NSUCCLIST -> Met']]
           /\ pred \in [Nodes -> Met']
           /\ \A n \in Nodes : /\ finger[n] \in [FingerIndex -> Met']
                               /\ succ[n] \in [0..NSUCCLIST -> Met']
                               /\ succ[n][0] \in Met'
                               /\ pred[n] \in Met'
<1>1. Met \subseteq Met'
  BY SteadyMet
<1>2. ASSUME NEW n \in Nodes
      PROVE  /\ finger[n] \in [FingerIndex -> Met']
             /\ succ[n] \in [0..NSUCCLIST -> Met']
             /\ succ[n][0] \in Met'
             /\ pred[n] \in Met'
  BY <1>1, NSUCCLISTAssumption DEF TablesMet
<1>3. finger = [n \in Nodes |-> finger[n]] /\ succ = [n \in Nodes |-> succ[n]]
      /\ pred = [n \in Nodes |-> pred[n]]
  BY DEF TablesMet
<1>. QED  BY <1>2, <1>3

(* A steady step that changes no table keeps the invariant of the tables. *)
LEMMA TablesSame ==
    ASSUME Steady, TablesMet, UNCHANGED table
    PROVE  TablesMet'
BY TablesKept DEF TablesMet, table

-----------------------------------------------------------------------------
(* A request without contacts names nobody. *)
LEMMA NoContactsMet == NoContacts \in [0..NSUCCLIST -> Met']
BY EmptyMet DEF NoContacts

(* Requests that are neither STABILIZE nor LEAVE tell nothing. *)
LEMMA PlainTold ==
    ASSUME NEW n, NEW type, type \notin {"stabilize", "leave"}, NEW target, NEW to,
           NEW r, r = Request(type, n, target, to)
    PROVE  Told(r)'
<1>1. r.type = type /\ r.contacts = NoContacts /\ r.predecessor = EmptyChordId
  BY DEF Request
<1>. QED  BY <1>1, NoContactsMet, EmptyMet DEF Told

(* A STABILIZE goes to the node in its To header, unless that has no      *)
(* process here.                                                          *)
LEMMA StabilizeTold ==
    ASSUME NEW n \in Settled', NEW target \in Met',
           NEW r, r = Request("stabilize", n, target, target)
    PROVE  Told(r)'
<1>1. /\ r.type = "stabilize" /\ r.phase = "request" /\ r.src = n
      /\ r.dst = {target} \cap Nodes /\ r.to = target
      /\ r.contacts = NoContacts /\ r.predecessor = EmptyChordId
  BY DEF Request
<1>2. target \notin Nodes => target \notin Members'
  BY DEF Members
<1>. QED  BY <1>1, <1>2, NoContactsMet, EmptyMet DEF Told

(* The requests of a round and those of a joiner are such. *)
LEMMA NeighboursTold ==
    ASSUME NEW n \in Settled', NEW s, s[0] \in Met', NEW p \in Met'
    PROVE  /\ \A r \in StabilizeRequests(n, s, p) : Told(r)'
           /\ \A r \in NotifyRequests(n, s, p) : Told(r)'
BY StabilizeTold DEF StabilizeRequests, StabilizeRequest, NotifyRequests

(* A LEAVE in the name of a node that is gone. *)
LEMMA LeaveTold ==
    ASSUME NEW n \in Settled', NEW target, NEW to \in Met', to \notin Members',
           NEW s \in [0..NSUCCLIST -> Met'], NEW p \in Met',
           NEW r, r = LeaveRequest(n, target, to, s, p)
    PROVE  Told(r)'
<1>. DEFINE q == Request("leave", n, target, to)
<1>1. r = [q EXCEPT !.contacts = ContactsOf(n, s, TRUE), !.predecessor = p]
  BY DEF LeaveRequest
<1>2. q = [type |-> "leave", phase |-> "request", src |-> n, inc |-> inc[n],
           dst |-> {target} \cap Nodes, to |-> to,
           contacts |-> NoContacts, predecessor |-> EmptyChordId]
  BY DEF Request
<1>. HIDE DEF q
<1>3. /\ r.type = "leave" /\ r.src = n /\ r.to = to
      /\ r.contacts = ContactsOf(n, s, TRUE) /\ r.predecessor = p
  BY <1>1, <1>2
<1>4. ContactsOf(n, s, TRUE) \in [0..NSUCCLIST -> Met']
  BY ContactsOfIn, EmptyMet, SettledMet
<1>. QED  BY <1>3, <1>4 DEF Told

(* A transfer of records tells nothing about nodes. *)
LEMMA UserTold ==
    ASSUME NEW n, NEW type \in UserTypes, NEW target, NEW list
    PROVE  \A r \in DOMAIN UserRequests(type, n, target, list) : Told(r)'
BY PlainTold DEF UserRequests, UserTypes

(* Nor does a redundant copy, *)
LEMMA CopiesTold ==
    ASSUME NEW n, NEW target, NEW list
    PROVE  \A r \in DOMAIN RedundantCopies(n, target, list) : Told(r)'
BY UserTold, BagDomains DEF RedundantCopies, UserTypes

(* nor what onStabilizeReg hands to a new predecessor. *)
LEMMA TransfersTold ==
    ASSUME NEW n, NEW p
    PROVE  \A r \in DOMAIN TransferRequests(n, p) : Told(r)'
<1>1. DOMAIN TransferRequests(n, p)
        = DOMAIN UserRequests("red_register", n, p, red[n])
            \cup DOMAIN UserRequests("user_registration", n, p, Misplaced(n, p))
  BY BagDomains, Zenon DEF TransferRequests
<1>. QED  BY <1>1, UserTold DEF UserTypes

(* Nor the FINDSUCC that a changed first finger gives rise to. *)
LEMMA LookupFingerTold ==
    ASSUME NEW n, NEW s, NEW k
    PROVE  \A r \in DOMAIN LookupFinger(n, s, k) : Told(r)'
<1>1. \A r : r = Request("findsucc", n, s[0], Start(n, k)) => Told(r)'
  BY PlainTold
<1>2. LookupFinger(n, s, k) \in {EmptyBag, SetToBag({Request("findsucc", n, s[0], Start(n, k))})}
  BY DEF LookupFinger
<1>. QED  BY <1>1, <1>2, BagDomains

(* An answer names what the answering node may name; that to a STABILIZE  *)
(* names it first.                                                        *)
LEMMA AnswerTold ==
    ASSUME Steady, NEW t \in Fine, Told(t), t.type # "leave", NEW phase \in {"ok", "redirect"},
           NEW contacts \in [0..NSUCCLIST -> Met'], NEW p \in Met',
           t.type = "stabilize" => contacts[0] = t.to
    PROVE  \A a \in DOMAIN Answer(t, phase, contacts, p) : Told(a)'
<1>. DEFINE a == [t EXCEPT !.phase = phase, !.dst = {},
                           !.contacts = contacts, !.predecessor = p]
<1>1. /\ a.type = t.type /\ a.phase = phase /\ a.src = t.src /\ a.to = t.to
      /\ a.contacts = contacts /\ a.predecessor = p
  BY DEF Fine, Transaction, TransactionOf
<1>2. PICK b : b = a
  OBVIOUS
<1>3. Told(b)'
  <2>. HIDE DEF a
  <2>1. Told(t)'
    BY ToldKept
  <2>. QED  BY <1>1, <1>2, <2>1 DEF Told
<1>4. DOMAIN Answer(t, phase, contacts, p) \subseteq {b}
  BY <1>2, BagDomains DEF Answer
<1>. QED  BY <1>3, <1>4

(* An answer with one contact: to a MULTICAST, a FINDSUCC, a              *)
(* registration, or a redirect.                                           *)
LEMMA ContactTold ==
    ASSUME Steady, NEW t \in Fine, Told(t), t.type \notin {"leave", "stabilize"},
           NEW phase \in {"ok", "redirect"}, NEW v \in Met'
    PROVE  \A a \in DOMAIN Answer(t, phase, [NoContacts EXCEPT ![0] = v], EmptyChordId) :
               Told(a)'
<1>1. [NoContacts EXCEPT ![0] = v] \in [0..NSUCCLIST -> Met']
  BY NoContactsMet
<1>. QED  BY <1>1, AnswerTold, EmptyMet

-----------------------------------------------------------------------------
(* Module Registry. *)

(* RegisterUser sends copies, or the registration itself. *)
LEMMA RegisterUserTold ==
    ASSUME SInv, NEW n \in Nodes, NEW u \in Users, RegisterUser(n, u)
    PROVE  SInv'
<1>1. Steady /\ UNCHANGED table
  BY SteadySame DEF RegisterUser
<1>2. TablesMet'
  BY <1>1, TablesSame DEF SInv
<1>3. CASE Owns(n, u)
  <2>1. net' = net (+) RedundantCopies(n, succ[n][0], SetToBag({u}))
    BY <1>3 DEF RegisterUser
  <2>2. AllTold'
    BY <1>1, <2>1, CopiesTold, NetToldSent DEF SInv
  <2>. QED  BY <1>2, <2>2 DEF SInv
<1>4. CASE ~ Owns(n, u)
  <2>1. PICK r : /\ net' = net (+) SetToBag({r})
                 /\ \E next : r = Request("user_registration", n, next, u)
    BY <1>4 DEF RegisterUser
  <2>2. Told(r)'
    BY <2>1, PlainTold
  <2>3. AllTold'
    BY <1>1, <2>1, <2>2, NetToldMore DEF SInv
  <2>. QED  BY <1>2, <2>3 DEF SInv
<1>. QED  BY <1>3, <1>4

(* onUserReg keeps the record or redirects it. *)
LEMMA OnUserRegTold ==
    ASSUME IInv, SInv, NEW n \in Nodes, NEW t \in DOMAIN net, OnUserReg(n, t)
    PROVE  SInv'
<1>1. Steady /\ UNCHANGED table
  BY SteadySame DEF OnUserReg
<1>2. TablesMet'
  BY <1>1, TablesSame DEF SInv
<1>3. t \in Fine /\ Told(t) /\ t.type = "user_registration"
  BY DEF SInv, AllTold, IInv, OnUserReg, Arrives
<1>4. CASE Owns(n, t.to)
  <2>1. Replace(t, RedundantCopies(n, succ[n][0], SetToBag({t.to})))
    BY <1>4 DEF OnUserReg
  <2>2. AllTold'
    BY <1>1, <2>1, CopiesTold, NetTold, BagDomains DEF SInv
  <2>. QED  BY <1>2, <2>2 DEF SInv
<1>5. CASE ~ Owns(n, t.to)
  <2>. DEFINE next == ClosestPrecedingFinger(n, finger[n], succ[n], Hash[t.to])
  <2>1. next \in Met'
    BY <1>1, TablesKept, EmptyMet, ClosestPrecedingFingerIn DEF SInv
  <2>2. \/ Replace(t, EmptyBag)
        \/ Replace(t, Answer(t, "redirect", [NoContacts EXCEPT ![0] = next], EmptyChordId))
    BY <1>5 DEF OnUserReg
  <2>. HIDE DEF next
  <2>3. AllTold'
    BY <1>1, <1>3, <2>1, <2>2, ContactTold, NetTold, NetToldLess DEF SInv
  <2>. QED  BY <1>2, <2>3 DEF SInv
<1>. QED  BY <1>4, <1>5

(* A process that dies says nothing any more. *)
LEMMA FaultTold ==
    ASSUME IInv, SInv, NEW n \in Nodes, NEW t \in DOMAIN net, Fault(n), Replace(t, EmptyBag)
    PROVE  SInv'
<1>1. Steady /\ UNCHANGED table
  BY SteadyTo DEF Fault, Dead
<1>. QED  BY <1>1, TablesSame, NetToldLess DEF SInv

(* onUserRegRedirect sends the record to the node it is told of. *)
LEMMA OnUserRegRedirectTold ==
    ASSUME IInv, SInv, NEW n \in Nodes, NEW t \in DOMAIN net, OnUserRegRedirect(n, t)
    PROVE  SInv'
<1>1. CASE RegisteredHere(n, t.to)
  <2>1. PICK r : /\ r = Request("user_registration", n, t.contacts[0], t.to)
                 /\ Replace(t, SetToBag({r}))
    BY <1>1 DEF OnUserRegRedirect
  <2>2. Told(r)'
    BY <2>1, PlainTold
  <2>3. Steady /\ UNCHANGED table
    BY <1>1, SteadySame DEF OnUserRegRedirect
  <2>4. AllTold'
    BY <2>1, <2>2, <2>3, NetTold, BagDomains DEF SInv
  <2>. QED  BY <2>3, <2>4, TablesSame DEF SInv
<1>2. CASE ~ RegisteredHere(n, t.to)
  BY <1>2, FaultTold DEF OnUserRegRedirect
<1>. QED  BY <1>1, <1>2

(* onRedRegister stores a copy. *)
LEMMA OnRedRegisterTold ==
    ASSUME SInv, NEW n \in Nodes, NEW t \in DOMAIN net, OnRedRegister(n, t)
    PROVE  SInv'
<1>1. Steady /\ UNCHANGED table /\ Replace(t, EmptyBag)
  BY SteadySame DEF OnRedRegister
<1>. QED  BY <1>1, TablesSame, NetToldLess DEF SInv

-----------------------------------------------------------------------------
(* Module Joining. *)

(* The founder of a ring names itself, and is in NormalState. *)
LEMMA BecomeFirstMet ==
    ASSUME IInv, SInv, NEW n \in Nodes, kind[n] \notin Dead \cup {"Normal", "Closed"},
           BecomeFirst(n)
    PROVE  Steady /\ TablesMet'
<1>1. Steady
  BY SteadyFrom DEF BecomeFirst
<1>2. n \in Met'
  BY SettledMet DEF BecomeFirst, Settled, IInv, NodesOK
<1>3. Set_Fingers(n, finger[n], 1, n) \in [FingerIndex -> Met']
  BY <1>1, <1>2, TablesKept, SetFingersIn DEF SInv
<1>4. /\ finger \in [Nodes -> [FingerIndex -> Met']]
      /\ succ \in [Nodes -> [0..NSUCCLIST -> Met']]
      /\ pred \in [Nodes -> Met']
  BY <1>1, TablesKept DEF SInv
<1>. QED  BY <1>1, <1>2, <1>3, <1>4, NSUCCLISTAssumption DEF BecomeFirst, TablesMet

(* StartNode, of the founder and of everybody else. *)
LEMMA StartTold ==
    ASSUME StartedOnce, IInv, SInv, NEW n \in Nodes, StartFirst(n) \/ StartNode(n)
    PROVE  SInv'
<1>0. kind[n] \notin Dead \cup {"Normal", "Closed"}
  BY InputsAssumption DEF StartFirst, StartNode, StartedOnce
<1>1. CASE StartFirst(n)
  <2>1. Steady /\ TablesMet'
    BY <1>0, <1>1, BecomeFirstMet DEF StartFirst
  <2>2. UNCHANGED net
    BY <1>1 DEF StartFirst
  <2>. QED  BY <2>1, <2>2, ToldKept DEF SInv, AllTold
<1>2. CASE StartNode(n)
  <2>1. Steady /\ UNCHANGED table
    BY <1>0, <1>2, SteadyFrom DEF StartNode
  <2>2. PICK r : r = MulticastRequest(n) /\ net' = net (+) SetToBag({r})
    BY <1>2 DEF StartNode
  <2>3. /\ r.type = "multicast" /\ r.contacts = NoContacts
        /\ r.predecessor = EmptyChordId
    BY <2>2 DEF MulticastRequest, Request
  <2>4. Told(r)'
    BY <2>3, NoContactsMet, EmptyMet DEF Told
  <2>5. AllTold'
    BY <2>1, <2>2, <2>4, NetToldMore DEF SInv
  <2>. QED  BY <2>1, <2>5, TablesSame DEF SInv
<1>. QED  BY <1>1, <1>2

(* The node that answers a MULTICAST names itself. *)
LEMMA OnDiscoverRegTold ==
    ASSUME IInv, SInv, NEW n \in Nodes, NEW t \in DOMAIN net, OnDiscoverReg(n, t)
    PROVE  SInv'
<1>1. Steady /\ UNCHANGED table
  BY SteadySame DEF OnDiscoverReg
<1>2. t \in Fine /\ Told(t) /\ t.type = "multicast"
  BY DEF SInv, AllTold, IInv, OnDiscoverReg, Arrives
<1>3. n \in Met'
  BY SettledMet DEF Settled, OnDiscoverReg, Arrives
<1>4. AllTold'
  BY <1>1, <1>2, <1>3, ContactTold, NetTold DEF SInv, OnDiscoverReg
<1>. QED  BY <1>1, <1>4, TablesSame DEF SInv

(* The JOIN goes to the node that answered. *)
LEMMA OnDiscoverOKTold ==
    ASSUME IInv, SInv, NEW n \in Nodes, NEW t \in DOMAIN net, OnDiscoverOK(n, t)
    PROVE  SInv'
<1>1. Steady /\ UNCHANGED table
  BY SteadyFrom DEF OnDiscoverOK, Dead
<1>2. PICK r : /\ r = Request("join", n, t.contacts[0], t.contacts[0])
               /\ Replace(t, SetToBag({r}))
  BY DEF OnDiscoverOK, JoinRequest
<1>3. Told(r)'
  BY <1>2, PlainTold
<1>4. AllTold'
  BY <1>1, <1>2, <1>3, NetTold, BagDomains DEF SInv
<1>. QED  BY <1>1, <1>4, TablesSame DEF SInv

(* A discovery that nobody answered makes a founder. *)
LEMMA OnNoNodeFindTold ==
    ASSUME IInv, SInv, NEW n \in Nodes, NEW t \in DOMAIN net, OnNoNodeFind(n, t)
    PROVE  SInv'
<1>1. Steady /\ TablesMet'
  BY BecomeFirstMet DEF OnNoNodeFind, Dead
<1>2. Replace(t, EmptyBag)
  BY DEF OnNoNodeFind
<1>. QED  BY <1>1, <1>2, NetToldLess DEF SInv

(* A JOIN is answered with the list and the predecessor of its receiver. *)
LEMMA OnJoinRegTold ==
    ASSUME IInv, SInv, NEW n \in Nodes, NEW t \in DOMAIN net, OnJoinReg(n, t)
    PROVE  SInv'
<1>1. Steady /\ UNCHANGED table
  BY SteadySame DEF OnJoinReg
<1>2. t \in Fine /\ Told(t) /\ t.type = "join"
  BY DEF SInv, AllTold, IInv, OnJoinReg, Arrives
<1>3. n \in Met'
  BY SettledMet DEF Settled, OnJoinReg, Arrives
<1>. DEFINE contacts == ContactsOf(n, succ[n], succ[n][0] # n)
            next == ClosestPrecedingFinger(n, finger[n], succ[n], t.to)
<1>4. contacts \in [0..NSUCCLIST -> Met'] /\ next \in Met' /\ pred[n] \in Met'
  BY <1>1, <1>3, ContactsOfIn, ClosestPrecedingFingerIn, TablesKept, EmptyMet DEF SInv
<1>5. \/ Replace(t, Answer(t, "ok", contacts, pred[n]))
      \/ Replace(t, EmptyBag)
      \/ Replace(t, Answer(t, "redirect", [NoContacts EXCEPT ![0] = next], EmptyChordId))
  BY DEF OnJoinReg, Lookup
<1>. HIDE DEF contacts, next
<1>6. AllTold'
  BY <1>1, <1>2, <1>4, <1>5, AnswerTold, ContactTold, NetTold, NetToldLess DEF SInv
<1>. QED  BY <1>1, <1>6, TablesSame DEF SInv

(* A FINDSUCC is answered with the receiver itself or redirected. *)
LEMMA OnFindSuccRegTold ==
    ASSUME IInv, SInv, NEW n \in Nodes, NEW t \in DOMAIN net, OnFindSuccReg(n, t)
    PROVE  SInv'
<1>1. Steady /\ UNCHANGED table
  BY SteadySame DEF OnFindSuccReg
<1>2. t \in Fine /\ Told(t) /\ t.type = "findsucc"
  BY DEF SInv, AllTold, IInv, OnFindSuccReg, Arrives
<1>3. n \in Met'
  BY SettledMet DEF Settled, OnFindSuccReg, Arrives
<1>. DEFINE next == ClosestPrecedingFinger(n, finger[n], succ[n], t.to)
<1>4. next \in Met'
  BY <1>1, ClosestPrecedingFingerIn, TablesKept, EmptyMet DEF SInv
<1>5. \/ Replace(t, Answer(t, "ok", [NoContacts EXCEPT ![0] = n], EmptyChordId))
      \/ Replace(t, EmptyBag)
      \/ Replace(t, Answer(t, "redirect", [NoContacts EXCEPT ![0] = next], EmptyChordId))
  BY DEF OnFindSuccReg, Lookup
<1>. HIDE DEF next
<1>6. AllTold'
  BY <1>1, <1>2, <1>3, <1>4, <1>5, ContactTold, NetTold, NetToldLess DEF SInv
<1>. QED  BY <1>1, <1>6, TablesSame DEF SInv

(* The joiner takes the list and the predecessor; without fingers to look *)
(* up it is a member now.                                                 *)
LEMMA OnJoinOKTold ==
    ASSUME IInv, SInv, NEW n \in Nodes, NEW t \in DOMAIN net, OnJoinOK(n, t)
    PROVE  SInv'
<1>. DEFINE contact == t.contacts[0]
            k == LastCovered(n, 1, contact) + 1
            list == SetSuccListWithContacts(n, succ[n], t.contacts, 0)
<1>1. /\ finger' = [finger EXCEPT ![n] = Set_Fingers(n, @, 1, contact)]
      /\ succ' = [succ EXCEPT ![n] = list]
      /\ pred' = [pred EXCEPT ![n] = t.predecessor]
      /\ \/ /\ kind' = [kind EXCEPT ![n] = "FTComputing"]
            /\ Replace(t, SetToBag({Request("findsucc", n, contact, Start(n, k))}))
         \/ /\ kind' = [kind EXCEPT ![n] = "Normal"]
            /\ Replace(t, SetToBag(NotifyRequests(n, list, t.predecessor)))
  BY DEF OnJoinOK
<1>2. Steady
  BY SteadyFrom DEF OnJoinOK, Dead
<1>3. /\ contact \in Met' /\ t.contacts \in [0..NSUCCLIST -> Met'] /\ t.predecessor \in Met'
  <2>1. Told(t)'
    BY <1>2, ToldKept DEF SInv, AllTold
  <2>. QED  BY <2>1, NSUCCLISTAssumption DEF Told
<1>4. /\ list \in [0..NSUCCLIST -> Met'] /\ list[0] \in Met'
      /\ Set_Fingers(n, finger[n], 1, contact) \in [FingerIndex -> Met']
  <2>1. list \in [0..NSUCCLIST -> Met']
    BY <1>2, <1>3, TablesKept, SetSuccListIn, EmptyMet DEF SInv
  <2>2. Set_Fingers(n, finger[n], 1, contact) \in [FingerIndex -> Met']
    BY <1>2, <1>3, TablesKept, SetFingersIn DEF SInv
  <2>. HIDE DEF list
  <2>. QED  BY <2>1, <2>2, NSUCCLISTAssumption
<1>. HIDE DEF contact, k, list
<1>5. TablesMet'
  BY <1>1, <1>2, <1>3, <1>4, TablesKept DEF SInv, TablesMet
<1>6. CASE /\ kind' = [kind EXCEPT ![n] = "FTComputing"]
           /\ Replace(t, SetToBag({Request("findsucc", n, contact, Start(n, k))}))
  <2>1. PICK r : r = Request("findsucc", n, contact, Start(n, k)) /\ Replace(t, SetToBag({r}))
    BY <1>6
  <2>2. Told(r)'
    BY <2>1, PlainTold
  <2>3. AllTold'
    BY <1>2, <2>1, <2>2, NetTold, BagDomains DEF SInv
  <2>. QED  BY <1>5, <2>3 DEF SInv
<1>7. CASE /\ kind' = [kind EXCEPT ![n] = "Normal"]
           /\ Replace(t, SetToBag(NotifyRequests(n, list, t.predecessor)))
  <2>1. n \in Settled'
    BY <1>7 DEF IInv, NodesOK, Settled
  <2>2. \A r \in NotifyRequests(n, list, t.predecessor) : Told(r)'
    BY <1>3, <1>4, <2>1, NeighboursTold
  <2>3. AllTold'
    BY <1>2, <1>7, <2>2, NetTold, BagDomains DEF SInv
  <2>. QED  BY <1>5, <2>3 DEF SInv
<1>. QED  BY <1>1, <1>6, <1>7

(* The joiner, or a member, fills in fingers; with the last one a joiner  *)
(* is a member.                                                           *)
LEMMA FingerFoundTold ==
    ASSUME IInv, SInv, NEW n \in Nodes, NEW t \in DOMAIN net, NEW v \in Met,
           kind[n] \in {"FTComputing", "Normal"}, FingerFound(n, t, v)
    PROVE  SInv'
<1>1. PICK i \in FingerIndex :
        LET k == LastCovered(n, i, v) + 1
        IN  /\ finger' = [finger EXCEPT ![n] = Set_Fingers(n, @, i, v)]
            /\ Replace(t, IF k <= NBITS
                          THEN SetToBag({Request("findsucc", n, v, Start(n, k))})
                          ELSE IF kind[n] = "FTComputing"
                          THEN SetToBag(NotifyRequests(n, succ[n], pred[n]))
                          ELSE EmptyBag)
            /\ kind' = IF k > NBITS THEN [kind EXCEPT ![n] = "Normal"] ELSE kind
            /\ UNCHANGED <<inc, succ, pred, bootstrap, records, ops>>
  BY DEF FingerFound
<1>. DEFINE k == LastCovered(n, i, v) + 1
<1>0. k \in Int
  BY LastCoveredType, NBITSAssumption DEF FingerIndex
<1>2. Steady
  <2>1. CASE kind[n] = "FTComputing"
    <3>1. kind[n] \notin Dead \cup {"Normal", "Closed"}
      BY <2>1 DEF Dead
    <3>. QED  BY <1>1, <3>1, SteadyFrom, SteadySame
  <2>2. CASE kind[n] = "Normal"
    <3>1. kind' = kind
      BY <1>1, <2>2 DEF IInv, NodesOK
    <3>. QED  BY <3>1, SteadySame
  <2>. QED  BY <2>1, <2>2
<1>3. TablesMet'
  <2>1. v \in Met'
    BY <1>2, SteadyMet
  <2>2. Set_Fingers(n, finger[n], i, v) \in [FingerIndex -> Met']
    BY <1>2, <2>1, TablesKept, SetFingersIn DEF SInv
  <2>. QED  BY <1>1, <1>2, <2>2, TablesKept DEF SInv, TablesMet
<1>4. CASE k <= NBITS
  <2>1. PICK r : r = Request("findsucc", n, v, Start(n, k)) /\ Replace(t, SetToBag({r}))
    BY <1>1, <1>4
  <2>2. Told(r)'
    BY <2>1, PlainTold
  <2>3. AllTold'
    BY <1>2, <2>1, <2>2, NetTold, BagDomains DEF SInv
  <2>. QED  BY <1>3, <2>3 DEF SInv
<1>5. CASE ~ (k <= NBITS)
  <2>1. \/ Replace(t, SetToBag(NotifyRequests(n, succ[n], pred[n])))
        \/ Replace(t, EmptyBag)
    BY <1>1, <1>5
  <2>2. n \in Settled'
    <3>1. kind' = [kind EXCEPT ![n] = "Normal"]
      BY <1>0, <1>1, <1>5, NBITSAssumption
    <3>. QED  BY <3>1 DEF IInv, NodesOK, Settled
  <2>3. \A r \in NotifyRequests(n, succ[n], pred[n]) : Told(r)'
    BY <1>2, <2>2, TablesKept, NeighboursTold DEF SInv
  <2>4. AllTold'
    BY <1>2, <2>1, <2>3, NetTold, NetToldLess, BagDomains DEF SInv
  <2>. QED  BY <1>3, <2>4 DEF SInv
<1>. QED  BY <1>4, <1>5

(* onFindSuccOK and the redirect. *)
LEMMA OnFindSuccTold ==
    ASSUME IInv, SInv, NEW n \in Nodes, NEW t \in DOMAIN net,
           OnFindSuccOK(n, t) \/ OnFindSuccRedirect(n, t)
    PROVE  SInv'
<1>1. t.contacts[0] \in Met /\ kind[n] \in {"FTComputing", "Normal"}
  <2>1. t.contacts \in [0..NSUCCLIST -> Met]
    BY DEF SInv, AllTold, Told
  <2>. QED  BY <2>1, NSUCCLISTAssumption DEF OnFindSuccOK, OnFindSuccRedirect
<1>2. CASE FingerFound(n, t, t.contacts[0])
  BY <1>1, <1>2, FingerFoundTold
<1>3. CASE /\ Replace(t, SetToBag({Request("findsucc", n, t.contacts[0], t.to)}))
           /\ UNCHANGED <<kind, table>>
  <2>1. PICK r : r = Request("findsucc", n, t.contacts[0], t.to) /\ Replace(t, SetToBag({r}))
    BY <1>3
  <2>2. Told(r)' /\ Steady
    BY <1>3, <2>1, PlainTold, SteadySame
  <2>3. AllTold'
    BY <2>1, <2>2, NetTold, BagDomains DEF SInv
  <2>. QED  BY <1>3, <2>2, <2>3, TablesSame DEF SInv
<1>. QED  BY <1>2, <1>3 DEF OnFindSuccOK, OnFindSuccRedirect, FollowRedirect

-----------------------------------------------------------------------------
(* Module Stabilization. *)

(* A round asks successor and predecessor, who can be named. *)
LEMMA StabilizeRoundTold ==
    ASSUME IInv, SInv, NEW n \in Nodes, Stabilize(n)
    PROVE  SInv'
<1>1. Steady /\ UNCHANGED table
  BY SteadySame DEF Stabilize
<1>2. n \in Settled'
  BY DEF Stabilize, Settled
<1>3. \A r \in StabilizeRequests(n, succ[n], pred[n]) : Told(r)'
  BY <1>1, <1>2, TablesKept, NeighboursTold DEF SInv
<1>4. AllTold'
  BY <1>1, <1>3, NetToldMore DEF SInv, Stabilize
<1>. QED  BY <1>1, <1>4, TablesSame DEF SInv

(* The sender of a STABILIZE is settled, hence can become a neighbour;    *)
(* the answer names the receiver first and then its neighbours.           *)
LEMMA OnStabilizeRegTold ==
    ASSUME IInv, SInv, NEW n \in Nodes, NEW t \in DOMAIN net, OnStabilizeReg(n, t)
    PROVE  SInv'
<1>. DEFINE p == IF NearerPredecessor(n, t.src) THEN t.src ELSE pred[n]
            s == IF NearerSuccessor(n, t.src) THEN [succ[n] EXCEPT ![0] = t.src] ELSE succ[n]
            transfers == IF NearerPredecessor(n, t.src)
                         THEN TransferRequests(n, t.src) ELSE EmptyBag
            contacts == ContactsOf(n, s, s[0] # n)
<1>1. /\ pred' = [pred EXCEPT ![n] = p]
      /\ succ' = [succ EXCEPT ![n] = s]
      /\ finger' \in {finger, [finger EXCEPT ![n] = Set_Fingers(n, @, 1, t.src)]}
      /\ Replace(t, transfers (+) Answer(t, "ok", contacts, p))
      /\ kind' = kind
  BY DEF OnStabilizeReg
<1>2. Steady
  BY <1>1, SteadySame
<1>3. /\ t \in Fine /\ Told(t) /\ t.type = "stabilize" /\ t.to = n
      /\ t.src \in Met' /\ n \in Met'
  <2>1. t \in Fine /\ Told(t) /\ t.type = "stabilize" /\ n \in t.dst /\ kind[n] = "Normal"
    BY DEF SInv, AllTold, IInv, OnStabilizeReg, Arrives
  <2>2. t.to = n
    BY <2>1 DEF Fine, Sound
  <2>3. n \in Settled'
    BY <1>1, <2>1 DEF Settled
  <2>4. t.src \in Settled'
    BY <1>2, <2>1 DEF Told, Steady
  <2>. QED  BY <2>1, <2>2, <2>3, <2>4, SettledMet
<1>4. p \in Met' /\ s \in [0..NSUCCLIST -> Met']
  BY <1>2, <1>3, TablesKept, NSUCCLISTAssumption DEF SInv
<1>5. contacts \in [0..NSUCCLIST -> Met'] /\ contacts[0] = n
  <2>. HIDE DEF s
  <2>1. contacts \in [0..NSUCCLIST -> Met']
    BY <1>3, <1>4, ContactsOfIn, EmptyMet
  <2>2. contacts[0] = n
    BY NSUCCLISTAssumption DEF ContactsOf
  <2>. QED  BY <2>1, <2>2
<1>6. \A r \in DOMAIN transfers : Told(r)'
  BY TransfersTold, BagDomains
<1>. HIDE DEF p, s, transfers, contacts
<1>7. \A a \in DOMAIN Answer(t, "ok", contacts, p) : Told(a)'
  BY <1>2, <1>3, <1>4, <1>5, AnswerTold
<1>8. \A r \in DOMAIN (transfers (+) Answer(t, "ok", contacts, p)) : Told(r)'
  <2>1. DOMAIN (transfers (+) Answer(t, "ok", contacts, p))
          = DOMAIN transfers \cup DOMAIN Answer(t, "ok", contacts, p)
    BY BagDomains, Zenon
  <2>. QED  BY <1>6, <1>7, <2>1
<1>9. AllTold'
  BY <1>1, <1>2, <1>8, NetTold DEF SInv
<1>10. TablesMet'
  <2>1. Set_Fingers(n, finger[n], 1, t.src) \in [FingerIndex -> Met']
    BY <1>2, <1>3, TablesKept, SetFingersIn DEF SInv
  <2>2. /\ finger \in [Nodes -> [FingerIndex -> Met']]
        /\ succ \in [Nodes -> [0..NSUCCLIST -> Met']]
        /\ pred \in [Nodes -> Met']
    BY <1>2, TablesKept DEF SInv
  <2>. QED  BY <1>1, <1>4, <2>1, <2>2 DEF TablesMet
<1>. QED  BY <1>9, <1>10 DEF SInv

(* The answer of the successor: a nearer node, or a new list. *)
LEMMA OnStabilizeOKFromSuccTold ==
    ASSUME IInv, SInv, NEW n \in Nodes, NEW t \in DOMAIN net, OnStabilizeOKFromSucc(n, t)
    PROVE  SInv'
<1>. DEFINE v == IF t.predecessor = n THEN t.contacts[0] ELSE t.predecessor
            s == IF NearerSuccessor(n, t.predecessor)
                 THEN [ClearSuccList(succ[n]) EXCEPT ![0] = t.predecessor]
                 ELSE SetSuccListWithContacts(n, succ[n], t.contacts, 0)
            k == LastCovered(n, 1, v) + 1
<1>1. /\ finger' \in {finger, [finger EXCEPT ![n] = Set_Fingers(n, @, 1, v)]}
      /\ succ' \in {succ, [succ EXCEPT ![n] = s]}
      /\ Replace(t, LookupFinger(n, s, k)) \/ Replace(t, EmptyBag)
      /\ kind' = kind /\ pred' = pred
  BY DEF OnStabilizeOKFromSucc
<1>2. Steady
  BY <1>1, SteadySame
<1>3. /\ t.contacts \in [0..NSUCCLIST -> Met'] /\ t.contacts[0] \in Met'
      /\ t.predecessor \in Met'
  <2>1. Told(t)'
    BY <1>2, ToldKept DEF SInv, AllTold
  <2>. QED  BY <2>1, NSUCCLISTAssumption DEF Told
<1>4. v \in Met' /\ s \in [0..NSUCCLIST -> Met']
  BY <1>2, <1>3, TablesKept, ClearSuccListIn, SetSuccListIn, EmptyMet DEF SInv
<1>. HIDE DEF v, s, k
<1>5. AllTold'
  BY <1>1, <1>2, LookupFingerTold, NetTold, NetToldLess DEF SInv
<1>6. TablesMet'
  <2>1. Set_Fingers(n, finger[n], 1, v) \in [FingerIndex -> Met']
    BY <1>2, <1>4, TablesKept, SetFingersIn DEF SInv
  <2>2. /\ finger \in [Nodes -> [FingerIndex -> Met']]
        /\ succ \in [Nodes -> [0..NSUCCLIST -> Met']]
        /\ pred \in [Nodes -> Met']
    BY <1>2, TablesKept DEF SInv
  <2>. QED  BY <1>1, <1>4, <2>1, <2>2 DEF TablesMet
<1>. QED  BY <1>5, <1>6 DEF SInv

(* The answer of the predecessor: its successor may be the nearer         *)
(* predecessor.                                                           *)
LEMMA OnStabilizeOKFromPredTold ==
    ASSUME IInv, SInv, NEW n \in Nodes, NEW t \in DOMAIN net, OnStabilizeOKFromPred(n, t)
    PROVE  SInv'
<1>. DEFINE first == t.contacts[1]
<1>1. CASE first = EmptyChordId
  BY <1>1, FaultTold DEF OnStabilizeOKFromPred
<1>2. CASE first # EmptyChordId /\ NearerPredecessor(n, first)
  <2>. DEFINE ts == TransferRequests(n, first) (+) LookupFinger(n, succ[n], 1)
  <2>1. /\ pred' = [pred EXCEPT ![n] = first]
        /\ Replace(t, ts)
        /\ UNCHANGED <<kind, finger, succ>>
    BY <1>2 DEF OnStabilizeOKFromPred
  <2>2. Steady
    BY <2>1, SteadySame
  <2>3. first \in Met'
    <3>1. Told(t)'
      BY <2>2, ToldKept DEF SInv, AllTold
    <3>. QED  BY <3>1, NSUCCLISTAssumption DEF Told
  <2>4. \A r \in DOMAIN ts : Told(r)'
    <3>1. DOMAIN ts = DOMAIN TransferRequests(n, first)
                        \cup DOMAIN LookupFinger(n, succ[n], 1)
      BY BagDomains, Zenon
    <3>. HIDE DEF ts
    <3>. QED  BY <3>1, TransfersTold, LookupFingerTold
  <2>. HIDE DEF ts
  <2>5. AllTold'
    BY <2>1, <2>2, <2>4, NetTold DEF SInv
  <2>6. TablesMet'
    BY <2>1, <2>2, <2>3, TablesKept DEF SInv, TablesMet
  <2>. QED  BY <2>5, <2>6 DEF SInv
<1>3. CASE first # EmptyChordId /\ ~ NearerPredecessor(n, first)
  <2>1. Steady /\ UNCHANGED table /\ Replace(t, EmptyBag)
    BY <1>3, SteadySame DEF OnStabilizeOKFromPred
  <2>. QED  BY <2>1, TablesSame, NetToldLess DEF SInv
<1>. QED  BY <1>1, <1>2, <1>3

(* The leaver names itself, and is no member any more. *)
LEMMA LeaveStepTold ==
    ASSUME IInv, SInv, NEW n \in Nodes, Leave(n)
    PROVE  SInv'
<1>1. Steady /\ UNCHANGED table /\ kind' = [kind EXCEPT ![n] = "Closed"]
  BY SteadyTo DEF Leave
<1>2. n \in Settled' /\ n \notin Members' /\ n \in Met'
  <2>1. kind'[n] = "Closed"
    BY <1>1 DEF IInv, NodesOK
  <2>. QED  BY <2>1, SettledMet DEF Settled, Members
<1>. DEFINE s == succ[n][0]
            p == pred[n]
            leaves == {LeaveRequest(n, target, n, succ[n], p) :
                          target \in {s, p} \ {EmptyChordId, n}}
            over == IF s \notin {EmptyChordId, n} THEN HandedOver(n, s) ELSE EmptyBag
<1>3. net' = net (+) SetToBag(leaves) (+) over
  BY DEF Leave
<1>4. succ[n] \in [0..NSUCCLIST -> Met'] /\ p \in Met'
  BY <1>1, TablesKept DEF SInv
<1>5. \A o \in leaves : Told(o)'
  <2>1. \A target, r : r = LeaveRequest(n, target, n, succ[n], p) => Told(r)'
    BY <1>2, <1>4, LeaveTold
  <2>. QED  BY <2>1
<1>6. \A o \in DOMAIN over : Told(o)'
  <2>1. DOMAIN HandedOver(n, s) = DOMAIN UserRequests("user_registration", n, s, users[n])
                                    \cup DOMAIN UserRequests("red_register", n, s, red[n])
    BY BagDomains, Zenon DEF HandedOver
  <2>2. \A o \in DOMAIN HandedOver(n, s) : Told(o)'
    BY <2>1, UserTold DEF UserTypes
  <2>. QED  BY <2>2, BagDomains
<1>. HIDE DEF leaves, over
<1>7. DOMAIN net' = DOMAIN net \cup leaves \cup DOMAIN over
  <2>1. DOMAIN net' = DOMAIN (net (+) SetToBag(leaves)) \cup DOMAIN over
    BY <1>3, BagDomains, Zenon
  <2>2. DOMAIN (net (+) SetToBag(leaves)) = DOMAIN net \cup DOMAIN SetToBag(leaves)
    BY BagDomains, Zenon
  <2>3. DOMAIN SetToBag(leaves) = leaves
    BY BagDomains, Zenon
  <2>. QED  BY <2>1, <2>2, <2>3
<1>8. AllTold'
  BY <1>1, <1>5, <1>6, <1>7, ToldKept DEF SInv, AllTold
<1>. QED  BY <1>1, <1>8, TablesSame DEF SInv

(* A neighbour that left is taken out; its neighbours take its place. *)
LEMMA OnLeaveRegGracefulTold ==
    ASSUME IInv, SInv, NEW n \in Nodes, NEW t \in DOMAIN net, OnLeaveRegGraceful(n, t)
    PROVE  SInv'
<1>. DEFINE list == SetSuccListWithContacts(n, succ[n], t.contacts, 1)
            s == SuccListWithout(n, list, t.to)
            f == FingersWithout(n, finger[n], t.to)
<1>1. /\ pred' \in {pred, [pred EXCEPT ![n] = t.predecessor]}
      /\ succ' \in {succ, [succ EXCEPT ![n] = s]}
      /\ finger' \in {finger, [finger EXCEPT ![n] = f]}
      /\ Replace(t, EmptyBag) /\ kind' = kind
  BY DEF OnLeaveRegGraceful
<1>2. Steady
  BY <1>1, SteadySame
<1>3. /\ t.contacts \in [0..NSUCCLIST -> Met'] /\ t.predecessor \in Met'
      /\ t.to \in Met' /\ n \in Met'
  <2>1. Told(t)' /\ t.type = "leave" /\ kind'[n] = "Normal"
    BY <1>1, <1>2, ToldKept DEF SInv, AllTold, OnLeaveRegGraceful, Arrives
  <2>2. n \in Settled'
    BY <2>1 DEF Settled
  <2>. QED  BY <2>1, <2>2, SettledMet DEF Told
<1>4. s \in [0..NSUCCLIST -> Met'] /\ f \in [FingerIndex -> Met']
  <2>1. succ[n] \in [0..NSUCCLIST -> Met'] /\ finger[n] \in [FingerIndex -> Met']
    BY <1>2, TablesKept DEF SInv
  <2>2. list \in [0..NSUCCLIST -> Met']
    BY <1>3, <2>1, SetSuccListIn, EmptyMet
  <2>. HIDE DEF list
  <2>. QED  BY <1>3, <2>1, <2>2, SuccListWithoutIn, FingersWithoutIn, EmptyMet
<1>. HIDE DEF s, f
<1>5. TablesMet'
  <2>1. /\ finger \in [Nodes -> [FingerIndex -> Met']]
        /\ succ \in [Nodes -> [0..NSUCCLIST -> Met']]
        /\ pred \in [Nodes -> Met']
    BY <1>2, TablesKept DEF SInv
  <2>. QED  BY <1>1, <1>3, <1>4, <2>1 DEF TablesMet
<1>6. AllTold'
  BY <1>1, <1>2, NetToldLess DEF SInv
<1>. QED  BY <1>5, <1>6 DEF SInv

(* A dead predecessor or successor is taken out; the sender of the LEAVE  *)
(* takes its place.                                                       *)
LEMMA OnLeaveRegFailedTold ==
    ASSUME IInv, SInv, NEW n \in Nodes, NEW t \in DOMAIN net, OnLeaveRegFailed(n, t)
    PROVE  SInv'
<1>. DEFINE fromPred == t.to = pred[n]
            fromSucc == t.to = succ[n][0]
            p == IF fromPred THEN t.src ELSE pred[n]
            s == IF fromSucc THEN SuccListWithout(n, succ[n], t.to) ELSE succ[n]
            copies == RedundantCopies(n, succ[n][0], red[n])
            f == FingersWithout(n, finger[n], t.to)
            told == IF fromPred THEN DOMAIN copies \cup StabilizeRequests(n, succ[n], p) ELSE {}
            asked == IF fromSucc THEN StabilizeRequests(n, s, p) ELSE {}
            ts == (IF fromPred THEN copies (+) SetToBag(StabilizeRequests(n, succ[n], p))
                   ELSE EmptyBag)
                  (+) (IF fromSucc THEN SetToBag(StabilizeRequests(n, s, p)) ELSE EmptyBag)
<1>1. /\ pred' = [pred EXCEPT ![n] = p]
      /\ succ' = [succ EXCEPT ![n] = s]
      /\ finger' \in {finger, [finger EXCEPT ![n] = f]}
      /\ Replace(t, ts) /\ kind' = kind
  BY DEF OnLeaveRegFailed
<1>2. Steady
  BY <1>1, SteadySame
<1>3. /\ t.src \in Met' /\ t.to \in Met' /\ n \in Settled' /\ n \in Met'
  <2>1. Told(t)' /\ t.type = "leave" /\ kind'[n] = "Normal"
    BY <1>1, <1>2, ToldKept DEF SInv, AllTold, OnLeaveRegFailed, Arrives
  <2>2. n \in Settled'
    BY <2>1 DEF Settled
  <2>. QED  BY <2>1, <2>2, SettledMet DEF Told
<1>4. /\ finger \in [Nodes -> [FingerIndex -> Met']]
      /\ succ \in [Nodes -> [0..NSUCCLIST -> Met']]
      /\ pred \in [Nodes -> Met']
      /\ finger[n] \in [FingerIndex -> Met']
      /\ succ[n] \in [0..NSUCCLIST -> Met']
      /\ succ[n][0] \in Met'
      /\ pred[n] \in Met'
  BY <1>2, TablesKept DEF SInv
<1>5. /\ p \in Met' /\ s \in [0..NSUCCLIST -> Met']
      /\ f \in [FingerIndex -> Met']
  BY <1>3, <1>4, SuccListWithoutIn, FingersWithoutIn, EmptyMet
<1>6. TablesMet'
  <2>. HIDE DEF p, s, f
  <2>. QED  BY <1>1, <1>4, <1>5 DEF TablesMet
<1>7. /\ \A r \in StabilizeRequests(n, succ[n], p) : Told(r)'
      /\ \A r \in StabilizeRequests(n, s, p) : Told(r)'
  <2>. HIDE DEF p, s
  <2>1. s[0] \in Met'
    BY <1>5, NSUCCLISTAssumption
  <2>. QED  BY <1>3, <1>4, <1>5, <2>1, NeighboursTold
<1>8. \A r \in DOMAIN copies : Told(r)'
  BY CopiesTold
<1>. HIDE DEF fromPred, fromSucc, p, s, copies, f
<1>9. \A r \in told \cup asked : Told(r)'
  BY <1>7, <1>8
<1>10. DOMAIN ts \subseteq told \cup asked
  <2>. DEFINE A == IF fromPred THEN copies (+) SetToBag(StabilizeRequests(n, succ[n], p))
                   ELSE EmptyBag
              B == IF fromSucc THEN SetToBag(StabilizeRequests(n, s, p)) ELSE EmptyBag
  <2>1. ts = A (+) B
    OBVIOUS
  <2>2. DOMAIN A \subseteq told
    <3>. DEFINE asks == SetToBag(StabilizeRequests(n, succ[n], p))
    <3>1. DOMAIN (copies (+) asks) = DOMAIN copies \cup DOMAIN asks
      BY BagDomains, Zenon
    <3>2. DOMAIN asks = StabilizeRequests(n, succ[n], p)
      BY BagDomains, Zenon
    <3>3. CASE fromPred
      <4>1. A = copies (+) asks /\ told = DOMAIN copies \cup StabilizeRequests(n, succ[n], p)
        BY <3>3
      <4>. QED  BY <3>1, <3>2, <4>1
    <3>4. CASE ~ fromPred
      <4>1. A = EmptyBag
        BY <3>4
      <4>. QED  BY <4>1, BagDomains
    <3>. QED  BY <3>3, <3>4
  <2>3. DOMAIN B \subseteq asked
    <3>1. DOMAIN SetToBag(StabilizeRequests(n, s, p)) = StabilizeRequests(n, s, p)
      BY BagDomains, Zenon
    <3>. QED  BY <3>1, BagDomains
  <2>. HIDE DEF ts, A, B, told, asked
  <2>4. DOMAIN ts = DOMAIN A \cup DOMAIN B
    BY <2>1, BagDomains, Zenon
  <2>. QED  BY <2>2, <2>3, <2>4
<1>. HIDE DEF ts, told, asked
<1>11. AllTold'
  BY <1>1, <1>2, <1>9, <1>10, NetTold DEF SInv
<1>. QED  BY <1>6, <1>11 DEF SInv

(* An unanswered STABILIZE: with no messages lost, nobody with a process  *)
(* had it to answer, hence the node in its To header is gone.             *)
LEMMA TimeoutGone ==
    ASSUME ~ Lossy, NEW n, NEW t, Told(t), StabilizeTimeout(n, t)
    PROVE  t.to \notin Members /\ t.to \in Met
<1>1. t.type = "stabilize" /\ t.phase = "request" /\ t.dst \cap Live = {}
  BY DEF StabilizeTimeout, Returns
<1>2. Members \subseteq Live
  BY DEF Members, Live, Dead
<1>. QED  BY <1>1, <1>2 DEF Told

(* The only other node is gone. *)
LEMMA OnLastNeighbourFailureTold ==
    ASSUME IInv, SInv, NEW n \in Nodes, NEW t \in DOMAIN net, OnLastNeighbourFailure(n, t)
    PROVE  SInv'
<1>. DEFINE s == SuccListWithout(n, succ[n], t.to)
            f == FingersWithout(n, finger[n], t.to)
<1>1. /\ pred' = [pred EXCEPT ![n] = n]
      /\ succ' = [succ EXCEPT ![n] = s]
      /\ finger' = [finger EXCEPT ![n] = f]
      /\ Replace(t, EmptyBag) /\ kind' = kind
  BY DEF OnLastNeighbourFailure
<1>2. Steady
  BY <1>1, SteadySame
<1>3. t.to \in Met' /\ n \in Met'
  <2>1. Told(t)' /\ t.type = "stabilize" /\ kind'[n] = "Normal"
    BY <1>1, <1>2, ToldKept
       DEF SInv, AllTold, OnLastNeighbourFailure, StabilizeTimeout, Returns
  <2>2. n \in Settled'
    BY <2>1 DEF Settled
  <2>. QED  BY <2>1, <2>2, SettledMet DEF Told
<1>4. s \in [0..NSUCCLIST -> Met'] /\ f \in [FingerIndex -> Met']
  <2>1. succ[n] \in [0..NSUCCLIST -> Met'] /\ finger[n] \in [FingerIndex -> Met']
    BY <1>2, TablesKept DEF SInv
  <2>. QED  BY <1>3, <2>1, SuccListWithoutIn, FingersWithoutIn, EmptyMet
<1>. HIDE DEF s, f
<1>5. TablesMet'
  <2>1. /\ finger \in [Nodes -> [FingerIndex -> Met']]
        /\ succ \in [Nodes -> [0..NSUCCLIST -> Met']]
        /\ pred \in [Nodes -> Met']
    BY <1>2, TablesKept DEF SInv
  <2>. QED  BY <1>1, <1>3, <1>4, <2>1 DEF TablesMet
<1>6. AllTold'
  BY <1>1, <1>2, NetToldLess DEF SInv
<1>. QED  BY <1>5, <1>6 DEF SInv

(* The successor is gone: the second one is told in its name. *)
LEMMA OnSuccessorFailureTold ==
    ASSUME ~ Lossy, IInv, SInv, NEW n \in Nodes, NEW t \in DOMAIN net, OnSuccessorFailure(n, t)
    PROVE  SInv'
<1>. DEFINE second == succ[n][1]
            list == SuccListWithout(n, succ[n], t.to)
            f == FingersWithout(n, finger[n], t.to)
            copies == UserRequests("red_register", n, second, users[n])
<1>1. /\ pred' = pred
      /\ succ' = [succ EXCEPT ![n] = list]
      /\ finger' = [finger EXCEPT ![n] = f]
      /\ kind' = kind
  BY DEF OnSuccessorFailure
<1>2. PICK r : /\ r = LeaveRequest(n, second, t.to, list, pred[n])
               /\ Replace(t, SetToBag({r}) (+) copies)
  BY DEF OnSuccessorFailure
<1>3. Steady
  BY <1>1, SteadySame
<1>4. t.to \in Met' /\ t.to \notin Members' /\ n \in Settled' /\ n \in Met'
  <2>1. kind'[n] = "Normal" /\ StabilizeTimeout(n, t) /\ Told(t)
    BY <1>1 DEF SInv, AllTold, OnSuccessorFailure, StabilizeTimeout
  <2>2. n \in Settled'
    BY <2>1 DEF Settled
  <2>3. t.to \in Met /\ t.to \notin Members
    BY <2>1, TimeoutGone
  <2>. QED  BY <1>3, <2>2, <2>3, SteadyMet, SettledMet
<1>5. /\ finger \in [Nodes -> [FingerIndex -> Met']]
      /\ succ \in [Nodes -> [0..NSUCCLIST -> Met']]
      /\ pred \in [Nodes -> Met']
      /\ finger[n] \in [FingerIndex -> Met']
      /\ succ[n] \in [0..NSUCCLIST -> Met']
      /\ pred[n] \in Met'
  BY <1>3, TablesKept DEF SInv
<1>6. list \in [0..NSUCCLIST -> Met'] /\ f \in [FingerIndex -> Met']
  BY <1>4, <1>5, SuccListWithoutIn, FingersWithoutIn, EmptyMet
<1>7. \A o \in DOMAIN copies : Told(o)'
  BY UserTold DEF UserTypes
<1>. HIDE DEF list, f, copies
<1>8. TablesMet'
  BY <1>1, <1>5, <1>6 DEF TablesMet
<1>9. Told(r)'
  BY <1>2, <1>4, <1>5, <1>6, LeaveTold
<1>10. \A o \in DOMAIN (SetToBag({r}) (+) copies) : Told(o)'
  <2>1. DOMAIN (SetToBag({r}) (+) copies) = DOMAIN SetToBag({r}) \cup DOMAIN copies
    BY BagDomains, Zenon
  <2>2. DOMAIN SetToBag({r}) = {r}
    BY BagDomains, Zenon
  <2>. QED  BY <1>7, <1>9, <2>1, <2>2
<1>11. AllTold'
  BY <1>2, <1>3, <1>10, NetTold DEF SInv
<1>. QED  BY <1>8, <1>11 DEF SInv

(* A transaction that ends without effect. *)
LEMMA EndTold ==
    ASSUME SInv, NEW t \in DOMAIN net, Replace(t, EmptyBag), UNCHANGED <<kind, table>>
    PROVE  SInv'
<1>1. Steady
  BY SteadySame
<1>. QED  BY <1>1, TablesSame, NetToldLess DEF SInv

-----------------------------------------------------------------------------
(* A death. *)
LEMMA CrashTold ==
    ASSUME IInv, SInv, NEW n \in Nodes, Crash(n)
    PROVE  SInv'
<1>1. Steady /\ UNCHANGED table
  BY SteadyTo DEF Crash, Dead
<1>2. UNCHANGED net
  BY DEF Crash
<1>. QED  BY <1>1, <1>2, TablesSame, ToldKept DEF SInv, AllTold

(* A request that the state of its receiver does not handle: the receiver *)
(* is no member.                                                          *)
LEMMA IgnoreRequestTold ==
    ASSUME IInv, SInv, NEW n \in Nodes, NEW t \in DOMAIN net, IgnoreRequest(n, t)
    PROVE  SInv'
<1>1. Steady /\ UNCHANGED table /\ Replace(t, Unanswered(t, n)) /\ kind' = kind
  BY SteadySame DEF IgnoreRequest, KeepNodes
<1>2. t \in Fine /\ Told(t)' /\ kind[n] # "Normal"
  BY <1>1, ToldKept DEF SInv, AllTold, IInv, IgnoreRequest
<1>3. PICK a : a = [t EXCEPT !.dst = @ \ {n}]
  OBVIOUS
<1>4. Told(a)'
  <2>1. /\ a.type = t.type /\ a.phase = t.phase /\ a.src = t.src /\ a.to = t.to
        /\ a.contacts = t.contacts /\ a.predecessor = t.predecessor
        /\ a.dst = t.dst \ {n}
    BY <1>2, <1>3 DEF Fine, Transaction, TransactionOf
  <2>2. n \notin Members'
    BY <1>1, <1>2 DEF Members
  <2>. QED  BY <1>2, <2>1, <2>2 DEF Told
<1>5. DOMAIN Unanswered(t, n) \subseteq {a}
  BY <1>3, BagDomains DEF Unanswered
<1>6. AllTold'
  BY <1>1, <1>4, <1>5, NetTold DEF SInv
<1>. QED  BY <1>1, <1>6, TablesSame DEF SInv

(* At first there are no pointers and no messages. *)
LEMMA InitTold == Init => SInv
<1>. SUFFICES ASSUME Init PROVE SInv
  OBVIOUS
<1>1. LocalnodeWord \in Met
  BY NodesAssumption, SpaceType DEF Met, Cell, LocalnodeWord, Id
<1>2. TablesMet
  BY <1>1, EmptyMet DEF Init, TablesMet, NoFingers, NoSuccessors
<1>3. AllTold
  BY BagDomains DEF Init, AllTold
<1>. QED  BY <1>2, <1>3 DEF SInv

(* What the application does. *)
LEMMA InputTold ==
    ASSUME StartedOnce, IInv, SInv, Standing, Standing', NEW n \in Nodes, Input(n)
    PROVE  SInv'
<1>1. ~ Boot(n)
  <2>. SUFFICES ASSUME Boot(n) PROVE FALSE
    OBVIOUS
  <2>. QED  BY DEF Boot, Spend, Standing, IInv, NodesOK, Operations
<1>. QED  BY <1>1, StartTold, RegisterUserTold, LeaveStepTold, CrashTold DEF Input

(* What the end of a transaction does, or the arrival of a request. *)
LEMMA HandleTold ==
    ASSUME ~ Lossy, IInv, SInv, NEW t \in DOMAIN net, Handle(t)
    PROVE  SInv'
<1>0. t \in Fine /\ t.src \in Nodes /\ t.dst \subseteq Nodes
  BY TransactionFacts DEF IInv
<1>1. ASSUME NEW n \in t.dst, ReceiveRequest(n, t)  PROVE SInv'
  <2>0. n \in Nodes
    BY <1>0
  <2>1. OnLeaveRegFreesTwice(n, t) => SInv'
    BY <2>0, FaultTold DEF OnLeaveRegFreesTwice
  <2>. QED
    BY <1>1, <2>0, <2>1, OnDiscoverRegTold, OnJoinRegTold, OnFindSuccRegTold,
       OnStabilizeRegTold, OnLeaveRegGracefulTold, OnLeaveRegFailedTold, OnUserRegTold,
       OnRedRegisterTold, IgnoreRequestTold DEF ReceiveRequest
<1>2. ASSUME ReceiveResponse(t.src, t)  PROVE SInv'
  <2>1. OnStabilizeOKFromOther(t.src, t) => SInv'
    BY EndTold DEF OnStabilizeOKFromOther
  <2>. QED
    BY <1>0, <1>2, <2>1, OnDiscoverOKTold, OnJoinOKTold, OnFindSuccTold,
       OnStabilizeOKFromSuccTold, OnStabilizeOKFromPredTold, OnUserRegRedirectTold
       DEF ReceiveResponse
<1>3. ASSUME Timeout(t.src, t)  PROVE SInv'
  <2>1. OnOtherFailure(t.src, t) => SInv'
    BY EndTold DEF OnOtherFailure
  <2>. QED
    BY <1>0, <1>3, <2>1, OnNoNodeFindTold, OnLastNeighbourFailureTold,
       OnSuccessorFailureTold DEF Timeout
<1>4. ASSUME IgnoreResponse(t) \/ EndUnanswered(t)  PROVE SInv'
  BY <1>4, EndTold DEF IgnoreResponse, EndUnanswered, KeepNodes
<1>. QED  BY <1>1, <1>2, <1>3, <1>4 DEF Handle, LoseResponse

(* Every step. *)
LEMMA NextTold ==
    ASSUME StartedOnce, ~ Lossy
    PROVE  IInv /\ SInv /\ Standing /\ Standing' /\ [Next]_vars => SInv'
<1>. SUFFICES ASSUME IInv, SInv, Standing, Standing', [Next]_vars  PROVE SInv'
  OBVIOUS
<1>1. CASE UNCHANGED vars
  <2>1. Steady /\ UNCHANGED <<net, table>>
    BY <1>1, SteadySame DEF vars
  <2>. QED  BY <2>1, TablesSame, ToldKept DEF SInv, AllTold
<1>2. ASSUME NEW n \in Nodes, Input(n) \/ Stabilize(n)  PROVE SInv'
  BY <1>2, InputTold, StabilizeRoundTold
<1>3. ASSUME NEW t \in DOMAIN net, Handle(t)  PROVE SInv'
  BY <1>3, HandleTold
<1>. QED  BY <1>1, <1>2, <1>3 DEF Next

(* What nodes know and tell each other is about nodes that got to         *)
(* NormalState, and nobody is called gone who is a member: of the overlay *)
(* without lost messages in which nobody is started twice.                *)
THEOREM ToldOfSettled ==
    ASSUME StartedOnce, ~ Lossy
    PROVE  Spec /\ []Standing => []SInv
<1>1. Init => SInv
  BY InitTold
<1>2. IInv /\ SInv /\ Standing /\ Standing' /\ [Next]_vars => SInv'
  BY NextTold
<1>. QED  BY <1>1, <1>2, Inductive, PTL DEF Spec

-----------------------------------------------------------------------------
(* One step of LivePredecessorKept. *)
PredecessorsKept ==
    \A n \in Members :
        kind'[n] = "Normal" /\ pred'[n] # pred[n]
            => Belongs(pred'[n], pred[n], n) \/ pred[n] \notin Members

(* One step of LiveSuccessorKept. *)
SuccessorsKept ==
    \A n \in Members :
        kind'[n] = "Normal" /\ succ'[n][0] # succ[n][0]
            => Belongs(succ'[n][0], n, succ[n][0]) \/ succ[n][0] \notin Members

(* A new predecessor is no change, a nearer one, or the old one was gone. *)
LEMMA PredecessorGivenUp ==
    ASSUME IInv, NEW n \in Nodes, NEW v, (pred' = pred \/ pred' = [pred EXCEPT ![n] = v]),
           n \in Members => v = pred[n] \/ Belongs(v, pred[n], n) \/ pred[n] \notin Members
    PROVE  PredecessorsKept
<1>1. \A m \in Nodes : pred'[m] \in {pred[m], IF m = n THEN v ELSE pred[m]}
  BY DEF IInv, NodesOK
<1>. QED  BY <1>1 DEF PredecessorsKept, Members

(* The same of the successor. *)
LEMMA SuccessorGivenUp ==
    ASSUME IInv, NEW n \in Nodes, NEW s, (succ' = succ \/ succ' = [succ EXCEPT ![n] = s]),
           n \in Members => \/ s[0] = succ[n][0]
                            \/ Belongs(s[0], n, succ[n][0])
                            \/ succ[n][0] \notin Members
    PROVE  SuccessorsKept
<1>1. \A m \in Nodes : succ'[m] \in {succ[m], IF m = n THEN s ELSE succ[m]}
  BY DEF IInv, NodesOK
<1>. QED  BY <1>1 DEF SuccessorsKept, Members

(* Steps that change no table. *)
LEMMA TableKept ==
    ASSUME UNCHANGED table
    PROVE  PredecessorsKept /\ SuccessorsKept
BY DEF table, PredecessorsKept, SuccessorsKept

(* Steps of a node that is no member may give it any neighbours. *)
LEMMA NoMemberYet ==
    ASSUME IInv, NEW n \in Nodes, kind[n] # "Normal", NEW v, NEW s,
           pred' = [pred EXCEPT ![n] = v], succ' = [succ EXCEPT ![n] = s]
    PROVE  PredecessorsKept /\ SuccessorsKept
<1>1. n \notin Members
  BY DEF Members
<1>. QED  BY <1>1, PredecessorGivenUp, SuccessorGivenUp

(* A founder was no member. *)
LEMMA BecomeFirstKept ==
    ASSUME IInv, NEW n \in Nodes, kind[n] # "Normal", BecomeFirst(n)
    PROVE  PredecessorsKept /\ SuccessorsKept
<1>1. pred' = [pred EXCEPT ![n] = n] /\ succ' = [succ EXCEPT ![n] = [succ[n] EXCEPT ![0] = n]]
  BY DEF BecomeFirst
<1>. QED  BY <1>1, NoMemberYet

(* The node in whose name a LEAVE comes is gone. *)
LEMMA LeaverGone ==
    ASSUME AllTold, NEW n, NEW t \in DOMAIN net, Arrives("leave", n, t)
    PROVE  t.to \notin Members
BY DEF AllTold, Told, Arrives

(* onStabilizeReg changes a neighbour for a nearer one only. *)
LEMMA OnStabilizeRegKept ==
    ASSUME IInv, NEW n \in Nodes, NEW t \in DOMAIN net, OnStabilizeReg(n, t)
    PROVE  PredecessorsKept /\ SuccessorsKept
<1>. DEFINE p == IF NearerPredecessor(n, t.src) THEN t.src ELSE pred[n]
            s == IF NearerSuccessor(n, t.src) THEN [succ[n] EXCEPT ![0] = t.src] ELSE succ[n]
<1>1. pred' = [pred EXCEPT ![n] = p] /\ succ' = [succ EXCEPT ![n] = s]
  BY DEF OnStabilizeReg
<1>2. p = pred[n] \/ Belongs(p, pred[n], n)
  BY DEF NearerPredecessor
<1>3. s[0] = succ[n][0] \/ Belongs(s[0], n, succ[n][0])
  BY NodeFacts, NSUCCLISTAssumption DEF NearerSuccessor, IInv
<1>. HIDE DEF p, s
<1>. QED  BY <1>1, <1>2, <1>3, PredecessorGivenUp, SuccessorGivenUp

(* The answer of the successor brings a nearer node, or a list that       *)
(* begins with the successor itself.                                      *)
LEMMA OnStabilizeOKFromSuccKept ==
    ASSUME IInv, SInv, NEW n \in Nodes, NEW t \in DOMAIN net, OnStabilizeOKFromSucc(n, t)
    PROVE  PredecessorsKept /\ SuccessorsKept
<1>. DEFINE nearer == [ClearSuccList(succ[n]) EXCEPT ![0] = t.predecessor]
            list == SetSuccListWithContacts(n, succ[n], t.contacts, 0)
            s == IF NearerSuccessor(n, t.predecessor) THEN nearer ELSE list
<1>1. /\ pred' = pred
      /\ (succ' = succ \/ succ' = [succ EXCEPT ![n] = s])
      /\ t.to = succ[n][0]
  BY DEF OnStabilizeOKFromSucc
<1>2. nearer[0] = t.predecessor
  BY NSUCCLISTAssumption DEF ClearSuccList
<1>3. list[0] = succ[n][0]
  <2>1. t.contacts[0] = succ[n][0]
    BY <1>1 DEF SInv, AllTold, Told, OnStabilizeOKFromSucc, StabilizeReturns, Returns
  <2>. QED  BY <2>1, SetSuccListFirst
<1>4. s[0] = succ[n][0] \/ Belongs(s[0], n, succ[n][0])
  <2>. HIDE DEF nearer, list
  <2>. QED  BY <1>2, <1>3 DEF NearerSuccessor
<1>. HIDE DEF s
<1>5. PredecessorsKept
  BY <1>1 DEF PredecessorsKept
<1>6. SuccessorsKept
  BY <1>1, <1>4, SuccessorGivenUp
<1>. QED  BY <1>5, <1>6

(* The answer of the predecessor brings a nearer one, or none. *)
LEMMA OnStabilizeOKFromPredKept ==
    ASSUME IInv, NEW n \in Nodes, NEW t \in DOMAIN net, OnStabilizeOKFromPred(n, t)
    PROVE  PredecessorsKept /\ SuccessorsKept
<1>1. CASE t.contacts[1] = EmptyChordId \/ ~ NearerPredecessor(n, t.contacts[1])
  <2>1. UNCHANGED table
    BY <1>1 DEF OnStabilizeOKFromPred, Fault
  <2>. QED  BY <2>1, TableKept
<1>2. CASE t.contacts[1] # EmptyChordId /\ NearerPredecessor(n, t.contacts[1])
  <2>1. pred' = [pred EXCEPT ![n] = t.contacts[1]] /\ succ' = succ
    BY <1>2 DEF OnStabilizeOKFromPred
  <2>2. PredecessorsKept
    BY <1>2, <2>1, PredecessorGivenUp DEF NearerPredecessor
  <2>. QED  BY <2>1, <2>2 DEF SuccessorsKept
<1>. QED  BY <1>1, <1>2

(* A LEAVE takes a neighbour away only if it is the node gone. *)
LEMMA OnLeaveRegKept ==
    ASSUME IInv, SInv, NEW n \in Nodes, NEW t \in DOMAIN net,
           OnLeaveRegGraceful(n, t) \/ OnLeaveRegFailed(n, t)
    PROVE  PredecessorsKept /\ SuccessorsKept
<1>1. t.to \notin Members
  BY LeaverGone DEF SInv, OnLeaveRegGraceful, OnLeaveRegFailed
<1>2. PICK p, s : /\ (pred' = pred \/ pred' = [pred EXCEPT ![n] = p])
                  /\ (succ' = succ \/ succ' = [succ EXCEPT ![n] = s])
                  /\ p = pred[n] \/ pred[n] = t.to
                  /\ s[0] = succ[n][0] \/ succ[n][0] = t.to
  <2>1. CASE OnLeaveRegGraceful(n, t)
    <3>. DEFINE list == SetSuccListWithContacts(n, succ[n], t.contacts, 1)
                p == IF t.to = pred[n] THEN t.predecessor ELSE pred[n]
                s == IF t.to = succ[n][0] THEN SuccListWithout(n, list, t.to) ELSE succ[n]
    <3>1. /\ (pred' = pred \/ pred' = [pred EXCEPT ![n] = p])
          /\ (succ' = succ \/ succ' = [succ EXCEPT ![n] = s])
      BY <2>1 DEF OnLeaveRegGraceful
    <3>2. /\ p = pred[n] \/ pred[n] = t.to
          /\ s[0] = succ[n][0] \/ succ[n][0] = t.to
      OBVIOUS
    <3>. HIDE DEF p, s
    <3>. QED  BY <3>1, <3>2
  <2>2. CASE OnLeaveRegFailed(n, t)
    <3>. DEFINE p == IF t.to = pred[n] THEN t.src ELSE pred[n]
                s == IF t.to = succ[n][0] THEN SuccListWithout(n, succ[n], t.to) ELSE succ[n]
    <3>1. pred' = [pred EXCEPT ![n] = p] /\ succ' = [succ EXCEPT ![n] = s]
      BY <2>2 DEF OnLeaveRegFailed
    <3>2. /\ p = pred[n] \/ pred[n] = t.to
          /\ s[0] = succ[n][0] \/ succ[n][0] = t.to
      OBVIOUS
    <3>. HIDE DEF p, s
    <3>. QED  BY <3>1, <3>2
  <2>. QED  BY <2>1, <2>2
<1>. QED  BY <1>1, <1>2, PredecessorGivenUp, SuccessorGivenUp

(* So does the failure of a STABILIZE. *)
LEMMA OnNodeFailureKept ==
    ASSUME ~ Lossy, IInv, SInv, NEW n \in Nodes, NEW t \in DOMAIN net,
           OnLastNeighbourFailure(n, t) \/ OnSuccessorFailure(n, t)
    PROVE  PredecessorsKept /\ SuccessorsKept
<1>1. t.to \notin Members
  BY TimeoutGone DEF SInv, AllTold, OnLastNeighbourFailure, OnSuccessorFailure
<1>2. /\ (pred' = pred \/ pred' = [pred EXCEPT ![n] = n])
      /\ pred' = pred \/ pred[n] = t.to
      /\ succ[n][0] = t.to
      /\ succ' = [succ EXCEPT ![n] = SuccListWithout(n, succ[n], t.to)]
  BY DEF OnLastNeighbourFailure, OnSuccessorFailure
<1>3. PredecessorsKept
  <2>1. CASE pred' = pred
    BY <2>1 DEF PredecessorsKept
  <2>2. CASE pred[n] = t.to
    BY <1>1, <1>2, <2>2, PredecessorGivenUp
  <2>. QED  BY <1>2, <2>1, <2>2
<1>4. SuccessorsKept
  BY <1>1, <1>2, SuccessorGivenUp
<1>. QED  BY <1>3, <1>4

(* What the application does: start, leave, death, registration. *)
LEMMA InputKept ==
    ASSUME StartedOnce, IInv, NEW n \in Nodes, Input(n)
    PROVE  PredecessorsKept /\ SuccessorsKept
<1>1. CASE StartFirst(n)
  BY <1>1, BecomeFirstKept DEF StartFirst, StartedOnce
<1>2. CASE Boot(n)
  BY <1>2, NoMemberYet DEF Boot, Dead
<1>3. CASE StartNode(n) \/ Leave(n) \/ Crash(n) \/ \E u \in Users : RegisterUser(n, u)
  BY <1>3, TableKept DEF StartNode, Leave, Crash, RegisterUser
<1>. QED  BY <1>1, <1>2, <1>3 DEF Input

(* The arrival of a request. *)
LEMMA RequestKept ==
    ASSUME IInv, SInv, NEW n \in Nodes, NEW t \in DOMAIN net, ReceiveRequest(n, t)
    PROVE  PredecessorsKept /\ SuccessorsKept
<1>1. CASE OnStabilizeReg(n, t)
  BY <1>1, OnStabilizeRegKept
<1>2. CASE OnLeaveRegGraceful(n, t) \/ OnLeaveRegFailed(n, t)
  BY <1>2, OnLeaveRegKept
<1>3. CASE \/ OnDiscoverReg(n, t) \/ OnJoinReg(n, t) \/ OnFindSuccReg(n, t)
           \/ OnUserReg(n, t) \/ OnRedRegister(n, t)
           \/ OnLeaveRegFreesTwice(n, t) \/ IgnoreRequest(n, t)
  <2>1. UNCHANGED table
    BY <1>3 DEF OnDiscoverReg, OnJoinReg, OnFindSuccReg, OnUserReg, OnRedRegister,
       OnLeaveRegFreesTwice, Fault, IgnoreRequest, KeepNodes
  <2>. QED  BY <2>1, TableKept
<1>. QED  BY <1>1, <1>2, <1>3 DEF ReceiveRequest

(* Fingers are no neighbours. *)
LEMMA FingerFoundKept ==
    ASSUME NEW n, NEW t, NEW v, FingerFound(n, t, v)
    PROVE  PredecessorsKept /\ SuccessorsKept
BY DEF FingerFound, PredecessorsKept, SuccessorsKept

(* The arrival of a response. *)
LEMMA ResponseKept ==
    ASSUME IInv, SInv, NEW n \in Nodes, NEW t \in DOMAIN net, ReceiveResponse(n, t)
    PROVE  PredecessorsKept /\ SuccessorsKept
<1>1. CASE OnJoinOK(n, t)
  BY <1>1, NoMemberYet DEF OnJoinOK
<1>2. CASE OnFindSuccOK(n, t) \/ OnFindSuccRedirect(n, t)
  BY <1>2, FingerFoundKept, TableKept DEF OnFindSuccOK, OnFindSuccRedirect, FollowRedirect
<1>3. CASE OnStabilizeOKFromSucc(n, t)
  BY <1>3, OnStabilizeOKFromSuccKept
<1>4. CASE OnStabilizeOKFromPred(n, t)
  BY <1>4, OnStabilizeOKFromPredKept
<1>5. CASE OnDiscoverOK(n, t) \/ OnStabilizeOKFromOther(n, t) \/ OnUserRegRedirect(n, t)
  <2>1. UNCHANGED table
    BY <1>5 DEF OnDiscoverOK, OnStabilizeOKFromOther, OnUserRegRedirect, Fault
  <2>. QED  BY <2>1, TableKept
<1>. QED  BY <1>1, <1>2, <1>3, <1>4, <1>5 DEF ReceiveResponse

(* Every step. *)
LEMMA NeighboursKept ==
    ASSUME StartedOnce, ~ Lossy
    PROVE  IInv /\ SInv /\ [Next]_vars => [PredecessorsKept /\ SuccessorsKept]_vars
<1>. SUFFICES ASSUME IInv, SInv, Next  PROVE PredecessorsKept /\ SuccessorsKept
  OBVIOUS
<1>1. ASSUME NEW n \in Nodes, Input(n) \/ Stabilize(n)
      PROVE  PredecessorsKept /\ SuccessorsKept
  BY <1>1, InputKept, TableKept DEF Stabilize
<1>2. ASSUME NEW t \in DOMAIN net, Handle(t)
      PROVE  PredecessorsKept /\ SuccessorsKept
  <2>0. t.src \in Nodes /\ t.dst \subseteq Nodes
    BY TransactionFacts DEF IInv
  <2>1. ASSUME NEW n \in t.dst, ReceiveRequest(n, t)
        PROVE  PredecessorsKept /\ SuccessorsKept
    BY <2>0, <2>1, RequestKept
  <2>2. ASSUME ReceiveResponse(t.src, t)  PROVE PredecessorsKept /\ SuccessorsKept
    BY <2>0, <2>2, ResponseKept
  <2>3. ASSUME Timeout(t.src, t)  PROVE PredecessorsKept /\ SuccessorsKept
    <3>1. CASE OnNoNodeFind(t.src, t)
      BY <2>0, <3>1, BecomeFirstKept DEF OnNoNodeFind
    <3>2. CASE OnLastNeighbourFailure(t.src, t) \/ OnSuccessorFailure(t.src, t)
      BY <2>0, <3>2, OnNodeFailureKept
    <3>3. CASE OnOtherFailure(t.src, t)
      BY <3>3, TableKept DEF OnOtherFailure
    <3>. QED  BY <2>3, <3>1, <3>2, <3>3 DEF Timeout
  <2>4. ASSUME IgnoreResponse(t) \/ EndUnanswered(t)
        PROVE  PredecessorsKept /\ SuccessorsKept
    BY <2>4, TableKept DEF IgnoreResponse, EndUnanswered, KeepNodes
  <2>. QED  BY <1>2, <2>1, <2>2, <2>3, <2>4 DEF Handle, LoseResponse
<1>. QED  BY <1>1, <1>2 DEF Next

(* No member gives a predecessor that is a member up for one that is not  *)
(* nearer (onStabilizeReg, onStabilizeOK, onLeaveReg, onNodeFailure of    *)
(* NormalState), in every overlay without lost messages in which nobody   *)
(* is started twice, whatever leaves and deaths there are.                *)
THEOREM LivePredecessorIsKept ==
    ASSUME StartedOnce, ~ Lossy
    PROVE  Spec /\ []Standing => LivePredecessorKept
<1>1. IInv /\ SInv /\ [Next]_vars => [PredecessorsKept]_vars
  BY NeighboursKept
<1>. QED
  BY <1>1, Inductive, ToldOfSettled, PTL DEF Spec, LivePredecessorKept, PredecessorsKept

(* The same of successors: a member gives one that is a member up only    *)
(* for a nearer one, whichever answers come late and in whatever order.   *)
THEOREM LiveSuccessorIsKept ==
    ASSUME StartedOnce, ~ Lossy
    PROVE  Spec /\ []Standing => LiveSuccessorKept
<1>1. IInv /\ SInv /\ [Next]_vars => [SuccessorsKept]_vars
  BY NeighboursKept
<1>. QED
  BY <1>1, Inductive, ToldOfSettled, PTL DEF Spec, LiveSuccessorKept, SuccessorsKept
=============================================================================

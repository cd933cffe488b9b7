-------------------------------- MODULE Ring --------------------------------
(***************************************************************************)
(* What the overlay is for: the nodes in NormalState form one ring, every  *)
(* position of it has a node that answers for it, and every user record is *)
(* at the node its identifier belongs to.                                  *)
(***************************************************************************)
EXTENDS Overlay

Members == {n \in Nodes : kind[n] = "Normal"}

-----------------------------------------------------------------------------
(* The ring a set S of nodes ought to form. *)

(* The first node of S at position x or clockwise of it. *)
NodeAt(S, x) == CHOOSE m \in S : \A o \in S : Clockwise(x, m) <= Clockwise(x, o)

(* The nodes of S from n clockwise, n itself last: rank 0, 1, ... *)
Rank(S, n, m) ==
    IF m = n THEN Cardinality(S) - 1 ELSE Cardinality({o \in S : Belongs(o, n, m)})

RingFingers(S, n) == [i \in FingerIndex |-> NodeAt(S, Start(n, i))]

RingSuccessors(S, n) ==
    [j \in 0..NSUCCLIST |->
        IF j = NSUCCLIST THEN LocalnodeWord
        ELSE IF j >= Cardinality(S) THEN EmptyChordId
        ELSE CHOOSE m \in S : Rank(S, n, m) = j]

RingPredecessor(S, n) == CHOOSE m \in S : NodeAt(S, Add(m, 1)) = n

Owner(S, u) == NodeAt(S, Hash[u])

-----------------------------------------------------------------------------
(* Properties of every reachable state, proved in Ring_proofs.             *)

(* One list of records for each node. *)
RecordList(list) == IsABag(list) /\ DOMAIN list \subseteq Users
RecordLists(lists) ==
    lists = [n \in Nodes |-> lists[n]] /\ \A n \in Nodes : RecordList(lists[n])

(* Every variable keeps its type. *)
TypeOK ==
    /\ kind \in [Nodes -> Kinds]
    /\ inc \in [Nodes -> Nat]
    /\ finger \in [Nodes -> [FingerIndex -> Cell]]
    /\ succ \in [Nodes -> [0..NSUCCLIST -> Cell]]
    /\ pred \in [Nodes -> Cell]
    /\ bootstrap \in [Nodes -> Cell]
    /\ RecordLists(users)
    /\ RecordLists(red)
    /\ local \in [Nodes -> SUBSET Users]
    /\ DOMAIN net \subseteq Transaction
    /\ ops \in [Operations -> Nat]

(* A node in NormalState has a predecessor: onJoinReg, onFindSuccReg and   *)
(* onUserReg compare with it before anything else, and an empty one would  *)
(* make the node answer for positions it does not own.  It takes what      *)
(* joins, leaves, answers and failures say of other nodes' predecessors.   *)
PredecessorKnown == \A n \in Members : pred[n] # EmptyChordId

(* JoiningState::onJoinRedirect never runs: JOIN names its receiver, and   *)
(* every node owns its own identifier (SndRegister, onJoinReg).            *)
JoinNeverRedirected == \A t \in DOMAIN net : t.type = "join" => t.phase # "redirect"

(* The predecessor in a STABILIZE answer is the asker or a node between it *)
(* and the one that answers (onStabilizeReg updates its table before it    *)
(* answers): onStabilizeOK adopts it or takes the list, and its last case, *)
(* a predecessor that is neither, does not happen.                         *)
AnswersNearer ==
    \A t \in DOMAIN net :
        t.type = "stabilize" /\ t.phase = "ok" /\ t.predecessor \in Id =>
            t.predecessor = t.src \/ Belongs(t.predecessor, t.src, t.to)

States == INSTANCE NodeStates WITH Procs <- Nodes, state <- kind

(* Whatever answers and timeouts arrive late, the state of a node moves    *)
(* along the life cycle that Node.h documents: none finds the node in a    *)
(* state in which it would bring it back or send it elsewhere (the Handle  *)
(* of every state).                                                        *)
NodeLifeCycle == States!Spec

-----------------------------------------------------------------------------
(* Properties of scenarios. *)

(* No process dies in a handler (OnUserRegRedirect, OnStabilizeOKFromPred, *)
(* OnLeaveRegFreesTwice).                                                  *)
NoFault == \A n \in Nodes : kind[n] # "Faulted"

(* While a node leaves, answers and LEAVEs arrive in every order, but none *)
(* makes a handler dereference a null pointer (OnUserRegRedirect,          *)
(* OnStabilizeOKFromPred): a process dies only by the second free of a     *)
(* string in onLeaveReg.                                                   *)
NullNeverUsed ==
    [][\A n \in Nodes :
        kind[n] # "Faulted" /\ kind'[n] = "Faulted"
            => \E t \in DOMAIN net : OnLeaveRegFreesTwice(n, t)]_vars

(* A node in NormalState has a successor: Stabilize, the transfers and     *)
(* closestPrecedingFinger use the first of the list unchecked.             *)
SuccessorKnown == \A n \in Members : succ[n][0] # EmptyChordId

Linked(n, m) == m \in {succ[n][0], pred[n]} \/ n \in {succ[m][0], pred[m]}

(* The overlay never falls apart: the pointers to successors and           *)
(* predecessors connect all the nodes in NormalState, so that STABILIZE    *)
(* can still repair the ring.                                              *)
Connected ==
    \A S \in SUBSET Members :
        S \notin {{}, Members} => \E n \in S, m \in Members \ S : Linked(n, m)

(* Some node answers for every position of the ring, unless the LEAVE of   *)
(* one that left has not been handled yet (NormalState::Leave, onLeaveReg). *)
Covered ==
    \A k \in Id : Members # {} =>
        \/ \E n \in Members : BelongsRightInclusive(k, pred[n], n)
        \/ \E t \in DOMAIN net : t.type = "leave"

(* A node gives up a predecessor or a successor that is in NormalState     *)
(* only for a nearer one (onStabilizeReg, onStabilizeOK, onLeaveReg,       *)
(* onNodeFailure, whatever the order of their messages).                   *)
LivePredecessorKept ==
    [][\A n \in Members :
        kind'[n] = "Normal" /\ pred'[n] # pred[n]
            => Belongs(pred'[n], pred[n], n) \/ pred[n] \notin Members]_vars

LiveSuccessorKept ==
    [][\A n \in Members :
        kind'[n] = "Normal" /\ succ'[n][0] # succ[n][0]
            => Belongs(succ'[n][0], n, succ[n][0]) \/ succ[n][0] \notin Members]_vars

(* A node that looks for the overlay joins it or starts one. *)
StartsFinish == \A n \in Nodes : kind[n] = "Discoving" ~> kind[n] = "Normal"

PredecessorsRight == \A n \in Members : pred[n] = RingPredecessor(Members, n)

RingRight ==
    /\ PredecessorsRight
    /\ \A n \in Members :
        /\ finger[n] = RingFingers(Members, n)
        /\ \A j \in 0..(NSUCCLIST - 1) : succ[n][j] = RingSuccessors(Members, n)[j]

(* When nodes stop coming and going, every finger, successor list and      *)
(* predecessor is right in the end, and stays so.                          *)
RingForms == <>[]RingRight

-----------------------------------------------------------------------------
(* Records. *)
Registered == UNION {local[n] : n \in Nodes}

InFlight(u, types) == \E t \in DOMAIN net : t.to = u /\ t.type \in types

(* A registered record is at a node, or in a registration on its way. *)
RecordsHeld ==
    \A u \in Registered :
        (\E n \in Members : BagIn(u, users[n])) \/ InFlight(u, {"user_registration"})

(* A registered record gets to the node it belongs to, and stays there. *)
RecordsReachOwner ==
    <>[](\A u \in Registered : Members # {} => BagIn(u, users[Owner(Members, u)]))

(* Every record has a copy at a node or on its way: with those the ring    *)
(* started with, the redundant copies (RED_REGISTER) are for a crash.      *)
RecordsSurvive ==
    \A u \in Users :
        (\E n \in Members : BagIn(u, users[n] (+) red[n])) \/ InFlight(u, UserTypes)

(* A redundant copy becomes the record of its owner in the end. *)
RecordsRecovered ==
    <>[](\A u \in Users : Members # {} => BagIn(u, users[Owner(Members, u)]))

-----------------------------------------------------------------------------
(* What the code's own texts say of it. *)

(* FingerTable.h declares NSUCCLIST successors and setSuccListWithContacts *)
(* guards against an overflow: nothing writes past the list.               *)
ListInBounds == \A n \in Nodes : succ[n][NSUCCLIST] = LocalnodeWord

(* closestPrecedingFinger: "must at least provide the successor".  A node  *)
(* that is not alone always has somewhere to redirect to.                  *)
LookupGetsOn ==
    \A n \in Members : pred[n] # n => \A k \in Id :
        BelongsRightInclusive(k, pred[n], n)
            \/ ClosestPrecedingFinger(n, finger[n], succ[n], k) # EmptyChordId

(* TransferUserInfoToSucc: "transfer the user information this node is     *)
(* responsible for".  When a node has left and nothing is under way, every *)
(* record is at some node.                                                 *)
LeaveHandsOver ==
    net = EmptyBag =>
        \A u \in Users : \E n \in Members : BagIn(u, users[n])
=============================================================================

---------------------------- MODULE Stabilization ----------------------------
(***************************************************************************)
(* NormalState keeps the ring together: the periodic STABILIZE round, the  *)
(* graceful LEAVE, the detection of a dead successor and the LEAVE sent on *)
(* its behalf.                                                             *)
(***************************************************************************)
EXTENDS Joining

(* Mutants: any other node is taken for a nearer one; a nearer predecessor *)
(* is not recognised; the copies of a dead predecessor's records are left  *)
(* where they are.                                                         *)
AnyPredecessor(n, v) == v # pred[n]
AnySuccessor(n, v) == v # n
NoPredecessor(n, v) == FALSE
LeaveCopies(n) == UNCHANGED <<users, red>>

(* v is nearer than the predecessor, than the successor. *)
NearerPredecessor(n, v) == Belongs(v, pred[n], n)
NearerSuccessor(n, v) == Belongs(v, n, succ[n][0])

(* The redundant copies of a dead predecessor's records become records. *)
AdoptCopies(n) ==
    /\ users' = [users EXCEPT ![n] = @ (+) red[n]]
    /\ red' = [red EXCEPT ![n] = EmptyBag]

StabilizeRequest(n, target) == Request("stabilize", n, target, target)

(* NormalState::Stabilize, with successor list s and predecessor p. *)
StabilizeRequests(n, s, p) ==
    {StabilizeRequest(n, target) :
        target \in ({s[0]} \cup ({p} \ {EmptyChordId})) \ {n}}

(* mythread_stabilize: a round every STABILIZE_PERIOD. *)
Stabilize(n) ==
    /\ kind[n] = "Normal"
    /\ Cardinality({t \in DOMAIN net : t.type \notin UserTypes}) < MaxPending
    /\ BagCardinality(net) < MaxBacklog
    /\ IF MaxRounds = 0 THEN UNCHANGED ops ELSE Spend("round", MaxRounds)
    /\ net' = net (+) SetToBag(StabilizeRequests(n, succ[n], pred[n]))
    /\ UNCHANGED <<kind, inc, table, bootstrap, records>>

-----------------------------------------------------------------------------
(* onStabilizeReg: the sender may be a nearer predecessor, to which the    *)
(* records go, and a nearer successor, which replaces the first of the     *)
(* list only.  The answer carries the table as updated.                    *)
OnStabilizeReg(n, t) ==
    LET nearerPred == NearerPredecessor(n, t.src)
        nearerSucc == NearerSuccessor(n, t.src)
        p == IF nearerPred THEN t.src ELSE pred[n]
        s == IF nearerSucc THEN [succ[n] EXCEPT ![0] = t.src] ELSE succ[n]
        transfers == IF nearerPred THEN TransferRequests(n, t.src) ELSE EmptyBag
    IN  /\ Arrives("stabilize", n, t)
        /\ pred' = [pred EXCEPT ![n] = p]
        /\ succ' = [succ EXCEPT ![n] = s]
        /\ finger' = IF nearerSucc
                     THEN [finger EXCEPT ![n] = Set_Fingers(n, @, 1, t.src)] ELSE finger
        /\ IF nearerPred THEN TransferUserInfoToPred(n, t.src) ELSE UNCHANGED records
        /\ Replace(t, transfers (+) Answer(t, "ok", ContactsOf(n, s, s[0] # n), p))
        /\ UNCHANGED <<kind, inc, bootstrap, ops>>

(* Mutant: the last finger is not looked up. *)
LookupFingerShort(n, s, k) ==
    IF k < NBITS /\ s[0] \notin {n, EmptyChordId}
    THEN SetToBag({Request("findsucc", n, s[0], Start(n, k))})
    ELSE EmptyBag

(* The end of onStabilizeOK: look up the next finger, k, at the successor. *)
LookupFinger(n, s, k) ==
    IF k <= NBITS /\ s[0] \notin {n, EmptyChordId}
    THEN SetToBag({Request("findsucc", n, s[0], Start(n, k))})
    ELSE EmptyBag

StabilizeReturns(n, t) ==
    /\ Returns("stabilize", "ok", n, t)
    /\ kind[n] = "Normal"

(* onStabilizeOK, from the successor: its predecessor is between us and    *)
(* becomes the successor, alone in the list; or we are its predecessor and *)
(* take its list; or it is ignored.                                        *)
OnStabilizeOKFromSucc(n, t) ==
    LET v == IF t.predecessor = n THEN t.contacts[0] ELSE t.predecessor
        s == IF NearerSuccessor(n, t.predecessor)
             THEN [ClearSuccList(succ[n]) EXCEPT ![0] = t.predecessor]
             ELSE SetSuccListWithContacts(n, succ[n], t.contacts, 0)
    IN  /\ StabilizeReturns(n, t)
        /\ t.to = succ[n][0]
        /\ \/ /\ NearerSuccessor(n, t.predecessor) \/ t.predecessor = n
              /\ finger' = [finger EXCEPT ![n] = Set_Fingers(n, @, 1, v)]
              /\ succ' = [succ EXCEPT ![n] = s]
              /\ Replace(t, LookupFinger(n, s, LastCovered(n, 1, v) + 1))
           \/ /\ ~ NearerSuccessor(n, t.predecessor) /\ t.predecessor # n
              /\ Replace(t, EmptyBag)
              /\ UNCHANGED <<finger, succ>>
        /\ UNCHANGED <<kind, inc, pred, bootstrap, records, ops>>

(* onStabilizeOK, from the predecessor: contact 1, its successor, may be a *)
(* nearer predecessor; an answer without contact 1 is dereferenced.        *)
OnStabilizeOKFromPred(n, t) ==
    LET first == t.contacts[1]
    IN  /\ StabilizeReturns(n, t)
        /\ t.to # succ[n][0]
        /\ t.to = pred[n]
        /\ \/ /\ first = EmptyChordId
              /\ Replace(t, EmptyBag)
              /\ Fault(n)
           \/ /\ first # EmptyChordId
              /\ NearerPredecessor(n, first)
              /\ pred' = [pred EXCEPT ![n] = first]
              /\ TransferUserInfoToPred(n, first)
              /\ Replace(t, TransferRequests(n, first) (+) LookupFinger(n, succ[n], 1))
              /\ UNCHANGED <<kind, inc, finger, succ, bootstrap, ops>>
           \/ /\ first # EmptyChordId
              /\ ~ NearerPredecessor(n, first)
              /\ Replace(t, EmptyBag)
              /\ UNCHANGED <<kind, inc, table, bootstrap, records, ops>>

(* onStabilizeOK: the sender of the answer is neither any more. *)
OnStabilizeOKFromOther(n, t) ==
    /\ StabilizeReturns(n, t)
    /\ t.to \notin {succ[n][0], pred[n]}
    /\ Replace(t, EmptyBag)
    /\ UNCHANGED <<kind, inc, table, bootstrap, records, ops>>

-----------------------------------------------------------------------------
(* TransferUserInfoToSucc(s): every record goes to s, whatever s owns. *)
HandedOver(n, s) ==
    UserRequests("user_registration", n, s, users[n])
        (+) UserRequests("red_register", n, s, red[n])

(* NormalState::Leave: the successor gets LEAVE and every record, the      *)
(* predecessor gets LEAVE; the table stays as it is.                       *)
Leave(n) ==
    LET s == succ[n][0]
        p == pred[n]
        toSucc == s \notin {EmptyChordId, n}
        leaves == {LeaveRequest(n, target, n, succ[n], p) :
                      target \in {s, p} \ {EmptyChordId, n}}
    IN  /\ kind[n] = "Normal"
        /\ Undisturbed
        /\ Spend("leave", MaxLeaves)
        /\ net' = net (+) SetToBag(leaves) (+) IF toSucc THEN HandedOver(n, s) ELSE EmptyBag
        /\ users' = IF toSucc THEN [users EXCEPT ![n] = EmptyBag] ELSE users
        /\ red' = IF toSucc THEN [red EXCEPT ![n] = EmptyBag] ELSE red
        /\ kind' = [kind EXCEPT ![n] = "Closed"]
        /\ UNCHANGED <<inc, table, bootstrap, local>>

(* onLeaveReg, to = from: the node that leaves announces it itself. *)
OnLeaveRegGraceful(n, t) ==
    LET fromPred == t.to = pred[n]
        fromSucc == t.to = succ[n][0]
        list == SetSuccListWithContacts(n, succ[n], t.contacts, 1)
    IN  /\ Arrives("leave", n, t)
        /\ t.to = t.src
        /\ pred' = IF fromPred THEN [pred EXCEPT ![n] = t.predecessor] ELSE pred
        /\ red' = IF fromPred THEN [red EXCEPT ![n] = EmptyBag] ELSE red
        /\ succ' = IF fromSucc
                   THEN [succ EXCEPT ![n] = SuccListWithout(n, list, t.to)] ELSE succ
        /\ finger' = IF fromSucc
                     THEN [finger EXCEPT ![n] = FingersWithout(n, @, t.to)] ELSE finger
        /\ Replace(t, EmptyBag)
        /\ UNCHANGED <<kind, inc, bootstrap, users, local, ops>>

(* Mutant: the copies of the dead node's records go as if it had left. *)
OnLeaveRegForgetting(n, t) ==
    /\ Arrives("leave", n, t)
    /\ t.to # t.src
    /\ t.to = pred[n]
    /\ pred' = [pred EXCEPT ![n] = t.src]
    /\ red' = [red EXCEPT ![n] = EmptyBag]
    /\ Replace(t, EmptyBag)
    /\ UNCHANGED <<kind, inc, finger, succ, bootstrap, users, local, ops>>

(* onLeaveReg, to # from: the sender found node t.to dead.  A node whose   *)
(* predecessor it was adopts the redundant copies and the sender.          *)
OnLeaveRegFailed(n, t) ==
    LET fromPred == t.to = pred[n]
        fromSucc == t.to = succ[n][0]
        p == IF fromPred THEN t.src ELSE pred[n]
        s == IF fromSucc THEN SuccListWithout(n, succ[n], t.to) ELSE succ[n]
        copies == RedundantCopies(n, succ[n][0], red[n])
    IN  /\ Arrives("leave", n, t)
        /\ t.to # t.src
        /\ pred' = [pred EXCEPT ![n] = p]
        /\ succ' = [succ EXCEPT ![n] = s]
        /\ finger' = IF fromSucc
                     THEN [finger EXCEPT ![n] = FingersWithout(n, @, t.to)] ELSE finger
        /\ IF fromPred THEN AdoptCopies(n) ELSE UNCHANGED <<users, red>>
        /\ Replace(t, (IF fromPred
                       THEN copies (+) SetToBag(StabilizeRequests(n, succ[n], p))
                       ELSE EmptyBag)
                      (+) (IF fromSucc
                           THEN SetToBag(StabilizeRequests(n, s, p)) ELSE EmptyBag))
        /\ UNCHANGED <<kind, inc, bootstrap, local, ops>>

(* onLeaveReg frees the string registrar once per entry of the list, be it *)
(* of the same user: with two or more the second may end the process.      *)
OnLeaveRegFreesTwice(n, t) ==
    /\ Arrives("leave", n, t)
    /\ t.to # t.src
    /\ t.to = pred[n]
    /\ BagCardinality(red[n]) > 1
    /\ Replace(t, EmptyBag)
    /\ Fault(n)

-----------------------------------------------------------------------------
(* A STABILIZE request got no answer: Timer F ends its transaction. *)
StabilizeTimeout(n, t) ==
    /\ Returns("stabilize", "request", n, t)
    /\ t.dst \cap Live = {} \/ Lossy
    /\ kind[n] = "Normal"

(* onNodeFailure: the successor is dead and was the predecessor too. *)
OnLastNeighbourFailure(n, t) ==
    /\ StabilizeTimeout(n, t)
    /\ t.to = succ[n][0]
    /\ t.to = pred[n]
    /\ pred' = [pred EXCEPT ![n] = n]
    /\ succ' = [succ EXCEPT ![n] = SuccListWithout(n, @, t.to)]
    /\ finger' = [finger EXCEPT ![n] = FingersWithout(n, @, t.to)]
    /\ AdoptCopies(n)
    /\ Replace(t, EmptyBag)
    /\ UNCHANGED <<kind, inc, bootstrap, local, ops>>

(* onNodeFailure: the successor is dead; the second of the list hears of   *)
(* it and gets redundant copies of this node's records.                    *)
OnSuccessorFailure(n, t) ==
    LET second == succ[n][1]
        list == SuccListWithout(n, succ[n], t.to)
    IN  /\ StabilizeTimeout(n, t)
        /\ t.to = succ[n][0]
        /\ t.to # pred[n]
        /\ succ' = [succ EXCEPT ![n] = list]
        /\ finger' = [finger EXCEPT ![n] = FingersWithout(n, @, t.to)]
        /\ Replace(t, SetToBag({LeaveRequest(n, second, t.to, list, pred[n])})
                      (+) UserRequests("red_register", n, second, users[n]))
        /\ UNCHANGED <<kind, inc, pred, bootstrap, records, ops>>

(* onNodeFailure ignores any other node, the predecessor included. *)
OnOtherFailure(n, t) ==
    /\ StabilizeTimeout(n, t)
    /\ t.to # succ[n][0]
    /\ Replace(t, EmptyBag)
    /\ UNCHANGED <<kind, inc, table, bootstrap, records, ops>>
=============================================================================

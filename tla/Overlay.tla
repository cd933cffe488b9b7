------------------------------- MODULE Overlay -------------------------------
(***************************************************************************)
(* The whole overlay: every handler of modules Registry, Joining and       *)
(* Stabilization, what a node does with a message its state does not       *)
(* handle, how a SIP transaction ends without an answer, and processes     *)
(* that die and are started again.                                         *)
(***************************************************************************)
EXTENDS Stabilization

(* Processes that si2p_init has brought to InitedState. *)
Init ==
    /\ kind = [n \in Nodes |-> "Inited"]
    /\ inc = [n \in Nodes |-> 0]
    /\ finger = [n \in Nodes |-> NoFingers]
    /\ succ = [n \in Nodes |-> NoSuccessors]
    /\ pred = [n \in Nodes |-> EmptyChordId]
    /\ bootstrap = [n \in Nodes |-> EmptyChordId]
    /\ users = [n \in Nodes |-> EmptyBag]
    /\ red = [n \in Nodes |-> EmptyBag]
    /\ local = [n \in Nodes |-> {}]
    /\ net = EmptyBag
    /\ ops = [op \in Operations |-> 0]

(* The process dies. *)
Crash(n) ==
    /\ n \in Live
    /\ Undisturbed
    /\ Spend("crash", MaxCrashes)
    /\ kind' = [kind EXCEPT ![n] = "Down"]
    /\ UNCHANGED <<inc, table, bootstrap, records, net>>

(* si2p_init in a new process: Node's constructor, then ClosedState::Init. *)
Boot(n) ==
    /\ kind[n] \in Dead
    /\ Spend("boot", MaxBoots)
    /\ kind' = [kind EXCEPT ![n] = "Inited"]
    /\ inc' = [inc EXCEPT ![n] = @ + 1]
    /\ finger' = [finger EXCEPT ![n] = NoFingers]
    /\ succ' = [succ EXCEPT ![n] = NoSuccessors]
    /\ pred' = [pred EXCEPT ![n] = EmptyChordId]
    /\ bootstrap' = [bootstrap EXCEPT ![n] = EmptyChordId]
    /\ users' = [users EXCEPT ![n] = EmptyBag]
    /\ red' = [red EXCEPT ![n] = EmptyBag]
    /\ local' = [local EXCEPT ![n] = {}]
    /\ UNCHANGED net

-----------------------------------------------------------------------------
KeepNodes == UNCHANGED <<kind, inc, table, bootstrap, records, ops>>

(* A request at a node in a state that handles no requests. *)
IgnoreRequest(n, t) ==
    /\ t.phase = "request"
    /\ n \in t.dst \cap Live
    /\ kind[n] # "Normal"
    /\ Replace(t, Unanswered(t, n))
    /\ KeepNodes

(* The states whose Handle has a case for a response of this type. *)
ResponseHandledIn(type) ==
    CASE type = "multicast"         -> {"Discoving"}
      [] type = "join"              -> {"Joining"}
      [] type = "findsucc"          -> {"FTComputing", "Normal"}
      [] type = "stabilize"         -> {"Normal"}
      [] type = "user_registration" -> {"Normal"}

(* A response to a state without a case for it, or to a process that has   *)
(* no such transaction (tran_process_message drops it).                    *)
IgnoreResponse(t) ==
    /\ t.phase # "request"
    /\ ~ HasClient(t) \/ kind[t.src] \notin ResponseHandledIn(t.type)
    /\ Replace(t, EmptyBag)
    /\ KeepNodes

(* Every copy of a response is lost: the client sees no answer. *)
LoseResponse(t) ==
    /\ Lossy
    /\ t.phase # "request"
    /\ Replace(t, SetToBag({[t EXCEPT !.phase = "request", !.contacts = NoContacts,
                                      !.predecessor = EmptyChordId]}))
    /\ KeepNodes

(* The states in which the end of a transaction without an answer has an   *)
(* effect: OnNoNodeFind and onNodeFailure.                                 *)
TimeoutHandledIn(type) ==
    CASE type = "multicast" -> {"Discoving"}
      [] type = "stabilize" -> {"Normal"}
      [] OTHER              -> {}

(* nict_kill_transaction without effect.  A request whose target is no     *)
(* identifier of a node has an address that was never written: building    *)
(* its URI may fail, and then there was no transaction at all.             *)
EndUnanswered(t) ==
    /\ t.phase = "request"
    /\ \/ /\ t.dst \cap Live = {} \/ Lossy
          /\ ~ HasClient(t) \/ kind[t.src] \notin TimeoutHandledIn(t.type)
       \/ t.to \in {EmptyChordId, LocalnodeWord}
    /\ Replace(t, EmptyBag)
    /\ KeepNodes

-----------------------------------------------------------------------------
ReceiveRequest(n, t) ==
    \/ OnDiscoverReg(n, t)
    \/ OnJoinReg(n, t)
    \/ OnFindSuccReg(n, t)
    \/ OnStabilizeReg(n, t)
    \/ OnLeaveRegGraceful(n, t)
    \/ OnLeaveRegFailed(n, t)
    \/ OnLeaveRegFreesTwice(n, t)
    \/ OnUserReg(n, t)
    \/ OnRedRegister(n, t)
    \/ IgnoreRequest(n, t)

ReceiveResponse(n, t) ==
    \/ OnDiscoverOK(n, t)
    \/ OnJoinOK(n, t)
    \/ OnFindSuccOK(n, t)
    \/ OnFindSuccRedirect(n, t)
    \/ OnStabilizeOKFromSucc(n, t)
    \/ OnStabilizeOKFromPred(n, t)
    \/ OnStabilizeOKFromOther(n, t)
    \/ OnUserRegRedirect(n, t)

Timeout(n, t) ==
    \/ OnNoNodeFind(n, t)
    \/ OnLastNeighbourFailure(n, t)
    \/ OnSuccessorFailure(n, t)
    \/ OnOtherFailure(n, t)

(* A step of transaction t. *)
Handle(t) ==
    \/ \E n \in t.dst : ReceiveRequest(n, t)
    \/ ReceiveResponse(t.src, t)
    \/ Timeout(t.src, t)
    \/ IgnoreResponse(t)
    \/ LoseResponse(t)
    \/ EndUnanswered(t)

(* What the application and the machine do to node n. *)
Input(n) ==
    \/ StartFirst(n)
    \/ StartNode(n)
    \/ \E u \in Users : RegisterUser(n, u)
    \/ Leave(n)
    \/ Crash(n)
    \/ Boot(n)

Next ==
    \/ \E n \in Nodes : Input(n) \/ Stabilize(n)
    \/ \E t \in DOMAIN net : Handle(t)

(* Each process keeps handling events, its user transactions and its other *)
(* ones, and osip ends every transaction it began; the stabilize thread    *)
(* runs a round every STABILIZE_PERIOD.  Strong fairness for the rounds:   *)
(* MaxPending, a bound of the model, disables them from time to time.      *)
(* Nothing is assumed of the application.                                  *)
HandleOf(n, types) ==
    \E t \in DOMAIN net : t.src = n /\ t.type \in types /\ Handle(t)

Fairness ==
    \A n \in Nodes :
        /\ WF_vars(HandleOf(n, UserTypes))
        /\ WF_vars(HandleOf(n, Types \ UserTypes))
        /\ SF_vars(Stabilize(n))

Spec == Init /\ [][Next]_vars

FairSpec == Spec /\ Fairness
=============================================================================

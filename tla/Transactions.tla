---------------------------- MODULE Transactions ----------------------------
(***************************************************************************)
(* The state of an overlay of SI2P nodes and the SIP transactions between  *)
(* them: what the handlers of modules Registry, Joining and Stabilization  *)
(* share.                                                                  *)
(*                                                                         *)
(* The messages and timeouts of a process are handled by its adosip        *)
(* thread, one at a time: a handler is one action.  Leave and RegisterUser *)
(* run on the application's thread and Stabilize on a thread of its own,   *)
(* without a lock; each is one action all the same, and what a handler     *)
(* changes in its middle is left out.  A REGISTER request and the response *)
(* to it form one client transaction (osip NICT); net is the bag of the    *)
(* transactions that have not ended.                                       *)
(***************************************************************************)
EXTENDS FingerTable, Bags, FiniteSets

CONSTANTS
    Nodes,          \* identifiers of the nodes
    Users,          \* user records (addresses of record)
    Hash,           \* uhash: the identifier of each user
    Founders,       \* nodes started with StartNode(true)
    StartFrom,      \* kinds of state in which the application starts a node
    RegisterFrom,   \* kinds of state in which the application registers a user
    Lossy,          \* a transaction may lose every copy of a message
    Calm,           \* nodes leave and die only when no transaction is under way
    MaxStarts, MaxLeaves, MaxCrashes, MaxBoots, MaxRegisters,  \* bounds on inputs
    MaxRounds,      \* bound on stabilize rounds; 0: they go on for ever
    MaxPending,     \* bounds on the ring's transactions and on all of them
    MaxBacklog      \* when a round starts

(* _kind of the NodeState object; "Down": no process; "Faulted": the       *)
(* process died in a handler.  DiscoveredState is left in the handler that *)
(* enters it and is not a kind of its own here.                            *)
Kinds == {"Down", "Faulted", "Closed", "Inited", "Discoving", "Joining",
          "FTComputing", "Normal"}
Dead == {"Down", "Faulted"}

Operations == {"start", "leave", "crash", "boot", "register", "round"}

ASSUME NodesAssumption == Nodes \subseteq Id
ASSUME UsersAssumption == Hash \in [Users -> Id] /\ Users \cap Cell = {}
ASSUME InputsAssumption ==
    /\ Founders \subseteq Nodes
    /\ StartFrom \subseteq Kinds \ Dead
    /\ RegisterFrom \subseteq Kinds \ Dead
    /\ Lossy \in BOOLEAN /\ Calm \in BOOLEAN
ASSUME BoundsAssumption ==
    /\ MaxStarts \in Nat /\ MaxLeaves \in Nat /\ MaxCrashes \in Nat
    /\ MaxBoots \in Nat /\ MaxRegisters \in Nat
    /\ MaxRounds \in Nat /\ MaxPending \in Nat /\ MaxBacklog \in Nat

VARIABLES
    kind,       \* kind[n]: the node's _state
    inc,        \* inc[n]: which process of the node this is
    finger,     \* finger[n], succ[n], pred[n]: the node's FingerTable
    succ,
    pred,
    bootstrap,  \* bootstrap[n]: head of j_bootstraps
    users,      \* users[n]: user_info_list, a bag
    red,        \* red[n]: red_user_info_list, a bag
    local,      \* local[n]: local_user_info_list
    net,        \* the transactions
    ops         \* how often each kind of input happened

table == <<finger, succ, pred>>
records == <<users, red, local>>
vars == <<kind, inc, table, bootstrap, records, net, ops>>

-----------------------------------------------------------------------------
(* Transactions.  The type is the "user" parameter of the From header; src *)
(* sent it; dst holds the nodes the request can still reach; to is the To  *)
(* header; contacts and predecessor are what the request carries and, once *)
(* phase is "ok" or "redirect", what the response carries.  Only the       *)
(* fields a receiver reads are filled.                                     *)
Types == {"multicast", "join", "findsucc", "stabilize", "leave",
          "user_registration", "red_register"}
UserTypes == {"user_registration", "red_register"}
Phases == {"request", "ok", "redirect"}

NoContacts == [k \in 0..NSUCCLIST |-> EmptyChordId]

TransactionOf(types, tos) ==
    [type : types, phase : Phases, src : Nodes, inc : Nat, dst : SUBSET Nodes,
     to : tos, contacts : [0..NSUCCLIST -> Cell], predecessor : Cell]

Transaction ==
    TransactionOf(Types \ UserTypes, Cell) \cup TransactionOf(UserTypes, Users)

(* SndRegister, SndUserRegisterRequest *)
Request(type, n, target, to) ==
    [type |-> type, phase |-> "request", src |-> n, inc |-> inc[n],
     dst |-> {target} \cap Nodes, to |-> to,
     contacts |-> NoContacts, predecessor |-> EmptyChordId]

MulticastRequest(n) ==
    [Request("multicast", n, n, n) EXCEPT !.dst = Nodes \ {n}]

(* Mutants: the predecessor is forgotten; the dead node is not named. *)
LeaveWithoutPred(n, target, to, s, p) ==
    [Request("leave", n, target, to) EXCEPT !.contacts = ContactsOf(n, s, TRUE)]

LeaveWithoutName(n, target, to, s, p) ==
    [Request("leave", n, target, n) EXCEPT
        !.contacts = ContactsOf(n, s, TRUE), !.predecessor = p]

(* A LEAVE with the successor list and the predecessor of its sender. *)
LeaveRequest(n, target, to, s, p) ==
    [Request("leave", n, target, to) EXCEPT
        !.contacts = ContactsOf(n, s, TRUE), !.predecessor = p]

(* One request for each entry of a list of records. *)
UserRequests(type, n, target, list) ==
    [t \in {Request(type, n, target, u) : u \in DOMAIN list} |-> list[t.to]]

(* The process that sent t is still there. *)
HasClient(t) == t.inc = inc[t.src] /\ kind[t.src] \notin Dead

(* SndResponse: the client transaction gets the answer, unless the process *)
(* that sent the request is gone.                                          *)
Answer(t, phase, contacts, p) ==
    IF HasClient(t)
    THEN SetToBag({[t EXCEPT !.phase = phase, !.dst = {},
                             !.contacts = contacts, !.predecessor = p]})
    ELSE EmptyBag

(* Transaction t ends, or becomes what is in the bag ts. *)
Replace(t, ts) == net' = (net (-) SetToBag({t})) (+) ts

(* A request handled without an answer, or with one its sender ignores.    *)
(* Only the end of a STABILIZE or a MULTICAST without an answer has an     *)
(* effect (nict_kill_transaction): these wait for it.                      *)
Unanswered(t, n) ==
    IF t.type \in {"stabilize", "multicast"}
    THEN SetToBag({[t EXCEPT !.dst = @ \ {n}]})
    ELSE EmptyBag

Live == {n \in Nodes : kind[n] \notin Dead}

(* A request at n, which handles requests only in NormalState. *)
Arrives(type, n, t) ==
    /\ t.type = type
    /\ t.phase = "request"
    /\ n \in t.dst
    /\ kind[n] = "Normal"

(* A response at its client n. *)
Returns(type, phase, n, t) ==
    /\ t.type = type
    /\ t.phase = phase
    /\ n = t.src
    /\ t.inc = inc[n]

Spend(op, max) == ops[op] < max /\ ops' = [ops EXCEPT ![op] = @ + 1]

Undisturbed == Calm => net = EmptyBag

(* The handler dereferences a null pointer and the process dies. *)
Fault(n) ==
    /\ kind' = [kind EXCEPT ![n] = "Faulted"]
    /\ UNCHANGED <<inc, table, bootstrap, records, ops>>
=============================================================================

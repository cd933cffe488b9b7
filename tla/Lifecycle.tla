----------------------------- MODULE Lifecycle -----------------------------
(***************************************************************************)
(* One process and its threads.  The application's thread starts the node, *)
(* leaves and deletes it; the transport thread turns datagrams into events *)
(* of osip's transactions and wakes the adosip thread; the adosip thread   *)
(* executes events and timers and calls the state object; every            *)
(* NormalState starts a stabilize thread.  All of them use _state without  *)
(* a lock.                                                                 *)
(*                                                                         *)
(* A call _state->Handle(...) reads the pointer, enters the object it      *)
(* points to and returns; any other thread may run between.  What Handle   *)
(* does is the sequence of its effects on _state and on transactions;      *)
(* module Overlay has what it does to the tables, in one step.  osip and   *)
(* the sockets are external: an answer may come or not, and a transaction  *)
(* without an answer is killed.                                            *)
(***************************************************************************)
EXTENDS Naturals, Sequences

CONSTANT
    MaxInputs       \* bound on the application's calls, requests and rounds

ASSUME LifecycleAssumption == MaxInputs \in Nat

VARIABLES
    made,           \* made[i]: the kind of the i-th NodeState object
    state,          \* _state: number of an object
    freedBy,        \* for each deleted object the thread that deleted it
    todo,           \* todo[t]: what thread t still does of its operation
    old, new,       \* local variables of ChangeState in thread t
    on,             \* on[t]: object whose Handle t calls or is in, 0 for none
    stabilizers,    \* stabilize threads started
    open,           \* open[c]: transactions of class c without an answer
    answered,       \* answered[c]: those whose answer, or request, waits for adosip
    wakeup,         \* the adosip thread's wake-up pipe
    pass,           \* where that thread is in AdOsip_execute
    transport,      \* where the transport thread is
    exit_flag,
    osip,           \* the osip object: "there" or "freed"
    process,        \* "constructing", "running", "deleting", "deleted", "dead"
    inputs,         \* calls of the application, requests and rounds so far
    astray          \* the application has called outside a settled state

pointers == <<made, state, freedBy>>
threads == <<todo, old, new, on, stabilizers>>
events == <<open, answered, wakeup, pass, transport>>
ending == <<exit_flag, osip, process>>
budget == <<inputs, astray>>
lvars == <<pointers, threads, events, ending, budget>>

Threads == {"app", "adosip", "stabilize"}
Classes == {"multicast", "join", "findsucc", "request"}

(* What a thread can have to do. *)
Do(op) == [op |-> op, arg |-> ""]
Send(class) == [op |-> "send", arg |-> class]
Make(kind) == [op |-> "make", arg |-> kind]
Call(event) == [op |-> "call", arg |-> event]
Again(event) == [op |-> "again", arg |-> event]

(* _state->Handle(event), from the moment the pointer is read. *)
Handle(event) == <<Call(event), Do("return")>>

(* Node::ChangeState(new ...). *)
ChangeState(kind) == <<Make(kind), Do("store"), Do("delete")>>

Current == made[state]

Init ==
    /\ made = <<"Closed">>
    /\ state = 1
    /\ freedBy = <<>>
    /\ todo = [t \in Threads |->
                IF t = "app" THEN Handle("INIT_SND") \o <<Do("constructed")>> ELSE <<>>]
    /\ on = [t \in Threads |-> IF t = "app" THEN state ELSE 0]
    /\ old = [t \in Threads |-> 0]
    /\ new = [t \in Threads |-> 0]
    /\ stabilizers = 0
    /\ open = [c \in Classes |-> 0]
    /\ answered = [c \in Classes |-> 0]
    /\ wakeup = <<>>
    /\ pass = "select"
    /\ transport = "running"
    /\ exit_flag = FALSE
    /\ osip = "there"
    /\ process = "constructing"
    /\ inputs = 0
    /\ astray = FALSE

-----------------------------------------------------------------------------
Alive == process # "dead"

Idle(t) == todo[t] = <<>>

(* The model follows the program to its end after one call astray, but     *)
(* gives it no input after that.                                           *)
Spend == inputs < MaxInputs /\ ~ astray /\ inputs' = inputs + 1

(* Thread t enters an operation: p is what it does, o the object it calls. *)
Enter(t, p, o) ==
    /\ todo' = [todo EXCEPT ![t] = p]
    /\ on' = [on EXCEPT ![t] = o]

(* It uses memory that was freed: anything may happen, of which the end of *)
(* the process, and of its threads, is taken.                              *)
Dies ==
    /\ process' = "dead"
    /\ todo' = [t \in Threads |-> <<>>]
    /\ on' = [t \in Threads |-> 0]
    /\ open' = [c \in Classes |-> 0]
    /\ answered' = [c \in Classes |-> 0]
    /\ UNCHANGED <<pointers, old, new, stabilizers, wakeup, pass, transport, exit_flag, osip,
                   budget>>

(* The first thing thread t has to do. *)
Step(t, op) == Alive /\ todo[t] # <<>> /\ Head(todo[t]).op = op

Advance(t) == todo' = [todo EXCEPT ![t] = Tail(@)] /\ UNCHANGED on

(* A byte in the pipe.  Only a 'q' that is read alone has a meaning, and a *)
(* 'w' behind another changes nothing of that: it is left out.             *)
Write(byte) ==
    IF byte = "w" /\ wakeup # <<>> /\ wakeup[Len(wakeup)] = "w" THEN wakeup
    ELSE Append(wakeup, byte)

More(bag, c) == [bag EXCEPT ![c] = @ + 1]
Less(bag, c) == [bag EXCEPT ![c] = @ - 1]

(* A request goes out; adosip is woken for it. *)
SendStep(t) ==
    /\ Step(t, "send")
    /\ open' = More(open, Head(todo[t]).arg)
    /\ wakeup' = Write("w")
    /\ Advance(t)
    /\ UNCHANGED <<pointers, old, new, stabilizers, answered, pass, transport, ending, budget>>

(* A state object is constructed (NormalState's constructor calls          *)
(* StartStabilize), and ChangeState reads the old one: what another thread *)
(* does between the two it could as well do before both.                   *)
MakeStep(t) ==
    LET kind == Head(todo[t]).arg
    IN  /\ Step(t, "make")
        /\ made' = Append(made, kind)
        /\ new' = [new EXCEPT ![t] = Len(made) + 1]
        /\ old' = [old EXCEPT ![t] = state]
        /\ stabilizers' = IF kind = "Normal" THEN stabilizers + 1 ELSE stabilizers
        /\ Advance(t)
        /\ UNCHANGED <<state, freedBy, events, ending, budget>>

(* _state = newState *)
StoreStep(t) ==
    /\ Step(t, "store")
    /\ state' = new[t]
    /\ Advance(t)
    /\ UNCHANGED <<made, freedBy, old, new, stabilizers, events, ending, budget>>

Freed == DOMAIN freedBy

Delete(o, t) ==
    freedBy' = [i \in Freed \cup {o} |-> IF i \in Freed THEN freedBy[i] ELSE t]

(* delete oldState *)
DeleteStep(t) ==
    /\ Step(t, "delete")
    /\ old[t] \notin Freed
    /\ Delete(old[t], t)
    /\ Advance(t)
    /\ UNCHANGED <<made, state, old, new, stabilizers, events, ending, budget>>

(* onDiscoverOK goes on with the new object: ns->Handle(JOIN_SND). *)
HandleNewStep(t) ==
    /\ Step(t, "handle")
    /\ Enter(t, <<Call("JOIN_SND")>> \o Tail(todo[t]), new[t])
    /\ UNCHANGED <<pointers, old, new, stabilizers, events, ending, budget>>

(* _state is read once more for the call (OnDiscoverTimeout). *)
AgainStep(t) ==
    /\ Step(t, "again")
    /\ Enter(t, <<Call(Head(todo[t]).arg)>> \o Tail(todo[t]), state)
    /\ UNCHANGED <<pointers, old, new, stabilizers, events, ending, budget>>

(* Mutant: NormalState takes the answer for one to FTComputingState. *)
FindSuccInNormal == {"FTComputing", "Normal"}

FindSuccIn == {"FTComputing"}

(* Mutant: InitedState, too, takes the answer to a MULTICAST. *)
MulticastInInited == {"Inited", "Discoving"}

MulticastIn == {"Discoving"}

Discovery == <<Send("multicast")>> \o ChangeState("Discoving")

JoinOverlay == <<Send("join")>> \o ChangeState("Joining")

(* What Handle of a state of this kind does with the event: one of these.  *)
(* An answer or a request is known by its class.  STABILIZE requests,      *)
(* whose end has no effect on the state, are left out.                     *)
Handlers(kind, event) ==
    CASE event = "INIT_SND" /\ kind = "Closed" -> {ChangeState("Inited")}
      [] event = "DISCOVER_SND" /\ kind = "Inited" -> {Discovery}
      [] event = "multicast" /\ kind \in MulticastIn ->
            {ChangeState("Discovered") \o <<Do("handle")>>}
      [] event = "NO_NODE_FIND" /\ kind = "Discoving" -> {ChangeState("Normal")}
      [] event = "JOIN_SND" /\ kind = "Discovered" -> {JoinOverlay}
      [] event = "join" /\ kind = "Joining" ->
            {<<Send("findsucc")>> \o ChangeState("FTComputing"), ChangeState("Normal")}
      [] event = "findsucc" /\ kind \in FindSuccIn ->
            {<<Send("findsucc")>>, ChangeState("Normal")}
      [] event = "STABILIZE_SND" /\ kind = "Normal" -> {<<Do("round")>>}
      [] event = "LEAVE_SND" /\ kind = "Normal" -> {ChangeState("Closed")}
      [] OTHER -> {<<>>}

(* Handle is entered in the object the pointer was read for. *)
CallStep(t) ==
    /\ Step(t, "call")
    /\ on[t] \notin Freed
    /\ \E p \in Handlers(made[on[t]], Head(todo[t]).arg) :
            todo' = [todo EXCEPT ![t] = p \o Tail(@)]
    /\ UNCHANGED <<pointers, old, new, on, stabilizers, events, ending, budget>>

HandleReturns(t) ==
    /\ Step(t, "return")
    /\ Enter(t, Tail(todo[t]), 0)
    /\ UNCHANGED <<pointers, old, new, stabilizers, events, ending, budget>>

(* Another thread has deleted the object already. *)
UseFreed(t) ==
    /\ \/ Step(t, "delete") /\ old[t] \in Freed
       \/ Step(t, "call") /\ on[t] \in Freed
    /\ Dies

(* The constructor is done and si2p_p2p_init assigns mynode. *)
Constructed ==
    /\ Step("app", "constructed")
    /\ process' = "running"
    /\ Advance("app")
    /\ UNCHANGED <<pointers, old, new, stabilizers, events, exit_flag, osip, budget>>

-----------------------------------------------------------------------------
(* The application's thread. *)
Ready == process = "running" /\ Idle("app")

(* The states that the adosip thread does not change. *)
Settled == {"Closed", "Inited", "Normal"}

(* The application's functions look at no state; whether it has called     *)
(* them in a settled one only is remembered.                               *)
AppCall(p, o) ==
    /\ Ready
    /\ Spend
    /\ astray' = (Current \notin Settled)
    /\ Enter("app", p, o)
    /\ UNCHANGED <<pointers, old, new, stabilizers, events, ending>>

(* Node::StartNode(), and StartNode(true), which needs nobody. *)
StartNode == \E p \in {Discovery, ChangeState("Normal")} : AppCall(p, 0)

(* Node::StartNode(false). *)
Discover == AppCall(Handle("DISCOVER_SND"), state)

Join == AppCall(Handle("JOIN_SND"), state)

Leave == AppCall(Handle("LEAVE_SND"), state)

-----------------------------------------------------------------------------
(* The transport thread: a datagram becomes an event of a transaction and  *)
(* adosip is woken (tran_process_message).  It finds adosip through the    *)
(* global mynode, which is not there before the constructor is done.       *)
Deliver(class) ==
    /\ answered' = More(answered, class)
    /\ wakeup' = Write("w")
    /\ UNCHANGED <<pointers, threads, pass, transport, ending>>

ReceiveResponse(class) ==
    /\ process \in {"running", "deleting"}
    /\ transport = "running"
    /\ open[class] > 0
    /\ open' = Less(open, class)
    /\ Deliver(class)
    /\ UNCHANGED budget

ReceiveRequest ==
    /\ process \in {"running", "deleting"}
    /\ transport = "running"
    /\ Spend
    /\ Deliver("request")
    /\ UNCHANGED <<open, astray>>

ReceiveTooEarly ==
    /\ process = "constructing"
    /\ Dies

(* Transport_execute reads one byte at a time: 'q' ends it. *)
TransportExits ==
    /\ Alive
    /\ transport = "told"
    /\ transport' = "exited"
    /\ UNCHANGED <<pointers, threads, open, answered, wakeup, pass, ending, budget>>

-----------------------------------------------------------------------------
(* The adosip thread: AdOsip_execute. *)

(* Mutant: the byte alone ends the thread, the flag is not looked at. *)
ExitByte == FALSE

(* The end of a pass looks at the flag. *)
ExitFlag == exit_flag

(* select returns, at the latest after 500 ms; what is in the pipe, 50     *)
(* bytes at most, is read at once.  A single 'q' ends the thread.          *)
Select ==
    /\ Alive
    /\ pass = "select"
    /\ \E k \in 0..Len(wakeup) :
        /\ k = 0 => wakeup = <<>>
        /\ pass' = IF SubSeq(wakeup, 1, k) = <<"q">> THEN "exited" ELSE "execute"
        /\ wakeup' = SubSeq(wakeup, k + 1, Len(wakeup))
    /\ UNCHANGED <<pointers, threads, open, answered, transport, ending, budget>>

(* An event is executed: the callback calls _state->Handle. *)
HandleEvent(class) ==
    /\ Alive
    /\ pass = "execute" /\ Idle("adosip")
    /\ osip = "there"
    /\ answered[class] > 0
    /\ answered' = Less(answered, class)
    /\ Enter("adosip", Handle(class), state)
    /\ UNCHANGED <<pointers, old, new, stabilizers, open, wakeup, pass, transport, ending, budget>>

(* Mutant: the end of a MULTICAST is not reported. *)
NoneReported == {}

(* The ends that nict_kill_transaction reports. *)
Reported == {"multicast"}

(* OnDiscoverTimeout asks _state->getKind() before it calls Handle. *)
Timeout(class) ==
    IF class \in Reported /\ Current = "Discoving"
    THEN <<Again("NO_NODE_FIND"), Do("return")>> ELSE <<>>

(* Timer F, 64 * T1: longer than any operation of the application takes. *)
KillTransaction(class) ==
    /\ Alive
    /\ Idle("app")
    /\ pass = "execute" /\ Idle("adosip")
    /\ osip = "there"
    /\ open[class] > 0
    /\ open' = Less(open, class)
    /\ Enter("adosip", Timeout(class), 0)
    /\ UNCHANGED <<pointers, old, new, stabilizers, answered, wakeup, pass, transport, ending,
                   budget>>

(* The pass meets the osip object that is deleted. *)
ExecuteFreed ==
    /\ Alive
    /\ pass = "execute" /\ Idle("adosip")
    /\ osip = "freed"
    /\ Dies

(* It ends when no event is left. *)
EndPass ==
    /\ Alive
    /\ pass = "execute" /\ Idle("adosip")
    /\ \A c \in Classes : answered[c] = 0
    /\ pass' = IF ExitFlag THEN "exited" ELSE "select"
    /\ UNCHANGED <<pointers, threads, open, answered, wakeup, transport, ending, budget>>

-----------------------------------------------------------------------------
(* A stabilize thread begins a round. *)
Round ==
    /\ Alive
    /\ Idle("stabilize")
    /\ stabilizers > 0
    /\ Spend
    /\ Enter("stabilize", Handle("STABILIZE_SND"), state)
    /\ UNCHANGED <<pointers, old, new, stabilizers, events, ending, astray>>

(* The round is sent, and its answer may look a finger up. *)
EndRound ==
    /\ Step("stabilize", "round")
    /\ open' \in {open, More(open, "findsucc")}
    /\ wakeup' = Write("w")
    /\ Advance("stabilize")
    /\ UNCHANGED <<pointers, old, new, stabilizers, answered, pass, transport, ending, budget>>

-----------------------------------------------------------------------------
(* delete mynode: Node::~Node on the application's thread. *)
DeleteNode ==
    /\ Ready
    /\ Spend
    /\ process' = "deleting"
    /\ Enter("app", <<Do("delete state"), Do("delete th_stabilize"),
                      Do("delete th_transport"), Do("join transport"),
                      Do("free osip"), Do("delete adosip"), Do("join adosip")>>, 0)
    /\ UNCHANGED <<pointers, old, new, stabilizers, events, exit_flag, osip, astray>>

(* Nobody is told that _state is gone. *)
DeleteState ==
    /\ Step("app", "delete state")
    /\ Delete(state, "app")
    /\ Advance("app")
    /\ UNCHANGED <<made, state, old, new, stabilizers, events, ending, budget>>

(* th_stabilize was never assigned if no NormalState was made: it may be   *)
(* NULL or any address.  If it was, ~ThreadBase joins a thread that never  *)
(* ends, and there is no further step.                                     *)
DeleteStabilize ==
    /\ Step("app", "delete th_stabilize")
    /\ stabilizers = 0
    /\ \/ Advance("app") /\ UNCHANGED <<pointers, old, new, stabilizers, events, ending, budget>>
       \/ Dies

(* ~ThreadBase, ThreadRelease: 'q', then join. *)
DeleteTransport ==
    /\ Step("app", "delete th_transport")
    /\ transport' = "told"
    /\ Advance("app")
    /\ UNCHANGED <<pointers, old, new, stabilizers, open, answered, wakeup, pass, ending, budget>>

JoinTransport ==
    /\ Step("app", "join transport")
    /\ transport = "exited"
    /\ Advance("app")
    /\ UNCHANGED <<pointers, old, new, stabilizers, events, ending, budget>>

(* ~AdOsip: the flag is set, the transactions and osip are released while  *)
(* the adosip thread still runs.                                           *)
FreeOsip ==
    /\ Step("app", "free osip")
    /\ exit_flag' = TRUE
    /\ osip' = "freed"
    /\ open' = [c \in Classes |-> 0]
    /\ answered' = [c \in Classes |-> 0]
    /\ Advance("app")
    /\ UNCHANGED <<pointers, old, new, stabilizers, wakeup, pass, transport, process, budget>>

(* The base class: 'q' behind whatever is in the pipe, then join. *)
DeleteAdOsip ==
    /\ Step("app", "delete adosip")
    /\ wakeup' = Write("q")
    /\ Advance("app")
    /\ UNCHANGED <<pointers, old, new, stabilizers, open, answered, pass, transport, ending, budget>>

JoinAdosip ==
    /\ Step("app", "join adosip")
    /\ pass = "exited"
    /\ process' = "deleted"
    /\ Advance("app")
    /\ UNCHANGED <<pointers, old, new, stabilizers, events, exit_flag, osip, budget>>

Destructor ==
    \/ DeleteState \/ DeleteStabilize \/ DeleteTransport \/ JoinTransport
    \/ FreeOsip \/ DeleteAdOsip \/ JoinAdosip

-----------------------------------------------------------------------------
Work(t) ==
    \/ SendStep(t) \/ MakeStep(t) \/ StoreStep(t) \/ DeleteStep(t)
    \/ HandleNewStep(t) \/ AgainStep(t) \/ CallStep(t) \/ HandleReturns(t) \/ UseFreed(t)

App == Work("app") \/ Constructed \/ Destructor

Input == StartNode \/ Discover \/ Join \/ Leave \/ DeleteNode

Transport ==
    \/ \E c \in Classes \ {"request"} : ReceiveResponse(c)
    \/ ReceiveRequest
    \/ ReceiveTooEarly

Adosip ==
    \/ Work("adosip")
    \/ Select
    \/ \E c \in Classes : HandleEvent(c)
    \/ ExecuteFreed
    \/ EndPass

Timers == \E c \in Classes \ {"request"} : KillTransaction(c)

Stabilizer == Work("stabilize") \/ EndRound

Next == App \/ Input \/ Transport \/ TransportExits \/ Adosip \/ Timers \/ Round \/ Stabilizer

Spec == Init /\ [][Next]_lvars

(* The threads run.  Timer F ends every transaction that stays open, at    *)
(* some pass: strong fairness, for the timers are looked at in every pass  *)
(* and in no other place.  Nothing is assumed of the application, of       *)
(* answers and of requests.                                                *)
Fairness ==
    /\ WF_lvars(App)
    /\ WF_lvars(TransportExits)
    /\ WF_lvars(Adosip)
    /\ SF_lvars(Timers)
    /\ WF_lvars(Stabilizer)

FairSpec == Spec /\ Fairness

-----------------------------------------------------------------------------
(* The application neither deletes the node nor calls a function while the *)
(* adosip thread may be changing the state.  si2p_get_node_state would     *)
(* tell it; the functions themselves do not ask.                           *)
Kept == process \in {"constructing", "running"} /\ ~ astray

(* Then two threads never delete one state object, and none deletes the    *)
(* current one: without a lock, only the states in which each thread       *)
(* changes _state keep the ChangeStates apart (Node::ChangeState).         *)
DeletesSafe ==
    Kept => \A t \in Threads :
        Step(t, "delete") => old[t] \notin Freed \cup {state}

(* Then the application's thread is never in an object that another one    *)
(* deleted; the adosip thread is in a settled state at most, and whoever   *)
(* is in a deleted object is past all that he does to _state.  (He may be  *)
(* about to enter it, or use the node's tables in it: that is UseFreed.)   *)
HandlerStateKept ==
    Kept => \A t \in Threads :
        on[t] \in Freed /\ freedBy[on[t]] # t =>
            /\ t # "app"
            /\ t = "adosip" => made[on[t]] \in Settled
            /\ \A i \in DOMAIN todo[t] : todo[t][i].op \in {"call", "round", "return"}

(* A process whose application went astray counts as lost: either thread   *)
(* may store its object over what the other has made.                      *)
KindSeen == IF process = "dead" \/ astray THEN "Down"
            ELSE IF Current = "Discovered" THEN "Discoving" ELSE Current

States == INSTANCE NodeStates
          WITH Procs <- {"p"}, Founders <- {"p"}, StartFrom <- Settled,
               state <- [p \in {"p"} |-> KindSeen]

(* Whatever the threads do at once, the state moves along the life cycle   *)
(* that Node.h documents, as long as the application calls its functions   *)
(* in settled states.                                                      *)
LifeCycle == States!Spec

(* A node whose MULTICAST is open leaves DiscovingState, by an answer or   *)
(* by its timeout (nict_kill_transaction, onNoNodeFind), unless its        *)
(* process dies or is being deleted.                                       *)
DiscoveryEnds ==
    Current = "Discoving" /\ open["multicast"] > 0
        ~> Current # "Discoving" \/ process \in {"dead", "deleting"}

(* ~Node gets to its end, or the process dies of it, unless a stabilize    *)
(* thread was ever started: 'q' may be read together with other bytes, and *)
(* then it is exit_flag that ends the adosip thread.                       *)
DeletionEnds ==
    process = "deleting" ~> process \in {"deleted", "dead"} \/ stabilizers > 0

(* DiscovingState::Handle: an answer drives the node into DiscoveredState; *)
(* no node waits in DiscovingState for ever.                               *)
NoDiscoveryStuck ==
    Current = "Discoving" ~> Current # "Discoving" \/ process \in {"dead", "deleting"}
=============================================================================

# SI2P in TLA+

SI2P is a Chord overlay whose messages are SIP `REGISTER` requests. Each
process is one node; nodes find each other by multicast, keep a finger table, a
list of `NSUCCLIST` successors and a predecessor, and store user records (SIP
addresses of record with a contact) at the node whose arc holds the hash of the
user. This directory models the protocol the code runs, checks it with TLC and
proves what holds for every number of nodes with TLAPS.

## 1. The system

| part | source | state | operations | what makes it correct |
|---|---|---|---|---|
| identifiers | `ChordId`, `Constants` | none | two interval tests, addition modulo 2^NBITS | the tests are the arcs the handlers take them for |
| routing table | `FingerTable`, `Node::Set_Fingers`, `closestPrecedingFinger`, `set_node_inactive`, `setSuccListWithContacts` | fingers, successor list, predecessor | loops that rewrite the table in place | they stay in their arrays and leave what the callers expect; redirects get nearer |
| life cycle | `*State`, `Node::StartNode`, `Node::ChangeState`, `~Node`, `P2P.cpp` | `_state`, `j_bootstraps`, the threads | start, discovery, its timeout, join, leave, deletion, restart | a node moves along the documented cycle whatever its threads do at once; no state object is deleted twice; a start gets to NormalState |
| joining | `DiscoveredState`, `JoiningState`, `FTComputingState` | the table | JOIN, FINDSUCC and redirects, first STABILIZE | the joiner has neighbours before it answers for anything |
| ring maintenance | `NormalState` | the table | STABILIZE rounds, LEAVE of the leaving node, LEAVE in the name of a dead one | the members stay connected and form one ring again |
| user registry | `NormalState`, `Node`, `uinfo` | `user_info_list`, `red_user_info_list`, `local_user_info_list` | registration, redirect, redundant copies, transfers | no record is lost; each gets to its owner |
| user query | `P2P.cpp`, `NormalState`, `Pipe` | `user_contact`, `user_info_pipe` | question, redirects, wait 10 s, copy | the call returns; what it returns is a contact this process asked for |
| dispatch | `Node::ReportRCVEvent`, `Callback` | none | which state handles what, how a transaction ends | no answer waits for ever unnoticed |
| event loop | `AdOsip`, `ThreadBase`, part of `ThreadTransport` | wake-up pipe, `exit_flag` | wake, execute, end | a thread that is told to end ends |
| transport | the rest of `ThreadTransport`, osip2 | sockets, transactions | send, receive, retransmit | external to the model |
| utilities | `Ini`, `Pubtool`, `PreferencesCore`, list macros | none | parsing, addresses | not modelled |
| leftovers | `Regapi`, `Admin.h`, `FTComputing.h` | none | not called | not modelled |

How they interact: the application calls the exported functions on its own
thread. osip reports requests, responses and ended transactions by callbacks on
the `adosip` thread; `Node` hands them to the `NodeState` object of the moment.
A `NormalState` starts a thread that runs a STABILIZE round every
`STABILIZE_PERIOD`. Nodes share nothing but messages.

What is hard here: the answers of one node to another arrive in any order and
are matched against pointers that have changed since; an unanswered STABILIZE
is the only failure detector; records are deleted when they are sent, not when
they arrive; the joiner is placed by STABILIZE alone; and the in-place loops
write by indices whose bounds they move. `PROJECT.json` lists every such hazard
with its line and with the properties aimed at it.

## 2. The modules

    ChordId <- FingerTable <- Transactions <- Registry <- Joining
            <- Stabilization <- Overlay <- Ring <- MCRing
    Overlay <- UserQuery;  UserQuery, MCRing <- MCQuery
    FingerTable <- FingerLoops
    Lifecycle
    FingerTable <- FingerTable_proofs,
    FingerLoops, FingerTable_proofs <- FingerLoops_proofs,
    Ring, FingerTable_proofs <- Ring_proofs <- Scenario_proofs <- Growth_proofs,
    Lifecycle <- Lifecycle_proofs,
    UserQuery, Ring_proofs <- UserQuery_proofs <- UserLookup_proofs

    abstract specifications and what implements them:
    NodeStates   by Ring (NodeLifeCycle) and by Lifecycle (LifeCycle)
    UserLookup   by UserQuery (LookupRefined)

(`A <- B`: B extends A.)

* **ChordId**: the identifier circle `0..2^NBITS-1`, `BelongsRightInclusive`,
  `Belongs`, `Add`. The empty ChordId is -1. A position whose bound is empty is
  compared as the code compares it.
* **FingerTable**: the table of one node and, in closed form, what each loop of
  `Node.cpp` leaves behind. A successor list has the cells `0..NSUCCLIST`: the
  last one is the memory behind the array, where the code keeps the pointer
  `localnode` and where two of its loops write.
* **FingerLoops**: the same loops one iteration a step, with the code's own
  indices. It exists to show that the closed forms are right.
* **Transactions**: the variables of the overlay, one function on nodes per
  field of `Node`, and `net`, the bag of the SIP transactions that have not
  ended. A REGISTER and the response to it are one record whose `phase` is
  `request`, `ok` or `redirect`; `dst` holds the nodes the request can still
  reach. A 404 and an answer the sender ignores end the transaction.
* **Registry**: `RegisterUser`, `onUserReg`, `onUserRegRedirect`,
  `onRedRegister`, and the transfers of records. `user_info_list` and
  `red_user_info_list` are bags of users: `ADD_ELEMENT` does not look for an entry
  of the same user, and each entry is sent, moved and freed on its own.
  `local_user_info_list` is a set, for it is only searched for a user.
* **Joining**: `StartNode`, `onDiscoverReg/OK`, `onNoNodeFind`, `onJoinReg/OK`,
  `onFindSuccReg/OK/Redirect`, in JoiningState, FTComputingState and NormalState.
* **Stabilization**: the round (`Stabilize`), `onStabilizeReg/OK`, `Leave`,
  `onLeaveReg` in its two cases, `onNodeFailure` in its three.
* **Overlay**: all of them, messages a state does not handle, the ways a
  transaction ends without an answer, crash and restart, and the fairness.
* **Ring**: what ought to hold: the right ring as a function of its members, and
  every property but those of FingerLoops.
* **NodeStates** (abstract): the life cycle that `Node.h` documents beside its
  operations, one edge a step; a start from the states in which the application
  starts nodes, death, and a new process.
* **Lifecycle**: one process with its four kinds of threads. A thread works off a
  list of things to do (`todo`), and between any two of them another thread may go
  on. `Handle(event)` is the read of `_state`, the entry of the object it points to
  (`CallStep`), what its `Handle` does with the event (`Handlers`, which for most
  kinds and events is nothing), and the return: a thread is in an object (`on`) also
  while it drops or serves a message. `ChangeState` is the construction of the new
  object together with the read of `_state`, the store, and the delete; `freedBy`
  says who deleted which object. The application calls `StartNode` in its two forms
  and `Discover`, `Join` and `Leave` in any state, as `cmdloop` does; `astray`
  remembers that it has called one outside ClosedState, InitedState and NormalState
  (`Settled`), in which no handler of the adosip thread changes the state. After
  such a call the model follows the process to its end without further input. The
  transactions are the classes MULTICAST, JOIN, FINDSUCC and a request from
  outside, each open, answered or none. The wake-up pipe is the sequence of its bytes, `AdOsip_execute`
  is the cycle select, execute, end of pass; `~Node` is worked off step by step.
* **UserLookup** (abstract): what an application can rely on when it looks up
  users. A contact it gets was registered, and is the one of the user it asks for
  or of a user this process has sent a question for; from the second question on
  the answer may also be an empty text or a mixture.
* **UserQuery**: Overlay with applications that look users up. `caller` is the
  application's thread in `si2p_query_user`, `adosip` the adosip thread in
  `onUserQueryOK`, whose clearing, copying and writing of the byte are three
  steps, because the caller copies `user_contact` without a lock. While adosip is
  in there, no handler of that node runs (`HandleWhenFree`). `queries` is the bag
  of the transactions of questions, kept apart from `net`. Actions of Overlay are
  used as they are; `Restart` is `Boot` with the memory of the new process.
* **MCRing, MCQuery**: values for the constants, and initial states: `RingOf(S,
  us)` is a ring of S at rest with the records us, the state `RingForms` and
  `RecordsReachOwner` say the overlay gets to. `Scenario` also says which nodes
  have no process and which inputs are open, so that one run covers several
  scenarios, each with its own inputs.

Outside Lifecycle and `onUserQueryOK`, one handler is one action: it reads the state, makes every call the code makes
in it, and sends every message. A handler with several outcomes (successor or
predecessor, redirect or own) is one action per outcome. The names of the
operators are those of the functions; `map` in `PROJECT.json` gives the lines.
Definitions marked "Mutant" are wrong on purpose: put in the place of the
definition they stand next to, they make a property fail, which shows that the
property depends on that code.

Places where the code's outcome is undefined are modelled as follows: the
write behind the successor list is kept as a cell; a NULL dereference ends the
process (`Fault`); the second `free` of `registrar` in `onLeaveReg`, which comes
with the second entry of the list, may or may not end it (`OnLeaveRegFreesTwice`
beside `OnLeaveRegFailed`); in Lifecycle, the
use of a deleted state object or of the freed osip ends the process where a thread
enters it (`ExecuteFreed`, `UseFreed`), `~Node` on a
`th_stabilize` that was never assigned goes on or ends it; in UserQuery, text
copied while it is rewritten is the old one, the new one or a mixture (`Torn`).

Two branches of the code are not actions because nothing reaches them:
`JoiningState::onJoinRedirect` (see `JoinNeverRedirected`), and the `else if` of
`NormalState::Stabilize` whose condition contradicts itself
(`NormalState.cpp:642`). `onStabilizeOK` ignores an answer of the successor that
names a predecessor neither equal nor nearer; that branch is in the model
although `AnswersNearer` says it is not taken.

## 3. The runs

`NBITS` is 2 (3 in `tables`) where the program has 5, so that positions, nodes
and wrap-around meet; `NSUCCLIST` is 3, as in `Constants.h`. Users are model
values; `Hash` gives their positions.

| run | instance | shows |
|---|---|---|
| `tables` | NBITS 3, every table over two other nodes | the loops compute the closed forms, overflow included; a redirect comes nearer |
| `ring` | NBITS 2, up to 4 nodes: a founder and 2 joins at any moment; or a founder, a join, 2 users and 2 registrations; or a ring of 4 and one leave when nothing is under way | starts finish; connected, covered, nobody loses a live neighbour for a worse one; no record lost in a transfer, all get to their owners; the right ring forms |
| `leave` | ring of 3, one leave at any moment, one registration | stale answers do no harm to pointers between live nodes; no handler dereferences a null pointer (`NullNeverUsed`). A user registered twice and a LEAVE in the name of the node that left can free `registrar` twice here, so `NoFault` does not hold |
| `crash` | ring of 4, one death at any moment, one record | connected, the right ring forms, the redundant copy becomes the record |
| `storm` | messages lost, spurious timeouts; a ring of 3 with 2 users of one position, a death and restart, a round; or a ring of 2 with a record, where a node leaves and starts again or dies and comes back or a third one starts | the four properties proved in `Ring_proofs`, and `NodeLifeCycle`: Ring implements NodeStates |
| `query` | ring of 3, 3 users, one asker: one call, one q command, one registration, one death and restart in calm, one round; a pipe of 1 byte | UserQuery implements UserLookup; calls return, questions end and bring one byte at most; `ContactsAsked` |
| `lifecycle` | one process, 3 inputs: starts in both forms, `Discover`, joins by hand, leaves, each in any state, requests from outside, rounds, the deletion | as long as the application calls in settled states, Lifecycle implements NodeStates, no state object is deleted twice or while current, and who is in a deleted one does no more to `_state`; a discovery ends; `~Node` ends if no stabilize thread exists |
| `list_overflow` | a founder, 3 joins | counterexample to `ListInBounds` |
| `leave_records` | ring of 3, one calm leave, one record | counterexample to `LeaveHandsOver` |
| `lookup` | ring of 3, one death | counterexample to `LookupGetsOn` |
| `query_stale` | ring of 3, two calls | counterexample to `AnswersTheQuestion` |
| `start_race` | one process, one start | counterexample to `NoDiscoveryStuck` |

The five counterexamples are disagreements between a text in the code and what
it does; `findings` in `PROJECT.json` describes them.

**Bounds.** `MaxStarts`, `MaxLeaves`, `MaxCrashes`, `MaxBoots`, `MaxRegisters`
bound how often the application or the machine intervenes. `MaxRounds` bounds the
STABILIZE rounds; 0 means they go on for ever, as they do in the runs of Ring but
`storm`; in `query` there is one. A round starts only while fewer than `MaxPending`
transactions of the ring, and fewer than `MaxBacklog` in all, are under way: with
`MaxPending = 1` rounds of different nodes do not overlap, but one round's two
requests, the joins, leaves, lookups, transfers and failures they cause, and
those of the other inputs, do. A counterexample does not depend on these bounds;
the absence of a violation does, and the proofs below remove that restriction for
the properties they cover. Three or four nodes are the sizes at which
predecessor, successor and a third party are distinct, and four is where a full
successor list first occurs. `MaxCalls` and `MaxPrompts` bound the lookups of an
application: one call and one question at the prompt are enough for a late byte
to be taken by the wrong call, and `query_stale` needs two calls and nothing else.
`PipeSize` 1 makes the second answer find the pipe full. In `lifecycle`
`MaxInputs` bounds all inputs together: three are enough for a start, a leave and a
start again, for a start that meets a discovery under way, and for a handler or a
round that meets a leave; `start_race` needs one.
Deadlock is checked in all runs except `tables` (loops end), `storm`, `query` and
`query_stale` (inputs and rounds run out), `lifecycle` and `start_race` (the
process ends, or `~Node` waits).

**Fairness.** Each process goes on handling its events, and osip ends every
transaction it began (Timer F); hence weak fairness, per node, of handling
(`HandleOf`), apart for user transactions and for those of the ring, because they
are different transactions of osip and one kind does not starve the other. The
thread of `StabilizeThread` never ends; hence fairness of `Stabilize`, strong
because `MaxPending`, a bound of the model, disables a round from time to time
where the code would start one. Nothing is assumed of the application, of crashes
or of losses; `Lossy` is FALSE where liveness is checked.

In UserQuery only the threads of the asker and osip's end of its questions are
fair; other nodes, their messages and the application are not. In Lifecycle the
threads run (weak fairness of each one's steps) and Timer F ends a transaction
that stays open: strong fairness, because the timers are looked at in every pass
of `AdOsip_execute` and in no other place. Answers, requests and the application
are not fair. That Timer F, 64 * T1 or half a minute, does not fire in the middle
of an operation of the application (`KillTransaction`) is the one assumption on
time.

**Where the properties stop.** The scenarios are as wide as the code allows. These
wider ones were tried and fail, by the design of the code and not of the model:

* Simultaneous starts can make two rings of one node that never meet
  (`onNoNodeFind`), so `RingForms` and `Connected` are checked from a founder.
* After a death in a ring of three, a late answer can make a node adopt the dead
  node again, and lose its only successor (run `lookup`); with four nodes and the
  lists filled the ring recovers. `LookupGetsOn` is false, `RingForms` is checked
  with four.
* A leave while STABILIZE answers are under way can leave a node with an empty
  successor or with a pointer to the leaver, and lose records (`leave_records`
  shows the last even in calm). `RingForms` is checked for calm leaves only.
* A node that is started again after it left, without a new process, keeps its
  old table; `Connected` does not hold there. Run `storm` starts nodes from
  ClosedState, too, and checks what does hold.
* `Covered` excepts the time in which the LEAVE of a node that left has not been
  handled: its arc is nobody's until then.
* `StartsFinish` takes `StartNode` as one step, as the modules of the overlay do.
  With its two halves apart it is false (run `start_race`); `DiscoveryEnds` is
  what Lifecycle shows instead.
* `DeletesSafe` and `HandlerStateKept` end where `~Node` begins: it deletes the
  state while the other threads run. `DeletionEnds` lets the process die of that,
  and excepts nodes that ever were in NormalState: their stabilize thread never
  ends and `~Node` joins it.
* They, and `LifeCycle`, also end where the application calls a function outside
  the settled states (`Kept`, `KindSeen`). `StartNode` works in any state: called
  while a discovery or a join is under way it puts the application's thread and the
  adosip thread into `ChangeState` at once, and both may delete one object or store
  over each other's. `si2p_node_join` has an effect in DiscoveredState only, in which a
  node is between the two `ChangeState`s of `onDiscoverOK`, and puts two threads
  into `DiscoveredState::Join`. `StartNode` and `Join` model that; without `Kept`,
  TLC finds two deletes of one object after such a start. The code does not ask;
  an application can (`si2p_get_node_state`).
* Settled states do not keep a thread out of freed memory. The adosip thread may be
  in InitedState, dropping a message, or in NormalState, serving one, when
  the application's `ChangeState` deletes the object, and so may a round;
  it may also enter the object after that. `HandlerStateKept` says how far
  this goes: never the application's thread, never a handler that still has a
  change of state to make. `UseFreed` ends the process where a deleted object is
  entered.
* `QuestionsEnd` holds when a death happens in calm and STABILIZE rounds run out.
  In between, two nodes may redirect a question to each other until the LEAVE in
  the name of the dead node is handled. It also excepts an adosip thread that
  hangs in `jpipe_write`.
* A registration redirected to the node that transfers it, when that node does
  not hold it in `local_user_info_list`, ends the process; in `ring` and `leave`
  this does not occur, with more users and transfers it does.
* `registrar` is freed once per entry of the list of copies. Two users of one
  predecessor, or one user that registered twice, and a LEAVE in the name of that
  predecessor end the process; such a LEAVE is also sent in the name of a node that
  left by itself, and may overtake the one it sent. `NoFault` is checked in `ring`,
  where the overlay that a node leaves has no records; in `leave`, `NullNeverUsed`
  says that this is the only way a process dies.

## 4. The proofs

Every theorem holds for all values of the constants that its hypotheses allow,
whatever the runs bound.

**Ring_proofs**, about `Spec` of Overlay (all nodes in
InitedState; any number of nodes, users, starts, leaves, deaths, restarts; losses
allowed):

| theorem | property |
|---|---|
| `Inductive` | `IInv`, the inductive invariant |
| `Typing` | `TypeOK` |
| `PredecessorIsKnown` | `PredecessorKnown` |
| `JoinIsNeverRedirected` | `JoinNeverRedirected` |
| `AnswersAreNearer` | `AnswersNearer` |
| `LifeCycleKept` | `NodeLifeCycle` |

*The invariant.* None of the properties is inductive alone. `PredecessorKnown`
depends on what messages carry: a node takes a predecessor from an answer to its
JOIN and from a LEAVE, so every such message must carry one, and the sender must
have had one when it sent it. A sender may be in FTComputingState, or may have
left in between, hence `NeighbourKnown` for both states. `AnswersNearer` needs
that the answer to a STABILIZE was made by the node in its To header, hence the
clause that a JOIN or STABILIZE reaches only that node; the same clause, with
`OwnPosition`, gives that a JOIN is never redirected. `Sound` states these facts
of one transaction and `IInv` is

    NodesOK /\ NeighbourKnown /\ DOMAIN net \subseteq Fine

with `Fine` the transactions that are well typed and `Sound`.

*The argument.* `InitStep`, then one lemma per action (`OnJoinOKStep`,
`OnLeaveRegFailedStep`, ...), each in the form IInv and the action give IInv';
`HandleStep`, `InputStep` and `NextStep` put them together. The lemmas rest on
`FingerTable_proofs` (each operation of the table keeps its type: the closed forms
choose least and greatest elements of sets, which have to be shown nonempty),
which also has the arithmetic of the circle: the code's two comparisons are
arcs, with the cases of equal bounds and of an empty one, each stated apart
(`RightInclusiveIsArc`, `BelongsIsArc`), a node owns its own position
(`OwnPosition`), a nearer predecessor splits the arc so that what is transferred
and what is kept are exactly the two parts (`NearerPredecessorSplits`), a
preceding finger is nearer (`RedirectComesNearer`), and the node nearest to a
position answers for it unless its predecessor is nearer (`NearestAnswers`).

`LifeCycleKept` is a refinement: the initial states map to initial states, and
each action moves `kind` along one edge of NodeStates or leaves it. Which node a
handler runs at, and that this is a node, comes from `IInv` (`t.src` and `t.dst`
of well-typed transactions).

**Scenario_proofs**, about `Spec` where no message is lost and nobody is started
twice (`ASSUME StartedOnce, ~ Lossy PROVE Spec /\ []Standing => ...`); any number of
nodes, starts, joins, leaves, deaths, registrations and rounds, in any order:

| theorem | property |
|---|---|
| `ToldOfSettled` | `SInv`, the inductive invariant |
| `LivePredecessorIsKept` | `LivePredecessorKept` |
| `LiveSuccessorIsKept` | `LiveSuccessorKept` |

*Why these hypotheses.* Each is needed. A LEAVE says who is gone, a node whose
STABILIZE is not answered says so of the other. If a message of a live node can be
lost (`Lossy`), the second is wrong. If a node that left is started from
ClosedState (against `StartedOnce`), or a dead one gets a new process (against
`Standing`, which says that no boot has been counted), a LEAVE that is still under
way names a member again, and its receiver drops it.

*The invariant.* The proofs need that who is named as gone is no member
(`t.to \notin Members` for a LEAVE), now and until the message arrives. So
messages must not name a node that is about to become a member, and this is not
inductive unless nobody ever names such a node: a joiner is named by nobody before
it gets to NormalState, since it sends STABILIZE, which is how others hear of it,
only then. `Settled` are the nodes that have been there, be they members, gone or
dead by now; `SInv` says that all tables (`TablesMet`) and all transactions
(`AllTold`) name settled nodes, or nobody, or the memory behind the list. The set
only grows and who left it for good stays gone (`Steady`). That a STABILIZE fails
only at a node that is gone is `TimeoutGone`: as long as its To header is a member,
it is in `dst`, where it can be answered.

*The argument.* `...Told`, one lemma per action, and `NextTold`. The actions
change tables by the operators of FingerTable, about which `FingerTable_proofs`
says that they only put into a table what was in it or in the message
(`SetSuccListIn`, `FingersWithoutIn`, ...). The two theorems follow step by step
(`...Kept`): an answer brings a nearer neighbour, or a list that begins with the
successor itself (`SetSuccListFirst` and the last clause of `Told`); a LEAVE and a
failure take away who is gone.

**Growth_proofs**, about `Spec` while the overlay grows
(`Spec /\ [](Growing /\ NoFault) => ...`: nobody has left, died or been started
again, under the hypotheses above and `RegisterFrom \subseteq {"Normal"}`); any
number of nodes that start and join at any moment, users, registrations, rounds:

| theorem | property |
|---|---|
| `NetIsABag` | `IsABag(net)`, of every overlay |
| `GrowsSoundly` | `Before`: `IInv`, `SInv`, `IsABag(net)` and `GInv` |
| `PositionsAreCovered` | `Covered` |
| `SuccessorIsKnown` | `SuccessorKnown` |
| `LookupsGetOn` | `LookupGetsOn` |
| `RecordsAreHeld` | `RecordsHeld` |
| `NoProcessDies` | `NoFault`, while nobody registers (`Growing /\ Unregistered`) |

*Why these hypotheses.* After a death `LookupGetsOn` fails (run `lookup`), after a
leave `RecordsHeld` may, and the arc of the leaver is nobody's for a while. A user
registered before NormalState may be lost, when the answer comes in a state that
ignores it, hence `RegisterFrom`. `NoFault` is assumed, since a registration redirected to
the node that transfers it can end that process (end of section 3), and its
records with it; where nobody registers this is a theorem, `NoProcessDies`, so that
the others hold there without it. A founder, joins at any moment and
registrations at members satisfy the others by themselves.

*The invariant.* Every node that has the answer to its JOIN (`Placed`) has a
successor and a predecessor that are nodes, and is its own successor only if it is
its own predecessor, too (`TablesGrown`). Its neighbours are members, because by `SInv`
they are settled and nobody is gone: here the growth theorems rest on
`ToldOfSettled`. `Useful` is what the messages bring for that: a contact, a
predecessor, for a STABILIZE answer a second contact as well, which
`onStabilizeOK` reads without a test; and no STABILIZE is to the node itself, whose
answer would make it its own successor. For the records: `RecordsHeld` is in
`GInv`, and a registration under way is on its way from a member to a member, both
of which handle it (`NoRecordLost`).

*The arguments.* `Covered`: of the members, take the one nearest to the position
clockwise; its predecessor is a member, hence not nearer, hence the position is in
its arc (`EveryPositionCovered`, `NearestAnswers`). `LookupGetsOn`: a member with
a predecessor other than itself has a successor other than itself, and
`closestPrecedingFinger` falls back on that (`NextContact`). `RecordsHeld`: each
action keeps records where they are, or puts each one that it deletes into a
registration (`TransferHeld`), or the transaction that ends has arrived
(`OnUserRegGrown`). That the other transactions are still under way then needs that
`net` is a bag: `NetIsABag`. So does that the lists of records are bags
(`RecordList`, part of `TypeOK`) and that their entries, sent one by one, are one
more bag (`UserBags`, `RecordBags`).

**FingerLoops_proofs**, about the loops one iteration a step, for every table,
node, list length and identifier width:

| theorem | property |
|---|---|
| `SetFingersComputes` | `SetFingersAsCoded` |
| `ClosestComputes` | `ClosestAsCoded` |
| `FingersAreNearer` | `FingersGetNearer` |
| `InactiveFingersComputes` | `InactiveFingersAsCoded` |
| `InactiveListComputes` | `InactiveListAsCoded` |
| `ContactsCompute` | `ContactsAsCoded` |

`LoopInv` has one conjunct per loop, which says what the table looks like before
each iteration: which cells are done, which are as they were, what the local
variables hold. `InactiveListInv` is the one to look at: the loop moves the dead
node up the list by swaps, so the invariant says where it was found, that it is in
cell `i` now, and that the cells between have taken their right neighbours; a full
list lets it reach the cell behind the array. When a loop ends, its conjunct and
the condition that ended it give the closed form (`SetFingersDone`, ...). With
these theorems the closed forms, which Ring_proofs reasons about, are the loops of
`Node.cpp`.

**Lifecycle_proofs**, about the threads of one process, for any number of starts,
discoveries, joins, leaves, requests, rounds and deletions:

| theorem | property |
|---|---|
| `DeletesAreSafe` | `DeletesSafe` |
| `HandlersAreKept` | `HandlerStateKept` |
| `ThreadsKeepLifeCycle` | `LifeCycle` |

*What they say.* The functions of the application have no guard, in the code and in
the model. The three theorems are about a process whose application has called
them in `Settled` states only; this condition stands in the properties, not in an
assumption, and the first two end where `~Node` begins.

*The invariant.* `DeletesSafe` is not inductive: between the read of `_state` and
the store of one ChangeState, a second thread that also changes the state would
free the object the first one is about to free. No lock prevents that. What does is
that the kinds of states are shared out: the application's thread changes from
`Settled` ones only, the adosip thread from the `Busy` ones between them (`Owned`),
and whichever thread has stored a state of the other's kind has nothing left of its
ChangeState but the delete. `LInv` says this of the lists of things to do:
`AppProgram`, `AdosipProgram` and `StabilizeProgram` enumerate what each list can
be at which kind of current state, at rest, about to enter an object, in a
ChangeState, or between two. `ObjectsInOrder` says that objects are stored in the
order in which they are made and that what a thread is about to delete is older
than `state` and wanted by no other; `AppObject` and `AdosipObject`, in which object
these threads are. All of it is `Good`, and `LInv` is that a process which is not
astray is `Good`: a call in another state ends the invariant (`AstrayStep`).

*The argument.* One lemma per kind of step: `WorkKeeps` for the steps of a list
(`AppChanges`, `AdosipChanges`, `OneChanges` and `LocalStep` for its cases),
`InputKeeps`, `HandlerKeeps` and `AdosipEnters` for events and timers, `RoundKeeps`,
`ConstructedKeeps`, `DestructorKeeps`; a dead process is `Good` (`DeadIsGood`).
`GoodStep` and `LInvInductive` put them together. `ThreadsKeepLifeCycle` is the
refinement of NodeStates by the stores of `_state`, including those while `~Node`
runs, up to the step in which the process counts as lost.

**UserQuery_proofs, UserLookup_proofs**, about `QuerySpec`, the overlay with
applications that look users up:

| theorem | property |
|---|---|
| `QueriesAreExtra` | `QuerySpec => Spec`, so that what holds of Spec holds there |
| `PredecessorKnownWithQueries` | `PredecessorKnown` |
| `ContactsOnlyOfAsked` | `ContactsAsked` |
| `LookupIsRefined` | `LookupRefined` |
| `QuestionsBringOneAnswer` | `OneAnswerPerQuestion` |

Every step of UserQuery is a step of Overlay or leaves its variables alone
(`QueryNextIsNext`), hence `QueriesAreExtra`. `ContactsAsked` needs that
contacts on their way are honest, too: the one adosip holds (`ContactsComing`),
and the one in every answer, which is that of the user asked for, asked by the
very process that will take it (`Honest`: the number `inc` of the process decides).
`QInv` is their conjunction; a new process has a number no question carries
(`RestartStep`), and redirects ask for the same user (`RedirectStep`). `IInv` is
used for the types of `inc` and of the tables.

`LookupIsRefined` maps every step of the overlay, of the caller and of the adosip
thread to a step of UserLookup or to a stutter (`NextRefined`). It needs `LookInv`:

* `Recorded`: every record that a node keeps, and every one in a registration, a
  copy or a transfer under way, was registered at some time. The `...Carries`
  lemmas show that no handler makes a record up.
* `ContactsRegistered`: so were the contacts in answers, in `user_contact` and in
  the hands of the adosip thread.
* `AsksOK`: a process that sent no question has nothing open, and one that sent one
  has the question in one copy, or its answer at work in `onUserQueryOK`, or its
  byte in the pipe, or none of them any more, never two (`AskedOnce`). Hence the
  text cannot change while the caller copies it, and the caller gets it whole.

`QuestionsBringOneAnswer` is the same for any number of questions: the bytes, the
open questions copy by copy and the answer at work are together no more than the
questions sent (`CountInv`). A redirect takes one copy out of the bag and puts one
in, a byte is written for an answer at work, and what a new process finds under way
is not its own. `BagLess` and `BagMore` say what that does to the bag, `CopiesLess`
and `CopiesMore` to the number of copies.

*How the invariants were found.* `LInv`, `LoopInv`, `LookInv` and `CountInv` were
checked with TLC as invariants of the instances of runs `lifecycle`, `tables` and
`query` before they were proved. So were `SInv` and `GInv`, on a founder with two
joins and a registration (267 thousand states) and, `SInv`, on a ring of three with a
leave and a death (111 thousand). The proof showed what
was missing then, that a record under way is that of a registered user; with it
TLC checked them again, and simulated them with four to six nodes and rounds that
overlap.

*Assumptions.* Those of the modules, which TLC evaluates in the runs:
`NBITSAssumption` (a positive natural), `PowersOfTwo` (2^i is a positive natural
for i up to NBITS, which the provers do not compute), `NSUCCLISTAssumption` (at
least 2: `OnSuccessorFailure` and answers read entry 1), `NodesAssumption`,
`UsersAssumption`, `InputsAssumption`, `BoundsAssumption`. Nothing is assumed of
`Founders`, `Lossy` or `Calm` beyond their types but where Scenario_proofs and
Growth_proofs say `~ Lossy`; `QueryAssumption` says that
askers are nodes and that the three constants that stand for no user are none.
`LifecycleAssumption` says that `MaxInputs` is a natural and nothing of what the
application does, `LocalsAssumption` that the nodes FingerLoops
chooses from are identifiers.

Run `storm` checks the properties of Spec from a formed ring, which TLC reaches
faster than `Init`, and run `query` starts from one, too; the theorems are about
`Init`.

*Only model-checked:*

* All liveness (`StartsFinish`, `RingForms`, `RecordsReachOwner`,
  `RecordsRecovered`, `CallsReturn`, `QuestionsEnd`, `DiscoveryEnds`,
  `DeletionEnds`), since fairness and ENABLED are beyond the prover.
* `Connected`. No argument by induction is known: a JOIN names the node that
  answered the MULTICAST, so that a joiner is first placed before that node wherever
  it belongs, and what keeps the pieces together while STABILIZE moves it is the
  order of many steps. It also needs that there is one founder: `onNoNodeFind` can
  make another. Random simulation of up to six nodes that join at any moment (eight
  million states) found no counterexample beyond run `ring`.
* `RecordsSurvive`, which is about the copies of a formed ring with a death.
* `Covered`, `SuccessorKnown` and `RecordsHeld` outside growth, `NoFault` with users
  or a leave, `LivePredecessorKept` and `LiveSuccessorKept` where somebody is started
  again: what the runs check there holds in their scenarios and fails in wider ones,
  as the list at the end of section 3 says.

## 5. Not modelled

* Threads and the overlay in one model. Lifecycle has the threads and the state
  object, the overlay has the tables, and only `onUserQueryOK` is in both worlds.
  What the application's thread or a stabilize thread changes in a table in the
  middle of a handler of the adosip thread is missing.
* The expiry of a record: it is stored and nothing reads it. The code has no
  operation that removes a registration.
* osip: retransmission, parsing and matching of transactions are taken as
  working; what is kept is that a transaction gets at most one final answer or
  ends without one. Requests overtake each other freely.
* Message text, URIs, addresses. A node is its identifier; two nodes with the
  same hash are outside the model.
* Configuration (the classes of `Ini.cpp` have no caller, `PreferencesCore` keeps
  constants), address helpers (`Pubtool.cpp`), opening and closing of sockets,
  logging, printing, the leftovers.

## 6. Plan

Done: the modules above, their runs, the inductive invariants `IInv`, `SInv`,
`GInv`, `QInv`, `LInv`, `LoopInv`, `LookInv` and `CountInv`, and the refinements of
NodeStates and UserLookup.

1. `Connected` for a founder and joins: an invariant about chains of successors
   that STABILIZE shortens.
2. An abstract ring (members, owners, records) and the refinement by Ring in the
   calm scenarios of run `ring`.
3. The tables shared between threads: STABILIZE rounds and `Leave` inside a
   handler, as Lifecycle does it for the state object.

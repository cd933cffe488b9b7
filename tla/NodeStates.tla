----------------------------- MODULE NodeStates -----------------------------
(***************************************************************************)
(* The life cycle of a node as Node.h documents it beside its operations:  *)
(* [Close] -> [Inited] -> [Discoving] -> [Joining] -> [FTComputing] ->     *)
(* [Normal] -> [Close], with the short cuts of a first node and of a       *)
(* joiner that needs no finger computation, and processes that die.        *)
(* DiscoveredState is passed through on the way to JoiningState.           *)
(* Implemented by modules Overlay and Lifecycle.                           *)
(***************************************************************************)
CONSTANTS
    Procs,      \* nodes
    Founders,   \* those started as the first node of an overlay
    StartFrom   \* kinds of state in which the application starts a node

VARIABLE state  \* state[p]: the kind of p's state

Living == {"Closed", "Inited", "Discoving", "Joining", "FTComputing", "Normal"}
Gone == {"Down", "Faulted"}

Edges ==
    {<<"Closed", "Inited">>, <<"Inited", "Discoving">>, <<"Discoving", "Joining">>,
     <<"Discoving", "Normal">>, <<"Joining", "FTComputing">>, <<"Joining", "Normal">>,
     <<"FTComputing", "Normal">>, <<"Normal", "Closed">>}

Init == state \in [Procs -> {"Closed", "Inited", "Normal", "Down"}]

Move(p, to) == state' = [state EXCEPT ![p] = to]

Go(p) == \E to \in Living : <<state[p], to>> \in Edges /\ Move(p, to)

(* The application starts the node. *)
Start(p) ==
    /\ state[p] \in StartFrom
    /\ Move(p, "Discoving") \/ (p \in Founders /\ Move(p, "Normal"))

Die(p) == state[p] \in Living /\ \E to \in Gone : Move(p, to)

Again(p) == state[p] \in Gone /\ Move(p, "Inited")

Next == \E p \in Procs : Go(p) \/ Start(p) \/ Die(p) \/ Again(p)

Spec == Init /\ [][Next]_state
=============================================================================

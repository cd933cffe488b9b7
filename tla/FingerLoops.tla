----------------------------- MODULE FingerLoops -----------------------------
(***************************************************************************)
(* The loops of Node.cpp over the finger table and the successor list, one *)
(* iteration a step.  They write the cells they read later, and compare    *)
(* indices with bounds that the writes move; module FingerTable says in    *)
(* closed form what each one leaves behind, and this module shows it.      *)
(***************************************************************************)
EXTENDS FingerTable

CONSTANTS
    Locals,     \* identifiers of the node that runs the loop
    Others      \* identifiers in its tables besides its own

ASSUME LocalsAssumption == Locals \subseteq Id /\ Others \subseteq Id

VARIABLES
    n,          \* chordId of the node
    loop,       \* which loop runs
    arg,        \* its parameters
    before,     \* the fingers or the list when it starts
    now,        \* the same as written so far
    i, j,       \* its indices
    value,      \* "previous" and "tmp"
    ended

vars == <<n, loop, arg, before, now, i, j, value, ended>>
given == <<n, loop, arg, before>>

NodeIds == Others \cup {n}
Fingers == [FingerIndex -> NodeIds \cup {EmptyChordId}]
Lists == {s \in [0..NSUCCLIST -> NodeIds \cup {EmptyChordId, LocalnodeWord}] :
            \A k \in 0..NSUCCLIST : s[k] = LocalnodeWord => k >= NSUCCLIST - 1}
ContactLists == [0..NSUCCLIST -> Others \cup {n, EmptyChordId}]

Begins(name) == loop = name /\ ended = FALSE

(* Node::Set_Fingers(start_index, node) *)
SetFingersBegins ==
    /\ Begins("Set_Fingers")
    /\ arg \in [start_index : FingerIndex, node : NodeIds]
    /\ before \in Fingers
    /\ now = [before EXCEPT ![arg.start_index] = arg.node]
    /\ i = arg.start_index /\ j = 0 /\ value = EmptyChordId

(* Node::closestPrecedingFinger(k); arg.succ is the successor list. *)
ClosestBegins ==
    /\ Begins("closestPrecedingFinger")
    /\ \E k \in Id, first \in NodeIds \cup {EmptyChordId} :
        arg = [k |-> k, succ |-> [NoSuccessors EXCEPT ![0] = first]]
    /\ before \in Fingers /\ now = before
    /\ i = NBITS /\ j = 0
    /\ value = IF SuccNum(arg.succ) > 0 /\ arg.succ[0] # n
               THEN arg.succ[0] ELSE EmptyChordId

(* The two loops of Node::set_node_inactive(node). *)
InactiveFingersBegins ==
    /\ Begins("inactive_fingers")
    /\ arg \in [node : NodeIds]
    /\ before \in Fingers /\ now = before
    /\ i = NBITS /\ j = 0 /\ value = n

InactiveListBegins ==
    /\ Begins("inactive_list")
    /\ arg \in [node : Others]
    /\ before \in Lists /\ now = before
    /\ i = 0 /\ j = 0 /\ value = EmptyChordId

(* Node::setSuccListWithContacts *)
ContactsBegins ==
    /\ Begins("contacts")
    /\ arg \in [contacts : ContactLists, first : {0, 1}]
    /\ before = [k \in 0..NSUCCLIST |-> LocalnodeWord] /\ now = ClearSuccList(before)
    /\ i = arg.first /\ j = 0 /\ value = EmptyChordId

Init ==
    /\ n \in Locals
    /\ \/ SetFingersBegins
       \/ ClosestBegins
       \/ InactiveFingersBegins
       \/ InactiveListBegins
       \/ ContactsBegins

-----------------------------------------------------------------------------
Runs(name) == loop = name /\ ~ ended
Ends == ended' = TRUE /\ UNCHANGED <<given, now, i, j, value>>
Continues == ended' = FALSE /\ UNCHANGED given

SetFingersStep ==
    /\ Runs("Set_Fingers")
    /\ IF i <= NBITS - 1 /\ (\/ BelongsRightInclusive(Start(n, i + 1), n, now[i])
                             \/ Start(n, i + 1) = n)
       THEN /\ now' = [now EXCEPT ![i + 1] = now[i]]
            /\ i' = i + 1
            /\ Continues /\ UNCHANGED <<j, value>>
       ELSE Ends

ClosestStep ==
    /\ Runs("closestPrecedingFinger")
    /\ IF i = 0 THEN Ends
       ELSE IF now[i] # EmptyChordId /\ Belongs(now[i], n, arg.k)
       THEN ended' = TRUE /\ value' = now[i] /\ UNCHANGED <<given, now, i, j>>
       ELSE i' = i - 1 /\ Continues /\ UNCHANGED <<now, j, value>>

InactiveFingersStep ==
    /\ Runs("inactive_fingers")
    /\ IF i = 0 THEN Ends
       ELSE /\ IF now[i] = arg.node
               THEN now' = [now EXCEPT ![i] = value] /\ UNCHANGED value
               ELSE value' = now[i] /\ UNCHANGED now
            /\ i' = i - 1
            /\ Continues /\ UNCHANGED j

InactiveListStep ==
    /\ Runs("inactive_list")
    /\ IF i >= SuccNum(now) THEN Ends
       ELSE IF now[i] # arg.node
       THEN i' = i + 1 /\ Continues /\ UNCHANGED <<now, j, value>>
       ELSE LET next == now[i + 1]
            IN  /\ now' = CASE next = EmptyChordId -> [now EXCEPT ![i] = next]
                            [] next = n -> [now EXCEPT ![i] = next, ![i + 1] = EmptyChordId]
                            [] OTHER    -> [now EXCEPT ![i] = next, ![i + 1] = arg.node]
                /\ ended' = (next \in {EmptyChordId, n})
                /\ i' = IF next \in {EmptyChordId, n} THEN i ELSE i + 1
                /\ UNCHANGED <<given, j, value>>

ContactsStep ==
    /\ Runs("contacts")
    /\ IF i > NSUCCLIST \/ arg.contacts[i] = EmptyChordId THEN Ends
       ELSE /\ now' = [now EXCEPT ![j] = arg.contacts[i]]
            /\ ended' = (arg.contacts[i] = n)
            /\ i' = i + 1 /\ j' = j + 1
            /\ UNCHANGED <<given, value>>

Next ==
    \/ SetFingersStep
    \/ ClosestStep
    \/ InactiveFingersStep
    \/ InactiveListStep
    \/ ContactsStep

Spec == Init /\ [][Next]_vars

-----------------------------------------------------------------------------
Ended(name) == loop = name /\ ended

(* Set_Fingers leaves the table of the closed form and returns the last    *)
(* finger it wrote, from which the callers look up the next.               *)
SetFingersAsCoded ==
    Ended("Set_Fingers") =>
        /\ now = Set_Fingers(n, before, arg.start_index, arg.node)
        /\ i = LastCovered(n, arg.start_index, arg.node)

(* closestPrecedingFinger returns the value of the closed form.            *)
ClosestAsCoded ==
    Ended("closestPrecedingFinger") =>
        value = ClosestPrecedingFinger(n, before, arg.succ, arg.k)

(* A lookup redirected to a finger gets nearer to its position: the chain  *)
(* of redirects of onFindSuccRedirect and onUserRegRedirect cannot turn    *)
(* round as long as it goes by fingers.                                    *)
FingersGetNearer ==
    Ended("closestPrecedingFinger") /\ value \in Id /\ value # arg.succ[0] =>
        Clockwise(value, arg.k) < Clockwise(n, arg.k) \/ arg.k = n

(* set_node_inactive takes a node out of the fingers.                      *)
InactiveFingersAsCoded ==
    Ended("inactive_fingers") => now = FingersWithout(n, before, arg.node)

(* set_node_inactive takes a node out of the successor list, and writes it *)
(* behind a full list.                                                     *)
InactiveListAsCoded ==
    Ended("inactive_list") => now = SuccListWithout(n, before, arg.node)

(* setSuccListWithContacts leaves the list of the closed form.             *)
ContactsAsCoded ==
    Ended("contacts") =>
        now = SetSuccListWithContacts(n, before, arg.contacts, arg.first)
=============================================================================

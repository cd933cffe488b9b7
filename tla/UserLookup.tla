----------------------------- MODULE UserLookup -----------------------------
(***************************************************************************)
(* What an application can rely on when it looks up users: a contact it    *)
(* gets was registered, and it is the one of the user it asks for or of a  *)
(* user this very process has sent a question for.  As long as it has sent *)
(* one question that is one user; from the second on the answer may be     *)
(* late, or a text that is none.  Implemented by module UserQuery.         *)
(***************************************************************************)
EXTENDS Naturals

CONSTANTS
    Procs,          \* processes
    Users,
    Nothing,        \* no user, and the empty text
    Torn,           \* a text made of parts of two
    NotFound        \* the return value -1

VARIABLES
    registered,     \* users registered at any time
    call,           \* call[n]: the user the application waits for, or Nothing
    asked,          \* asked[n]: the users this process sent a question for
    asks,           \* asks[n]: how many questions it sent
    result          \* result[n]: what the last call returned

vars == <<registered, call, asked, asks, result>>

Init ==
    /\ registered \subseteq Users
    /\ call = [n \in Procs |-> Nothing]
    /\ asked = [n \in Procs |-> {}]
    /\ asks = [n \in Procs |-> 0]
    /\ result = [n \in Procs |-> Nothing]

Register(u) ==
    /\ registered' = registered \cup {u}
    /\ UNCHANGED <<call, asked, asks, result>>

Call(n, u) ==
    /\ call[n] = Nothing
    /\ call' = [call EXCEPT ![n] = u]
    /\ UNCHANGED <<registered, asked, asks, result>>

(* A question is sent, by the call or outside of any. *)
Ask(n, u) ==
    /\ call[n] \in {Nothing, u}
    /\ asked' = [asked EXCEPT ![n] = @ \cup {u}]
    /\ asks' = [asks EXCEPT ![n] = @ + 1]
    /\ UNCHANGED <<registered, call, result>>

Return(n, c) ==
    /\ call[n] # Nothing
    /\ call' = [call EXCEPT ![n] = Nothing]
    /\ result' = [result EXCEPT ![n] = c]
    /\ UNCHANGED <<registered, asked, asks>>

(* The record of the user, found without a question. *)
FoundHere(n) == call[n] \in registered /\ Return(n, call[n])

(* The contact a question brought, this call's or an earlier one's. *)
FoundAsked(n, u) == u \in asked[n] \cap registered /\ Return(n, u)

(* A contact while another is written. *)
FoundMixed(n, c) ==
    /\ asks[n] > 1
    /\ c \in {Nothing, Torn}
    /\ Return(n, c)

Failed(n) == Return(n, NotFound)

(* A new process of the same node. *)
Restart(n) ==
    /\ call' = [call EXCEPT ![n] = Nothing]
    /\ asked' = [asked EXCEPT ![n] = {}]
    /\ asks' = [asks EXCEPT ![n] = 0]
    /\ result' = [result EXCEPT ![n] = Nothing]
    /\ UNCHANGED registered

Next ==
    \/ \E u \in Users : Register(u)
    \/ \E n \in Procs, u \in Users : Call(n, u) \/ Ask(n, u) \/ FoundAsked(n, u)
    \/ \E n \in Procs, c \in {Nothing, Torn} : FoundMixed(n, c)
    \/ \E n \in Procs : FoundHere(n) \/ Failed(n) \/ Restart(n)

Spec == Init /\ [][Next]_vars
=============================================================================

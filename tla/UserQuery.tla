------------------------------ MODULE UserQuery ------------------------------
(***************************************************************************)
(* si2p_query_user.  The application's thread sends the question and waits *)
(* in select, ten seconds, for a byte in user_info_pipe; it never reads    *)
(* the byte.  The adosip thread answers for other nodes, follows redirects *)
(* and, when an answer is there, overwrites user_contact and writes the    *)
(* byte.  Neither takes a lock, so that onUserQueryOK and the copy of      *)
(* user_contact are several steps here; adosip handles nothing else while  *)
(* it is in onUserQueryOK.                                                 *)
(*                                                                         *)
(* A record and its contact are represented by the user.  The contact of   *)
(* a question is a user (200) or the next node (302).                      *)
(***************************************************************************)
EXTENDS Overlay

CONSTANTS
    Askers,         \* nodes whose application looks up users
    MaxCalls,       \* bounds on its calls and on questions at the prompt
    MaxPrompts,
    PipeSize,       \* what user_info_pipe holds before a write blocks
    Nothing, Torn, NotFound

ASSUME QueryAssumption ==
    /\ Askers \subseteq Nodes
    /\ MaxCalls \in Nat /\ MaxPrompts \in Nat /\ PipeSize \in Nat \ {0}
    /\ Cardinality({Nothing, Torn, NotFound}) = 3
    /\ {Nothing, Torn, NotFound} \cap (Users \cup Cell) = {}

VARIABLES
    caller,         \* caller[n]: the application's thread
    adosip,         \* adosip[n]: where its adosip thread is in onUserQueryOK
    user_contact,   \* user_contact[n], written by one and read by the other
    user_info_pipe, \* user_info_pipe[n]: bytes in the pipe
    queries,        \* the transactions of questions
    result,         \* result[n]: what the last call returned
    calls, prompts, \* how many there have been
    registered,     \* history: users registered at any time
    asked, asks     \* history: users asked[n] for, and how many questions

shared == <<user_contact, user_info_pipe>>
history == <<registered, asked, asks>>
queryVars == <<caller, adosip, shared, queries, result, calls, prompts, history>>

IdleCaller == [step |-> "idle", user |-> Nothing, first |-> Nothing, changed |-> FALSE]
FreeAdosip == [step |-> "free", contact |-> Nothing]

QueryInit ==
    /\ caller = [n \in Nodes |-> IdleCaller]
    /\ adosip = [n \in Nodes |-> FreeAdosip]
    /\ user_contact = [n \in Nodes |-> Nothing]
    /\ user_info_pipe = [n \in Nodes |-> 0]
    /\ queries = EmptyBag
    /\ result = [n \in Nodes |-> Nothing]
    /\ calls = 0
    /\ prompts = 0
    /\ registered = UNION {DOMAIN users[n] \cup DOMAIN red[n] \cup local[n] : n \in Nodes}
    /\ asked = [n \in Nodes |-> {}]
    /\ asks = [n \in Nodes |-> 0]

-----------------------------------------------------------------------------
(* Node::SndUserRegisterRequest(aor, requri) *)
Question(n, target, u) ==
    [aor |-> u, src |-> n, inc |-> inc[n], dst |-> {target} \cap Nodes,
     phase |-> "request", contact |-> Nothing]

(* Mutant: the node itself, as in a line commented out. *)
NextHopSelf(n, u) == n

NextHop(n, u) == ClosestPrecedingFinger(n, finger[n], succ[n], Hash[u])

ReplaceQuery(q, qs) == queries' = (queries (-) SetToBag({q})) (+) qs

(* The question goes to the closest preceding finger, if there is one. *)
SendQuestion(n, u) ==
    LET next == NextHop(n, u)
    IN  IF next = EmptyChordId
        THEN UNCHANGED <<queries, asked, asks>>
        ELSE /\ queries' = queries (+) SetToBag({Question(n, next, u)})
             /\ asked' = [asked EXCEPT ![n] = @ \cup {u}]
             /\ asks' = [asks EXCEPT ![n] = @ + 1]

(* The application's thread is at a step of a process that is there. *)
At(n, step) == n \in Live /\ caller[n].step = step

Return(n, c) ==
    /\ caller' = [caller EXCEPT ![n] = IdleCaller]
    /\ result' = [result EXCEPT ![n] = c]

-----------------------------------------------------------------------------
(* The application's thread. *)

Call(n, u) ==
    /\ At(n, "idle")
    /\ kind[n] \in RegisterFrom
    /\ calls < MaxCalls
    /\ calls' = calls + 1
    /\ caller' = [caller EXCEPT ![n] = [IdleCaller EXCEPT !.step = "called", !.user = u]]
    /\ UNCHANGED <<vars, adosip, shared, queries, result, prompts, history>>

(* The record belongs here: its contact, or -1, at once. *)
AnswerHere(n) ==
    LET u == caller[n].user
    IN  /\ At(n, "called")
        /\ Owns(n, u)
        /\ Return(n, IF BagIn(u, users[n]) THEN u ELSE NotFound)
        /\ UNCHANGED <<vars, adosip, shared, queries, calls, prompts, history>>

(* It belongs elsewhere.  The wait begins even if nothing was sent. *)
AskOverlay(n) ==
    /\ At(n, "called")
    /\ ~ Owns(n, caller[n].user)
    /\ SendQuestion(n, caller[n].user)
    /\ caller' = [caller EXCEPT ![n].step = "waiting"]
    /\ UNCHANGED <<vars, adosip, shared, result, calls, prompts, registered>>

(* Mutant: select without the timeout, as in the line commented out. *)
NoTimeout(n) == FALSE /\ UNCHANGED <<vars, queryVars>>

(* select returns after ten seconds. *)
TimedOut(n) ==
    /\ At(n, "waiting")
    /\ user_info_pipe[n] = 0
    /\ Return(n, NotFound)
    /\ UNCHANGED <<vars, adosip, shared, queries, calls, prompts, history>>

(* select returns because there is a byte, whose ever it is: strlen, then  *)
(* the copy.  While adosip copies, the text that is there may be a part.   *)
BeginCopy(n) ==
    /\ At(n, "waiting")
    /\ user_info_pipe[n] > 0
    /\ \E c \in {user_contact[n]} \cup IF adosip[n].step = "cleared" THEN {Torn} ELSE {} :
           caller' = [caller EXCEPT ![n].step = "copying", ![n].first = c]
    /\ UNCHANGED <<vars, adosip, shared, queries, result, calls, prompts, history>>

(* A text changed meanwhile is the old one, the new one or a mixture; of   *)
(* an empty text nothing is copied.                                        *)
EndCopy(n) ==
    LET first == caller[n].first
        mixed == caller[n].changed /\ first # Nothing
    IN  /\ At(n, "copying")
        /\ \E c \in {first} \cup IF mixed THEN {Torn, user_contact[n]} ELSE {} : Return(n, c)
        /\ UNCHANGED <<vars, adosip, shared, queries, calls, prompts, history>>

(* Node::QueryUser, the command of cmdloop: the answer, if one comes, goes *)
(* the way of the others.  A record that belongs here is only printed; it  *)
(* is dereferenced whether it is there or not, and then the process dies.  *)
Prompt(n, u) ==
    /\ At(n, "idle")
    /\ kind[n] \in RegisterFrom
    /\ prompts < MaxPrompts
    /\ prompts' = prompts + 1
    /\ ~ Owns(n, u)
    /\ SendQuestion(n, u)
    /\ UNCHANGED <<vars, caller, adosip, shared, result, calls, registered>>

PromptDies(n, u) ==
    /\ At(n, "idle")
    /\ kind[n] \in RegisterFrom
    /\ prompts < MaxPrompts
    /\ prompts' = prompts + 1
    /\ Owns(n, u) /\ ~ BagIn(u, users[n])
    /\ Crash(n)
    /\ UNCHANGED <<caller, adosip, shared, queries, result, calls, history>>

-----------------------------------------------------------------------------
(* The adosip thread. *)
Free(n) == adosip[n].step = "free"

AskerThere(q) == q.inc = inc[q.src] /\ kind[q.src] \notin Dead

(* Node::SndResponse4Query *)
Respond(q, phase, c) ==
    IF AskerThere(q)
    THEN SetToBag({[q EXCEPT !.phase = phase, !.dst = {}, !.contact = c]})
    ELSE EmptyBag

QueryHandled == UNCHANGED <<vars, caller, adosip, shared, result, calls, prompts, history>>

(* Mutant: any record of the list is taken for the one asked for. *)
AnyRecord(n, u) == DOMAIN users[n]

(* find_user_info_by_aor in user_info_list *)
RecordOf(n, u) == DOMAIN users[n] \cap {u}

(* onUserQuery: the owner answers if it has the record and is silent if    *)
(* not; another node redirects, or answers 404, which the asker ignores.   *)
OnUserQuery(n, q) ==
    LET next == NextHop(n, q.aor)
    IN  /\ q.phase = "request" /\ n \in q.dst
        /\ kind[n] = "Normal" /\ Free(n)
        /\ \/ /\ Owns(n, q.aor)
              /\ \/ \E c \in RecordOf(n, q.aor) : ReplaceQuery(q, Respond(q, "ok", c))
                 \/ RecordOf(n, q.aor) = {} /\ ReplaceQuery(q, EmptyBag)
           \/ /\ ~ Owns(n, q.aor)
              /\ ReplaceQuery(q, IF next = EmptyChordId THEN EmptyBag
                                 ELSE Respond(q, "redirect", next))
        /\ QueryHandled

QueryReturns(phase, n, q) ==
    /\ q.phase = phase
    /\ n = q.src /\ q.inc = inc[n]
    /\ kind[n] = "Normal" /\ Free(n)

(* Mutant: the question goes to the closest finger once more, too. *)
OnUserQueryRedirectTwice(n, q) ==
    /\ QueryReturns("redirect", n, q)
    /\ ReplaceQuery(q, SetToBag({Question(n, q.contact, q.aor)})
                       (+) SetToBag({Question(n, NextHop(n, q.aor), q.aor)}))
    /\ QueryHandled

(* onUserQueryRedirect: the same question to the node named, however often. *)
OnUserQueryRedirect(n, q) ==
    /\ QueryReturns("redirect", n, q)
    /\ ReplaceQuery(q, SetToBag({Question(n, q.contact, q.aor)}))
    /\ QueryHandled

(* onUserQueryOK, its first step: memset(user_contact). *)
ClearContact(n, q) ==
    /\ QueryReturns("ok", n, q)
    /\ user_contact' = [user_contact EXCEPT ![n] = Nothing]
    /\ adosip' = [adosip EXCEPT ![n] = [step |-> "cleared", contact |-> q.contact]]
    /\ caller' = [caller EXCEPT ![n].changed = @ \/ caller[n].step = "copying"]
    /\ ReplaceQuery(q, EmptyBag)
    /\ UNCHANGED <<vars, user_info_pipe, result, calls, prompts, history>>

(* The contact is copied. *)
StoreContact(n) ==
    /\ n \in Live
    /\ adosip[n].step = "cleared"
    /\ user_contact' = [user_contact EXCEPT ![n] = adosip[n].contact]
    /\ adosip' = [adosip EXCEPT ![n].step = "stored"]
    /\ caller' = [caller EXCEPT ![n].changed = @ \/ caller[n].step = "copying"]
    /\ UNCHANGED <<vars, user_info_pipe, queries, result, calls, prompts, history>>

(* jpipe_write, which blocks while the pipe is full. *)
SignalContact(n) ==
    /\ n \in Live
    /\ adosip[n].step = "stored"
    /\ user_info_pipe[n] < PipeSize
    /\ user_info_pipe' = [user_info_pipe EXCEPT ![n] = @ + 1]
    /\ adosip' = [adosip EXCEPT ![n] = FreeAdosip]
    /\ UNCHANGED <<vars, caller, user_contact, queries, result, calls, prompts, history>>

(* No answer: lost on the way, nobody there, a receiver or an asker that   *)
(* is not in NormalState or is another process by now.                     *)
EndQuery(q) ==
    /\ ~ AskerThere(q) \/ Free(q.src)
    /\ ReplaceQuery(q, EmptyBag)
    /\ QueryHandled

-----------------------------------------------------------------------------
(* The rest of the overlay, whose handlers wait for onUserQueryOK to end. *)
HandleWhenFree(t) ==
    \/ \E n \in t.dst : Free(n) /\ ReceiveRequest(n, t)
    \/ /\ Free(t.src)
       /\ \/ ReceiveResponse(t.src, t)
          \/ Timeout(t.src, t)
    \/ IgnoreResponse(t)
    \/ LoseResponse(t)
    \/ EndUnanswered(t)

OverlayStep ==
    /\ \/ \E n \in Nodes : StartFirst(n) \/ StartNode(n) \/ Leave(n) \/ Crash(n) \/ Stabilize(n)
       \/ \E t \in DOMAIN net : HandleWhenFree(t)
    /\ UNCHANGED queryVars

Register(n, u) ==
    /\ RegisterUser(n, u)
    /\ registered' = registered \cup {u}
    /\ UNCHANGED <<caller, adosip, shared, queries, result, calls, prompts, asked, asks>>

(* A new process: its memory and its pipe are new. *)
Restart(n) ==
    /\ Boot(n)
    /\ caller' = [caller EXCEPT ![n] = IdleCaller]
    /\ adosip' = [adosip EXCEPT ![n] = FreeAdosip]
    /\ user_contact' = [user_contact EXCEPT ![n] = Nothing]
    /\ user_info_pipe' = [user_info_pipe EXCEPT ![n] = 0]
    /\ result' = [result EXCEPT ![n] = Nothing]
    /\ asked' = [asked EXCEPT ![n] = {}]
    /\ asks' = [asks EXCEPT ![n] = 0]
    /\ UNCHANGED <<queries, calls, prompts, registered>>

CallerStep(n) ==
    AnswerHere(n) \/ AskOverlay(n) \/ TimedOut(n) \/ BeginCopy(n) \/ EndCopy(n)

AdosipStep(n) == StoreContact(n) \/ SignalContact(n)

QueryStep(q) ==
    \/ \E n \in q.dst : OnUserQuery(n, q)
    \/ OnUserQueryRedirect(q.src, q)
    \/ ClearContact(q.src, q)
    \/ EndQuery(q)

QueryNext ==
    \/ OverlayStep
    \/ \E n \in Nodes, u \in Users : Register(n, u)
    \/ \E n \in Nodes : Restart(n) \/ CallerStep(n) \/ AdosipStep(n)
    \/ \E n \in Askers, u \in Users : Call(n, u) \/ Prompt(n, u) \/ PromptDies(n, u)
    \/ \E q \in DOMAIN queries : QueryStep(q)

QuerySpec == Init /\ QueryInit /\ [][QueryNext]_<<vars, queryVars>>

QueriesOf(n) == {q \in DOMAIN queries : q.src = n}

(* The threads of an asker run, and osip ends the transaction of every     *)
(* question.  Nothing is assumed of the application, of the other nodes    *)
(* and of their messages.                                                  *)
QueryFairness ==
    \A n \in Askers :
        /\ WF_<<vars, queryVars>>(CallerStep(n))
        /\ WF_<<vars, queryVars>>(AdosipStep(n))
        /\ WF_<<vars, queryVars>>(\E q \in QueriesOf(n) : QueryStep(q))

-----------------------------------------------------------------------------
Promise == INSTANCE UserLookup WITH
    Procs <- Nodes,
    call <- [n \in Nodes |-> caller[n].user]

(* What an application can rely on: module UserLookup, whatever the order  *)
(* of answers, timeouts and rewrites of user_contact.                      *)
LookupRefined == Promise!Spec

(* The questions under way of the process that n is now, copy by copy. *)
Outstanding(n) ==
    UNION {{q} \X (1..queries[q]) : q \in {p \in QueriesOf(n) : p.inc = inc[n]}}

(* Every question brings one byte at most, redirects included: that is why *)
(* the byte after a first question is its answer (onUserQueryRedirect,     *)
(* onUserQueryOK).                                                         *)
OneAnswerPerQuestion ==
    \A n \in Live :
        user_info_pipe[n] + Cardinality(Outstanding(n)) + (IF Free(n) THEN 0 ELSE 1)
            <= asks[n]

(* user_contact is empty or the contact of a user this process asked for:  *)
(* no answer to a process that died and no record of another user gets     *)
(* there (onUserQuery, onUserQueryOK, Node::~Node).                        *)
ContactsAsked == \A n \in Nodes : user_contact[n] \in asked[n] \cup {Nothing}

(* si2p_query_user returns, though the adosip thread may hang in           *)
(* jpipe_write for ever (the timeout of select).                           *)
CallsReturn ==
    \A n \in Nodes : caller[n].step # "idle" ~> caller[n].step = "idle" \/ kind[n] \in Dead

(* A question is answered or ends: redirects do not go round, unless the   *)
(* thread that would follow them hangs (onUserQuery, onUserQueryRedirect). *)
QuestionsEnd ==
    \A n \in Nodes :
        <>[](QueriesOf(n) = {} \/ adosip[n].step = "stored")

(* P2P.h: the contact si2p_query_user returns is that of the aor.  Checked *)
(* when the call returns.                                                  *)
AnswersTheQuestion ==
    [][\A n \in Nodes :
        caller[n].step # "idle" /\ caller'[n].step = "idle"
            => result'[n] \in {caller[n].user, NotFound}]_<<vars, queryVars>>
=============================================================================

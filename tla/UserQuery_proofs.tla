--------------------------- MODULE UserQuery_proofs ---------------------------
(***************************************************************************)
(* Looking users up leaves the overlay alone: every step of UserQuery is a *)
(* step of Overlay or changes nothing of it, so that what is proved of     *)
(* Overlay holds here.  And what gets into user_contact: the contact of a  *)
(* user that this very process asked for.                                  *)
(***************************************************************************)
EXTENDS UserQuery, Ring_proofs

qvars == <<vars, queryVars>>

-----------------------------------------------------------------------------
LEMMA HandleWhenFreeHandles ==
    ASSUME NEW t, HandleWhenFree(t)  PROVE Handle(t)
BY DEF HandleWhenFree, Handle

LEMMA OverlayStepIsStep ==
    ASSUME OverlayStep  PROVE Next
BY HandleWhenFreeHandles DEF OverlayStep, Next, Input

LEMMA CallerLeavesOverlay ==
    ASSUME NEW n, CallerStep(n)  PROVE UNCHANGED vars
BY DEF CallerStep, AnswerHere, AskOverlay, TimedOut, BeginCopy, EndCopy

LEMMA QueriesLeaveOverlay ==
    ASSUME NEW q, QueryStep(q)  PROVE UNCHANGED vars
BY DEF QueryStep, OnUserQuery, OnUserQueryRedirect, ClearContact, EndQuery, QueryHandled

LEMMA QueryNextIsNext == [QueryNext]_qvars => [Next]_vars
<1>1. ASSUME OverlayStep  PROVE Next
  BY <1>1, OverlayStepIsStep
<1>2. ASSUME NEW n \in Nodes, NEW u \in Users, Register(n, u)  PROVE Next
  BY <1>2 DEF Register, Next, Input
<1>3. ASSUME NEW n \in Nodes, Restart(n)  PROVE Next
  BY <1>3 DEF Restart, Next, Input
<1>4. ASSUME NEW n \in Nodes, CallerStep(n) \/ AdosipStep(n)  PROVE UNCHANGED vars
  <2>1. AdosipStep(n) => UNCHANGED vars
    BY DEF AdosipStep, StoreContact, SignalContact
  <2>. QED  BY <1>4, <2>1, CallerLeavesOverlay
<1>5. ASSUME NEW n \in Askers, NEW u \in Users, Call(n, u) \/ Prompt(n, u)
      PROVE  UNCHANGED vars
  BY <1>5 DEF Call, Prompt
<1>6. ASSUME NEW n \in Askers, NEW u \in Users, PromptDies(n, u)  PROVE Next
  BY <1>6, QueryAssumption DEF PromptDies, Next, Input
<1>7. ASSUME NEW q \in DOMAIN queries, QueryStep(q)  PROVE UNCHANGED vars
  BY <1>7, QueriesLeaveOverlay
<1>8. UNCHANGED qvars => UNCHANGED vars
  BY DEF qvars
<1>. QED  BY <1>1, <1>2, <1>3, <1>4, <1>5, <1>6, <1>7, <1>8 DEF QueryNext

(* The overlay with applications that look users up implements the overlay *)
(* without (si2p_query_user, onUserQuery and its answers).                 *)
THEOREM QueriesAreExtra == QuerySpec => Spec
<1>1. [QueryNext]_<<vars, queryVars>> => [Next]_vars
  BY QueryNextIsNext DEF qvars
<1>. QED  BY <1>1, PTL DEF QuerySpec, Spec

(* So a node in NormalState knows its predecessor, with which onUserQuery  *)
(* compares.                                                               *)
THEOREM PredecessorKnownWithQueries == QuerySpec => []PredecessorKnown
BY QueriesAreExtra, PredecessorIsKnown, PTL

-----------------------------------------------------------------------------
(* The invariant behind ContactsAsked. *)
Query ==
    [aor : Users, src : Nodes, inc : Nat, dst : SUBSET Nodes,
     phase : {"request", "ok", "redirect"}, contact : Users \cup Cell \cup {Nothing}]

Caller ==
    [step : {"idle", "called", "waiting", "copying"}, user : Users \cup {Nothing},
     first : Users \cup {Nothing, Torn}, changed : BOOLEAN]

Adosip == [step : {"free", "cleared", "stored"}, contact : Users \cup {Nothing}]

QTypes ==
    /\ asked \in [Nodes -> SUBSET Users]
    /\ user_contact \in [Nodes -> Users \cup {Nothing}]
    /\ adosip \in [Nodes -> Adosip]
    /\ caller \in [Nodes -> Caller]
    /\ \A n \in Nodes : caller[n].step = "called" => caller[n].user \in Users

(* A question of this process is for a user in asked; an answer brings the *)
(* contact of the user asked for.                                          *)
Honest(q) ==
    /\ q \in Query
    /\ q.inc <= inc[q.src]
    /\ q.inc = inc[q.src] => q.aor \in asked[q.src]
    /\ q.phase = "ok" => q.contact = q.aor

ContactsComing == \A n \in Nodes : adosip[n].contact \in asked[n] \cup {Nothing}

QueriesHonest == \A q \in DOMAIN queries : Honest(q)

QInv == QTypes /\ ContactsAsked /\ ContactsComing /\ QueriesHonest

(* A question that is replaced leaves the others and its replacement. *)
LEMMA QueryReplaced ==
    ASSUME NEW q, NEW qs, ReplaceQuery(q, qs)
    PROVE  DOMAIN queries' \subseteq DOMAIN queries \cup DOMAIN qs
<1>1. queries' = (queries (-) SetToBag({q})) (+) qs
  BY DEF ReplaceQuery
<1>2. DOMAIN queries' = DOMAIN (queries (-) SetToBag({q})) \cup DOMAIN qs
  BY <1>1, BagDomains, Zenon
<1>3. DOMAIN (queries (-) SetToBag({q})) \subseteq DOMAIN queries
  BY BagDomains, Zenon
<1>. QED  BY <1>2, <1>3

LEMMA QueryInitStep == Init /\ QueryInit => QInv
<1>1. SUFFICES ASSUME Init, QueryInit  PROVE QInv
  OBVIOUS
<1>2. IdleCaller \in Caller /\ FreeAdosip \in Adosip
  BY DEF IdleCaller, FreeAdosip, Caller, Adosip
<1>3. QTypes /\ ContactsAsked /\ ContactsComing
  BY <1>1, <1>2 DEF QueryInit, QTypes, ContactsAsked, ContactsComing, IdleCaller, FreeAdosip
<1>4. QueriesHonest
  BY <1>1, BagDomains DEF QueryInit, QueriesHonest
<1>. QED  BY <1>3, <1>4 DEF QInv

-----------------------------------------------------------------------------
(* Only a new process changes inc. *)
LEMMA RequestKeepsInc ==
    ASSUME NEW n, NEW t, ReceiveRequest(n, t)  PROVE inc' = inc
<1>1. CASE OnDiscoverReg(n, t) \/ OnJoinReg(n, t) \/ OnFindSuccReg(n, t) \/ IgnoreRequest(n, t)
  BY <1>1 DEF OnDiscoverReg, OnJoinReg, OnFindSuccReg, IgnoreRequest, KeepNodes
<1>2. CASE OnStabilizeReg(n, t)
  BY <1>2 DEF OnStabilizeReg
<1>3. CASE OnLeaveRegGraceful(n, t) \/ OnLeaveRegFailed(n, t) \/ OnLeaveRegFreesTwice(n, t)
  BY <1>3 DEF OnLeaveRegGraceful, OnLeaveRegFailed, OnLeaveRegFreesTwice, Fault
<1>4. CASE OnUserReg(n, t) \/ OnRedRegister(n, t)
  BY <1>4 DEF OnUserReg, OnRedRegister
<1>. QED  BY <1>1, <1>2, <1>3, <1>4 DEF ReceiveRequest

LEMMA ResponseKeepsInc ==
    ASSUME NEW n, NEW t, ReceiveResponse(n, t)  PROVE inc' = inc
<1>1. CASE OnDiscoverOK(n, t) \/ OnJoinOK(n, t)
  BY <1>1 DEF OnDiscoverOK, OnJoinOK
<1>2. CASE OnFindSuccOK(n, t) \/ OnFindSuccRedirect(n, t)
  BY <1>2 DEF OnFindSuccOK, OnFindSuccRedirect, FollowRedirect, FingerFound
<1>3. CASE OnStabilizeOKFromSucc(n, t)
  BY <1>3 DEF OnStabilizeOKFromSucc
<1>4. CASE OnStabilizeOKFromPred(n, t) \/ OnStabilizeOKFromOther(n, t)
  BY <1>4 DEF OnStabilizeOKFromPred, OnStabilizeOKFromOther, Fault
<1>5. CASE OnUserRegRedirect(n, t)
  BY <1>5 DEF OnUserRegRedirect, Fault
<1>. QED  BY <1>1, <1>2, <1>3, <1>4, <1>5 DEF ReceiveResponse

LEMMA TimeoutKeepsInc ==
    ASSUME NEW n, NEW t, Timeout(n, t)  PROVE inc' = inc
BY DEF Timeout, OnNoNodeFind, OnLastNeighbourFailure, OnSuccessorFailure, OnOtherFailure

LEMMA OverlayKeepsInc ==
    ASSUME OverlayStep  PROVE inc' = inc
<1>1. ASSUME NEW n \in Nodes,
             StartFirst(n) \/ StartNode(n) \/ Leave(n) \/ Crash(n) \/ Stabilize(n)
      PROVE  inc' = inc
  BY <1>1 DEF StartFirst, StartNode, Leave, Crash, Stabilize
<1>2. ASSUME NEW t, HandleWhenFree(t)  PROVE inc' = inc
  <2>1. CASE IgnoreResponse(t) \/ LoseResponse(t) \/ EndUnanswered(t)
    BY <2>1 DEF IgnoreResponse, LoseResponse, EndUnanswered, KeepNodes
  <2>. QED  BY <1>2, <2>1, RequestKeepsInc, ResponseKeepsInc, TimeoutKeepsInc
            DEF HandleWhenFree
<1>. QED  BY <1>1, <1>2 DEF OverlayStep

(* Steps that leave the questions, the contacts and inc alone. *)
LEMMA NothingAsked ==
    ASSUME QInv, inc' = inc, UNCHANGED <<caller, adosip, user_contact, queries, asked>>
    PROVE  QInv'
BY DEF QInv, QTypes, ContactsAsked, ContactsComing, QueriesHonest, Honest

(* Steps of the application's thread that ask nobody. *)
LEMMA CallerMoves ==
    ASSUME QInv, inc' = inc, UNCHANGED <<adosip, user_contact, queries, asked>>,
           NEW n \in Nodes, NEW c \in Caller, caller' = [caller EXCEPT ![n] = c],
           c.step = "called" => c.user \in Users
    PROVE  QInv'
<1>1. QTypes'
  BY DEF QInv, QTypes
<1>2. ContactsAsked' /\ ContactsComing' /\ QueriesHonest'
  BY DEF QInv, ContactsAsked, ContactsComing, QueriesHonest, Honest
<1>. QED  BY <1>1, <1>2 DEF QInv

LEMMA BagDomainAdd ==
    ASSUME NEW q  PROVE DOMAIN (queries (+) SetToBag({q})) = DOMAIN queries \cup {q}
<1>1. DOMAIN (queries (+) SetToBag({q})) = DOMAIN queries \cup DOMAIN SetToBag({q})
  BY BagDomains, Zenon
<1>2. DOMAIN SetToBag({q}) = {q}
  BY BagDomains, Zenon
<1>. QED  BY <1>1, <1>2

LEMMA QuestionHonest ==
    ASSUME IInv, NEW n \in Nodes, NEW target, NEW u \in Users, u \in asked'[n], inc' = inc,
           NEW q, q = Question(n, target, u)
    PROVE  Honest(q)'
<1>1. inc[n] \in Nat
  BY NodeFacts DEF IInv
<1>2. q = [aor |-> u, src |-> n, inc |-> inc[n], dst |-> {target} \cap Nodes,
           phase |-> "request", contact |-> Nothing]
  BY DEF Question
<1>3. q \in Query
  BY <1>1, <1>2 DEF Query
<1>. QED  BY <1>1, <1>2, <1>3 DEF Honest

(* A question sent by n for u. *)
LEMMA SendQuestionStep ==
    ASSUME IInv, QInv, inc' = inc, NEW n \in Nodes, NEW u \in Users, SendQuestion(n, u)
    PROVE  /\ asked' \in [Nodes -> SUBSET Users]
           /\ \A m \in Nodes : asked[m] \subseteq asked'[m]
           /\ QueriesHonest'
<1>1. asked \in [Nodes -> SUBSET Users]
  BY DEF QInv, QTypes
<1>2. asked' = asked \/ asked' = [asked EXCEPT ![n] = @ \cup {u}]
  BY DEF SendQuestion
<1>3. /\ asked' \in [Nodes -> SUBSET Users]
      /\ \A m \in Nodes : asked[m] \subseteq asked'[m]
  BY <1>1, <1>2
<1>4. ASSUME NEW q \in DOMAIN queries  PROVE Honest(q)'
  BY <1>3, <1>4 DEF QInv, QueriesHonest, Honest, Query
<1>5. ASSUME queries' = queries  PROVE QueriesHonest'
  BY <1>4, <1>5 DEF QueriesHonest
<1>6. ASSUME queries' # queries  PROVE QueriesHonest'
  <2>1. PICK target : target = NextHop(n, u)
    OBVIOUS
  <2>2. PICK new : new = Question(n, target, u)
    OBVIOUS
  <2>3. /\ queries' = queries (+) SetToBag({new})
        /\ asked' = [asked EXCEPT ![n] = @ \cup {u}]
    BY <1>6, <2>1, <2>2 DEF SendQuestion
  <2>4. DOMAIN queries' = DOMAIN queries \cup {new}
    BY <2>3, BagDomainAdd
  <2>5. u \in asked'[n]
    BY <1>1, <2>3
  <2>6. Honest(new)'
    BY <2>2, <2>5, QuestionHonest
  <2>. QED  BY <1>4, <2>4, <2>6 DEF QueriesHonest
<1>. QED  BY <1>3, <1>5, <1>6

LEMMA CallerStepStep ==
    ASSUME IInv, QInv, NEW n \in Nodes, CallerStep(n)
    PROVE  QInv'
<1>1. inc' = inc
  BY CallerLeavesOverlay DEF vars
<1>2. caller[n] \in Caller /\ user_contact[n] \in Users \cup {Nothing}
  BY DEF QInv, QTypes
<1>3. IdleCaller \in Caller /\ IdleCaller.step = "idle"
  BY DEF IdleCaller, Caller
<1>4. CASE AnswerHere(n) \/ TimedOut(n) \/ EndCopy(n)
  <2>1. /\ caller' = [caller EXCEPT ![n] = IdleCaller]
        /\ UNCHANGED <<adosip, user_contact, queries, asked>>
    BY <1>4 DEF AnswerHere, TimedOut, EndCopy, Return, shared, history
  <2>. QED  BY <1>1, <1>3, <2>1, CallerMoves
<1>5. CASE BeginCopy(n)
  <2>1. PICK c \in Users \cup {Nothing, Torn} :
            caller' = [caller EXCEPT ![n].step = "copying", ![n].first = c]
    BY <1>2, <1>5 DEF BeginCopy
  <2>. DEFINE new == [caller[n] EXCEPT !.step = "copying", !.first = c]
  <2>2. new \in Caller /\ new.step = "copying"
    BY <1>2 DEF Caller
  <2>3. caller' = [caller EXCEPT ![n] = new]
    BY <2>1 DEF QInv, QTypes
  <2>4. UNCHANGED <<adosip, user_contact, queries, asked>>
    BY <1>5 DEF BeginCopy, shared, history
  <2>. HIDE DEF new
  <2>. QED  BY <1>1, <2>2, <2>3, <2>4, CallerMoves
<1>6. CASE AskOverlay(n)
  <2>1. /\ SendQuestion(n, caller[n].user) /\ caller[n].user \in Users
        /\ caller' = [caller EXCEPT ![n].step = "waiting"]
        /\ UNCHANGED <<adosip, user_contact>>
    BY <1>6 DEF AskOverlay, At, shared, QInv, QTypes
  <2>2. /\ asked' \in [Nodes -> SUBSET Users]
        /\ \A m \in Nodes : asked[m] \subseteq asked'[m]
        /\ QueriesHonest'
    BY <1>1, <2>1, SendQuestionStep
  <2>3. QTypes'
    BY <2>1, <2>2 DEF QInv, QTypes, Caller
  <2>4. ContactsAsked' /\ ContactsComing'
    BY <2>1, <2>2 DEF QInv, ContactsAsked, ContactsComing
  <2>. QED  BY <2>2, <2>3, <2>4 DEF QInv
<1>. QED  BY <1>4, <1>5, <1>6 DEF CallerStep

LEMMA ApplicationStep ==
    ASSUME IInv, QInv, NEW n \in Nodes, NEW u \in Users,
           Call(n, u) \/ Prompt(n, u) \/ PromptDies(n, u)
    PROVE  QInv'
<1>1. CASE Call(n, u)
  <2>. DEFINE new == [IdleCaller EXCEPT !.step = "called", !.user = u]
  <2>1. new \in Caller /\ new.user \in Users
    BY DEF IdleCaller, Caller
  <2>2. /\ caller' = [caller EXCEPT ![n] = new] /\ inc' = inc
        /\ UNCHANGED <<adosip, user_contact, queries, asked>>
    BY <1>1 DEF Call, vars, shared, history
  <2>. HIDE DEF new
  <2>. QED  BY <2>1, <2>2, CallerMoves
<1>2. CASE Prompt(n, u)
  <2>1. SendQuestion(n, u) /\ inc' = inc /\ UNCHANGED <<caller, adosip, user_contact>>
    BY <1>2 DEF Prompt, vars, shared
  <2>2. /\ asked' \in [Nodes -> SUBSET Users]
        /\ \A m \in Nodes : asked[m] \subseteq asked'[m]
        /\ QueriesHonest'
    BY <2>1, SendQuestionStep
  <2>3. QTypes' /\ ContactsAsked' /\ ContactsComing'
    BY <2>1, <2>2 DEF QInv, QTypes, ContactsAsked, ContactsComing
  <2>. QED  BY <2>2, <2>3 DEF QInv
<1>3. CASE PromptDies(n, u)
  <2>1. inc' = inc /\ UNCHANGED <<caller, adosip, user_contact, queries, asked>>
    BY <1>3 DEF PromptDies, Crash, shared, history
  <2>. QED  BY <2>1, NothingAsked
<1>. QED  BY <1>1, <1>2, <1>3

-----------------------------------------------------------------------------
(* What an answer brings. *)
LEMMA RespondHonest ==
    ASSUME QInv, NEW q \in DOMAIN queries, inc' = inc, asked' = asked,
           NEW phase \in {"ok", "redirect"}, NEW c \in Users \cup Cell,
           phase = "ok" => c = q.aor
    PROVE  \A r \in DOMAIN Respond(q, phase, c) : Honest(r)'
<1>1. Honest(q)
  BY DEF QInv, QueriesHonest
<1>. DEFINE r == [q EXCEPT !.phase = phase, !.dst = {}, !.contact = c]
<1>2. Honest(r)'
  BY <1>1 DEF Honest, Query
<1>. HIDE DEF r
<1>3. DOMAIN SetToBag({r}) = {r} /\ DOMAIN EmptyBag = {}
  BY BagDomains, Zenon
<1>. QED  BY <1>2, <1>3 DEF Respond, r

(* Honest questions in the place of an honest one. *)
LEMMA ReplacedHonest ==
    ASSUME QInv, NEW q, NEW qs, ReplaceQuery(q, qs), inc' = inc, asked' = asked,
           \A r \in DOMAIN qs : Honest(r)'
    PROVE  QueriesHonest'
<1>1. DOMAIN queries' \subseteq DOMAIN queries \cup DOMAIN qs
  BY QueryReplaced
<1>2. ASSUME NEW r \in DOMAIN queries  PROVE Honest(r)'
  BY <1>2 DEF QInv, QueriesHonest, Honest
<1>. QED  BY <1>1, <1>2 DEF QueriesHonest

LEMMA NothingHonest == \A r \in DOMAIN EmptyBag : Honest(r)'
<1>1. DOMAIN EmptyBag = {}
  BY BagDomains, Zenon
<1>. QED  BY <1>1

LEMMA NextHopIsCell ==
    ASSUME IInv, NEW n \in Nodes, NEW u \in Users  PROVE NextHop(n, u) \in Cell
<1>1. Hash[u] \in Id
  BY UsersAssumption
<1>. QED  BY <1>1, NodeFacts, ClosestPrecedingFingerType DEF NextHop, IInv

LEMMA AnswerStep ==
    ASSUME IInv, QInv, NEW q \in DOMAIN queries, NEW n \in Nodes, OnUserQuery(n, q)
    PROVE  QueriesHonest'
<1>1. inc' = inc /\ asked' = asked
  BY DEF OnUserQuery, QueryHandled, vars, history
<1>2. q.aor \in Users
  BY DEF QInv, QueriesHonest, Honest, Query
<1>3. CASE ReplaceQuery(q, EmptyBag)
  BY <1>1, <1>3, NothingHonest, ReplacedHonest
<1>4. ASSUME ReplaceQuery(q, Respond(q, "ok", q.aor))  PROVE QueriesHonest'
  <2>1. \A r \in DOMAIN Respond(q, "ok", q.aor) : Honest(r)'
    BY <1>1, <1>2, RespondHonest
  <2>. QED  BY <1>1, <1>4, <2>1, ReplacedHonest
<1>5. ASSUME ReplaceQuery(q, Respond(q, "redirect", NextHop(n, q.aor)))
      PROVE  QueriesHonest'
  <2>1. PICK next \in Cell : next = NextHop(n, q.aor)
    BY <1>2, NextHopIsCell
  <2>2. \A r \in DOMAIN Respond(q, "redirect", next) : Honest(r)'
    BY <1>1, <1>2, RespondHonest
  <2>3. ReplaceQuery(q, Respond(q, "redirect", next))
    BY <1>5, <2>1
  <2>. QED  BY <1>1, <2>2, <2>3, ReplacedHonest
<1>6. \/ ReplaceQuery(q, EmptyBag)
      \/ ReplaceQuery(q, Respond(q, "ok", q.aor))
      \/ ReplaceQuery(q, Respond(q, "redirect", NextHop(n, q.aor)))
  BY DEF OnUserQuery, RecordOf
<1>. QED  BY <1>3, <1>4, <1>5, <1>6

LEMMA RedirectStep ==
    ASSUME IInv, QInv, NEW q \in DOMAIN queries, OnUserQueryRedirect(q.src, q)
    PROVE  QueriesHonest'
<1>1. inc' = inc /\ asked' = asked
  BY DEF OnUserQueryRedirect, QueryHandled, vars, history
<1>2. q.src \in Nodes /\ q.aor \in Users /\ q.aor \in asked[q.src]
  BY DEF OnUserQueryRedirect, QueryReturns, QInv, QueriesHonest, Honest, Query
<1>3. PICK new : new = Question(q.src, q.contact, q.aor)
  OBVIOUS
<1>4. Honest(new)'
  BY <1>1, <1>2, <1>3, QuestionHonest
<1>5. DOMAIN SetToBag({new}) = {new}
  BY BagDomains, Zenon
<1>6. ReplaceQuery(q, SetToBag({new}))
  BY <1>3 DEF OnUserQueryRedirect
<1>. QED  BY <1>1, <1>4, <1>5, <1>6, ReplacedHonest

LEMMA QueryStepStep ==
    ASSUME IInv, QInv, NEW q \in DOMAIN queries, QueryStep(q)
    PROVE  QInv'
<1>1. Honest(q) /\ q \in Query
  BY DEF QInv, QueriesHonest, Honest
<1>2. CASE ClearContact(q.src, q)
  <2>1. /\ q.src \in Nodes /\ q.inc = inc[q.src] /\ q.phase = "ok"
        /\ inc' = inc /\ asked' = asked /\ ReplaceQuery(q, EmptyBag)
        /\ user_contact' = [user_contact EXCEPT ![q.src] = Nothing]
        /\ adosip' = [adosip EXCEPT ![q.src] = [step |-> "cleared", contact |-> q.contact]]
        /\ caller' = [caller EXCEPT
                          ![q.src].changed = @ \/ caller[q.src].step = "copying"]
    BY <1>1, <1>2 DEF ClearContact, QueryReturns, Query, vars, history
  <2>2. q.contact \in asked[q.src] /\ q.contact \in Users
    BY <1>1, <2>1 DEF Honest, Query
  <2>3. QueriesHonest'
    BY <2>1, NothingHonest, ReplacedHonest
  <2>. DEFINE before == caller[q.src]
              after == [before EXCEPT !.changed = @ \/ before.step = "copying"]
  <2>4. QTypes'
    <3>1. before \in Caller /\ (before.step = "called" => before.user \in Users)
      BY <2>1 DEF QInv, QTypes
    <3>2. (before.changed \/ before.step = "copying") \in BOOLEAN
      OBVIOUS
    <3>3. after \in Caller /\ after.step = before.step /\ after.user = before.user
      BY <3>1, <3>2 DEF Caller
    <3>4. caller' = [caller EXCEPT ![q.src] = after]
      BY <2>1
    <3>. HIDE DEF before, after
    <3>5. /\ caller' \in [Nodes -> Caller]
          /\ \A n \in Nodes : caller'[n].step = "called" => caller'[n].user \in Users
      BY <2>1, <3>1, <3>3, <3>4 DEF QInv, QTypes
    <3>6. adosip' \in [Nodes -> Adosip] /\ user_contact' \in [Nodes -> Users \cup {Nothing}]
      BY <2>1, <2>2 DEF QInv, QTypes, Adosip
    <3>. QED  BY <2>1, <3>5, <3>6 DEF QInv, QTypes
  <2>5. ContactsAsked' /\ ContactsComing'
    BY <2>1, <2>2 DEF QInv, QTypes, ContactsAsked, ContactsComing
  <2>. QED  BY <2>3, <2>4, <2>5 DEF QInv
<1>3. ASSUME QueriesHonest', UNCHANGED <<caller, adosip, user_contact, asked>>
      PROVE  QInv'
  BY <1>3 DEF QInv, QTypes, ContactsAsked, ContactsComing
<1>4. ASSUME NEW n \in q.dst, OnUserQuery(n, q)  PROVE QInv'
  <2>1. n \in Nodes
    BY <1>1, <1>4 DEF Query
  <2>2. QueriesHonest'
    BY <1>4, <2>1, AnswerStep
  <2>. QED  BY <1>3, <1>4, <2>2 DEF OnUserQuery, QueryHandled, shared, history
<1>5. CASE OnUserQueryRedirect(q.src, q)
  BY <1>3, <1>5, RedirectStep DEF OnUserQueryRedirect, QueryHandled, shared, history
<1>6. CASE EndQuery(q)
  <2>1. /\ inc' = inc /\ asked' = asked /\ ReplaceQuery(q, EmptyBag)
        /\ UNCHANGED <<caller, adosip, user_contact>>
    BY <1>6 DEF EndQuery, QueryHandled, vars, shared, history
  <2>2. QueriesHonest'
    BY <2>1, NothingHonest, ReplacedHonest
  <2>. QED  BY <1>3, <2>1, <2>2
<1>. QED  BY <1>2, <1>4, <1>5, <1>6 DEF QueryStep

LEMMA AdosipStepStep ==
    ASSUME QInv, NEW n \in Nodes, AdosipStep(n)
    PROVE  QInv'
<1>1. /\ inc' = inc /\ queries' = queries /\ asked' = asked
      /\ adosip[n] \in Adosip /\ adosip[n].contact \in asked[n] \cup {Nothing}
      /\ caller[n] \in Caller
  BY DEF AdosipStep, StoreContact, SignalContact, vars, history, QInv, QTypes, ContactsComing
<1>2. QueriesHonest'
  BY <1>1 DEF QInv, QueriesHonest, Honest
<1>3. CASE StoreContact(n)
  <2>. DEFINE before == caller[n]
              after == [before EXCEPT !.changed = @ \/ before.step = "copying"]
              writer == [adosip[n] EXCEPT !.step = "stored"]
  <2>1. /\ user_contact' = [user_contact EXCEPT ![n] = adosip[n].contact]
        /\ adosip' = [adosip EXCEPT ![n] = writer]
        /\ caller' = [caller EXCEPT ![n] = after]
    BY <1>3 DEF StoreContact, QInv, QTypes
  <2>2. writer \in Adosip /\ writer.contact = adosip[n].contact
    BY <1>1 DEF Adosip
  <2>3. (before.changed \/ before.step = "copying") \in BOOLEAN
    OBVIOUS
  <2>4. after \in Caller /\ after.step = before.step /\ after.user = before.user
    BY <1>1, <2>3 DEF Caller
  <2>. HIDE DEF after, writer
  <2>5. QTypes'
    BY <1>1, <2>1, <2>2, <2>4 DEF QInv, QTypes, Adosip
  <2>6. ContactsAsked' /\ ContactsComing'
    BY <1>1, <2>1, <2>2 DEF QInv, QTypes, ContactsAsked, ContactsComing
  <2>. QED  BY <1>2, <2>5, <2>6 DEF QInv
<1>4. CASE SignalContact(n)
  <2>1. FreeAdosip \in Adosip /\ FreeAdosip.contact = Nothing
    BY DEF FreeAdosip, Adosip
  <2>2. adosip' = [adosip EXCEPT ![n] = FreeAdosip] /\ UNCHANGED <<caller, user_contact>>
    BY <1>4 DEF SignalContact
  <2>. QED  BY <1>1, <1>2, <2>1, <2>2 DEF QInv, QTypes, ContactsAsked, ContactsComing
<1>. QED  BY <1>3, <1>4 DEF AdosipStep

(* A new process has asked nothing, and no question is its own. *)
LEMMA RestartStep ==
    ASSUME IInv, QInv, NEW n \in Nodes, Restart(n)
    PROVE  QInv'
<1>1. /\ inc' = [inc EXCEPT ![n] = @ + 1]
      /\ asked' = [asked EXCEPT ![n] = {}]
      /\ adosip' = [adosip EXCEPT ![n] = FreeAdosip]
      /\ caller' = [caller EXCEPT ![n] = IdleCaller]
      /\ user_contact' = [user_contact EXCEPT ![n] = Nothing]
      /\ queries' = queries
  BY DEF Restart, Boot
<1>2. IdleCaller \in Caller /\ FreeAdosip \in Adosip
  BY DEF IdleCaller, FreeAdosip, Caller, Adosip
<1>3. QTypes' /\ ContactsAsked' /\ ContactsComing'
  BY <1>1, <1>2 DEF QInv, QTypes, ContactsAsked, ContactsComing, IdleCaller, FreeAdosip
<1>4. ASSUME NEW q \in DOMAIN queries  PROVE Honest(q)'
  <2>1. Honest(q) /\ q.src \in Nodes /\ q.inc \in Nat
    BY DEF QInv, QueriesHonest, Honest, Query
  <2>2. inc[n] \in Nat /\ inc \in [Nodes -> Nat]
    BY NodeFacts DEF IInv, NodesOK
  <2>. QED  BY <1>1, <2>1, <2>2 DEF Honest, QInv, QTypes
<1>. QED  BY <1>1, <1>3, <1>4 DEF QInv, QueriesHonest

LEMMA QueryNextStep ==
    ASSUME IInv, QInv, [QueryNext]_qvars  PROVE QInv'
<1>1. CASE OverlayStep
  BY <1>1, OverlayKeepsInc, NothingAsked DEF OverlayStep, queryVars, shared, history
<1>2. ASSUME NEW n \in Nodes, NEW u \in Users, Register(n, u)  PROVE QInv'
  BY <1>2, NothingAsked DEF Register, RegisterUser, shared
<1>3. ASSUME NEW n \in Nodes, Restart(n) \/ CallerStep(n) \/ AdosipStep(n)  PROVE QInv'
  BY <1>3, RestartStep, CallerStepStep, AdosipStepStep
<1>4. ASSUME NEW n \in Askers, NEW u \in Users, Call(n, u) \/ Prompt(n, u) \/ PromptDies(n, u)
      PROVE  QInv'
  BY <1>4, QueryAssumption, ApplicationStep
<1>5. ASSUME NEW q \in DOMAIN queries, QueryStep(q)  PROVE QInv'
  BY <1>5, QueryStepStep
<1>6. CASE UNCHANGED qvars
  BY <1>6, NothingAsked DEF qvars, vars, queryVars, shared, history
<1>. QED  BY <1>1, <1>2, <1>3, <1>4, <1>5, <1>6 DEF QueryNext

(* What is in user_contact is the contact of a user this process asked     *)
(* for: no answer to an earlier process and no record of another user gets *)
(* there (onUserQuery, onUserQueryOK, Node::~Node).                        *)
THEOREM ContactsOnlyOfAsked == QuerySpec => []ContactsAsked
<1>1. Init /\ QueryInit => QInv
  BY QueryInitStep
<1>2. IInv /\ QInv /\ [QueryNext]_<<vars, queryVars>> => QInv'
  BY QueryNextStep DEF qvars
<1>3. QInv => ContactsAsked
  BY DEF QInv
<1>4. QuerySpec => []IInv
  BY QueriesAreExtra, Inductive, PTL
<1>. QED  BY <1>1, <1>2, <1>3, <1>4, PTL DEF QuerySpec
=============================================================================

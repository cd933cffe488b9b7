--------------------------- MODULE UserLookup_proofs ---------------------------
(***************************************************************************)
(* UserQuery implements UserLookup: what an application gets from          *)
(* si2p_query_user was registered, and this very process asked for it or   *)
(* has it itself; and as long as it asked once, the text is whole.         *)
(*                                                                         *)
(* The argument is that of OneAnswerPerQuestion: after one question there  *)
(* is the question, or its answer at work in onUserQueryOK, or its byte in *)
(* the pipe, and never two of them.                                        *)
(***************************************************************************)
EXTENDS UserQuery_proofs

(* Every record was registered: those kept, and those on their way. *)
Recorded ==
    /\ registered \subseteq Users
    /\ \A n \in Nodes : DOMAIN users[n] \cup DOMAIN red[n] \cup local[n] \subseteq registered
    /\ \A t \in DOMAIN net : t.type \in UserTypes => t.to \in registered

(* So was every contact: those answers bring and those adosip copies. *)
ContactsRegistered ==
    /\ \A q \in DOMAIN queries : q.phase = "ok" => q.contact \in registered
    /\ \A n \in Nodes :
           /\ user_contact[n] \in registered \cup {Nothing}
           /\ adosip[n].step = "free" \/ adosip[n].contact \in registered

(* The questions of the process that n is now. *)
Open(n) == {q \in QueriesOf(n) : q.inc = inc[n]}

(* One question, in one copy. *)
Alone(n) == \E q \in DOMAIN queries : Open(n) = {q} /\ queries[q] = 1

Copying(n) == caller[n].step = "copying"

CallerOK(n) ==
    /\ caller[n].step = "idle" => caller[n] = IdleCaller
    /\ caller[n].step # "idle" => caller[n].user \in Users
    /\ ~ Copying(n) => ~ caller[n].changed
    /\ Copying(n) => /\ asks[n] > 0
                     /\ caller[n].first \in (asked[n] \cap registered) \cup {Nothing, Torn}

NothingOpen(n) == Open(n) = {} /\ user_info_pipe[n] = 0 /\ Free(n)

(* The question is on its way; or its answer is at work; or its byte is in *)
(* the pipe, or it ended without.                                          *)
Asking(n) == Alone(n) /\ user_info_pipe[n] = 0 /\ Free(n)

Answering(n) ==
    /\ Open(n) = {} /\ user_info_pipe[n] = 0 /\ ~ Free(n)
    /\ adosip[n].step = "stored" => user_contact[n] # Nothing

Answered(n) == Open(n) = {} /\ user_info_pipe[n] = 1 /\ Free(n) /\ user_contact[n] # Nothing

AskedOnce(n) ==
    \/ (Asking(n) \/ Answering(n) \/ NothingOpen(n)) /\ ~ Copying(n)
    \/ /\ Answered(n)
       /\ Copying(n) => ~ caller[n].changed /\ caller[n].first \notin {Nothing, Torn}

AsksOK(n) ==
    /\ asks[n] = 0 => NothingOpen(n) /\ asked[n] = {}
    /\ asks[n] = 1 => AskedOnce(n)

Numbers == asks \in [Nodes -> Nat] /\ user_info_pipe \in [Nodes -> Nat]

LookInv ==
    /\ Recorded
    /\ ContactsRegistered
    /\ Numbers
    /\ \A n \in Nodes : CallerOK(n) /\ AsksOK(n)

-----------------------------------------------------------------------------
(* Records: a handler moves them and copies them, and makes none up.       *)
RecordsIn(R) == \A n \in Nodes : DOMAIN users[n] \cup DOMAIN red[n] \cup local[n] \subseteq R

Carries(S, R) == \A t \in S : t.type \in UserTypes => t.to \in R

LEMMA AddedCarries ==
    ASSUME NEW R, NEW S, Carries(DOMAIN net, R), Carries(S, R), net' = net (+) SetToBag(S)
    PROVE  Carries(DOMAIN net', R)
<1>1. DOMAIN net' = DOMAIN net \cup DOMAIN SetToBag(S) /\ DOMAIN SetToBag(S) = S
  BY BagDomains, Zenon
<1>. QED  BY <1>1 DEF Carries

LEMMA SumCarries ==
    ASSUME NEW R, NEW ts, Carries(DOMAIN net, R), Carries(DOMAIN ts, R), net' = net (+) ts
    PROVE  Carries(DOMAIN net', R)
<1>1. DOMAIN net' = DOMAIN net \cup DOMAIN ts
  BY BagDomains, Zenon
<1>. QED  BY <1>1 DEF Carries

LEMMA ReplacedCarries ==
    ASSUME NEW R, NEW t, NEW ts, Carries(DOMAIN net, R), Carries(DOMAIN ts, R), Replace(t, ts)
    PROVE  Carries(DOMAIN net', R)
BY ReplaceDomain DEF Carries

LEMMA BagsCarry ==
    ASSUME NEW R
    PROVE  /\ Carries(DOMAIN EmptyBag, R)
           /\ \A S : Carries(S, R) => Carries(DOMAIN SetToBag(S), R)
           /\ \A B, C : Carries(DOMAIN B, R) /\ Carries(DOMAIN C, R)
                            => Carries(DOMAIN (B (+) C), R)
<1>1. Carries(DOMAIN EmptyBag, R)
  <2>1. DOMAIN EmptyBag = {}
    BY BagDomains, Zenon
  <2>. QED  BY <2>1 DEF Carries
<1>2. ASSUME NEW S, Carries(S, R)  PROVE Carries(DOMAIN SetToBag(S), R)
  <2>1. DOMAIN SetToBag(S) = S
    BY BagDomains, Zenon
  <2>. QED  BY <1>2, <2>1
<1>3. ASSUME NEW B, NEW C, Carries(DOMAIN B, R), Carries(DOMAIN C, R)
      PROVE  Carries(DOMAIN (B (+) C), R)
  <2>1. DOMAIN (B (+) C) = DOMAIN B \cup DOMAIN C
    BY BagDomains, Zenon
  <2>. QED  BY <1>3, <2>1 DEF Carries
<1>. QED  BY <1>1, <1>2, <1>3

LEMMA RequestsCarry ==
    ASSUME NEW R, NEW n, NEW target
    PROVE  /\ \A type \in Types \ UserTypes : \A to : Carries({Request(type, n, target, to)}, R)
           /\ \A type : \A u \in R : Carries({Request(type, n, target, u)}, R)
           /\ \A type, list : DOMAIN list \subseteq R
                                 => Carries(DOMAIN UserRequests(type, n, target, list), R)
           /\ \A list : DOMAIN list \subseteq R
                           => Carries(DOMAIN RedundantCopies(n, target, list), R)
           /\ \A to, s, p : Carries({LeaveRequest(n, target, to, s, p)}, R)
           /\ \A s, p : /\ Carries(StabilizeRequests(n, s, p), R)
                        /\ Carries(NotifyRequests(n, s, p), R)
           /\ \A s, k : Carries(DOMAIN LookupFinger(n, s, k), R)
<1>1. \A type, to, v : /\ Request(type, n, v, to).type = type
                       /\ Request(type, n, v, to).to = to
  BY DEF Request
<1>2. \A type \in Types \ UserTypes : \A to : Carries({Request(type, n, target, to)}, R)
  BY <1>1 DEF Carries
<1>3. \A type : \A u \in R : Carries({Request(type, n, target, u)}, R)
  BY <1>1 DEF Carries
<1>4. ASSUME NEW type, NEW list, DOMAIN list \subseteq R
      PROVE  Carries(DOMAIN UserRequests(type, n, target, list), R)
  <2>1. \A r \in DOMAIN UserRequests(type, n, target, list) :
            \E u \in DOMAIN list : r = Request(type, n, target, u)
    BY DEF UserRequests
  <2>. QED  BY <1>1, <1>4, <2>1 DEF Carries
<1>5. ASSUME NEW list, DOMAIN list \subseteq R
      PROVE  Carries(DOMAIN RedundantCopies(n, target, list), R)
  BY <1>4, <1>5, BagsCarry DEF RedundantCopies
<1>6. ASSUME NEW to, NEW s, NEW p  PROVE Carries({LeaveRequest(n, target, to, s, p)}, R)
  <2>1. LeaveRequest(n, target, to, s, p).type = "leave"
    BY DEF LeaveRequest, Request
  <2>. QED  BY <2>1 DEF Carries, UserTypes
<1>7. ASSUME NEW s, NEW p
      PROVE  Carries(StabilizeRequests(n, s, p), R) /\ Carries(NotifyRequests(n, s, p), R)
  BY <1>1 DEF Carries, StabilizeRequests, StabilizeRequest, NotifyRequests, UserTypes
<1>8. ASSUME NEW s, NEW k  PROVE Carries(DOMAIN LookupFinger(n, s, k), R)
  <2>1. Carries({Request("findsucc", n, s[0], Start(n, k))}, R)
    BY <1>1 DEF Carries, UserTypes
  <2>. QED  BY <2>1, BagsCarry DEF LookupFinger
<1>. QED  BY <1>2, <1>3, <1>4, <1>5, <1>6, <1>7, <1>8

(* A transaction that changes its phase, its receivers and its answer      *)
(* carries what it carried.                                                *)
LEMMA UpdatesCarry ==
    ASSUME NEW R, NEW t \in Fine, Carries({t}, R)
    PROVE  /\ \A phase, contacts, p : Carries(DOMAIN Answer(t, phase, contacts, p), R)
           /\ \A n : Carries(DOMAIN Unanswered(t, n), R)
           /\ \A phase, dst, contacts, p :
                  Carries({[t EXCEPT !.phase = phase, !.dst = dst, !.contacts = contacts,
                                     !.predecessor = p]}, R)
<1>1. ASSUME NEW phase, NEW dst, NEW contacts, NEW p
      PROVE  Carries({[t EXCEPT !.phase = phase, !.dst = dst, !.contacts = contacts,
                                !.predecessor = p]}, R)
  <2>. DEFINE a == [t EXCEPT !.phase = phase, !.dst = dst, !.contacts = contacts,
                             !.predecessor = p]
  <2>1. a.type = t.type /\ a.to = t.to
    BY DEF Fine, Transaction, TransactionOf
  <2>. QED  BY <2>1 DEF Carries
<1>2. ASSUME NEW phase, NEW contacts, NEW p
      PROVE  Carries(DOMAIN Answer(t, phase, contacts, p), R)
  BY <1>1, BagsCarry DEF Answer
<1>3. ASSUME NEW n  PROVE Carries(DOMAIN Unanswered(t, n), R)
  <2>. DEFINE a == [t EXCEPT !.dst = @ \ {n}]
  <2>1. a.type = t.type /\ a.to = t.to
    BY DEF Fine, Transaction, TransactionOf
  <2>2. Carries({a}, R)
    BY <2>1 DEF Carries
  <2>. QED  BY <2>2, BagsCarry DEF Unanswered
<1>. QED  BY <1>1, <1>2, <1>3

(* One node's records change, and all that it has then were registered. *)
LEMMA RecordsMoved ==
    ASSUME NodesOK, NEW R, RecordsIn(R), NEW n \in Nodes,
           NEW us, NEW rs, NEW ls \in SUBSET R, DOMAIN us \subseteq R, DOMAIN rs \subseteq R,
           users' = users \/ users' = [users EXCEPT ![n] = us],
           red' = red \/ red' = [red EXCEPT ![n] = rs],
           local' = local \/ local' = [local EXCEPT ![n] = ls]
    PROVE  RecordsIn(R)'
<1>. SUFFICES ASSUME NEW m \in Nodes
              PROVE  /\ DOMAIN users'[m] \subseteq R /\ DOMAIN red'[m] \subseteq R
                     /\ local'[m] \subseteq R
  BY DEF RecordsIn
<1>0. users = [i \in Nodes |-> users[i]] /\ red = [i \in Nodes |-> red[i]]
  BY DEF NodesOK, RecordLists
<1>1. DOMAIN users[m] \subseteq R /\ DOMAIN red[m] \subseteq R /\ local[m] \subseteq R
  BY DEF RecordsIn
<1>2. users'[m] = users[m] \/ users'[m] = us
  BY <1>0
<1>3. red'[m] = red[m] \/ red'[m] = rs
  BY <1>0
<1>4. local'[m] \in {local[m], ls}
  BY DEF NodesOK
<1>. QED  BY <1>1, <1>2, <1>3, <1>4

(* A node's lists are emptied, if at all. *)
LEMMA RecordsGone ==
    ASSUME NodesOK, NEW R, RecordsIn(R), NEW n \in Nodes,
           users' = users \/ users' = [users EXCEPT ![n] = EmptyBag],
           red' = red \/ red' = [red EXCEPT ![n] = EmptyBag],
           local' = local \/ local' = [local EXCEPT ![n] = {}]
    PROVE  RecordsIn(R)'
<1>1. PICK none, empty : none = EmptyBag /\ empty = {}
  OBVIOUS
<1>2. DOMAIN none \subseteq R /\ empty \in SUBSET R
  BY <1>1, BagDomains
<1>3. /\ users' = users \/ users' = [users EXCEPT ![n] = none]
      /\ red' = red \/ red' = [red EXCEPT ![n] = none]
      /\ local' = local \/ local' = [local EXCEPT ![n] = empty]
  BY <1>1
<1>. QED  BY <1>2, <1>3, RecordsMoved

(* One more record. *)
LEMMA OneMoreIn ==
    ASSUME NEW R, NEW u \in R, NEW list, DOMAIN list \subseteq R
    PROVE  DOMAIN (list (+) SetToBag({u})) \subseteq R
<1>1. DOMAIN (list (+) SetToBag({u})) = DOMAIN list \cup DOMAIN SetToBag({u})
  BY BagDomains, Zenon
<1>2. DOMAIN SetToBag({u}) = {u}
  BY BagDomains, Zenon
<1>. QED  BY <1>1, <1>2

(* Module Registry. *)
LEMMA RegistryCarries ==
    ASSUME IInv, NEW R, RecordsIn(R), Carries(DOMAIN net, R), NEW n \in Nodes,
           \/ \E u \in Users \cap R : RegisterUser(n, u)
           \/ \E t \in DOMAIN net : OnUserReg(n, t) \/ OnUserRegRedirect(n, t)
                                        \/ OnRedRegister(n, t)
    PROVE  RecordsIn(R)' /\ Carries(DOMAIN net', R)
<1>. USE DEF IInv
<1>0. NodesOK /\ DOMAIN users[n] \subseteq R /\ DOMAIN red[n] \subseteq R /\ local[n] \subseteq R
  BY DEF RecordsIn
<1>1. ASSUME NEW u \in Users \cap R, RegisterUser(n, u)
      PROVE  RecordsIn(R)' /\ Carries(DOMAIN net', R)
  <2>1. RecordsIn(R)'
    <3>1. /\ local' = [local EXCEPT ![n] = @ \cup {u}]
          /\ users' = users \/ users' = [users EXCEPT ![n] = @ (+) SetToBag({u})]
          /\ red' = red \/ red' = [red EXCEPT ![n] = @ (+) SetToBag({u})]
      BY <1>1 DEF RegisterUser
    <3>2. PICK us, rs, ls : /\ us = users[n] (+) SetToBag({u})
                            /\ rs = red[n] (+) SetToBag({u}) /\ ls = local[n] \cup {u}
      OBVIOUS
    <3>3. DOMAIN us \subseteq R /\ DOMAIN rs \subseteq R /\ ls \in SUBSET R
      BY <1>0, <1>1, <3>2, OneMoreIn
    <3>. QED  BY <1>0, <3>1, <3>2, <3>3, RecordsMoved
  <2>2. CASE Owns(n, u)
    <3>1. PICK copies : /\ copies = RedundantCopies(n, succ[n][0], SetToBag({u}))
                        /\ net' = net (+) copies
      BY <1>1, <2>2 DEF RegisterUser
    <3>2. DOMAIN SetToBag({u}) = {u}
      BY BagDomains, Zenon
    <3>3. Carries(DOMAIN copies, R)
      BY <3>1, <3>2, RequestsCarry
    <3>. QED  BY <2>1, <3>1, <3>3, SumCarries
  <2>3. CASE ~ Owns(n, u)
    <3>1. PICK next : net' = net (+) SetToBag({Request("user_registration", n, next, u)})
      BY <1>1, <2>3 DEF RegisterUser
    <3>2. Carries({Request("user_registration", n, next, u)}, R)
      BY RequestsCarry
    <3>. QED  BY <2>1, <3>1, <3>2, AddedCarries
  <2>. QED  BY <2>2, <2>3
<1>2. ASSUME NEW t \in DOMAIN net, OnUserReg(n, t) \/ OnUserRegRedirect(n, t) \/ OnRedRegister(n, t)
      PROVE  RecordsIn(R)' /\ Carries(DOMAIN net', R)
  <2>1. t \in Fine /\ t.type \in UserTypes /\ t.to \in R /\ Carries({t}, R)
    BY <1>2 DEF OnUserReg, OnUserRegRedirect, OnRedRegister, Arrives, Returns, Carries,
        UserTypes
  <2>2. RecordsIn(R)'
    <3>1. /\ local' = local
          /\ users' = users \/ users' = [users EXCEPT ![n] = @ (+) SetToBag({t.to})]
          /\ red' = red \/ red' = [red EXCEPT ![n] = @ (+) SetToBag({t.to})]
      BY <1>2 DEF OnUserReg, OnUserRegRedirect, OnRedRegister, Fault, records
    <3>2. PICK us, rs, ls : /\ us = users[n] (+) SetToBag({t.to})
                            /\ rs = red[n] (+) SetToBag({t.to}) /\ ls = local[n]
      OBVIOUS
    <3>3. DOMAIN us \subseteq R /\ DOMAIN rs \subseteq R /\ ls \in SUBSET R
      BY <1>0, <2>1, <3>2, OneMoreIn
    <3>. QED  BY <1>0, <3>1, <3>2, <3>3, RecordsMoved
  <2>3. CASE Replace(t, EmptyBag)
    BY <2>2, <2>3, BagsCarry, ReplacedCarries
  <2>4. ASSUME NEW S, Replace(t, SetToBag(S)), Carries(S, R)  PROVE Carries(DOMAIN net', R)
    BY <2>4, BagsCarry, ReplacedCarries
  <2>5. CASE OnUserReg(n, t)
    <3>1. CASE Owns(n, t.to)
      <4>1. PICK copies : /\ copies = RedundantCopies(n, succ[n][0], SetToBag({t.to}))
                          /\ Replace(t, copies)
        BY <2>5, <3>1 DEF OnUserReg
      <4>2. DOMAIN SetToBag({t.to}) = {t.to}
        BY BagDomains, Zenon
      <4>3. Carries(DOMAIN copies, R)
        BY <2>1, <4>1, <4>2, RequestsCarry
      <4>. QED  BY <2>2, <4>1, <4>3, ReplacedCarries
    <3>2. CASE ~ Owns(n, t.to)
      <4>1. PICK contacts : \/ Replace(t, EmptyBag)
                            \/ Replace(t, Answer(t, "redirect", contacts, EmptyChordId))
        BY <2>5, <3>2 DEF OnUserReg
      <4>2. Carries(DOMAIN Answer(t, "redirect", contacts, EmptyChordId), R)
        BY <2>1, UpdatesCarry
      <4>. QED  BY <2>2, <2>3, <4>1, <4>2, ReplacedCarries
    <3>. QED  BY <3>1, <3>2
  <2>6. CASE OnUserRegRedirect(n, t)
    <3>1. PICK target : \/ Replace(t, EmptyBag)
                        \/ Replace(t, SetToBag({Request("user_registration", n, target, t.to)}))
      BY <2>6 DEF OnUserRegRedirect
    <3>2. Carries({Request("user_registration", n, target, t.to)}, R)
      BY <2>1, RequestsCarry
    <3>. QED  BY <2>2, <2>3, <2>4, <3>1, <3>2
  <2>7. CASE OnRedRegister(n, t)
    BY <2>3, <2>7 DEF OnRedRegister
  <2>. QED  BY <1>2, <2>5, <2>6, <2>7
<1>. QED  BY <1>1, <1>2

(* Module Joining: no record moves, and no request carries one. *)
LEMMA RecordsStay ==
    ASSUME NEW R, RecordsIn(R), UNCHANGED records  PROVE RecordsIn(R)'
BY DEF RecordsIn, records

LEMMA LookupCarries ==
    ASSUME NEW R, NEW t \in Fine, Carries({t}, R), NEW n, NEW ok, Carries(DOMAIN ok, R)
    PROVE  Carries(DOMAIN Lookup(n, t, ok), R)
<1>1. PICK contacts : Lookup(n, t, ok) \in {ok, EmptyBag, Answer(t, "redirect", contacts, EmptyChordId)}
  BY DEF Lookup
<1>2. Carries(DOMAIN Answer(t, "redirect", contacts, EmptyChordId), R)
  BY UpdatesCarry
<1>. QED  BY <1>1, <1>2, BagsCarry

LEMMA JoiningCarries ==
    ASSUME IInv, NEW R, Carries(DOMAIN net, R), NEW n,
           NEW t \in DOMAIN net,
           \/ OnDiscoverReg(n, t) \/ OnDiscoverOK(n, t) \/ OnNoNodeFind(n, t)
           \/ OnJoinReg(n, t) \/ OnFindSuccReg(n, t) \/ OnJoinOK(n, t)
           \/ OnFindSuccOK(n, t) \/ OnFindSuccRedirect(n, t)
    PROVE  UNCHANGED records /\ Carries(DOMAIN net', R)
<1>0. t \in Fine /\ Carries({t}, R)
  BY DEF IInv, Carries
<1>1. ASSUME NEW type \in {"join", "findsucc"}, NEW target, NEW to,
             Replace(t, SetToBag({Request(type, n, target, to)}))
      PROVE  Carries(DOMAIN net', R)
  <2>1. Carries({Request(type, n, target, to)}, R)
    BY RequestsCarry DEF Types, UserTypes
  <2>. QED  BY <1>1, <2>1, BagsCarry, ReplacedCarries
<1>2. ASSUME NEW s, NEW p, Replace(t, SetToBag(NotifyRequests(n, s, p)))
      PROVE  Carries(DOMAIN net', R)
  BY <1>2, RequestsCarry, BagsCarry, ReplacedCarries
<1>3. ASSUME Replace(t, EmptyBag)  PROVE Carries(DOMAIN net', R)
  BY <1>3, BagsCarry, ReplacedCarries
<1>4. CASE OnDiscoverReg(n, t)
  <2>1. PICK contacts : Replace(t, Answer(t, "ok", contacts, EmptyChordId))
    BY <1>4 DEF OnDiscoverReg
  <2>2. Carries(DOMAIN Answer(t, "ok", contacts, EmptyChordId), R)
    BY <1>0, UpdatesCarry
  <2>. QED  BY <1>4, <2>1, <2>2, ReplacedCarries DEF OnDiscoverReg
<1>5. CASE OnDiscoverOK(n, t)
  <2>1. PICK first : Replace(t, SetToBag({Request("join", n, first, first)}))
    BY <1>5 DEF OnDiscoverOK, JoinRequest
  <2>. QED  BY <1>1, <1>5, <2>1 DEF OnDiscoverOK
<1>6. CASE OnNoNodeFind(n, t)
  BY <1>3, <1>6 DEF OnNoNodeFind
<1>7. CASE OnJoinReg(n, t) \/ OnFindSuccReg(n, t)
  <2>1. PICK contacts, p : Replace(t, Lookup(n, t, Answer(t, "ok", contacts, p)))
    BY <1>7 DEF OnJoinReg, OnFindSuccReg
  <2>2. Carries(DOMAIN Answer(t, "ok", contacts, p), R)
    BY <1>0, UpdatesCarry
  <2>3. Carries(DOMAIN Lookup(n, t, Answer(t, "ok", contacts, p)), R)
    BY <1>0, <2>2, LookupCarries
  <2>. QED  BY <1>7, <2>1, <2>3, ReplacedCarries DEF OnJoinReg, OnFindSuccReg
<1>8. CASE OnJoinOK(n, t)
  <2>1. PICK target, to, s, p : \/ Replace(t, SetToBag({Request("findsucc", n, target, to)}))
                                \/ Replace(t, SetToBag(NotifyRequests(n, s, p)))
    BY <1>8 DEF OnJoinOK
  <2>. QED  BY <1>1, <1>2, <1>8, <2>1 DEF OnJoinOK
<1>9. ASSUME NEW v, FingerFound(n, t, v)
      PROVE  UNCHANGED records /\ Carries(DOMAIN net', R)
  <2>1. PICK target, to, s, p : \/ Replace(t, SetToBag({Request("findsucc", n, target, to)}))
                                \/ Replace(t, SetToBag(NotifyRequests(n, s, p)))
                                \/ Replace(t, EmptyBag)
    BY <1>9, Zenon DEF FingerFound
  <2>. QED  BY <1>1, <1>2, <1>3, <1>9, <2>1 DEF FingerFound
<1>10. CASE OnFindSuccOK(n, t)
  BY <1>9, <1>10 DEF OnFindSuccOK
<1>11. CASE OnFindSuccRedirect(n, t)
  <2>1. PICK contact : FollowRedirect(n, t, contact)
    BY <1>11 DEF OnFindSuccRedirect
  <2>. QED  BY <1>1, <1>9, <2>1 DEF FollowRedirect
<1>. QED  BY <1>4, <1>5, <1>6, <1>7, <1>8, <1>10, <1>11

(* Module Stabilization: records go to a nearer predecessor, to the        *)
(* successor of a node that leaves, and from the copies to the records.    *)
LEMMA TransferCarries ==
    ASSUME IInv, NEW R, RecordsIn(R), NEW n \in Nodes, NEW p
    PROVE  /\ Carries(DOMAIN TransferRequests(n, p), R)
           /\ TransferUserInfoToPred(n, p) => RecordsIn(R)'
<1>1. NodesOK /\ DOMAIN users[n] \subseteq R /\ DOMAIN red[n] \subseteq R /\ local[n] \subseteq R
  BY DEF IInv, RecordsIn
<1>2. DOMAIN Misplaced(n, p) \subseteq DOMAIN users[n]
  BY DEF Misplaced
<1>3. PICK moved, copies : /\ moved = UserRequests("user_registration", n, p, Misplaced(n, p))
                           /\ copies = UserRequests("red_register", n, p, red[n])
  OBVIOUS
<1>4. Carries(DOMAIN copies, R) /\ Carries(DOMAIN moved, R)
  BY <1>1, <1>2, <1>3, RequestsCarry
<1>5. TransferRequests(n, p) = copies (+) moved
  BY <1>3 DEF TransferRequests
<1>6. ASSUME TransferUserInfoToPred(n, p)  PROVE RecordsIn(R)'
  <2>1. PICK kept, none : kept = users[n] (-) Misplaced(n, p) /\ none = EmptyBag
    OBVIOUS
  <2>2. /\ users' = [users EXCEPT ![n] = kept] /\ red' = [red EXCEPT ![n] = none]
        /\ local' = local
    BY <1>6, <2>1 DEF TransferUserInfoToPred
  <2>3. DOMAIN kept \subseteq R /\ DOMAIN none \subseteq R
    BY <1>1, <2>1, BagDomains
  <2>. QED  BY <1>1, <2>2, <2>3, RecordsMoved
<1>. QED  BY <1>4, <1>5, <1>6, BagsCarry

LEMMA AdoptedIn ==
    ASSUME IInv, NEW R, RecordsIn(R), NEW n \in Nodes, AdoptCopies(n), UNCHANGED local
    PROVE  RecordsIn(R)'
<1>1. NodesOK /\ DOMAIN users[n] \subseteq R /\ DOMAIN red[n] \subseteq R
  BY DEF IInv, RecordsIn
<1>2. PICK us, none : us = users[n] (+) red[n] /\ none = EmptyBag
  OBVIOUS
<1>3. users' = [users EXCEPT ![n] = us] /\ red' = [red EXCEPT ![n] = none]
  BY <1>2 DEF AdoptCopies
<1>4. DOMAIN (users[n] (+) red[n]) = DOMAIN users[n] \cup DOMAIN red[n]
  BY BagDomains, Zenon
<1>5. DOMAIN us \subseteq R /\ DOMAIN none \subseteq R
  BY <1>1, <1>2, <1>4, BagDomains
<1>. QED  BY <1>1, <1>3, <1>5, RecordsMoved

LEMMA StabilizeAnswerCarries ==
    ASSUME IInv, NEW R, RecordsIn(R), Carries(DOMAIN net, R), NEW n \in Nodes,
           NEW t \in DOMAIN net,
           \/ OnStabilizeReg(n, t) \/ OnStabilizeOKFromSucc(n, t)
           \/ OnStabilizeOKFromPred(n, t) \/ OnStabilizeOKFromOther(n, t)
    PROVE  RecordsIn(R)' /\ Carries(DOMAIN net', R)
<1>0. t \in Fine /\ Carries({t}, R)
  BY DEF IInv, Carries
<1>1. ASSUME Replace(t, EmptyBag)  PROVE Carries(DOMAIN net', R)
  BY <1>1, BagsCarry, ReplacedCarries
<1>2. CASE OnStabilizeReg(n, t)
  <2>1. PICK contacts, p, transfers :
            /\ transfers = EmptyBag \/ transfers = TransferRequests(n, t.src)
            /\ Replace(t, transfers (+) Answer(t, "ok", contacts, p))
    <3>1. PICK transfers : transfers = IF NearerPredecessor(n, t.src)
                                       THEN TransferRequests(n, t.src) ELSE EmptyBag
      OBVIOUS
    <3>2. \E contacts, p : Replace(t, transfers (+) Answer(t, "ok", contacts, p))
      BY <1>2, <3>1, Zenon DEF OnStabilizeReg
    <3>. QED  BY <3>1, <3>2
  <2>3. Carries(DOMAIN transfers, R)
    BY <2>1, TransferCarries, BagsCarry
  <2>4. Carries(DOMAIN Answer(t, "ok", contacts, p), R)
    BY <1>0, UpdatesCarry
  <2>5. PICK ts : ts = transfers (+) Answer(t, "ok", contacts, p)
    OBVIOUS
  <2>6. Carries(DOMAIN ts, R)
    BY <2>3, <2>4, <2>5, BagsCarry
  <2>7. Carries(DOMAIN net', R)
    BY <2>1, <2>5, <2>6, ReplacedCarries
  <2>8. RecordsIn(R)'
    BY <1>2, TransferCarries, RecordsStay DEF OnStabilizeReg
  <2>. QED  BY <2>7, <2>8
<1>3. CASE OnStabilizeOKFromSucc(n, t)
  <2>1. PICK s, k : Replace(t, EmptyBag) \/ Replace(t, LookupFinger(n, s, k))
    BY <1>3 DEF OnStabilizeOKFromSucc
  <2>2. Carries(DOMAIN LookupFinger(n, s, k), R)
    BY RequestsCarry
  <2>3. Carries(DOMAIN net', R)
    BY <1>1, <2>1, <2>2, ReplacedCarries
  <2>. QED  BY <1>3, <2>3, RecordsStay DEF OnStabilizeOKFromSucc
<1>4. CASE OnStabilizeOKFromPred(n, t)
  <2>1. PICK first : first = t.contacts[1]
    OBVIOUS
  <2>2. CASE Replace(t, EmptyBag) /\ UNCHANGED records
    BY <1>1, <2>2, RecordsStay
  <2>3. CASE /\ TransferUserInfoToPred(n, first)
             /\ Replace(t, TransferRequests(n, first) (+) LookupFinger(n, succ[n], 1))
    <3>1. Carries(DOMAIN TransferRequests(n, first), R) /\ RecordsIn(R)'
      BY <2>3, TransferCarries
    <3>2. PICK ts, s : /\ s = succ[n]
                       /\ ts = TransferRequests(n, first) (+) LookupFinger(n, s, 1)
      OBVIOUS
    <3>3. Carries(DOMAIN LookupFinger(n, s, 1), R)
      BY RequestsCarry
    <3>4. Carries(DOMAIN ts, R)
      BY <3>1, <3>2, <3>3, BagsCarry
    <3>. QED  BY <2>3, <3>1, <3>2, <3>4, ReplacedCarries
  <2>. QED  BY <1>4, <2>1, <2>2, <2>3 DEF OnStabilizeOKFromPred, Fault
<1>5. CASE OnStabilizeOKFromOther(n, t)
  BY <1>1, <1>5, RecordsStay DEF OnStabilizeOKFromOther
<1>. QED  BY <1>2, <1>3, <1>4, <1>5

LEMMA LeaveCarries ==
    ASSUME IInv, NEW R, RecordsIn(R), Carries(DOMAIN net, R), NEW n \in Nodes, Leave(n)
    PROVE  RecordsIn(R)' /\ Carries(DOMAIN net', R)
<1>1. NodesOK /\ DOMAIN users[n] \subseteq R /\ DOMAIN red[n] \subseteq R
  BY DEF IInv, RecordsIn
<1>2. PICK s, leaves, given :
          /\ \A r \in leaves : \E target : r = LeaveRequest(n, target, n, succ[n], pred[n])
          /\ given = EmptyBag \/ given = HandedOver(n, s)
          /\ net' = (net (+) SetToBag(leaves)) (+) given
  <2>1. PICK s : s = succ[n][0]
    OBVIOUS
  <2>2. PICK leaves : leaves = {LeaveRequest(n, target, n, succ[n], pred[n]) :
                                    target \in {s, pred[n]} \ {EmptyChordId, n}}
    OBVIOUS
  <2>3. PICK given : given = IF s \notin {EmptyChordId, n} THEN HandedOver(n, s) ELSE EmptyBag
    OBVIOUS
  <2>4. net' = (net (+) SetToBag(leaves)) (+) given
    BY <2>1, <2>2, <2>3 DEF Leave
  <2>5. \A r \in leaves : \E target : r = LeaveRequest(n, target, n, succ[n], pred[n])
    BY <2>2
  <2>6. given = EmptyBag \/ given = HandedOver(n, s)
    BY <2>3
  <2>. QED  BY <2>4, <2>5, <2>6, Zenon
<1>3. Carries(leaves, R)
  BY <1>2, RequestsCarry DEF Carries
<1>4. Carries(DOMAIN given, R)
  <2>1. PICK moved, copies : /\ moved = UserRequests("user_registration", n, s, users[n])
                             /\ copies = UserRequests("red_register", n, s, red[n])
    OBVIOUS
  <2>2. Carries(DOMAIN copies, R) /\ Carries(DOMAIN moved, R)
    BY <1>1, <2>1, RequestsCarry
  <2>3. HandedOver(n, s) = moved (+) copies
    BY <2>1 DEF HandedOver
  <2>. QED  BY <1>2, <2>2, <2>3, BagsCarry
<1>5. Carries(DOMAIN net', R)
  <2>1. Carries(DOMAIN (net (+) SetToBag(leaves)), R)
    BY <1>3, BagsCarry
  <2>. QED  BY <1>2, <1>4, <2>1, BagsCarry
<1>6. RecordsIn(R)'
  <2>1. /\ users' = users \/ users' = [users EXCEPT ![n] = EmptyBag]
        /\ red' = red \/ red' = [red EXCEPT ![n] = EmptyBag]
        /\ local' = local
    BY DEF Leave
  <2>. QED  BY <1>1, <2>1, RecordsGone
<1>. QED  BY <1>5, <1>6

LEMMA LeaveRegCarries ==
    ASSUME IInv, NEW R, RecordsIn(R), Carries(DOMAIN net, R), NEW n \in Nodes,
           NEW t \in DOMAIN net,
           OnLeaveRegGraceful(n, t) \/ OnLeaveRegFailed(n, t) \/ OnLeaveRegFreesTwice(n, t)
    PROVE  RecordsIn(R)' /\ Carries(DOMAIN net', R)
<1>0. NodesOK /\ DOMAIN red[n] \subseteq R
  BY DEF IInv, RecordsIn
<1>1. ASSUME Replace(t, EmptyBag)  PROVE Carries(DOMAIN net', R)
  BY <1>1, BagsCarry, ReplacedCarries
<1>2. CASE OnLeaveRegGraceful(n, t)
  <2>1. /\ users' = users /\ local' = local
        /\ red' = red \/ red' = [red EXCEPT ![n] = EmptyBag]
    BY <1>2 DEF OnLeaveRegGraceful
  <2>3. RecordsIn(R)'
    BY <1>0, <2>1, RecordsGone
  <2>. QED  BY <1>1, <1>2, <2>3 DEF OnLeaveRegGraceful
<1>3. CASE OnLeaveRegFailed(n, t)
  <2>1. PICK p, s, first, before, A, B :
            /\ A = RedundantCopies(n, first, red[n]) (+) SetToBag(StabilizeRequests(n, before, p))
            /\ B = SetToBag(StabilizeRequests(n, s, p))
            /\ \E C \in {A, EmptyBag}, D \in {B, EmptyBag} : Replace(t, C (+) D)
    <3>1. PICK p : p = IF t.to = pred[n] THEN t.src ELSE pred[n]
      OBVIOUS
    <3>2. PICK s : s = IF t.to = succ[n][0] THEN SuccListWithout(n, succ[n], t.to) ELSE succ[n]
      OBVIOUS
    <3>3. PICK A : A = RedundantCopies(n, succ[n][0], red[n])
                         (+) SetToBag(StabilizeRequests(n, succ[n], p))
      OBVIOUS
    <3>4. PICK B : B = SetToBag(StabilizeRequests(n, s, p))
      OBVIOUS
    <3>5. Replace(t, (IF t.to = pred[n] THEN A ELSE EmptyBag)
                     (+) (IF t.to = succ[n][0] THEN B ELSE EmptyBag))
      BY <1>3, <3>1, <3>2, <3>3, <3>4, Zenon DEF OnLeaveRegFailed
    <3>6. \E C \in {A, EmptyBag}, D \in {B, EmptyBag} : Replace(t, C (+) D)
      BY <3>5
    <3>. QED  BY <3>3, <3>4, <3>6
  <2>2. Carries(DOMAIN A, R)
    <3>1. PICK copies, others : /\ copies = RedundantCopies(n, first, red[n])
                                /\ others = SetToBag(StabilizeRequests(n, before, p))
      OBVIOUS
    <3>2. Carries(DOMAIN copies, R)
      BY <1>0, <3>1, RequestsCarry
    <3>3. Carries(DOMAIN others, R)
      BY <3>1, RequestsCarry, BagsCarry
    <3>4. A = copies (+) others
      BY <2>1, <3>1
    <3>. QED  BY <3>2, <3>3, <3>4, BagsCarry
  <2>3. Carries(DOMAIN B, R)
    BY <2>1, RequestsCarry, BagsCarry
  <2>4. Carries(DOMAIN net', R)
    <3>1. PICK C \in {A, EmptyBag}, D \in {B, EmptyBag} : Replace(t, C (+) D)
      BY <2>1
    <3>2. PICK ts : ts = C (+) D
      OBVIOUS
    <3>3. Carries(DOMAIN C, R) /\ Carries(DOMAIN D, R)
      BY <2>2, <2>3, BagsCarry
    <3>4. Carries(DOMAIN ts, R)
      BY <3>2, <3>3, BagsCarry
    <3>. QED  BY <3>1, <3>2, <3>4, ReplacedCarries
  <2>5. RecordsIn(R)'
    <3>1. AdoptCopies(n) \/ UNCHANGED <<users, red>>
      BY <1>3 DEF OnLeaveRegFailed
    <3>2. local' = local
      BY <1>3 DEF OnLeaveRegFailed
    <3>. QED  BY <3>1, <3>2, AdoptedIn, RecordsStay DEF records
  <2>. QED  BY <2>4, <2>5
<1>4. CASE OnLeaveRegFreesTwice(n, t)
  BY <1>1, <1>4, RecordsStay DEF OnLeaveRegFreesTwice, Fault
<1>. QED  BY <1>2, <1>3, <1>4

LEMMA FailureCarries ==
    ASSUME IInv, NEW R, RecordsIn(R), Carries(DOMAIN net, R), NEW n \in Nodes,
           NEW t \in DOMAIN net,
           OnLastNeighbourFailure(n, t) \/ OnSuccessorFailure(n, t) \/ OnOtherFailure(n, t)
    PROVE  RecordsIn(R)' /\ Carries(DOMAIN net', R)
<1>1. ASSUME Replace(t, EmptyBag)  PROVE Carries(DOMAIN net', R)
  BY <1>1, BagsCarry, ReplacedCarries
<1>2. CASE OnLastNeighbourFailure(n, t)
  <2>1. RecordsIn(R)'
    BY <1>2, AdoptedIn DEF OnLastNeighbourFailure
  <2>. QED  BY <1>1, <1>2, <2>1 DEF OnLastNeighbourFailure
<1>3. CASE OnSuccessorFailure(n, t)
  <2>1. PICK second, list, others, copies :
            /\ others = SetToBag({LeaveRequest(n, second, t.to, list, pred[n])})
            /\ copies = UserRequests("red_register", n, second, users[n])
            /\ Replace(t, others (+) copies)
    BY <1>3 DEF OnSuccessorFailure
  <2>2. DOMAIN users[n] \subseteq R
    BY DEF RecordsIn
  <2>3. Carries(DOMAIN copies, R)
    BY <2>1, <2>2, RequestsCarry
  <2>4. Carries(DOMAIN others, R)
    BY <2>1, RequestsCarry, BagsCarry
  <2>5. PICK ts : ts = others (+) copies
    OBVIOUS
  <2>6. Carries(DOMAIN ts, R)
    BY <2>3, <2>4, <2>5, BagsCarry
  <2>. QED  BY <1>3, <2>1, <2>5, <2>6, ReplacedCarries, RecordsStay DEF OnSuccessorFailure
<1>4. CASE OnOtherFailure(n, t)
  BY <1>1, <1>4, RecordsStay DEF OnOtherFailure
<1>. QED  BY <1>2, <1>3, <1>4

(* The whole overlay makes no record up. *)
LEMMA HandleCarries ==
    ASSUME IInv, NEW R, RecordsIn(R), Carries(DOMAIN net, R),
           NEW t \in DOMAIN net, HandleWhenFree(t)
    PROVE  RecordsIn(R)' /\ Carries(DOMAIN net', R)
<1>0. t \in Fine /\ Carries({t}, R) /\ t.src \in Nodes /\ t.dst \subseteq Nodes
  BY TransactionFacts DEF IInv, Carries
<1>1. ASSUME NEW n \in t.dst, ReceiveRequest(n, t)
      PROVE  RecordsIn(R)' /\ Carries(DOMAIN net', R)
  <2>1. n \in Nodes
    BY <1>0, <1>1
  <2>2. CASE IgnoreRequest(n, t)
    <3>1. Replace(t, Unanswered(t, n)) /\ UNCHANGED records
      BY <2>2 DEF IgnoreRequest, KeepNodes
    <3>2. Carries(DOMAIN Unanswered(t, n), R)
      BY <1>0, UpdatesCarry
    <3>. QED  BY <3>1, <3>2, ReplacedCarries, RecordsStay
  <2>. QED  BY <1>1, <2>1, <2>2, RegistryCarries, JoiningCarries, StabilizeAnswerCarries,
               LeaveRegCarries, RecordsStay DEF ReceiveRequest
<1>2. CASE ReceiveResponse(t.src, t) \/ Timeout(t.src, t)
  BY <1>0, <1>2, RegistryCarries, JoiningCarries, StabilizeAnswerCarries, FailureCarries,
     RecordsStay DEF ReceiveResponse, Timeout
<1>3. CASE IgnoreResponse(t) \/ EndUnanswered(t)
  <2>1. Replace(t, EmptyBag) /\ UNCHANGED records
    BY <1>3 DEF IgnoreResponse, EndUnanswered, KeepNodes
  <2>. QED  BY <2>1, BagsCarry, ReplacedCarries, RecordsStay
<1>4. CASE LoseResponse(t)
  <2>1. PICK r : /\ r = [t EXCEPT !.phase = "request", !.contacts = NoContacts,
                                  !.predecessor = EmptyChordId]
                 /\ Replace(t, SetToBag({r}))
    BY <1>4 DEF LoseResponse
  <2>2. r.type = t.type /\ r.to = t.to
    BY <1>0, <2>1 DEF Fine, Transaction, TransactionOf
  <2>3. Carries({r}, R)
    BY <1>0, <2>2 DEF Carries
  <2>. QED  BY <1>4, <2>1, <2>3, BagsCarry, ReplacedCarries, RecordsStay
            DEF LoseResponse, KeepNodes
<1>. QED  BY <1>1, <1>2, <1>3, <1>4 DEF HandleWhenFree

LEMMA OverlayCarries ==
    ASSUME IInv, NEW R, RecordsIn(R), Carries(DOMAIN net, R),
           OverlayStep \/ \E n \in Nodes : Boot(n) \/ Crash(n)
    PROVE  RecordsIn(R)' /\ Carries(DOMAIN net', R)
<1>1. ASSUME NEW n \in Nodes, StartFirst(n) \/ Crash(n)
      PROVE  RecordsIn(R)' /\ Carries(DOMAIN net', R)
  BY <1>1, RecordsStay DEF StartFirst, Crash
<1>2. ASSUME NEW n \in Nodes, StartNode(n)
      PROVE  RecordsIn(R)' /\ Carries(DOMAIN net', R)
  <2>1. MulticastRequest(n).type = "multicast"
    BY DEF MulticastRequest, Request
  <2>2. Carries({MulticastRequest(n)}, R)
    BY <2>1 DEF Carries, UserTypes
  <2>. QED  BY <1>2, <2>2, AddedCarries, RecordsStay DEF StartNode
<1>3. ASSUME NEW n \in Nodes, Stabilize(n)
      PROVE  RecordsIn(R)' /\ Carries(DOMAIN net', R)
  <2>1. PICK s, p : net' = net (+) SetToBag(StabilizeRequests(n, s, p))
    BY <1>3 DEF Stabilize
  <2>2. Carries(StabilizeRequests(n, s, p), R)
    BY RequestsCarry
  <2>. QED  BY <1>3, <2>1, <2>2, AddedCarries, RecordsStay DEF Stabilize
<1>4. ASSUME NEW n \in Nodes, Boot(n)
      PROVE  RecordsIn(R)' /\ Carries(DOMAIN net', R)
  <2>1. NodesOK
    BY DEF IInv
  <2>2. /\ users' = [users EXCEPT ![n] = EmptyBag] /\ red' = [red EXCEPT ![n] = EmptyBag]
        /\ local' = [local EXCEPT ![n] = {}] /\ net' = net
    BY <1>4 DEF Boot
  <2>. QED  BY <2>1, <2>2, RecordsGone
<1>5. CASE OverlayStep
  BY <1>1, <1>2, <1>3, <1>5, LeaveCarries, HandleCarries DEF OverlayStep
<1>. QED  BY <1>1, <1>4, <1>5

LEMMA RecordedStep ==
    ASSUME IInv, Recorded, [QueryNext]_qvars
    PROVE  Recorded' /\ registered \subseteq registered'
<1>1. PICK R : R = registered
  OBVIOUS
<1>2. R \subseteq Users /\ RecordsIn(R) /\ Carries(DOMAIN net, R)
  BY <1>1 DEF Recorded, RecordsIn, Carries
<1>3. ASSUME registered' = R, RecordsIn(R)', Carries(DOMAIN net', R)
      PROVE  Recorded' /\ registered \subseteq registered'
  BY <1>1, <1>2, <1>3 DEF Recorded, RecordsIn, Carries
<1>4. ASSUME UNCHANGED <<vars, registered>>  PROVE Recorded' /\ registered \subseteq registered'
  <2>1. RecordsIn(R)' /\ net' = net
    BY <1>2, <1>4, RecordsStay DEF vars
  <2>. QED  BY <1>1, <1>2, <1>3, <1>4, <2>1
<1>5. CASE OverlayStep
  BY <1>1, <1>2, <1>3, <1>5, OverlayCarries DEF OverlayStep, queryVars, history
<1>6. ASSUME NEW n \in Nodes, NEW u \in Users, Register(n, u)
      PROVE  Recorded' /\ registered \subseteq registered'
  <2>1. PICK S : S = R \cup {u}
    OBVIOUS
  <2>2. RecordsIn(S) /\ Carries(DOMAIN net, S) /\ u \in Users \cap S
    BY <1>2, <2>1 DEF RecordsIn, Carries
  <2>3. RecordsIn(S)' /\ Carries(DOMAIN net', S)
    BY <1>6, <2>2, RegistryCarries DEF Register
  <2>4. registered' = S
    BY <1>1, <1>6, <2>1 DEF Register
  <2>. QED  BY <1>1, <1>2, <2>1, <2>3, <2>4 DEF Recorded, RecordsIn, Carries
<1>7. ASSUME NEW n \in Nodes, Restart(n)
      PROVE  Recorded' /\ registered \subseteq registered'
  BY <1>1, <1>2, <1>3, <1>7, OverlayCarries DEF Restart
<1>8. ASSUME NEW n \in Nodes, CallerStep(n) \/ AdosipStep(n)
      PROVE  Recorded' /\ registered \subseteq registered'
  <2>1. CallerStep(n) => UNCHANGED <<vars, registered>>
    BY DEF CallerStep, AnswerHere, AskOverlay, TimedOut, BeginCopy, EndCopy, history
  <2>2. AdosipStep(n) => UNCHANGED <<vars, registered>>
    BY DEF AdosipStep, StoreContact, SignalContact, history
  <2>. QED  BY <1>4, <1>8, <2>1, <2>2
<1>9. ASSUME NEW n \in Askers, NEW u \in Users, Call(n, u) \/ Prompt(n, u)
      PROVE  Recorded' /\ registered \subseteq registered'
  BY <1>4, <1>9 DEF Call, Prompt, history
<1>10. ASSUME NEW n \in Askers, NEW u \in Users, PromptDies(n, u)
       PROVE  Recorded' /\ registered \subseteq registered'
  <2>1. n \in Nodes
    BY QueryAssumption
  <2>2. Crash(n) /\ registered' = R
    BY <1>1, <1>10 DEF PromptDies, history
  <2>. QED  BY <1>2, <1>3, <2>1, <2>2, OverlayCarries
<1>11. ASSUME NEW q \in DOMAIN queries, QueryStep(q)
       PROVE  Recorded' /\ registered \subseteq registered'
  BY <1>4, <1>11 DEF QueryStep, OnUserQuery, OnUserQueryRedirect, ClearContact, EndQuery,
     QueryHandled, history
<1>12. CASE UNCHANGED qvars
  BY <1>4, <1>12 DEF qvars, queryVars, history
<1>. QED  BY <1>5, <1>6, <1>7, <1>8, <1>9, <1>10, <1>11, <1>12 DEF QueryNext

-----------------------------------------------------------------------------
(* Questions as a bag: one copy of a question is taken out, or put in.     *)
LEMMA OneTaken ==
    ASSUME NEW B, NEW e
    PROVE  /\ \A p \in DOMAIN B : B[p] = 1 /\ p # e
                  => p \in DOMAIN (B (-) SetToBag({e})) /\ (B (-) SetToBag({e}))[p] = 1
           /\ e \in DOMAIN B /\ B[e] = 1 => e \notin DOMAIN (B (-) SetToBag({e}))
<1>. DEFINE C == SetToBag({e})
            D == [p \in DOMAIN B |-> IF p \in DOMAIN C THEN B[p] - C[p] ELSE B[p]]
<1>1. B (-) C = [p \in {d \in DOMAIN D : D[d] > 0} |-> D[p]]
  BY DEF (-)
<1>2. DOMAIN C = {e} /\ C[e] = 1
  BY DEF SetToBag
<1>. HIDE DEF C
<1>4. /\ \A p \in DOMAIN B : B[p] = 1 /\ p # e => D[p] = 1
      /\ e \in DOMAIN B /\ B[e] = 1 => D[e] = 0
  BY <1>2
<1>5. DOMAIN D = DOMAIN B
  OBVIOUS
<1>. HIDE DEF D
<1>6. /\ DOMAIN (B (-) C) = {d \in DOMAIN D : D[d] > 0}
      /\ \A p \in DOMAIN D : D[p] > 0 => (B (-) C)[p] = D[p]
  BY <1>1
<1>7. \A p \in DOMAIN B : B[p] = 1 /\ p # e
          => p \in DOMAIN (B (-) C) /\ (B (-) C)[p] = 1
  BY <1>4, <1>5, <1>6
<1>8. e \in DOMAIN B /\ B[e] = 1 => e \notin DOMAIN (B (-) C)
  BY <1>4, <1>5, <1>6
<1>. QED  BY <1>7, <1>8 DEF C

LEMMA OneAdded ==
    ASSUME NEW B, NEW C
    PROVE  \A p \in DOMAIN B : B[p] = 1 /\ p \notin DOMAIN C
               => p \in DOMAIN (B (+) C) /\ (B (+) C)[p] = 1
BY DEF (+)

LEMMA NewAdded ==
    ASSUME NEW B, NEW p, p \notin DOMAIN B
    PROVE  p \in DOMAIN (B (+) SetToBag({p})) /\ (B (+) SetToBag({p}))[p] = 1
<1>1. DOMAIN SetToBag({p}) = {p} /\ SetToBag({p})[p] = 1
  BY DEF SetToBag
<1>2. PICK C : C = SetToBag({p})
  OBVIOUS
<1>3. p \in DOMAIN (B (+) C) /\ (B (+) C)[p] = 1
  BY <1>1, <1>2 DEF (+)
<1>. QED  BY <1>2, <1>3

(* The questions of n when another one, of n or not, goes on or ends.      *)
LEMMA OthersGoOn ==
    ASSUME NEW n, NEW q \in DOMAIN queries, q \notin Open(n), inc' = inc,
           NEW qs, ReplaceQuery(q, qs),
           \A r \in DOMAIN qs : r.src = q.src /\ r.inc = q.inc
    PROVE  (Open(n) = {} => Open(n)' = {}) /\ (Alone(n) => Alone(n)')
<1>1. PICK B : B = queries (-) SetToBag({q})
  OBVIOUS
<1>2. queries' = B (+) qs /\ DOMAIN B \subseteq DOMAIN queries
  BY <1>1, BagDomains, Zenon DEF ReplaceQuery
<1>3. DOMAIN queries' = DOMAIN B \cup DOMAIN qs
  BY <1>2, BagDomains, Zenon
<1>4. \A r \in DOMAIN qs : ~ (r.src = n /\ r.inc = inc[n])
  BY DEF Open, QueriesOf
<1>5. Open(n)' \subseteq Open(n)
  BY <1>2, <1>3, <1>4 DEF Open, QueriesOf
<1>6. ASSUME NEW p \in DOMAIN queries, Open(n) = {p}, queries[p] = 1  PROVE Alone(n)'
  <2>1. p # q /\ p \notin DOMAIN qs /\ p.src = n /\ p.inc = inc[n]
    BY <1>4, <1>6 DEF Open, QueriesOf
  <2>2. p \in DOMAIN B /\ B[p] = 1
    <3>1. \A e \in DOMAIN queries : queries[e] = 1 /\ e # q
              => e \in DOMAIN (queries (-) SetToBag({q})) /\ (queries (-) SetToBag({q}))[e] = 1
      BY OneTaken
    <3>2. p \in DOMAIN queries /\ queries[p] = 1 /\ p # q
      BY <1>6, <2>1
    <3>. QED  BY <1>1, <3>1, <3>2, Zenon
  <2>3. p \in DOMAIN queries' /\ queries'[p] = 1
    BY <1>2, <2>1, <2>2, OneAdded
  <2>4. Open(n)' = {p}
    BY <1>5, <1>6, <2>1, <2>3 DEF Open, QueriesOf
  <2>. QED  BY <2>3, <2>4 DEF Alone
<1>. QED  BY <1>5, <1>6 DEF Alone

(* The only question of n ends. *)
LEMMA LastEnds ==
    ASSUME NEW n, NEW q \in Open(n), Alone(n), inc' = inc, ReplaceQuery(q, EmptyBag)
    PROVE  Open(n)' = {}
<1>1. Open(n) = {q} /\ queries[q] = 1 /\ q \in DOMAIN queries
  BY DEF Alone, Open, QueriesOf
<1>2. PICK B : B = queries (-) SetToBag({q})
  OBVIOUS
<1>3. queries' = B (+) EmptyBag /\ DOMAIN B \subseteq DOMAIN queries
  BY <1>2, BagDomains, Zenon DEF ReplaceQuery
<1>4. DOMAIN EmptyBag = {} /\ DOMAIN queries' = DOMAIN B \cup DOMAIN EmptyBag
  BY <1>3, BagDomains, Zenon
<1>5. q \notin DOMAIN B
  BY <1>1, <1>2, OneTaken
<1>. QED  BY <1>1, <1>3, <1>4, <1>5 DEF Open, QueriesOf

(* The only question of n is answered, redirected or asked again. *)
LEMMA LastGoesOn ==
    ASSUME NEW n, NEW q \in Open(n), Alone(n), inc' = inc,
           NEW r, r.src = n, r.inc = inc[n], ReplaceQuery(q, SetToBag({r}))
    PROVE  Alone(n)'
<1>1. Open(n) = {q} /\ queries[q] = 1 /\ q \in DOMAIN queries
  BY DEF Alone, Open, QueriesOf
<1>2. PICK B : B = queries (-) SetToBag({q})
  OBVIOUS
<1>3. queries' = B (+) SetToBag({r}) /\ DOMAIN B \subseteq DOMAIN queries
  BY <1>2, BagDomains, Zenon DEF ReplaceQuery
<1>4. DOMAIN SetToBag({r}) = {r} /\ DOMAIN queries' = DOMAIN B \cup DOMAIN SetToBag({r})
  BY <1>3, BagDomains, Zenon
<1>5. q \notin DOMAIN B
  BY <1>1, <1>2, OneTaken
<1>6. r \notin DOMAIN B
  BY <1>1, <1>3, <1>5 DEF Open, QueriesOf
<1>7. r \in DOMAIN queries' /\ queries'[r] = 1
  BY <1>3, <1>6, NewAdded
<1>8. Open(n)' = {r}
  BY <1>1, <1>3, <1>4, <1>5 DEF Open, QueriesOf
<1>. QED  BY <1>7, <1>8 DEF Alone

(* A question is sent. *)
LEMMA QuestionSent ==
    ASSUME NEW n, NEW u, NEW target, inc' = inc,
           queries' = queries (+) SetToBag({Question(n, target, u)})
    PROVE  /\ Open(n) = {} => Alone(n)'
           /\ \A m : m # n => (Open(m) = {} => Open(m)' = {}) /\ (Alone(m) => Alone(m)')
<1>1. PICK r : r = Question(n, target, u)
  OBVIOUS
<1>2. r.src = n /\ r.inc = inc[n]
  BY <1>1 DEF Question
<1>3. DOMAIN SetToBag({r}) = {r} /\ DOMAIN queries' = DOMAIN queries \cup DOMAIN SetToBag({r})
  BY <1>1, BagDomains, Zenon
<1>4. ASSUME Open(n) = {}  PROVE Alone(n)'
  <2>1. r \notin DOMAIN queries
    BY <1>2, <1>4 DEF Open, QueriesOf
  <2>2. r \in DOMAIN queries' /\ queries'[r] = 1
    BY <1>1, <2>1, NewAdded
  <2>3. Open(n)' = {r}
    BY <1>2, <1>3, <1>4 DEF Open, QueriesOf
  <2>. QED  BY <2>2, <2>3 DEF Alone
<1>5. ASSUME NEW m, m # n
      PROVE  (Open(m) = {} => Open(m)' = {}) /\ (Alone(m) => Alone(m)')
  <2>1. Open(m)' = Open(m)
    BY <1>2, <1>3, <1>5 DEF Open, QueriesOf
  <2>2. ASSUME NEW p \in DOMAIN queries, Open(m) = {p}, queries[p] = 1  PROVE Alone(m)'
    <3>1. p \notin DOMAIN SetToBag({r})
      BY <1>2, <1>3, <1>5, <2>2 DEF Open, QueriesOf
    <3>2. p \in DOMAIN queries' /\ queries'[p] = 1
      BY <1>1, <2>2, <3>1, OneAdded
    <3>. QED  BY <2>1, <2>2, <3>2 DEF Alone
  <2>. QED  BY <2>1, <2>2 DEF Alone
<1>. QED  BY <1>4, <1>5

(* A step of a question: it goes on as one question, or ends.              *)
LEMMA QuestionGoesOn ==
    ASSUME QInv, Recorded, ContactsRegistered, NEW q \in DOMAIN queries, QueryStep(q)
    PROVE  \/ ReplaceQuery(q, EmptyBag)
           \/ \E r : /\ ReplaceQuery(q, SetToBag({r}))
                     /\ r.src = q.src /\ r.inc = q.inc
                     /\ r.phase = "ok" => r.contact \in registered
<1>1. q \in Query
  BY DEF QInv, QueriesHonest, Honest
<1>2. ASSUME NEW n \in q.dst, OnUserQuery(n, q)
      PROVE  \/ ReplaceQuery(q, EmptyBag)
             \/ \E r : /\ ReplaceQuery(q, SetToBag({r}))
                       /\ r.src = q.src /\ r.inc = q.inc
                       /\ r.phase = "ok" => r.contact \in registered
  <2>1. \/ ReplaceQuery(q, EmptyBag)
        \/ ReplaceQuery(q, Respond(q, "redirect", NextHop(n, q.aor)))
        \/ \E c \in DOMAIN users[n] : ReplaceQuery(q, Respond(q, "ok", c))
    BY <1>2 DEF OnUserQuery, RecordOf
  <2>2. PICK phase, c : /\ \/ ReplaceQuery(q, EmptyBag)
                           \/ ReplaceQuery(q, Respond(q, phase, c))
                        /\ phase = "redirect" \/ c \in DOMAIN users[n]
    BY <2>1
  <2>3. PICK r : r = [q EXCEPT !.phase = phase, !.dst = {}, !.contact = c]
    OBVIOUS
  <2>4. r.src = q.src /\ r.inc = q.inc /\ r.phase = phase /\ r.contact = c
    BY <1>1, <2>3 DEF Query
  <2>5. Respond(q, phase, c) \in {EmptyBag, SetToBag({r})}
    BY <2>3 DEF Respond
  <2>6. n \in Nodes
    BY <1>1, <1>2 DEF Query
  <2>7. r.phase = "ok" => r.contact \in registered
    BY <2>2, <2>4, <2>6 DEF Recorded
  <2>. QED  BY <2>2, <2>4, <2>5, <2>7
<1>3. CASE OnUserQueryRedirect(q.src, q)
  <2>1. PICK r : r = Question(q.src, q.contact, q.aor)
    OBVIOUS
  <2>2. r.src = q.src /\ r.inc = q.inc /\ r.phase # "ok" /\ ReplaceQuery(q, SetToBag({r}))
    BY <1>3, <2>1 DEF OnUserQueryRedirect, QueryReturns, Question
  <2>. QED  BY <2>2
<1>4. CASE ClearContact(q.src, q) \/ EndQuery(q)
  BY <1>4 DEF ClearContact, EndQuery
<1>. QED  BY <1>2, <1>3, <1>4 DEF QueryStep

LEMMA QuestionsCounted ==
    ASSUME QInv, Recorded, ContactsRegistered, NEW q \in DOMAIN queries, QueryStep(q),
           NEW n \in Nodes
    PROVE  /\ inc' = inc
           /\ Open(n) = {} => Open(n)' = {}
           /\ Alone(n) => Alone(n)' \/ Open(n)' = {}
           /\ Alone(n) /\ q \in Open(n) /\ ReplaceQuery(q, EmptyBag) => Open(n)' = {}
<1>1. inc' = inc
  BY QueriesLeaveOverlay DEF vars
<1>2. CASE q \in Open(n)
  <2>1. q.src = n /\ q.inc = inc[n] /\ Open(n) # {}
    BY <1>2 DEF Open, QueriesOf
  <2>. QED  BY <1>1, <1>2, <2>1, QuestionGoesOn, LastEnds, LastGoesOn
<1>3. CASE q \notin Open(n)
  <2>1. PICK qs : ReplaceQuery(q, qs) /\ \A r \in DOMAIN qs : r.src = q.src /\ r.inc = q.inc
    <3>1. CASE ReplaceQuery(q, EmptyBag)
      <4>1. DOMAIN EmptyBag = {}
        BY BagDomains, Zenon
      <4>. QED  BY <3>1, <4>1
    <3>2. ASSUME NEW r, ReplaceQuery(q, SetToBag({r})), r.src = q.src, r.inc = q.inc
          PROVE  \E qs : /\ ReplaceQuery(q, qs)
                         /\ \A p \in DOMAIN qs : p.src = q.src /\ p.inc = q.inc
      <4>1. DOMAIN SetToBag({r}) = {r}
        BY BagDomains, Zenon
      <4>. QED  BY <3>2, <4>1
    <3>. QED  BY <3>1, <3>2, QuestionGoesOn
  <2>. QED  BY <1>1, <1>3, <2>1, OthersGoOn
<1>. QED  BY <1>2, <1>3

-----------------------------------------------------------------------------
(* A node whose threads rest, while its question may go on or end.         *)
LEMMA NodeRests ==
    ASSUME NEW n \in Nodes, CallerOK(n), AsksOK(n), registered \subseteq registered',
           caller'[n] = caller[n], adosip'[n] = adosip[n],
           user_contact'[n] = user_contact[n], user_info_pipe'[n] = user_info_pipe[n],
           asked'[n] = asked[n], asks'[n] = asks[n],
           Open(n) = {} => Open(n)' = {},
           Alone(n) => Alone(n)' \/ Open(n)' = {}
    PROVE  CallerOK(n)' /\ AsksOK(n)'
<1>1. CallerOK(n)'
  BY DEF CallerOK, Copying
<1>2. ASSUME asks[n] = 1  PROVE AskedOnce(n)'
  <2>1. AskedOnce(n) /\ (Free(n)' <=> Free(n)) /\ (Copying(n)' <=> Copying(n))
    BY <1>2 DEF AsksOK, Free, Copying
  <2>2. Asking(n) => Asking(n)' \/ NothingOpen(n)'
    BY <2>1 DEF Asking, NothingOpen
  <2>3. /\ Answering(n) => Answering(n)'
        /\ Answered(n) => Answered(n)'
        /\ NothingOpen(n) => NothingOpen(n)'
    BY <2>1 DEF Answering, Answered, NothingOpen
  <2>. QED  BY <2>1, <2>2, <2>3 DEF AskedOnce
<1>3. NothingOpen(n) => NothingOpen(n)'
  BY DEF NothingOpen, Free
<1>. QED  BY <1>1, <1>2, <1>3 DEF AsksOK

(* Contacts when no question is answered. *)
LEMMA ContactsStay ==
    ASSUME ContactsRegistered, registered \subseteq registered',
           UNCHANGED <<adosip, user_contact>>,
           \A q \in DOMAIN queries' : q \in DOMAIN queries \/ q.phase # "ok"
    PROVE  ContactsRegistered'
BY DEF ContactsRegistered

LEMMA QuestionsStay ==
    ASSUME queries' = queries, NEW n, inc'[n] = inc[n]
    PROVE  Open(n)' = Open(n) /\ (Alone(n)' <=> Alone(n))
<1>1. Open(n)' = Open(n)
  BY DEF Open, QueriesOf
<1>. QED  BY <1>1 DEF Alone

(* Steps that leave queries and inc alone, and the threads of all nodes but *)
(* one.                                                                    *)
LEMMA OthersRest ==
    ASSUME QTypes, \A m \in Nodes : CallerOK(m) /\ AsksOK(m),
           registered \subseteq registered', NEW n \in Nodes, inc' = inc, queries' = queries,
           UNCHANGED <<asked, asks>>,
           \A m \in Nodes \ {n} :
               /\ caller'[m] = caller[m] /\ adosip'[m] = adosip[m]
               /\ user_contact'[m] = user_contact[m]
               /\ user_info_pipe'[m] = user_info_pipe[m]
    PROVE  \A m \in Nodes \ {n} : CallerOK(m)' /\ AsksOK(m)'
BY QuestionsStay, NodeRests

(* The application's thread goes on. *)
LEMMA CallerGoesOn ==
    ASSUME QInv, LookInv, NEW n \in Nodes, NEW c \in Caller, inc' = inc,
           UNCHANGED <<adosip, user_contact, user_info_pipe, queries, registered, asked, asks>>,
           caller' = [caller EXCEPT ![n] = c],
           c.step = "idle" => c = IdleCaller,
           c.step # "idle" => c.user \in Users,
           c.step # "copying" => ~ c.changed,
           c.step = "copying" =>
               /\ asks[n] > 0
               /\ c.first \in (asked[n] \cap registered) \cup {Nothing, Torn}
               /\ asks[n] = 1 => Answered(n) /\ ~ c.changed /\ c.first \notin {Nothing, Torn}
    PROVE  ContactsRegistered' /\ \A m \in Nodes : CallerOK(m)' /\ AsksOK(m)'
<1>1. ContactsRegistered'
  BY ContactsStay DEF LookInv
<1>2. caller'[n] = c /\ \A m \in Nodes \ {n} : caller'[m] = caller[m]
  BY DEF QInv, QTypes
<1>3. \A m \in Nodes \ {n} : CallerOK(m)' /\ AsksOK(m)'
  BY <1>2, OthersRest DEF QInv, LookInv
<1>4. CallerOK(n)'
  BY <1>2 DEF CallerOK, Copying
<1>5. AsksOK(n)'
  <2>1. AsksOK(n) /\ Open(n)' = Open(n) /\ (Alone(n)' <=> Alone(n)) /\ (Free(n)' <=> Free(n))
    BY QuestionsStay DEF LookInv, Free
  <2>2. /\ Asking(n)' <=> Asking(n)
        /\ Answering(n)' <=> Answering(n)
        /\ Answered(n)' <=> Answered(n)
        /\ NothingOpen(n)' <=> NothingOpen(n)
    BY <2>1 DEF Asking, Answering, Answered, NothingOpen
  <2>3. asks[n] = 1 => AskedOnce(n)'
    BY <1>2, <2>1, <2>2 DEF AsksOK, AskedOnce, Copying
  <2>. QED  BY <2>1, <2>2, <2>3 DEF AsksOK
<1>. QED  BY <1>1, <1>3, <1>4, <1>5

LEMMA CallerLooks ==
    ASSUME QInv, LookInv, NEW n \in Nodes,
           AnswerHere(n) \/ TimedOut(n) \/ BeginCopy(n) \/ EndCopy(n)
    PROVE  ContactsRegistered' /\ \A m \in Nodes : CallerOK(m)' /\ AsksOK(m)'
<1>1. caller[n] \in Caller /\ caller \in [Nodes -> Caller] /\ CallerOK(n) /\ AsksOK(n)
  BY DEF QInv, QTypes, LookInv
<1>2. /\ inc' = inc
      /\ UNCHANGED <<adosip, user_contact, user_info_pipe, queries, registered, asked, asks>>
  BY DEF AnswerHere, TimedOut, BeginCopy, EndCopy, vars, shared, history
<1>3. CASE AnswerHere(n) \/ TimedOut(n) \/ EndCopy(n)
  <2>1. IdleCaller \in Caller /\ IdleCaller.step = "idle" /\ ~ IdleCaller.changed
    BY DEF IdleCaller, Caller
  <2>2. caller' = [caller EXCEPT ![n] = IdleCaller]
    BY <1>3 DEF AnswerHere, TimedOut, EndCopy, Return
  <2>. QED  BY <1>2, <2>1, <2>2, CallerGoesOn
<1>4. CASE BeginCopy(n)
  <2>1. PICK text \in {user_contact[n]} \cup IF adosip[n].step = "cleared" THEN {Torn} ELSE {} :
            caller' = [caller EXCEPT ![n].step = "copying", ![n].first = text]
    BY <1>4 DEF BeginCopy
  <2>2. caller[n].step = "waiting" /\ user_info_pipe[n] > 0
    BY <1>4 DEF BeginCopy, At
  <2>3. /\ user_contact[n] \in asked[n] \cup {Nothing}
        /\ user_contact[n] \in registered \cup {Nothing}
        /\ asked[n] \subseteq Users /\ registered \subseteq Users
    BY DEF QInv, QTypes, ContactsAsked, LookInv, ContactsRegistered, Recorded
  <2>4. text \in (asked[n] \cap registered) \cup {Nothing, Torn}
    BY <2>1, <2>3
  <2>5. asks[n] > 0
    BY <1>1, <2>2 DEF AsksOK, NothingOpen, LookInv, Numbers
  <2>6. ASSUME asks[n] = 1  PROVE Answered(n) /\ text \notin {Nothing, Torn}
    <3>1. Answered(n)
      BY <1>1, <2>2, <2>6 DEF AsksOK, AskedOnce, Asking, Answering, NothingOpen
    <3>2. text = user_contact[n] /\ user_contact[n] # Nothing
      BY <2>1, <3>1 DEF Answered, Free
    <3>3. Torn \notin Users
      BY QueryAssumption
    <3>. QED  BY <2>3, <3>1, <3>2, <3>3
  <2>. DEFINE c == [caller[n] EXCEPT !.step = "copying", !.first = text]
  <2>7. caller[n].user \in Users /\ ~ caller[n].changed
    BY <1>1, <2>2 DEF CallerOK, Copying
  <2>8. text \in Users \cup {Nothing, Torn}
    BY <2>3, <2>4
  <2>9. /\ c \in Caller /\ c.step = "copying" /\ c.user = caller[n].user
        /\ c.changed = caller[n].changed /\ c.first = text
    BY <1>1, <2>8 DEF Caller
  <2>10. caller' = [caller EXCEPT ![n] = c]
    BY <1>1, <2>1
  <2>. HIDE DEF c
  <2>. QED  BY <1>2, <2>4, <2>5, <2>6, <2>7, <2>9, <2>10, CallerGoesOn
<1>. QED  BY <1>3, <1>4

(* A question is sent, by si2p_query_user or at the prompt.                *)
LEMMA SendLooks ==
    ASSUME IInv, QInv, LookInv, NEW n \in Nodes, NEW u, SendQuestion(n, u), inc' = inc,
           UNCHANGED <<adosip, user_contact, user_info_pipe, registered>>,
           ~ Copying(n)', CallerOK(n)',
           \A m \in Nodes \ {n} : caller'[m] = caller[m]
    PROVE  ContactsRegistered' /\ \A m \in Nodes : CallerOK(m)' /\ AsksOK(m)'
<1>0. /\ asks \in [Nodes -> Nat] /\ \A m \in Nodes : CallerOK(m) /\ AsksOK(m)
      /\ asked \in [Nodes -> SUBSET Users] /\ ContactsRegistered
  BY DEF LookInv, Numbers, QInv, QTypes
<1>1. CASE UNCHANGED <<queries, asked, asks>>
  <2>1. ContactsRegistered'
    BY <1>0, <1>1, ContactsStay
  <2>2. \A m \in Nodes \ {n} : CallerOK(m)' /\ AsksOK(m)'
    BY <1>0, <1>1, OthersRest DEF QInv
  <2>3. AsksOK(n)'
    <3>1. AsksOK(n) /\ Open(n)' = Open(n) /\ (Alone(n)' <=> Alone(n)) /\ (Free(n)' <=> Free(n))
      BY <1>0, <1>1, QuestionsStay DEF Free
    <3>2. /\ Asking(n)' <=> Asking(n)
          /\ Answering(n)' <=> Answering(n)
          /\ Answered(n)' <=> Answered(n)
          /\ NothingOpen(n)' <=> NothingOpen(n)
      BY <3>1 DEF Asking, Answering, Answered, NothingOpen
    <3>. QED  BY <1>1, <3>1, <3>2 DEF AsksOK, AskedOnce
  <2>. QED  BY <2>1, <2>2, <2>3
<1>2. ASSUME NEW target, queries' = queries (+) SetToBag({Question(n, target, u)}),
             asked' = [asked EXCEPT ![n] = @ \cup {u}], asks' = [asks EXCEPT ![n] = @ + 1]
      PROVE  ContactsRegistered' /\ \A m \in Nodes : CallerOK(m)' /\ AsksOK(m)'
  <2>1. PICK q : q = Question(n, target, u)
    OBVIOUS
  <2>2. DOMAIN queries' = DOMAIN queries \cup {q}
    BY <1>2, <2>1, BagDomainAdd
  <2>3. q.phase # "ok"
    BY <2>1 DEF Question
  <2>4. ContactsRegistered'
    BY <1>0, <2>2, <2>3, ContactsStay
  <2>5. /\ Open(n) = {} => Alone(n)'
        /\ \A m : m # n => (Open(m) = {} => Open(m)' = {}) /\ (Alone(m) => Alone(m)')
    BY <1>2, QuestionSent
  <2>6. ASSUME NEW m \in Nodes, m # n  PROVE CallerOK(m)' /\ AsksOK(m)'
    <3>1. asked'[m] = asked[m] /\ asks'[m] = asks[m]
      BY <1>0, <1>2, <2>6
    <3>. QED  BY <1>0, <2>5, <2>6, <3>1, NodeRests
  <2>7. AsksOK(n)'
    <3>1. asks'[n] = asks[n] + 1 /\ asks[n] \in Nat
      BY <1>0, <1>2
    <3>2. ASSUME asks[n] = 0  PROVE AskedOnce(n)'
      <4>1. Asking(n)'
        BY <1>0, <2>5, <3>2 DEF AsksOK, NothingOpen, Asking, Free
      <4>. QED  BY <4>1 DEF AskedOnce
    <3>. QED  BY <3>1, <3>2 DEF AsksOK
  <2>. QED  BY <2>4, <2>6, <2>7
<1>3. \/ UNCHANGED <<queries, asked, asks>>
      \/ \E target : /\ queries' = queries (+) SetToBag({Question(n, target, u)})
                      /\ asked' = [asked EXCEPT ![n] = @ \cup {u}]
                      /\ asks' = [asks EXCEPT ![n] = @ + 1]
  BY DEF SendQuestion
<1>. QED  BY <1>1, <1>2, <1>3

LEMMA ApplicationLooks ==
    ASSUME IInv, QInv, LookInv, NEW n \in Nodes, NEW u \in Users,
           AskOverlay(n) \/ Call(n, u) \/ Prompt(n, u)
    PROVE  ContactsRegistered' /\ \A m \in Nodes : CallerOK(m)' /\ AsksOK(m)'
<1>1. caller[n] \in Caller /\ caller \in [Nodes -> Caller] /\ CallerOK(n)
  BY DEF QInv, QTypes, LookInv
<1>2. inc' = inc /\ UNCHANGED <<adosip, user_contact, user_info_pipe, registered>>
  BY DEF AskOverlay, Call, Prompt, vars, shared, history
<1>3. CASE AskOverlay(n)
  <2>1. caller[n].step = "called" /\ SendQuestion(n, caller[n].user)
    BY <1>3 DEF AskOverlay, At
  <2>. DEFINE c == [caller[n] EXCEPT !.step = "waiting"]
  <2>2. caller' = [caller EXCEPT ![n] = c]
    BY <1>1, <1>3 DEF AskOverlay
  <2>3. c.step = "waiting" /\ c.user = caller[n].user /\ c.changed = caller[n].changed
    BY <1>1 DEF Caller
  <2>. HIDE DEF c
  <2>4. caller'[n] = c /\ \A m \in Nodes \ {n} : caller'[m] = caller[m]
    BY <1>1, <2>2
  <2>5. CallerOK(n)' /\ ~ Copying(n)'
    BY <1>1, <2>1, <2>3, <2>4 DEF CallerOK, Copying
  <2>. QED  BY <1>2, <2>1, <2>4, <2>5, SendLooks
<1>4. CASE Call(n, u)
  <2>. DEFINE c == [IdleCaller EXCEPT !.step = "called", !.user = u]
  <2>1. c \in Caller /\ c.step = "called" /\ c.user = u /\ ~ c.changed
    BY DEF IdleCaller, Caller
  <2>2. caller' = [caller EXCEPT ![n] = c] /\ UNCHANGED <<queries, asked, asks>>
    BY <1>4 DEF Call, history
  <2>. HIDE DEF c
  <2>. QED  BY <1>2, <2>1, <2>2, CallerGoesOn
<1>5. CASE Prompt(n, u)
  <2>1. caller[n].step = "idle" /\ SendQuestion(n, u) /\ caller' = caller
    BY <1>5 DEF Prompt, At
  <2>2. CallerOK(n)' /\ ~ Copying(n)'
    BY <1>1, <2>1 DEF CallerOK, Copying, IdleCaller
  <2>. QED  BY <1>2, <2>1, <2>2, SendLooks
<1>. QED  BY <1>3, <1>4, <1>5

-----------------------------------------------------------------------------
(* The adosip thread.  In onUserQueryOK it marks the text as changed under *)
(* a caller that copies it.                                                *)
Marked(n) == [caller[n] EXCEPT !.changed = @ \/ caller[n].step = "copying"]

LEMMA MarkedOK ==
    ASSUME QInv, LookInv, NEW n \in Nodes, caller' = [caller EXCEPT ![n] = Marked(n)],
           UNCHANGED <<registered, asked, asks>>
    PROVE  /\ CallerOK(n)' /\ (Copying(n)' <=> Copying(n))
           /\ \A m \in Nodes \ {n} : caller'[m] = caller[m]
<1>1. caller[n] \in Caller /\ caller \in [Nodes -> Caller] /\ CallerOK(n)
  BY DEF QInv, QTypes, LookInv
<1>2. PICK c : c = Marked(n)
  OBVIOUS
<1>3. /\ c.step = caller[n].step /\ c.user = caller[n].user /\ c.first = caller[n].first
      /\ caller[n].step # "copying" => c = caller[n]
  <2>1. /\ c.step = caller[n].step /\ c.user = caller[n].user /\ c.first = caller[n].first
    BY <1>1, <1>2 DEF Marked, Caller
  <2>2. ASSUME caller[n].step # "copying"  PROVE c = caller[n]
    <3>1. (caller[n].changed \/ FALSE) = caller[n].changed
      BY <1>1 DEF Caller
    <3>2. c = [caller[n] EXCEPT !.changed = caller[n].changed]
      BY <1>2, <2>2, <3>1 DEF Marked
    <3>. QED  BY <1>1, <3>2 DEF Caller
  <2>. QED  BY <2>1, <2>2
<1>4. caller'[n] = c /\ \A m \in Nodes \ {n} : caller'[m] = caller[m]
  BY <1>1, <1>2
<1>5. Copying(n)' <=> Copying(n)
  BY <1>3, <1>4 DEF Copying
<1>6. CallerOK(n)'
  <2>1. CASE caller[n].step # "copying"
    BY <1>1, <1>3, <1>4, <2>1 DEF CallerOK, Copying
  <2>2. CASE caller[n].step = "copying"
    BY <1>1, <1>3, <1>4, <2>2 DEF CallerOK, Copying
  <2>. QED  BY <2>1, <2>2
<1>. QED  BY <1>4, <1>5, <1>6

LEMMA ClearLooks ==
    ASSUME QInv, LookInv, NEW q \in DOMAIN queries, ClearContact(q.src, q)
    PROVE  ContactsRegistered' /\ \A m \in Nodes : CallerOK(m)' /\ AsksOK(m)'
<1>1. q \in Query
  BY DEF QInv, QueriesHonest, Honest
<1>2. PICK n \in Nodes : n = q.src
  BY <1>1 DEF Query
<1>3. /\ q.phase = "ok" /\ q.inc = inc[n] /\ Free(n) /\ ReplaceQuery(q, EmptyBag)
      /\ user_contact' = [user_contact EXCEPT ![n] = Nothing]
      /\ adosip' = [adosip EXCEPT ![n] = [step |-> "cleared", contact |-> q.contact]]
      /\ caller' = [caller EXCEPT ![n] = Marked(n)]
      /\ UNCHANGED <<user_info_pipe, registered, asked, asks>>
  BY <1>2 DEF ClearContact, QueryReturns, history, Marked, QInv, QTypes
<1>4. /\ user_contact'[n] = Nothing
      /\ adosip'[n].step = "cleared" /\ adosip'[n].contact = q.contact
      /\ \A m \in Nodes \ {n} : user_contact'[m] = user_contact[m] /\ adosip'[m] = adosip[m]
  BY <1>3 DEF QInv, QTypes
<1>5. q \in Open(n)
  BY <1>2, <1>3 DEF Open, QueriesOf
<1>6. /\ Recorded /\ ContactsRegistered /\ QueryStep(q)
      /\ \A m \in Nodes : CallerOK(m) /\ AsksOK(m)
  BY DEF LookInv, QueryStep
<1>7. ContactsRegistered'
  <2>1. DOMAIN EmptyBag = {}
    BY BagDomains, Zenon
  <2>2. DOMAIN queries' \subseteq DOMAIN queries
    BY <1>3, <2>1, QueryReplaced
  <2>. QED  BY <1>3, <1>4, <1>6, <2>2 DEF ContactsRegistered
<1>8. /\ CallerOK(n)' /\ (Copying(n)' <=> Copying(n))
      /\ \A m \in Nodes \ {n} : caller'[m] = caller[m]
  BY <1>3, MarkedOK
<1>9. ASSUME NEW m \in Nodes \ {n}  PROVE CallerOK(m)' /\ AsksOK(m)'
  BY <1>3, <1>4, <1>6, <1>8, QuestionsCounted, NodeRests
<1>10. AsksOK(n)'
  <2>1. asks[n] # 0
    BY <1>5, <1>6 DEF AsksOK, NothingOpen
  <2>2. ASSUME asks[n] = 1  PROVE AskedOnce(n)'
    <3>1. Asking(n) /\ ~ Copying(n)
      BY <1>3, <1>5, <1>6, <2>2 DEF AsksOK, AskedOnce, Answering, Answered, NothingOpen
    <3>2. Open(n)' = {}
      BY <1>3, <1>5, <1>6, <3>1, QuestionsCounted DEF Asking
    <3>3. Answering(n)'
      BY <1>3, <1>4, <3>1, <3>2 DEF Asking, Answering, Free
    <3>. QED  BY <1>8, <3>1, <3>3 DEF AskedOnce
  <2>. QED  BY <1>3, <2>1, <2>2 DEF AsksOK
<1>. QED  BY <1>7, <1>8, <1>9, <1>10

LEMMA QueryLooks ==
    ASSUME QInv, LookInv, NEW q \in DOMAIN queries, QueryStep(q)
    PROVE  ContactsRegistered' /\ \A m \in Nodes : CallerOK(m)' /\ AsksOK(m)'
<1>1. CASE ClearContact(q.src, q)
  BY <1>1, ClearLooks
<1>2. CASE ~ ClearContact(q.src, q)
  <2>1. UNCHANGED <<caller, adosip, user_contact, user_info_pipe, registered, asked, asks>>
    BY <1>2 DEF QueryStep, OnUserQuery, OnUserQueryRedirect, EndQuery, QueryHandled,
       shared, history
  <2>2. Recorded /\ ContactsRegistered /\ \A m \in Nodes : CallerOK(m) /\ AsksOK(m)
    BY DEF LookInv
  <2>3. ContactsRegistered'
    <3>1. PICK qs : /\ ReplaceQuery(q, qs)
                    /\ \A r \in DOMAIN qs : r.phase = "ok" => r.contact \in registered
      <4>1. CASE ReplaceQuery(q, EmptyBag)
        <5>1. DOMAIN EmptyBag = {}
          BY BagDomains, Zenon
        <5>. QED  BY <4>1, <5>1
      <4>2. ASSUME NEW r, ReplaceQuery(q, SetToBag({r})),
                   r.phase = "ok" => r.contact \in registered
            PROVE  \E qs : /\ ReplaceQuery(q, qs)
                           /\ \A p \in DOMAIN qs : p.phase = "ok" => p.contact \in registered
        <5>1. DOMAIN SetToBag({r}) = {r}
          BY BagDomains, Zenon
        <5>. QED  BY <4>2, <5>1
      <4>. QED  BY <2>2, <4>1, <4>2, QuestionGoesOn
    <3>2. DOMAIN queries' \subseteq DOMAIN queries \cup DOMAIN qs
      BY <3>1, QueryReplaced
    <3>. QED  BY <2>1, <2>2, <3>1, <3>2 DEF ContactsRegistered
  <2>. QED  BY <2>1, <2>2, <2>3, QuestionsCounted, NodeRests
<1>. QED  BY <1>1, <1>2

LEMMA AdosipLooks ==
    ASSUME QInv, LookInv, NEW n \in Nodes, AdosipStep(n)
    PROVE  ContactsRegistered' /\ \A m \in Nodes : CallerOK(m)' /\ AsksOK(m)'
<1>1. /\ adosip[n] \in Adosip /\ inc' = inc
      /\ UNCHANGED <<queries, registered, asked, asks>>
      /\ Recorded /\ ContactsRegistered /\ user_info_pipe \in [Nodes -> Nat]
      /\ \A m \in Nodes : CallerOK(m) /\ AsksOK(m)
      /\ Open(n)' = Open(n) /\ (Alone(n)' <=> Alone(n))
  <2>1. inc' = inc /\ UNCHANGED <<queries, registered, asked, asks>>
    BY DEF AdosipStep, StoreContact, SignalContact, vars, history
  <2>. QED  BY <2>1, QuestionsStay DEF QInv, QTypes, LookInv, Numbers
<1>2. Nothing \notin registered
  BY <1>1, QueryAssumption DEF Recorded
<1>3. CASE StoreContact(n)
  <2>1. /\ adosip[n].step = "cleared" /\ ~ Free(n) /\ user_info_pipe' = user_info_pipe
        /\ caller' = [caller EXCEPT ![n] = Marked(n)]
    BY <1>3 DEF StoreContact, Free, Marked, QInv, QTypes
  <2>2. /\ user_contact'[n] = adosip[n].contact /\ adosip'[n].step = "stored"
        /\ adosip'[n].contact = adosip[n].contact
        /\ \A m \in Nodes \ {n} : user_contact'[m] = user_contact[m] /\ adosip'[m] = adosip[m]
    BY <1>1, <1>3 DEF StoreContact, QInv, QTypes, Adosip
  <2>3. adosip[n].contact \in registered
    BY <1>1, <2>1 DEF ContactsRegistered
  <2>4. ContactsRegistered'
    BY <1>1, <2>2, <2>3 DEF ContactsRegistered
  <2>5. /\ CallerOK(n)' /\ (Copying(n)' <=> Copying(n))
        /\ \A m \in Nodes \ {n} : caller'[m] = caller[m]
    BY <1>1, <2>1, MarkedOK
  <2>6. \A m \in Nodes \ {n} : CallerOK(m)' /\ AsksOK(m)'
    BY <1>1, <2>1, <2>2, <2>5, OthersRest DEF QInv
  <2>7. AsksOK(n)'
    <3>1. asks[n] # 0
      BY <1>1, <2>1 DEF AsksOK, NothingOpen
    <3>2. ASSUME asks[n] = 1  PROVE AskedOnce(n)'
      <4>1. Answering(n) /\ ~ Copying(n)
        BY <1>1, <2>1, <3>2 DEF AsksOK, AskedOnce, Asking, Answered, NothingOpen
      <4>2. Answering(n)'
        BY <1>1, <1>2, <2>1, <2>2, <2>3, <4>1 DEF Answering, Free
      <4>. QED  BY <2>5, <4>1, <4>2 DEF AskedOnce
    <3>. QED  BY <1>1, <3>1, <3>2 DEF AsksOK
  <2>. QED  BY <2>4, <2>5, <2>6, <2>7
<1>4. CASE SignalContact(n)
  <2>1. /\ adosip[n].step = "stored" /\ ~ Free(n) /\ UNCHANGED <<caller, user_contact>>
        /\ adosip' = [adosip EXCEPT ![n] = FreeAdosip]
        /\ user_info_pipe' = [user_info_pipe EXCEPT ![n] = @ + 1]
    BY <1>4 DEF SignalContact, Free
  <2>2. /\ adosip'[n].step = "free" /\ user_info_pipe'[n] = user_info_pipe[n] + 1
        /\ \A m \in Nodes \ {n} : /\ adosip'[m] = adosip[m]
                                  /\ user_info_pipe'[m] = user_info_pipe[m]
    BY <1>1, <2>1 DEF QInv, QTypes, FreeAdosip
  <2>3. ContactsRegistered'
    BY <1>1, <2>1, <2>2 DEF ContactsRegistered
  <2>4. CallerOK(n)' /\ (Copying(n)' <=> Copying(n))
    BY <1>1, <2>1 DEF CallerOK, Copying
  <2>5. \A m \in Nodes \ {n} : CallerOK(m)' /\ AsksOK(m)'
    BY <1>1, <2>1, <2>2, OthersRest DEF QInv
  <2>6. AsksOK(n)'
    <3>1. asks[n] # 0
      BY <1>1, <2>1 DEF AsksOK, NothingOpen
    <3>2. ASSUME asks[n] = 1  PROVE AskedOnce(n)'
      <4>1. Answering(n) /\ ~ Copying(n)
        BY <1>1, <2>1, <3>2 DEF AsksOK, AskedOnce, Asking, Answered, NothingOpen
      <4>2. Answered(n)'
        BY <1>1, <2>1, <2>2, <4>1 DEF Answering, Answered, Free
      <4>. QED  BY <2>4, <4>1, <4>2 DEF AskedOnce
    <3>. QED  BY <1>1, <3>1, <3>2 DEF AsksOK
  <2>. QED  BY <2>3, <2>4, <2>5, <2>6
<1>. QED  BY <1>3, <1>4 DEF AdosipStep

LEMMA RestartLooks ==
    ASSUME IInv, QInv, LookInv, NEW n \in Nodes, Restart(n)
    PROVE  ContactsRegistered' /\ \A m \in Nodes : CallerOK(m)' /\ AsksOK(m)'
<1>1. /\ inc' = [inc EXCEPT ![n] = @ + 1] /\ UNCHANGED <<queries, registered>>
      /\ caller' = [caller EXCEPT ![n] = IdleCaller]
      /\ adosip' = [adosip EXCEPT ![n] = FreeAdosip]
      /\ user_contact' = [user_contact EXCEPT ![n] = Nothing]
      /\ user_info_pipe' = [user_info_pipe EXCEPT ![n] = 0]
      /\ asked' = [asked EXCEPT ![n] = {}]
      /\ asks' = [asks EXCEPT ![n] = 0]
  BY DEF Restart, Boot
<1>2. /\ inc \in [Nodes -> Nat] /\ caller \in [Nodes -> Caller] /\ adosip \in [Nodes -> Adosip]
      /\ user_contact \in [Nodes -> Users \cup {Nothing}]
      /\ asked \in [Nodes -> SUBSET Users]
      /\ asks \in [Nodes -> Nat] /\ user_info_pipe \in [Nodes -> Nat]
      /\ ContactsRegistered /\ \A m \in Nodes : CallerOK(m) /\ AsksOK(m)
  BY DEF IInv, NodesOK, QInv, QTypes, LookInv, Numbers
<1>3. /\ caller'[n] = IdleCaller /\ adosip'[n] = FreeAdosip /\ user_contact'[n] = Nothing
      /\ user_info_pipe'[n] = 0 /\ asked'[n] = {} /\ asks'[n] = 0 /\ inc'[n] = inc[n] + 1
  BY <1>1, <1>2
<1>4. ContactsRegistered'
  BY <1>1, <1>2 DEF ContactsRegistered, FreeAdosip
<1>5. ASSUME NEW m \in Nodes \ {n}  PROVE CallerOK(m)' /\ AsksOK(m)'
  <2>1. /\ caller'[m] = caller[m] /\ adosip'[m] = adosip[m]
        /\ user_contact'[m] = user_contact[m] /\ user_info_pipe'[m] = user_info_pipe[m]
        /\ asked'[m] = asked[m] /\ asks'[m] = asks[m] /\ inc'[m] = inc[m]
    BY <1>1, <1>2
  <2>2. Open(m)' = Open(m) /\ (Alone(m)' <=> Alone(m))
    BY <1>1, <2>1, QuestionsStay
  <2>. QED  BY <1>1, <1>2, <2>1, <2>2, NodeRests
<1>6. CallerOK(n)'
  BY <1>3 DEF CallerOK, Copying, IdleCaller
<1>7. Open(n)' = {}
  <2>1. ASSUME NEW q \in DOMAIN queries, q.src = n, q.inc = inc[n] + 1  PROVE FALSE
    <3>1. q.inc <= inc[n] /\ inc[n] \in Nat
      BY <1>2, <2>1 DEF QInv, QueriesHonest, Honest
    <3>. QED  BY <2>1, <3>1
  <2>. QED  BY <1>1, <1>3, <2>1 DEF Open, QueriesOf
<1>8. AsksOK(n)'
  BY <1>3, <1>7 DEF AsksOK, NothingOpen, Free, FreeAdosip
<1>. QED  BY <1>4, <1>5, <1>6, <1>8

LEMMA NumbersStep ==
    ASSUME QTypes, Numbers, [QueryNext]_qvars  PROVE Numbers'
<1>1. ASSUME NEW n \in Nodes, NEW u, SendQuestion(n, u), UNCHANGED user_info_pipe
      PROVE  Numbers'
  BY <1>1 DEF SendQuestion, Numbers
<1>2. ASSUME UNCHANGED <<user_info_pipe, asks>>  PROVE Numbers'
  BY <1>2 DEF Numbers
<1>3. CASE OverlayStep
  BY <1>2, <1>3 DEF OverlayStep, queryVars, shared, history
<1>4. ASSUME NEW n \in Nodes, NEW u \in Users, Register(n, u)  PROVE Numbers'
  BY <1>2, <1>4 DEF Register, shared
<1>5. ASSUME NEW n \in Nodes, Restart(n)  PROVE Numbers'
  BY <1>5 DEF Restart, Numbers
<1>6. ASSUME NEW n \in Nodes, CallerStep(n)  PROVE Numbers'
  <2>1. CASE AskOverlay(n)
    BY <1>1, <2>1 DEF AskOverlay, shared
  <2>. QED  BY <1>2, <1>6, <2>1
            DEF CallerStep, AnswerHere, TimedOut, BeginCopy, EndCopy, shared, history
<1>7. ASSUME NEW n \in Nodes, AdosipStep(n)  PROVE Numbers'
  BY <1>2, <1>7 DEF AdosipStep, StoreContact, SignalContact, history, Numbers
<1>8. ASSUME NEW n \in Askers, NEW u \in Users, Call(n, u) \/ Prompt(n, u) \/ PromptDies(n, u)
      PROVE  Numbers'
  BY <1>1, <1>2, <1>8, QueryAssumption DEF Call, Prompt, PromptDies, shared, history
<1>9. ASSUME NEW q \in DOMAIN queries, QueryStep(q)  PROVE Numbers'
  BY <1>2, <1>9 DEF QueryStep, OnUserQuery, OnUserQueryRedirect, ClearContact, EndQuery,
     QueryHandled, shared, history
<1>10. CASE UNCHANGED qvars
  BY <1>2, <1>10 DEF qvars, queryVars, shared, history
<1>. QED  BY <1>3, <1>4, <1>5, <1>6, <1>7, <1>8, <1>9, <1>10 DEF QueryNext

LEMMA NothingLooks ==
    ASSUME LookInv, inc' = inc, registered \subseteq registered',
           UNCHANGED <<caller, adosip, user_contact, user_info_pipe, queries, asked, asks>>
    PROVE  ContactsRegistered' /\ \A m \in Nodes : CallerOK(m)' /\ AsksOK(m)'
<1>1. ContactsRegistered'
  BY ContactsStay DEF LookInv
<1>2. \A m \in Nodes : CallerOK(m)' /\ AsksOK(m)'
  BY QuestionsStay, NodeRests DEF LookInv
<1>. QED  BY <1>1, <1>2

LEMMA LookStep ==
    ASSUME IInv, QInv, LookInv, [QueryNext]_qvars  PROVE LookInv'
<1>1. Recorded' /\ registered \subseteq registered'
  BY RecordedStep DEF LookInv
<1>2. Numbers'
  BY NumbersStep DEF QInv, LookInv
<1>3. ContactsRegistered' /\ \A m \in Nodes : CallerOK(m)' /\ AsksOK(m)'
  <2>1. CASE OverlayStep
    BY <1>1, <2>1, OverlayKeepsInc, NothingLooks DEF OverlayStep, queryVars, shared, history
  <2>2. ASSUME NEW n \in Nodes, NEW u \in Users, Register(n, u)
        PROVE  ContactsRegistered' /\ \A m \in Nodes : CallerOK(m)' /\ AsksOK(m)'
    BY <1>1, <2>2, NothingLooks DEF Register, RegisterUser, shared
  <2>3. ASSUME NEW n \in Nodes, Restart(n) \/ CallerStep(n) \/ AdosipStep(n)
        PROVE  ContactsRegistered' /\ \A m \in Nodes : CallerOK(m)' /\ AsksOK(m)'
    <3>1. CASE AskOverlay(n)
      <4>1. PICK u : u = caller[n].user
        OBVIOUS
      <4>2. u \in Users
        BY <3>1, <4>1 DEF AskOverlay, At, QInv, QTypes
      <4>. QED  BY <3>1, <4>2, ApplicationLooks
    <3>. QED  BY <2>3, <3>1, RestartLooks, CallerLooks, AdosipLooks DEF CallerStep
  <2>4. ASSUME NEW n \in Askers, NEW u \in Users, Call(n, u) \/ Prompt(n, u)
        PROVE  ContactsRegistered' /\ \A m \in Nodes : CallerOK(m)' /\ AsksOK(m)'
    BY <2>4, QueryAssumption, ApplicationLooks
  <2>5. ASSUME NEW n \in Askers, NEW u \in Users, PromptDies(n, u)
        PROVE  ContactsRegistered' /\ \A m \in Nodes : CallerOK(m)' /\ AsksOK(m)'
    BY <1>1, <2>5, NothingLooks DEF PromptDies, Crash, shared, history
  <2>6. ASSUME NEW q \in DOMAIN queries, QueryStep(q)
        PROVE  ContactsRegistered' /\ \A m \in Nodes : CallerOK(m)' /\ AsksOK(m)'
    BY <2>6, QueryLooks
  <2>7. CASE UNCHANGED qvars
    BY <1>1, <2>7, NothingLooks DEF qvars, vars, queryVars, shared, history
  <2>. QED  BY <2>1, <2>2, <2>3, <2>4, <2>5, <2>6, <2>7 DEF QueryNext
<1>. QED  BY <1>1, <1>2, <1>3 DEF LookInv

LEMMA NothingRegistered == Init /\ QueryInit => registered = {}
<1>. SUFFICES ASSUME Init, QueryInit  PROVE registered = {}
  OBVIOUS
<1>1. \A n \in Nodes : DOMAIN users[n] \cup DOMAIN red[n] \cup local[n] = {}
  BY BagDomains DEF Init
<1>. QED  BY <1>1 DEF QueryInit

LEMMA LookInit == Init /\ QueryInit => LookInv
<1>. SUFFICES ASSUME Init, QueryInit  PROVE LookInv
  OBVIOUS
<1>1. DOMAIN net = {} /\ DOMAIN queries = {}
  BY BagDomains DEF Init, QueryInit
<1>2. registered = {}
  BY NothingRegistered
<1>3. Recorded
  BY <1>1, <1>2, BagDomains DEF Init, Recorded
<1>4. ContactsRegistered
  BY <1>1 DEF QueryInit, ContactsRegistered, FreeAdosip
<1>5. Numbers
  BY DEF QueryInit, Numbers
<1>6. ASSUME NEW n \in Nodes  PROVE CallerOK(n) /\ AsksOK(n)
  <2>1. Open(n) = {}
    BY <1>1 DEF Open, QueriesOf
  <2>2. AsksOK(n)
    BY <2>1 DEF QueryInit, AsksOK, NothingOpen, Free, FreeAdosip
  <2>3. CallerOK(n)
    BY DEF QueryInit, CallerOK, Copying, IdleCaller
  <2>. QED  BY <2>2, <2>3
<1>. QED  BY <1>3, <1>4, <1>5, <1>6 DEF LookInv

-----------------------------------------------------------------------------
(* The steps of UserQuery as steps of UserLookup.                          *)
callOf == [n \in Nodes |-> caller[n].user]

LEMMA CallsKept ==
    ASSUME \A n \in Nodes : caller'[n].user = caller[n].user
    PROVE  callOf' = callOf
BY DEF callOf

LEMMA CallReplaced ==
    ASSUME QTypes, NEW n \in Nodes, NEW c, caller' = [caller EXCEPT ![n] = c]
    PROVE  callOf' = [callOf EXCEPT ![n] = c.user]
BY DEF callOf, QTypes

LEMMA ReturnRefined ==
    ASSUME QInv, NEW n \in Nodes, NEW c, Return(n, c), caller[n].user \in Users,
           UNCHANGED <<registered, asked, asks>>
    PROVE  Promise!Return(n, c)
<1>1. callOf' = [callOf EXCEPT ![n] = Nothing]
  <2>1. caller' = [caller EXCEPT ![n] = IdleCaller]
    BY DEF Return
  <2>2. callOf' = [callOf EXCEPT ![n] = IdleCaller.user]
    BY <2>1, CallReplaced DEF QInv
  <2>. QED  BY <2>2 DEF IdleCaller
<1>2. callOf[n] # Nothing
  BY QueryAssumption DEF callOf
<1>. QED  BY <1>1, <1>2 DEF Promise!Return, Return, callOf

LEMMA LookStutters ==
    ASSUME \A n \in Nodes : caller'[n].user = caller[n].user,
           UNCHANGED <<registered, asked, asks, result>>
    PROVE  UNCHANGED Promise!vars
<1>1. callOf' = callOf
  BY CallsKept
<1>. QED  BY <1>1 DEF Promise!vars, callOf

LEMMA AskRefined ==
    ASSUME NEW n \in Nodes, NEW u \in Users, SendQuestion(n, u),
           caller[n].user \in {Nothing, u},
           \A m \in Nodes : caller'[m].user = caller[m].user, UNCHANGED <<registered, result>>
    PROVE  [Promise!Next]_Promise!vars
<1>1. CASE UNCHANGED <<asked, asks>>
  BY <1>1, LookStutters
<1>2. CASE ~ UNCHANGED <<asked, asks>>
  <2>1. callOf' = callOf
    BY CallsKept
  <2>2. Promise!Ask(n, u)
    BY <1>2, <2>1 DEF SendQuestion, Promise!Ask, callOf
  <2>. QED  BY <2>2 DEF Promise!Next
<1>. QED  BY <1>1, <1>2

(* The contact a caller copied. *)
LEMMA EndCopyRefined ==
    ASSUME QInv, LookInv, NEW n \in Nodes, EndCopy(n)
    PROVE  Promise!Next
<1>1. PICK c \in {caller[n].first} \cup IF caller[n].changed /\ caller[n].first # Nothing
                                       THEN {Torn, user_contact[n]} ELSE {} :
          Return(n, c)
  BY DEF EndCopy
<1>2. /\ Copying(n) /\ caller[n].user \in Users
      /\ asks[n] \in Nat /\ asks[n] > 0
      /\ caller[n].first \in (asked[n] \cap registered) \cup {Nothing, Torn}
      /\ AsksOK(n) /\ asked[n] \subseteq Users
  BY DEF EndCopy, At, Copying, LookInv, CallerOK, Numbers, QInv, QTypes
<1>3. user_contact[n] \in (asked[n] \cap registered) \cup {Nothing}
  BY DEF QInv, ContactsAsked, LookInv, ContactsRegistered
<1>4. UNCHANGED <<registered, asked, asks>>
  BY DEF EndCopy, history
<1>5. Promise!Return(n, c)
  BY <1>1, <1>2, <1>4, ReturnRefined
<1>6. c \in (asked[n] \cap registered) \cup {Nothing, Torn}
  BY <1>1, <1>2, <1>3
<1>7. asks[n] > 1 \/ c \notin {Nothing, Torn}
  <2>1. ASSUME asks[n] = 1  PROVE c \notin {Nothing, Torn}
    BY <1>1, <1>2, <2>1 DEF AsksOK, AskedOnce
  <2>. QED  BY <1>2, <2>1
<1>8. CASE c \in asked[n] \cap registered
  <2>1. c \in Users /\ Promise!FoundAsked(n, c)
    BY <1>2, <1>5, <1>8 DEF Promise!FoundAsked
  <2>. QED  BY <2>1 DEF Promise!Next
<1>9. CASE c \in {Nothing, Torn} /\ asks[n] > 1
  <2>1. Promise!FoundMixed(n, c)
    BY <1>5, <1>9 DEF Promise!FoundMixed
  <2>. QED  BY <1>9, <2>1 DEF Promise!Next
<1>. QED  BY <1>6, <1>7, <1>8, <1>9

LEMMA CallerRefined ==
    ASSUME QInv, LookInv, NEW n \in Nodes, CallerStep(n)
    PROVE  [Promise!Next]_Promise!vars
<1>1. caller[n] \in Caller /\ caller \in [Nodes -> Caller] /\ CallerOK(n) /\ Recorded
  BY DEF QInv, QTypes, LookInv
<1>2. ASSUME Return(n, NotFound), caller[n].user \in Users,
             UNCHANGED <<registered, asked, asks>>
      PROVE  Promise!Next
  <2>1. Promise!Return(n, NotFound)
    BY <1>2, ReturnRefined
  <2>. QED  BY <2>1 DEF Promise!Next, Promise!Failed
<1>3. CASE AnswerHere(n)
  <2>1. PICK u : u = caller[n].user
    OBVIOUS
  <2>2. u \in Users
    BY <1>1, <1>3, <2>1 DEF AnswerHere, At, CallerOK
  <2>3. UNCHANGED <<registered, asked, asks>>
    BY <1>3 DEF AnswerHere, history
  <2>4. CASE u \in DOMAIN users[n]
    <3>1. Return(n, u)
      BY <1>3, <2>1, <2>4 DEF AnswerHere, BagIn, BagToSet
    <3>2. u \in registered
      BY <1>1, <2>4 DEF Recorded
    <3>3. Promise!Return(n, u)
      BY <2>1, <2>2, <2>3, <3>1, ReturnRefined
    <3>4. caller[n].user = u
      BY <2>1
    <3>5. Promise!FoundHere(n)
      BY <1>1, <3>2, <3>3, <3>4 DEF Promise!FoundHere, Promise!Return, callOf
    <3>. QED  BY <3>5 DEF Promise!Next
  <2>5. CASE u \notin DOMAIN users[n]
    BY <1>2, <1>3, <2>1, <2>2, <2>3, <2>5 DEF AnswerHere, BagIn, BagToSet
  <2>. QED  BY <2>4, <2>5
<1>4. CASE TimedOut(n)
  <2>1. caller[n].user \in Users /\ UNCHANGED <<registered, asked, asks>>
    BY <1>1, <1>4 DEF TimedOut, At, CallerOK, history
  <2>. QED  BY <1>2, <1>4, <2>1 DEF TimedOut
<1>5. CASE BeginCopy(n)
  <2>1. PICK c : caller' = [caller EXCEPT ![n].step = "copying", ![n].first = c]
    BY <1>5 DEF BeginCopy
  <2>2. \A m \in Nodes : caller'[m].user = caller[m].user
    BY <1>1, <2>1 DEF Caller
  <2>. QED  BY <1>5, <2>2, LookStutters DEF BeginCopy, history
<1>6. CASE EndCopy(n)
  BY <1>6, EndCopyRefined
<1>7. CASE AskOverlay(n)
  <2>1. PICK u : u = caller[n].user
    OBVIOUS
  <2>2. SendQuestion(n, u) /\ u \in Users
    BY <1>1, <1>7, <2>1 DEF AskOverlay, At, CallerOK
  <2>3. \A m \in Nodes : caller'[m].user = caller[m].user
    BY <1>1, <1>7 DEF AskOverlay, Caller
  <2>. QED  BY <1>7, <2>1, <2>2, <2>3, AskRefined DEF AskOverlay
<1>. QED  BY <1>3, <1>4, <1>5, <1>6, <1>7 DEF CallerStep

LEMMA NextRefined ==
    ASSUME QInv, LookInv, [QueryNext]_qvars
    PROVE  [Promise!Next]_Promise!vars
<1>1. caller \in [Nodes -> Caller] /\ \A n \in Nodes : CallerOK(n)
  BY DEF QInv, QTypes, LookInv
<1>2. ASSUME UNCHANGED <<caller, registered, asked, asks, result>>
      PROVE  UNCHANGED Promise!vars
  BY <1>2, LookStutters
<1>3. CASE OverlayStep
  BY <1>2, <1>3 DEF OverlayStep, queryVars, history
<1>4. ASSUME NEW n \in Nodes, NEW u \in Users, Register(n, u)
      PROVE  [Promise!Next]_Promise!vars
  <2>1. callOf' = callOf
    BY <1>4, CallsKept DEF Register
  <2>2. Promise!Register(u)
    BY <1>4, <2>1 DEF Register, Promise!Register, callOf
  <2>. QED  BY <2>2 DEF Promise!Next
<1>5. ASSUME NEW n \in Nodes, Restart(n)  PROVE [Promise!Next]_Promise!vars
  <2>1. caller' = [caller EXCEPT ![n] = IdleCaller]
    BY <1>5 DEF Restart
  <2>2. callOf' = [callOf EXCEPT ![n] = IdleCaller.user]
    BY <2>1, CallReplaced DEF QInv
  <2>3. callOf' = [callOf EXCEPT ![n] = Nothing]
    BY <2>2 DEF IdleCaller
  <2>4. Promise!Restart(n)
    BY <1>5, <2>3 DEF Restart, Promise!Restart, callOf
  <2>. QED  BY <2>4 DEF Promise!Next
<1>6. ASSUME NEW n \in Nodes, CallerStep(n)  PROVE [Promise!Next]_Promise!vars
  BY <1>6, CallerRefined
<1>7. ASSUME \E n \in Nodes : caller' = [caller EXCEPT ![n] = Marked(n)],
             UNCHANGED <<registered, asked, asks, result>>
      PROVE  UNCHANGED Promise!vars
  <2>1. PICK n \in Nodes : caller' = [caller EXCEPT ![n] = Marked(n)]
    BY <1>7
  <2>2. Marked(n).user = caller[n].user
    BY <1>1 DEF Marked, Caller
  <2>3. \A m \in Nodes : caller'[m].user = caller[m].user
    BY <1>1, <2>1, <2>2
  <2>. QED  BY <1>7, <2>3, LookStutters
<1>8. ASSUME NEW n \in Nodes, AdosipStep(n)  PROVE UNCHANGED Promise!vars
  <2>1. CASE StoreContact(n)
    <3>1. caller' = [caller EXCEPT ![n] = Marked(n)]
      BY <1>1, <2>1 DEF StoreContact, Marked
    <3>. QED  BY <1>7, <2>1, <3>1 DEF StoreContact, history
  <2>2. CASE SignalContact(n)
    BY <1>2, <2>2 DEF SignalContact, history
  <2>. QED  BY <1>8, <2>1, <2>2 DEF AdosipStep
<1>9. ASSUME NEW n \in Askers, NEW u \in Users, Call(n, u)  PROVE Promise!Next
  <2>. DEFINE c == [IdleCaller EXCEPT !.step = "called", !.user = u]
  <2>1. n \in Nodes /\ caller[n] = IdleCaller
    BY <1>1, <1>9, QueryAssumption DEF Call, At, CallerOK
  <2>2. c.user = u /\ caller' = [caller EXCEPT ![n] = c]
    BY <1>9 DEF Call, IdleCaller
  <2>. HIDE DEF c
  <2>3. callOf' = [callOf EXCEPT ![n] = u] /\ callOf[n] = Nothing
    <3>1. callOf' = [callOf EXCEPT ![n] = c.user]
      BY <2>1, <2>2, CallReplaced DEF QInv
    <3>2. callOf[n] = Nothing
      BY <2>1 DEF callOf, IdleCaller
    <3>. QED  BY <2>2, <3>1, <3>2
  <2>4. Promise!Call(n, u)
    BY <1>9, <2>3 DEF Call, Promise!Call, callOf, history
  <2>. QED  BY <2>1, <2>4 DEF Promise!Next
<1>10. ASSUME NEW n \in Askers, NEW u \in Users, Prompt(n, u)
       PROVE  [Promise!Next]_Promise!vars
  <2>1. n \in Nodes /\ caller[n].user = Nothing
    BY <1>1, <1>10, QueryAssumption DEF Prompt, At, CallerOK, IdleCaller
  <2>. QED  BY <1>10, <2>1, AskRefined DEF Prompt
<1>11. ASSUME NEW n \in Askers, NEW u \in Users, PromptDies(n, u)
       PROVE  UNCHANGED Promise!vars
  BY <1>2, <1>11 DEF PromptDies, history
<1>12. ASSUME NEW q \in DOMAIN queries, QueryStep(q)  PROVE UNCHANGED Promise!vars
  <2>1. CASE ClearContact(q.src, q)
    <3>1. PICK n \in Nodes : n = q.src
      BY DEF QInv, QueriesHonest, Honest, Query
    <3>2. caller' = [caller EXCEPT ![n] = Marked(n)]
      BY <1>1, <2>1, <3>1 DEF ClearContact, Marked
    <3>. QED  BY <1>7, <2>1, <3>2 DEF ClearContact, history
  <2>2. CASE ~ ClearContact(q.src, q)
    BY <1>2, <1>12, <2>2 DEF QueryStep, OnUserQuery, OnUserQueryRedirect, EndQuery,
       QueryHandled, history
  <2>. QED  BY <2>1, <2>2
<1>13. CASE UNCHANGED qvars
  BY <1>2, <1>13 DEF qvars, queryVars, history
<1>. QED  BY <1>3, <1>4, <1>5, <1>6, <1>8, <1>9, <1>10, <1>11, <1>12, <1>13 DEF QueryNext

(* si2p_query_user with the threads and messages behind it implements what *)
(* UserLookup promises: a contact it returns was registered, this process  *)
(* asked for it or keeps it, and after one question it is no mixture and   *)
(* not empty (si2p_query_user, onUserQueryOK).                             *)
THEOREM LookupIsRefined == QuerySpec => LookupRefined
<1>1. Init /\ QueryInit => Promise!Init
  <2>1. ASSUME Init, QueryInit  PROVE Promise!Init
    <3>1. registered = {}
      BY <2>1, NothingRegistered
    <3>2. callOf = [n \in Nodes |-> Nothing]
      BY <2>1 DEF QueryInit, callOf, IdleCaller
    <3>. QED  BY <2>1, <3>1, <3>2 DEF QueryInit, Promise!Init, callOf
  <2>. QED  BY <2>1
<1>2. Init /\ QueryInit => QInv /\ LookInv
  BY QueryInitStep, LookInit
<1>3. IInv /\ QInv /\ LookInv /\ [QueryNext]_<<vars, queryVars>> => QInv' /\ LookInv'
  BY QueryNextStep, LookStep DEF qvars
<1>4. QInv /\ LookInv /\ [QueryNext]_<<vars, queryVars>> => [Promise!Next]_Promise!vars
  BY NextRefined DEF qvars
<1>5. QuerySpec => []IInv
  BY QueriesAreExtra, Inductive, PTL
<1>. QED  BY <1>1, <1>2, <1>3, <1>4, <1>5, PTL DEF QuerySpec, LookupRefined, Promise!Spec

-----------------------------------------------------------------------------
(* OneAnswerPerQuestion for any number of questions: a step that takes one *)
(* of the three numbers up takes another one down.                         *)

(* The copies in bag B of the questions of n as process k. *)
Copies(B, n, k) ==
    UNION {{q} \X (1..B[q]) : q \in {p \in DOMAIN B : p.src = n /\ p.inc = k}}

Counted(n) ==
    /\ IsFiniteSet(Outstanding(n))
    /\ user_info_pipe[n] + Cardinality(Outstanding(n)) + (IF Free(n) THEN 0 ELSE 1)
           <= asks[n]

CountInv == IsABag(queries) /\ \A n \in Nodes : Counted(n)

LEMMA CopiesOf ==
    ASSUME NEW B, NEW n, NEW k, NEW x
    PROVE  x \in Copies(B, n, k) <=>
               \E q \in DOMAIN B : \E l \in 1..B[q] : q.src = n /\ q.inc = k /\ x = <<q, l>>
BY DEF Copies

(* Bag C has one r more than bag B. *)
More(B, r, C) ==
    /\ IsABag(B) /\ IsABag(C)
    /\ DOMAIN C = DOMAIN B \cup {r}
    /\ \A p \in DOMAIN B : p # r => C[p] = B[p]
    /\ r \in DOMAIN B => C[r] = B[r] + 1
    /\ r \notin DOMAIN B => C[r] = 1

LEMMA BagMore ==
    ASSUME NEW B, IsABag(B), NEW r
    PROVE  More(B, r, B (+) SetToBag({r}))
<1>. DEFINE C == B (+) SetToBag({r})
<1>1. DOMAIN SetToBag({r}) = {r} /\ SetToBag({r})[r] = 1
  BY DEF SetToBag
<1>2. PICK S : S = SetToBag({r})
  OBVIOUS
<1>3. C = [p \in DOMAIN B \cup {r} |-> (IF p \in DOMAIN B THEN B[p] ELSE 0)
                                          + (IF p \in {r} THEN S[p] ELSE 0)]
  BY <1>1, <1>2 DEF (+)
<1>. HIDE DEF C
<1>4. \A p \in DOMAIN B : B[p] \in Nat /\ B[p] > 0
  BY DEF IsABag
<1>5. DOMAIN C = DOMAIN B \cup {r}
  BY <1>3
<1>6. ASSUME NEW p \in DOMAIN B, p # r  PROVE C[p] = B[p]
  <2>1. B[p] \in Nat /\ C[p] = B[p] + 0
    BY <1>3, <1>4, <1>6
  <2>. QED  BY <2>1
<1>7. /\ r \in DOMAIN B => C[r] = B[r] + 1
      /\ r \notin DOMAIN B => C[r] = 1
  BY <1>1, <1>2, <1>3, <1>4
<1>8. ASSUME NEW p \in DOMAIN C  PROVE C[p] \in {l \in Nat : l > 0}
  <2>1. CASE p = r
    BY <1>4, <1>7, <2>1
  <2>2. CASE p # r
    BY <1>4, <1>5, <1>6, <2>2
  <2>. QED  BY <2>1, <2>2
<1>9. C = [p \in DOMAIN C |-> C[p]]
  BY <1>3
<1>10. More(B, r, C)
  BY <1>5, <1>6, <1>7, <1>8, <1>9 DEF IsABag, More
<1>. QED  BY <1>10 DEF C

(* A copy is taken out. *)
LEMMA CopiesWithout ==
    ASSUME NEW B, NEW e, NEW C, Less(B, e, C), NEW n, NEW k
    PROVE  /\ Copies(C, n, k) = Copies(B, n, k) \ {<<e, B[e]>>}
           /\ <<e, B[e]>> \in Copies(B, n, k) <=> e.src = n /\ e.inc = k
<1>1. \A p \in DOMAIN B : B[p] \in Nat /\ B[p] > 0
  BY DEF Less, IsABag
<1>2. <<e, B[e]>> \in Copies(B, n, k) <=> e.src = n /\ e.inc = k
  BY <1>1, CopiesOf DEF Less
<1>3. ASSUME NEW y \in Copies(C, n, k)  PROVE y \in Copies(B, n, k) \ {<<e, B[e]>>}
  <2>1. PICK q \in DOMAIN C : \E l \in 1..C[q] : q.src = n /\ q.inc = k /\ y = <<q, l>>
    BY <1>3, CopiesOf
  <2>2. PICK l \in 1..C[q] : q.src = n /\ q.inc = k /\ y = <<q, l>>
    BY <2>1
  <2>3. q \in DOMAIN B /\ l \in 1..B[q] /\ (q = e => l # B[e])
    <3>1. CASE q = e
      BY <1>1, <3>1 DEF Less
    <3>2. CASE q # e
      BY <3>2 DEF Less
    <3>. QED  BY <3>1, <3>2
  <2>. QED  BY <2>2, <2>3, CopiesOf
<1>4. ASSUME NEW y \in Copies(B, n, k), y # <<e, B[e]>>  PROVE y \in Copies(C, n, k)
  <2>1. PICK q \in DOMAIN B : \E l \in 1..B[q] : q.src = n /\ q.inc = k /\ y = <<q, l>>
    BY <1>4, CopiesOf
  <2>2. PICK l \in 1..B[q] : q.src = n /\ q.inc = k /\ y = <<q, l>>
    BY <2>1
  <2>3. q = e => l # B[e]
    BY <1>4, <2>2
  <2>4. q \in DOMAIN C /\ l \in 1..C[q]
    <3>1. CASE q = e
      BY <1>1, <2>3, <3>1 DEF Less
    <3>2. CASE q # e
      BY <3>2 DEF Less
    <3>. QED  BY <3>1, <3>2
  <2>. QED  BY <2>2, <2>4, CopiesOf
<1>. QED  BY <1>2, <1>3, <1>4

LEMMA CopiesLess ==
    ASSUME NEW B, NEW e, NEW C, Less(B, e, C), NEW n, NEW k, IsFiniteSet(Copies(B, n, k))
    PROVE  /\ IsFiniteSet(Copies(C, n, k))
           /\ Cardinality(Copies(C, n, k)) =
                  Cardinality(Copies(B, n, k)) - (IF e.src = n /\ e.inc = k THEN 1 ELSE 0)
<1>1. PICK x : x = <<e, B[e]>>
  OBVIOUS
<1>2. /\ Copies(C, n, k) = Copies(B, n, k) \ {x}
      /\ x \in Copies(B, n, k) <=> e.src = n /\ e.inc = k
  BY <1>1, CopiesWithout
<1>3. /\ IsFiniteSet(Copies(B, n, k) \ {x})
      /\ Cardinality(Copies(B, n, k) \ {x}) =
             IF x \in Copies(B, n, k) THEN Cardinality(Copies(B, n, k)) - 1
                                      ELSE Cardinality(Copies(B, n, k))
  BY FS_RemoveElement
<1>4. Cardinality(Copies(B, n, k)) \in Nat
  BY FS_CardinalityType
<1>5. CASE e.src = n /\ e.inc = k
  BY <1>2, <1>3, <1>4, <1>5
<1>6. CASE ~ (e.src = n /\ e.inc = k)
  BY <1>2, <1>3, <1>4, <1>6
<1>. QED  BY <1>5, <1>6

(* A copy is put in. *)
LEMMA CopiesWith ==
    ASSUME NEW B, NEW r, NEW C, More(B, r, C), NEW n, NEW k
    PROVE  /\ Copies(C, n, k) = IF r.src = n /\ r.inc = k THEN Copies(B, n, k) \cup {<<r, C[r]>>}
                                                          ELSE Copies(B, n, k)
           /\ <<r, C[r]>> \notin Copies(B, n, k)
<1>1. \A p \in DOMAIN B : B[p] \in Nat /\ B[p] > 0
  BY DEF More, IsABag
<1>2. ASSUME NEW y \in Copies(C, n, k), y # <<r, C[r]>>  PROVE y \in Copies(B, n, k)
  <2>1. PICK q \in DOMAIN C : \E l \in 1..C[q] : q.src = n /\ q.inc = k /\ y = <<q, l>>
    BY <1>2, CopiesOf
  <2>2. PICK l \in 1..C[q] : q.src = n /\ q.inc = k /\ y = <<q, l>>
    BY <2>1
  <2>3. q = r => l # C[r]
    BY <1>2, <2>2
  <2>4. q \in DOMAIN B /\ l \in 1..B[q]
    <3>1. CASE q = r
      BY <1>1, <2>3, <3>1 DEF More
    <3>2. CASE q # r
      BY <3>2 DEF More
    <3>. QED  BY <3>1, <3>2
  <2>. QED  BY <2>2, <2>4, CopiesOf
<1>3. ASSUME NEW y \in Copies(B, n, k)  PROVE y \in Copies(C, n, k) /\ y # <<r, C[r]>>
  <2>1. PICK q \in DOMAIN B : \E l \in 1..B[q] : q.src = n /\ q.inc = k /\ y = <<q, l>>
    BY <1>3, CopiesOf
  <2>2. PICK l \in 1..B[q] : q.src = n /\ q.inc = k /\ y = <<q, l>>
    BY <2>1
  <2>3. q \in DOMAIN C /\ l \in 1..C[q] /\ (q = r => l # C[r])
    <3>1. CASE q = r
      BY <1>1, <3>1 DEF More
    <3>2. CASE q # r
      BY <3>2 DEF More
    <3>. QED  BY <3>1, <3>2
  <2>. QED  BY <2>2, <2>3, CopiesOf
<1>4. <<r, C[r]>> \in Copies(C, n, k) <=> r.src = n /\ r.inc = k
  <2>1. C[r] \in 1..C[r]
    BY <1>1 DEF More
  <2>2. \A q, l : <<r, C[r]>> = <<q, l>> => q = r
    OBVIOUS
  <2>. QED  BY <2>1, <2>2, CopiesOf DEF More
<1>. QED  BY <1>2, <1>3, <1>4

LEMMA CopiesMore ==
    ASSUME NEW B, NEW r, NEW C, More(B, r, C), NEW n, NEW k, IsFiniteSet(Copies(B, n, k))
    PROVE  /\ IsFiniteSet(Copies(C, n, k))
           /\ Cardinality(Copies(C, n, k)) =
                  Cardinality(Copies(B, n, k)) + (IF r.src = n /\ r.inc = k THEN 1 ELSE 0)
<1>1. PICK x : x = <<r, C[r]>>
  OBVIOUS
<1>2. /\ Copies(C, n, k) = IF r.src = n /\ r.inc = k THEN Copies(B, n, k) \cup {x}
                                                     ELSE Copies(B, n, k)
      /\ x \notin Copies(B, n, k)
  BY <1>1, CopiesWith
<1>3. /\ IsFiniteSet(Copies(B, n, k) \cup {x})
      /\ Cardinality(Copies(B, n, k) \cup {x}) = Cardinality(Copies(B, n, k)) + 1
  BY <1>2, FS_AddElement
<1>4. Cardinality(Copies(B, n, k)) \in Nat
  BY FS_CardinalityType
<1>. QED  BY <1>2, <1>3, <1>4

LEMMA BagSame ==
    ASSUME NEW B, IsABag(B)  PROVE B (+) EmptyBag = B
<1>1. DOMAIN EmptyBag = {}
  BY BagDomains
<1>2. \A p \in DOMAIN B : B[p] \in Nat
  BY DEF IsABag
<1>3. B (+) EmptyBag = [p \in DOMAIN B |-> B[p]]
  BY <1>1, <1>2 DEF (+)
<1>. QED  BY <1>3 DEF IsABag

LEMMA Replaced ==
    ASSUME IsABag(queries), NEW q \in DOMAIN queries, NEW qs, ReplaceQuery(q, qs)
    PROVE  /\ qs = EmptyBag => Less(queries, q, queries')
           /\ \A r : qs = SetToBag({r}) =>
                  \E B : Less(queries, q, B) /\ More(B, r, queries')
<1>1. PICK B : B = queries (-) SetToBag({q})
  OBVIOUS
<1>2. queries' = B (+) qs
  BY <1>1 DEF ReplaceQuery
<1>3. Less(queries, q, B) /\ IsABag(B)
  BY <1>1, BagLess DEF Less
<1>4. qs = EmptyBag => Less(queries, q, queries')
  BY <1>2, <1>3, BagSame
<1>5. ASSUME NEW r, qs = SetToBag({r})  PROVE More(B, r, queries')
  BY <1>2, <1>3, <1>5, BagMore
<1>. QED  BY <1>3, <1>4, <1>5

(* The numbers of the nodes: of questions, of bytes, of what was asked.    *)
LEMMA CountTypes ==
    ASSUME CountInv, Numbers, NEW n \in Nodes
    PROVE  /\ IsFiniteSet(Outstanding(n)) /\ Cardinality(Outstanding(n)) \in Nat
           /\ user_info_pipe[n] \in Nat /\ asks[n] \in Nat
           /\ Outstanding(n) = Copies(queries, n, inc[n])
BY FS_CardinalityType DEF CountInv, Counted, Numbers, Outstanding, Copies, QueriesOf

LEMMA CountStays ==
    ASSUME CountInv, UNCHANGED <<queries, inc, adosip, user_info_pipe, asks>>
    PROVE  CountInv'
BY DEF CountInv, Counted, Outstanding, QueriesOf, Free

(* A question is taken, and the adosip thread of its asker may have begun  *)
(* to work on its answer.                                                  *)
LEMMA EndCounts ==
    ASSUME CountInv, Numbers, NEW q \in DOMAIN queries, Less(queries, q, queries'),
           UNCHANGED <<inc, user_info_pipe, asks>>,
           \A n \in Nodes : \/ adosip'[n] = adosip[n]
                            \/ n = q.src /\ q.inc = inc[n] /\ Free(n)
    PROVE  CountInv'
<1>1. ASSUME NEW n \in Nodes  PROVE Counted(n)'
  <2>1. PICK k, C, c, d : k = inc[n] /\ C = queries' /\ c = Outstanding(n) /\ d = Outstanding(n)'
    OBVIOUS
  <2>2. c = Copies(queries, n, k) /\ d = Copies(C, n, k)
    BY <2>1 DEF Outstanding, Copies, QueriesOf
  <2>3. /\ IsFiniteSet(c) /\ Cardinality(c) \in Nat /\ user_info_pipe[n] \in Nat /\ asks[n] \in Nat
        /\ user_info_pipe[n] + Cardinality(c) + (IF Free(n) THEN 0 ELSE 1) <= asks[n]
    BY <2>1, CountTypes DEF CountInv, Counted
  <2>4. /\ IsFiniteSet(d)
        /\ Cardinality(d) = Cardinality(c) - (IF q.src = n /\ q.inc = k THEN 1 ELSE 0)
    BY <2>1, <2>2, <2>3, CopiesLess
  <2>5. user_info_pipe[n] + Cardinality(d) + (IF Free(n)' THEN 0 ELSE 1) <= asks[n]
    <3>1. CASE adosip'[n] = adosip[n]
      BY <2>3, <2>4, <3>1 DEF Free
    <3>2. CASE n = q.src /\ q.inc = inc[n] /\ Free(n)
      BY <2>1, <2>3, <2>4, <3>2
    <3>. QED  BY <3>1, <3>2
  <2>. QED  BY <2>1, <2>4, <2>5 DEF Counted
<1>. QED  BY <1>1 DEF CountInv, Less

(* A question takes the place of another one of the same asker. *)
LEMMA RedirectCounts ==
    ASSUME CountInv, Numbers, NEW q \in DOMAIN queries, NEW r, r.src = q.src, r.inc = q.inc,
           NEW B, Less(queries, q, B), More(B, r, queries'),
           UNCHANGED <<inc, adosip, user_info_pipe, asks>>
    PROVE  CountInv'
<1>1. ASSUME NEW n \in Nodes  PROVE Counted(n)'
  <2>1. PICK k, C, c, d : k = inc[n] /\ C = queries' /\ c = Outstanding(n) /\ d = Outstanding(n)'
    OBVIOUS
  <2>2. c = Copies(queries, n, k) /\ d = Copies(C, n, k)
    BY <2>1 DEF Outstanding, Copies, QueriesOf
  <2>3. IsFiniteSet(c) /\ Cardinality(c) \in Nat
    BY <2>1, CountTypes
  <2>4. /\ IsFiniteSet(Copies(B, n, k))
        /\ Cardinality(Copies(B, n, k))
               = Cardinality(c) - (IF q.src = n /\ q.inc = k THEN 1 ELSE 0)
    BY <2>1, <2>2, <2>3, CopiesLess
  <2>5. /\ IsFiniteSet(d)
        /\ Cardinality(d)
               = Cardinality(Copies(B, n, k)) + (IF r.src = n /\ r.inc = k THEN 1 ELSE 0)
    BY <2>1, <2>2, <2>4, CopiesMore
  <2>6. Cardinality(d) = Cardinality(c)
    BY <2>3, <2>4, <2>5
  <2>. QED  BY <2>1, <2>5, <2>6 DEF CountInv, Counted, Free
<1>. QED  BY <1>1 DEF CountInv, More

LEMMA SendCounts ==
    ASSUME CountInv, Numbers, NEW n \in Nodes, NEW u, SendQuestion(n, u),
           UNCHANGED <<inc, adosip, user_info_pipe>>
    PROVE  CountInv'
<1>1. CASE NextHop(n, u) = EmptyChordId
  BY <1>1, CountStays DEF SendQuestion
<1>2. CASE NextHop(n, u) # EmptyChordId
  <2>1. PICK r : /\ queries' = queries (+) SetToBag({r}) /\ r.src = n /\ r.inc = inc[n]
                 /\ asks' = [asks EXCEPT ![n] = @ + 1]
    <3>1. PICK r : r = Question(n, NextHop(n, u), u)
      OBVIOUS
    <3>2. r.src = n /\ r.inc = inc[n]
      BY <3>1 DEF Question
    <3>3. /\ queries' = queries (+) SetToBag({r})
          /\ asks' = [asks EXCEPT ![n] = @ + 1]
      BY <1>2, <3>1 DEF SendQuestion
    <3>. QED  BY <3>2, <3>3
  <2>2. More(queries, r, queries')
    BY <2>1, BagMore DEF CountInv
  <2>3. ASSUME NEW m \in Nodes  PROVE Counted(m)'
    <3>1. PICK k, C, c, d : k = inc[m] /\ C = queries' /\ c = Outstanding(m) /\ d = Outstanding(m)'
      OBVIOUS
    <3>2. c = Copies(queries, m, k) /\ d = Copies(C, m, k)
      BY <3>1 DEF Outstanding, Copies, QueriesOf
    <3>3. /\ IsFiniteSet(c) /\ Cardinality(c) \in Nat
          /\ user_info_pipe[m] \in Nat /\ asks[m] \in Nat
          /\ user_info_pipe[m] + Cardinality(c) + (IF Free(m) THEN 0 ELSE 1) <= asks[m]
      BY <3>1, CountTypes DEF CountInv, Counted
    <3>4. /\ IsFiniteSet(d)
          /\ Cardinality(d) = Cardinality(c) + (IF r.src = m /\ r.inc = k THEN 1 ELSE 0)
      BY <2>2, <3>1, <3>2, <3>3, CopiesMore
    <3>5. asks'[m] = IF m = n THEN asks[m] + 1 ELSE asks[m]
      BY <2>1 DEF Numbers
    <3>6. user_info_pipe[m] + Cardinality(d) + (IF Free(m) THEN 0 ELSE 1) <= asks'[m]
      BY <2>1, <3>1, <3>3, <3>4, <3>5
    <3>. QED  BY <3>1, <3>4, <3>6 DEF Counted, Free
  <2>. QED  BY <2>2, <2>3 DEF CountInv, More
<1>. QED  BY <1>1, <1>2

LEMMA QueryCounts ==
    ASSUME QInv, LookInv, CountInv, NEW q \in DOMAIN queries, QueryStep(q)
    PROVE  CountInv'
<1>1. UNCHANGED <<inc, user_info_pipe, asks>>
  BY QueriesLeaveOverlay DEF QueryStep, OnUserQuery, OnUserQueryRedirect, ClearContact,
     EndQuery, QueryHandled, vars, shared, history
<1>2. IsABag(queries) /\ Numbers
  BY DEF CountInv, LookInv
<1>3. CASE ClearContact(q.src, q)
  <2>1. /\ ReplaceQuery(q, EmptyBag) /\ q.inc = inc[q.src] /\ Free(q.src)
        /\ \A n \in Nodes \ {q.src} : adosip'[n] = adosip[n]
    BY <1>3 DEF ClearContact, QueryReturns, QInv, QTypes
  <2>. QED  BY <1>1, <1>2, <2>1, Replaced, EndCounts
<1>4. CASE ~ ClearContact(q.src, q)
  <2>1. adosip' = adosip
    BY <1>4 DEF QueryStep, OnUserQuery, OnUserQueryRedirect, EndQuery, QueryHandled
  <2>2. CASE ReplaceQuery(q, EmptyBag)
    BY <1>1, <1>2, <2>1, <2>2, Replaced, EndCounts
  <2>3. ASSUME NEW r, ReplaceQuery(q, SetToBag({r})), r.src = q.src, r.inc = q.inc
        PROVE  CountInv'
    BY <1>1, <1>2, <2>1, <2>3, Replaced, RedirectCounts
  <2>. QED  BY <2>2, <2>3, QuestionGoesOn DEF LookInv
<1>. QED  BY <1>3, <1>4

LEMMA AdosipCounts ==
    ASSUME QInv, LookInv, CountInv, NEW n \in Nodes, AdosipStep(n)
    PROVE  CountInv'
<1>1. queries' = queries /\ inc' = inc /\ asks' = asks
  BY DEF AdosipStep, StoreContact, SignalContact, vars, history
<1>2. \A m \in Nodes : Outstanding(m)' = Outstanding(m)
  BY <1>1 DEF Outstanding, QueriesOf
<1>3. CASE StoreContact(n)
  <2>1. user_info_pipe' = user_info_pipe /\ \A m \in Nodes : Free(m)' <=> Free(m)
    BY <1>3 DEF StoreContact, Free, QInv, QTypes, Adosip
  <2>. QED  BY <1>1, <1>2, <2>1 DEF CountInv, Counted
<1>4. CASE SignalContact(n)
  <2>1. /\ ~ Free(n) /\ Free(n)' /\ user_info_pipe'[n] = user_info_pipe[n] + 1
        /\ \A m \in Nodes \ {n} : /\ Free(m)' <=> Free(m)
                                  /\ user_info_pipe'[m] = user_info_pipe[m]
    BY <1>4 DEF SignalContact, Free, FreeAdosip, QInv, QTypes, LookInv, Numbers
  <2>2. Counted(n)'
    BY <1>1, <1>2, <2>1, CountTypes DEF CountInv, Counted, LookInv
  <2>3. \A m \in Nodes \ {n} : Counted(m)'
    BY <1>1, <1>2, <2>1 DEF CountInv, Counted
  <2>. QED  BY <1>1, <2>2, <2>3 DEF CountInv
<1>. QED  BY <1>3, <1>4 DEF AdosipStep

LEMMA RestartCounts ==
    ASSUME IInv, QInv, LookInv, CountInv, NEW n \in Nodes, Restart(n)
    PROVE  CountInv'
<1>1. /\ inc' = [inc EXCEPT ![n] = @ + 1] /\ queries' = queries
      /\ adosip' = [adosip EXCEPT ![n] = FreeAdosip]
      /\ user_info_pipe' = [user_info_pipe EXCEPT ![n] = 0]
      /\ asks' = [asks EXCEPT ![n] = 0]
  BY DEF Restart, Boot
<1>2. /\ inc \in [Nodes -> Nat] /\ adosip \in [Nodes -> Adosip]
      /\ asks \in [Nodes -> Nat] /\ user_info_pipe \in [Nodes -> Nat]
  BY DEF IInv, NodesOK, QInv, QTypes, LookInv, Numbers
<1>3. Outstanding(n)' = {}
  <2>1. ASSUME NEW q \in DOMAIN queries, q.src = n, q.inc = inc[n] + 1  PROVE FALSE
    <3>1. q.inc <= inc[n] /\ inc[n] \in Nat
      BY <1>2, <2>1 DEF QInv, QueriesHonest, Honest
    <3>. QED  BY <2>1, <3>1
  <2>2. inc'[n] = inc[n] + 1
    BY <1>1, <1>2
  <2>. QED  BY <1>1, <2>1, <2>2 DEF Outstanding, QueriesOf
<1>4. Counted(n)'
  BY <1>1, <1>2, <1>3, FS_EmptySet DEF Counted, Free, FreeAdosip
<1>5. ASSUME NEW m \in Nodes \ {n}  PROVE Counted(m)'
  BY <1>1, <1>2, <1>5 DEF CountInv, Counted, Outstanding, QueriesOf, Free
<1>. QED  BY <1>1, <1>4, <1>5 DEF CountInv

LEMMA CountStep ==
    ASSUME IInv, QInv, LookInv, CountInv, [QueryNext]_qvars  PROVE CountInv'
<1>1. CASE OverlayStep
  BY <1>1, OverlayKeepsInc, CountStays DEF OverlayStep, queryVars, shared, history
<1>2. ASSUME NEW n \in Nodes, NEW u \in Users, Register(n, u)  PROVE CountInv'
  BY <1>2, CountStays DEF Register, RegisterUser, shared
<1>3. ASSUME NEW n \in Nodes, CallerStep(n)  PROVE CountInv'
  <2>1. CASE AskOverlay(n)
    BY <2>1, SendCounts DEF AskOverlay, LookInv, vars, shared
  <2>. QED  BY <1>3, <2>1, CountStays
            DEF CallerStep, AnswerHere, TimedOut, BeginCopy, EndCopy, vars, shared, history
<1>4. ASSUME NEW n \in Askers, NEW u \in Users, Call(n, u) \/ PromptDies(n, u)
      PROVE  CountInv'
  BY <1>4, CountStays DEF Call, PromptDies, Crash, vars, shared, history
<1>5. ASSUME NEW n \in Askers, NEW u \in Users, Prompt(n, u)  PROVE CountInv'
  BY <1>5, QueryAssumption, SendCounts DEF Prompt, LookInv, vars, shared
<1>6. CASE UNCHANGED qvars
  BY <1>6, CountStays DEF qvars, vars, queryVars, shared, history
<1>. QED  BY <1>1, <1>2, <1>3, <1>4, <1>5, <1>6, RestartCounts, AdosipCounts, QueryCounts
          DEF QueryNext

LEMMA CountInit == Init /\ QueryInit => CountInv
<1>. SUFFICES ASSUME Init, QueryInit  PROVE CountInv
  OBVIOUS
<1>1. queries = EmptyBag /\ DOMAIN queries = {}
  BY BagDomains DEF QueryInit
<1>2. IsABag(queries)
  BY <1>1 DEF IsABag, EmptyBag, SetToBag
<1>3. ASSUME NEW n \in Nodes  PROVE Counted(n)
  <2>1. Outstanding(n) = {}
    BY <1>1 DEF Outstanding, QueriesOf
  <2>. QED  BY <2>1, FS_EmptySet DEF QueryInit, Counted, Free, FreeAdosip
<1>. QED  BY <1>2, <1>3 DEF CountInv

(* A question brings one byte at most, however often it is redirected:     *)
(* what is in user_info_pipe, at work in onUserQueryOK and under way is no *)
(* more than this process sent (onUserQueryRedirect, onUserQueryOK).       *)
THEOREM QuestionsBringOneAnswer == QuerySpec => []OneAnswerPerQuestion
<1>1. Init /\ QueryInit => QInv /\ LookInv /\ CountInv
  BY QueryInitStep, LookInit, CountInit
<1>2. IInv /\ QInv /\ LookInv /\ CountInv /\ [QueryNext]_<<vars, queryVars>>
          => QInv' /\ LookInv' /\ CountInv'
  BY QueryNextStep, LookStep, CountStep DEF qvars
<1>3. CountInv => OneAnswerPerQuestion
  BY DEF CountInv, Counted, OneAnswerPerQuestion, Live
<1>4. QuerySpec => []IInv
  BY QueriesAreExtra, Inductive, PTL
<1>. QED  BY <1>1, <1>2, <1>3, <1>4, PTL DEF QuerySpec
=============================================================================

------------------------------- MODULE Joining -------------------------------
(***************************************************************************)
(* From the start of a node to NormalState: discovery by multicast, JOIN   *)
(* at the node discovered, and the computation of the finger table by      *)
(* FINDSUCC requests; and how nodes in NormalState answer these.           *)
(***************************************************************************)
EXTENDS Registry

(* A node alone on the ring: what StartNode(true) and onNoNodeFind write.  *)
(* Only the first cell of the successor list is assigned.                  *)
BecomeFirst(n) ==
    /\ pred' = [pred EXCEPT ![n] = n]
    /\ succ' = [succ EXCEPT ![n][0] = n]
    /\ finger' = [finger EXCEPT ![n] = Set_Fingers(n, @, 1, n)]
    /\ kind' = [kind EXCEPT ![n] = "Normal"]

(* Node::StartNode(true) *)
StartFirst(n) ==
    /\ n \in Founders
    /\ kind[n] \in StartFrom
    /\ Spend("start", MaxStarts)
    /\ BecomeFirst(n)
    /\ UNCHANGED <<inc, bootstrap, records, net>>

(* Node::StartNode(), whatever the state; StartNode(false) does the same   *)
(* from InitedState and nothing elsewhere.  The table is left as it is.    *)
StartNode(n) ==
    /\ kind[n] \in StartFrom
    /\ Spend("start", MaxStarts)
    /\ kind' = [kind EXCEPT ![n] = "Discoving"]
    /\ net' = net (+) SetToBag({MulticastRequest(n)})
    /\ UNCHANGED <<inc, table, bootstrap, records>>

(* onDiscoverReg: any node in NormalState answers; the client transaction  *)
(* takes the first answer.                                                 *)
OnDiscoverReg(n, t) ==
    /\ Arrives("multicast", n, t)
    /\ Replace(t, Answer(t, "ok", [NoContacts EXCEPT ![0] = n], EmptyChordId))
    /\ UNCHANGED <<kind, inc, table, bootstrap, records, ops>>

(* DiscoveredState::Join: request and To header both name the bootstrap. *)
JoinRequest(n, first) == Request("join", n, first, first)

(* DiscovingState::onDiscoverOK, and DiscoveredState::Join which it calls. *)
OnDiscoverOK(n, t) ==
    /\ Returns("multicast", "ok", n, t)
    /\ kind[n] = "Discoving"
    /\ LET first == t.contacts[0]
       IN  /\ bootstrap' = [bootstrap EXCEPT ![n] = first]
           /\ Replace(t, SetToBag({JoinRequest(n, first)}))
    /\ kind' = [kind EXCEPT ![n] = "Joining"]
    /\ UNCHANGED <<inc, table, records, ops>>

(* OnDiscoverTimeout: nobody answered; start the overlay alone. *)
OnNoNodeFind(n, t) ==
    /\ Returns("multicast", "request", n, t)
    /\ t.dst \cap Live = {} \/ Lossy
    /\ kind[n] = "Discoving"
    /\ BecomeFirst(n)
    /\ Replace(t, EmptyBag)
    /\ UNCHANGED <<inc, bootstrap, records, ops>>

-----------------------------------------------------------------------------
(* Mutant: a node does not answer for its own position. *)
LookupOpen(n, t, ok) ==
    IF Belongs(t.to, pred[n], n) THEN ok
    ELSE LET next == ClosestPrecedingFinger(n, finger[n], succ[n], t.to)
         IN  IF next = EmptyChordId THEN EmptyBag
             ELSE Answer(t, "redirect", [NoContacts EXCEPT ![0] = next], EmptyChordId)

(* onJoinReg and onFindSuccReg: n answers ok for the positions it owns,    *)
(* else it redirects to its closest preceding finger; a 404 is ignored.    *)
Lookup(n, t, ok) ==
    IF BelongsRightInclusive(t.to, pred[n], n) THEN ok
    ELSE LET next == ClosestPrecedingFinger(n, finger[n], succ[n], t.to)
         IN  IF next = EmptyChordId THEN EmptyBag
             ELSE Answer(t, "redirect", [NoContacts EXCEPT ![0] = next], EmptyChordId)

(* Mutant: the node that answers a JOIN adopts the joiner at once. *)
OnJoinRegAdopting(n, t) ==
    /\ Arrives("join", n, t)
    /\ pred' = [pred EXCEPT ![n] = t.src]
    /\ Replace(t, Answer(t, "ok", ContactsOf(n, succ[n], succ[n][0] # n), pred[n]))
    /\ UNCHANGED <<kind, inc, finger, succ, bootstrap, records, ops>>

OnJoinReg(n, t) ==
    /\ Arrives("join", n, t)
    /\ Replace(t, Lookup(n, t, Answer(t, "ok", ContactsOf(n, succ[n], succ[n][0] # n),
                                      pred[n])))
    /\ UNCHANGED <<kind, inc, table, bootstrap, records, ops>>

OnFindSuccReg(n, t) ==
    /\ Arrives("findsucc", n, t)
    /\ Replace(t, Lookup(n, t, Answer(t, "ok", [NoContacts EXCEPT ![0] = n],
                                      EmptyChordId)))
    /\ UNCHANGED <<kind, inc, table, bootstrap, records, ops>>

-----------------------------------------------------------------------------
(* JoiningState::Notify and FTComputingState::Notify *)
NotifyRequests(n, s, p) ==
    {Request("stabilize", n, target, target) :
        target \in {s[0]} \cup ({p} \ {EmptyChordId})}

(* JoiningState::onJoinOK *)
OnJoinOK(n, t) ==
    /\ Returns("join", "ok", n, t)
    /\ kind[n] = "Joining"
    /\ LET contact == t.contacts[0]
           k == LastCovered(n, 1, contact) + 1
           list == SetSuccListWithContacts(n, succ[n], t.contacts, 0)
       IN  /\ finger' = [finger EXCEPT ![n] = Set_Fingers(n, @, 1, contact)]
           /\ succ' = [succ EXCEPT ![n] = list]
           /\ pred' = [pred EXCEPT ![n] = t.predecessor]
           /\ \/ /\ k <= NBITS
                 /\ Replace(t, SetToBag({Request("findsucc", n, contact, Start(n, k))}))
                 /\ kind' = [kind EXCEPT ![n] = "FTComputing"]
              \/ /\ k > NBITS
                 /\ Replace(t, SetToBag(NotifyRequests(n, list, t.predecessor)))
                 /\ kind' = [kind EXCEPT ![n] = "Normal"]
    /\ UNCHANGED <<inc, bootstrap, records, ops>>

(* The node of the finger whose start was looked up is v: onFindSuccOK and *)
(* the first branch of onFindSuccRedirect, in FTComputingState and in      *)
(* NormalState.                                                            *)
FingerFound(n, t, v) ==
    \E i \in FingerIndex :
        LET k == LastCovered(n, i, v) + 1
        IN  /\ Start(n, i) = t.to
            /\ finger' = [finger EXCEPT ![n] = Set_Fingers(n, @, i, v)]
            /\ Replace(t, IF k <= NBITS
                          THEN SetToBag({Request("findsucc", n, v, Start(n, k))})
                          ELSE IF kind[n] = "FTComputing"
                          THEN SetToBag(NotifyRequests(n, succ[n], pred[n]))
                          ELSE EmptyBag)
            /\ kind' = IF k > NBITS THEN [kind EXCEPT ![n] = "Normal"] ELSE kind
            /\ UNCHANGED <<inc, succ, pred, bootstrap, records, ops>>

(* Mutant: the answer to a FINDSUCC is taken in every state. *)
OnFindSuccOKAlways(n, t) ==
    /\ Returns("findsucc", "ok", n, t)
    /\ FingerFound(n, t, t.contacts[0])

OnFindSuccOK(n, t) ==
    /\ Returns("findsucc", "ok", n, t)
    /\ kind[n] \in {"FTComputing", "Normal"}
    /\ FingerFound(n, t, t.contacts[0])

(* onFindSuccRedirect: the position is n's own, or contact is asked next.  *)
FollowRedirect(n, t, contact) ==
    \/ /\ contact = n
       /\ FingerFound(n, t, n)
    \/ /\ contact # n
       /\ Replace(t, SetToBag({Request("findsucc", n, contact, t.to)}))
       /\ UNCHANGED <<kind, inc, table, bootstrap, records, ops>>

OnFindSuccRedirect(n, t) ==
    /\ Returns("findsucc", "redirect", n, t)
    /\ kind[n] \in {"FTComputing", "Normal"}
    /\ FollowRedirect(n, t, t.contacts[0])
=============================================================================

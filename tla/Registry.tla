------------------------------ MODULE Registry ------------------------------
(***************************************************************************)
(* User records.  Each record belongs to the node whose arc (pred, n]      *)
(* contains its identifier; that node keeps it in user_info_list and sends *)
(* a redundant copy to its successor, which keeps it in                    *)
(* red_user_info_list.  Both lists are bags: ADD_ELEMENT does not look for *)
(* an entry of the same user, each entry is sent, moved and freed on its   *)
(* own, and no loop depends on their order.  local_user_info_list holds    *)
(* the users registered through this node; it is a set, since it is only   *)
(* searched for a user.                                                    *)
(***************************************************************************)
EXTENDS Transactions

Owns(n, u) == BelongsRightInclusive(Hash[u], pred[n], n)

(* RED_REGISTER of a list of records to a successor, unless n is alone. *)
RedundantCopies(n, target, list) ==
    IF target = n THEN EmptyBag ELSE UserRequests("red_register", n, target, list)

(* Mutant: records stay when a predecessor joins. *)
NothingMisplaced(n, p) == EmptyBag

(* TransferUserInfoToPred(p): every redundant copy goes to p, and so does  *)
(* every record p is now nearer to; they are removed as they are sent.     *)
Misplaced(n, p) ==
    [u \in {v \in DOMAIN users[n] : ~ BelongsRightInclusive(Hash[v], p, n)} |->
        users[n][u]]

(* Mutant: only the redundant copies are sent. *)
TransferCopiesOnly(n, p) == UserRequests("red_register", n, p, red[n])

TransferRequests(n, p) ==
    UserRequests("red_register", n, p, red[n])
        (+) UserRequests("user_registration", n, p, Misplaced(n, p))

TransferUserInfoToPred(n, p) ==
    /\ users' = [users EXCEPT ![n] = @ (-) Misplaced(n, p)]
    /\ red' = [red EXCEPT ![n] = EmptyBag]
    /\ UNCHANGED local

-----------------------------------------------------------------------------
(* Node::RegisterUser, called by the application. *)
RegisterUser(n, u) ==
    /\ kind[n] \in RegisterFrom
    /\ Spend("register", MaxRegisters)
    /\ local' = [local EXCEPT ![n] = @ \cup {u}]
    /\ \/ /\ Owns(n, u)
          /\ users' = [users EXCEPT ![n] = @ (+) SetToBag({u})]
          /\ red' = IF pred[n] = n THEN [red EXCEPT ![n] = @ (+) SetToBag({u})] ELSE red
          /\ net' = net (+) RedundantCopies(n, succ[n][0], SetToBag({u}))
       \/ /\ ~ Owns(n, u)
          /\ LET next == ClosestPrecedingFinger(n, finger[n], succ[n], Hash[u])
             IN  net' = net (+) SetToBag({Request("user_registration", n, next, u)})
          /\ UNCHANGED <<users, red>>
    /\ UNCHANGED <<kind, inc, table, bootstrap>>

(* onUserReg: the owner keeps the record and copies it to its successor,   *)
(* any other node redirects.  The sender ignores a 200 and a 404.          *)
OnUserReg(n, t) ==
    /\ Arrives("user_registration", n, t)
    /\ \/ /\ Owns(n, t.to)
          /\ users' = [users EXCEPT ![n] = @ (+) SetToBag({t.to})]
          /\ Replace(t, RedundantCopies(n, succ[n][0], SetToBag({t.to})))
       \/ /\ ~ Owns(n, t.to)
          /\ LET next == ClosestPrecedingFinger(n, finger[n], succ[n], Hash[t.to])
             IN  Replace(t, IF next = EmptyChordId THEN EmptyBag
                            ELSE Answer(t, "redirect",
                                        [NoContacts EXCEPT ![0] = next], EmptyChordId))
          /\ UNCHANGED users
    /\ UNCHANGED <<kind, inc, table, bootstrap, red, local, ops>>

(* find_user_info_by_aor among the users registered through this node. *)
RegisteredHere(n, u) == u \in local[n]

(* onUserRegRedirect looks the record up among the users registered here   *)
(* and dereferences the result: a record that was only passed on is not    *)
(* there.                                                                  *)
OnUserRegRedirect(n, t) ==
    /\ Returns("user_registration", "redirect", n, t)
    /\ kind[n] = "Normal"
    /\ \/ /\ RegisteredHere(n, t.to)
          /\ Replace(t, SetToBag({Request("user_registration", n, t.contacts[0], t.to)}))
          /\ UNCHANGED <<kind, inc, table, bootstrap, records, ops>>
       \/ /\ ~ RegisteredHere(n, t.to)
          /\ Replace(t, EmptyBag)
          /\ Fault(n)

(* onRedRegister: kept, whoever owns the record. *)
OnRedRegister(n, t) ==
    /\ Arrives("red_register", n, t)
    /\ red' = [red EXCEPT ![n] = @ (+) SetToBag({t.to})]
    /\ Replace(t, EmptyBag)
    /\ UNCHANGED <<kind, inc, table, bootstrap, users, local, ops>>
=============================================================================

-------------------------- MODULE Lifecycle_proofs --------------------------
(***************************************************************************)
(* The threads of a process and its state object, for any number of calls, *)
(* answers, timeouts, rounds and deletions.  _state has no lock: what      *)
(* keeps two ChangeStates apart is that the application changes it in      *)
(* settled states, as long as it calls its functions in no other, and the  *)
(* adosip thread in the states between.  A thread may still be in an       *)
(* object that another one deletes.                                        *)
(***************************************************************************)
EXTENDS Lifecycle, SequenceTheorems, TLAPS

Busy == {"Discoving", "Discovered", "Joining", "FTComputing"}

Kinds == Settled \cup Busy

(* The state changes of each thread. *)
Owned(t) ==
    IF t = "app"
    THEN {<<"Closed", "Inited">>, <<"Normal", "Closed">>}
             \cup Settled \X {"Discoving", "Normal"}
    ELSE IF t = "adosip"
    THEN {<<"Discoving", "Discovered">>, <<"Discoving", "Normal">>,
          <<"Discovered", "Joining">>, <<"Joining", "FTComputing">>,
          <<"Joining", "Normal">>, <<"FTComputing", "Normal">>}
    ELSE {}

DestructorOps ==
    {"delete state", "delete th_stabilize", "delete th_transport", "join transport",
     "free osip", "delete adosip", "join adosip"}

Ops == {"call", "again", "send", "make", "store", "delete", "handle", "return", "round",
        "constructed"} \cup DestructorOps

AppEvents == {"DISCOVER_SND", "JOIN_SND", "LEAVE_SND"}
AdosipEvents == Classes \cup {"NO_NODE_FIND"}
Events == AppEvents \cup AdosipEvents \cup {"INIT_SND", "STABILIZE_SND"}

Things == [op : Ops, arg : {""} \cup Kinds \cup Events]

DestructorThings == [op : DestructorOps, arg : {""}]

FirstOp(s) == IF s = <<>> THEN "none" ELSE Head(s).op

Op(t) == FirstOp(todo[t])

(* The ends of programs. *)
Ret == <<Do("return")>>
Con == <<Do("constructed")>>
RetCon == Ret \o Con
HandleNew == <<Do("handle")>> \o Ret

(* The rest of a ChangeState. *)
Storing == <<Do("store"), Do("delete")>>
Deleting == <<Do("delete")>>

-----------------------------------------------------------------------------
Types ==
    /\ made \in Seq(Kinds)
    /\ state \in 1..Len(made)
    /\ todo \in [Threads -> Seq(Things)]
    /\ old \in [Threads -> Nat] /\ new \in [Threads -> Nat] /\ on \in [Threads -> Nat]

(* Thread t is in a ChangeState to one of the kinds K and does d after it. *)
Changing(t, d, K) ==
    \/ \E k \in K : todo[t] = ChangeState(k) \o d /\ <<Current, k>> \in Owned(t)
    \/ /\ todo[t] = Storing \o d
       /\ new[t] = Len(made) /\ made[new[t]] \in K
       /\ <<Current, made[new[t]]>> \in Owned(t)
    \/ todo[t] = Deleting \o d

(* What the application's thread does last; StartNode is in no object. *)
AppAfter == {<<>>, Ret, RetCon}

AppIn(d) == d = <<>> => on["app"] = 0

Early == process \in {"constructing", "running"}

AppResting ==
    \/ todo["app"] \in {<<>>, Con} /\ on["app"] = 0
    \/ todo["app"] \in {Ret, RetCon}
    \/ todo["app"] \in Seq(DestructorThings) /\ ~ Early
    \/ \E d \in AppAfter : todo["app"] = Deleting \o d /\ AppIn(d)

AppCalling ==
    /\ on["app"] = state
    /\ \/ \E e \in AppEvents : todo["app"] = <<Call(e)>> \o Ret /\ Current \in Settled
       \/ todo["app"] = <<Call("INIT_SND")>> \o RetCon /\ Current = "Closed"

AppProgram ==
    \/ AppResting
    \/ AppCalling
    \/ \E d \in AppAfter :
        /\ AppIn(d)
        /\ \/ /\ todo["app"] = <<Send("multicast")>> \o (ChangeState("Discoving") \o d)
              /\ <<Current, "Discoving">> \in Owned("app")
           \/ Changing("app", d, Kinds)

(* The adosip thread calls the current state, or an earlier settled one. *)
AdosipCalling ==
    /\ \E e \in AdosipEvents : todo["adosip"] = <<Call(e)>> \o Ret
    /\ on["adosip"] \in 1..Len(made)
    /\ on["adosip"] = state \/ made[on["adosip"]] \in Settled

AdosipResting ==
    \/ todo["adosip"] \in {<<>>, Ret, Deleting \o Ret}
    \/ todo["adosip"] = <<Again("NO_NODE_FIND")>> \o Ret

AdosipInNew ==
    /\ Current = "Discovered" /\ new["adosip"] = state
    /\ todo["adosip"] \in {Deleting \o HandleNew, HandleNew}

AdosipJoins ==
    /\ Current = "Discovered"
    /\ \/ todo["adosip"] = <<Call("JOIN_SND")>> \o Ret /\ on["adosip"] = state
       \/ todo["adosip"] = <<Send("join")>> \o (ChangeState("Joining") \o Ret)

AdosipProgram ==
    \/ AdosipResting
    \/ AdosipCalling
    \/ AdosipInNew
    \/ AdosipJoins
    \/ todo["adosip"] = <<Send("findsucc")>> \o Ret /\ Current \in Busy
    \/ /\ todo["adosip"] = <<Send("findsucc")>> \o (ChangeState("FTComputing") \o Ret)
       /\ Current = "Joining"
    \/ Changing("adosip", Ret, Kinds)
    \/ Changing("adosip", HandleNew, {"Discovered"}) /\ todo["adosip"] # Deleting \o HandleNew

StabilizeProgram ==
    todo["stabilize"] \in {<<>>, <<Call("STABILIZE_SND")>> \o Ret, <<Do("round")>> \o Ret, Ret}

Programs == AppProgram /\ AdosipProgram /\ StabilizeProgram

(* Objects are stored in the order in which they are made, and deleted     *)
(* after a later one is stored.                                            *)
ObjectsInOrder ==
    /\ Freed \subseteq 1..(state - 1)
    /\ \A t \in Threads :
        /\ Op(t) = "store" => old[t] = state /\ state < new[t]
        /\ Op(t) = "delete" =>
            /\ old[t] \in 1..(state - 1) /\ old[t] \notin Freed
            /\ \A u \in Threads \ {t} : Op(u) = "delete" => old[u] # old[t]

(* The objects the threads are in. *)
AppObject == on["app"] # 0 =>
    \/ Op("app") \in {"call", "send", "make", "store"} /\ on["app"] = state
    \/ Op("app") = "delete" /\ on["app"] = old["app"]
    \/ /\ Op("app") = "return"
       /\ \/ on["app"] = state /\ Current \in Settled
          \/ on["app"] \in Freed /\ freedBy[on["app"]] = "app"

AdosipObject == on["adosip"] # 0 =>
    /\ on["adosip"] \in 1..Len(made)
    /\ \/ Op("adosip") \in {"send", "make", "store"} /\ on["adosip"] = state
       \/ Op("adosip") = "delete" /\ on["adosip"] = old["adosip"]
       \/ /\ Op("adosip") \in {"call", "return"}
          /\ on["adosip"] = state \/ made[on["adosip"]] \in Settled
       \/ /\ Op("adosip") \in {"handle", "return"}
          /\ on["adosip"] \in Freed /\ freedBy[on["adosip"]] = "adosip"

Good ==
    /\ Types
    /\ Programs
    /\ IF Early THEN ObjectsInOrder /\ AppObject /\ AdosipObject
       ELSE todo["app"] \in Seq(DestructorThings)

LInv == astray \in BOOLEAN /\ (~ astray => Good)

-----------------------------------------------------------------------------
(* Programs: first things and rests. *)
LEMMA ThingTypes ==
    /\ \A x \in Ops : Do(x) \in Things /\ Do(x).op = x
    /\ \A x \in Classes : Send(x) \in Things /\ Send(x).op = "send" /\ Send(x).arg = x
    /\ \A x \in Kinds : Make(x) \in Things /\ Make(x).op = "make" /\ Make(x).arg = x
    /\ \A x \in Events : Call(x) \in Things /\ Call(x).op = "call" /\ Call(x).arg = x
    /\ \A x \in Events : Again(x) \in Things /\ Again(x).op = "again" /\ Again(x).arg = x
BY DEF Do, Send, Make, Call, Again, Things, Ops, Events, AdosipEvents

LEMMA OneThing ==
    ASSUME NEW x \in Things, NEW d \in Seq(Things)
    PROVE  /\ <<x>> \o d \in Seq(Things) /\ <<x>> \o d # <<>>
           /\ Head(<<x>> \o d) = x /\ Tail(<<x>> \o d) = d
OBVIOUS

LEMMA EndTypes ==
    /\ Ret \in Seq(Things) /\ Con \in Seq(Things) /\ RetCon \in Seq(Things)
    /\ HandleNew \in Seq(Things) /\ <<>> \in Seq(Things)
    /\ AppAfter \subseteq Seq(Things)
<1>1. Ret \in Seq(Things) /\ Con \in Seq(Things) /\ Do("handle") \in Things
  BY ThingTypes DEF Ret, Con, Ops
<1>2. RetCon \in Seq(Things) /\ HandleNew \in Seq(Things)
  BY <1>1 DEF RetCon, HandleNew
<1>. QED  BY <1>1, <1>2 DEF AppAfter

LEMMA ChangeStateParts ==
    /\ \A k \in Kinds :
        /\ ChangeState(k) \in Seq(Things) /\ ChangeState(k) # <<>>
        /\ Head(ChangeState(k)) = Make(k) /\ Tail(ChangeState(k)) = Storing
    /\ Storing \in Seq(Things) /\ Storing # <<>>
    /\ Head(Storing) = Do("store") /\ Tail(Storing) = Deleting
    /\ Deleting \in Seq(Things) /\ Deleting # <<>>
    /\ Head(Deleting) = Do("delete") /\ Tail(Deleting) = <<>>
BY ThingTypes DEF Ops, ChangeState, Storing, Deleting

LEMMA Concat ==
    /\ \A p, q, r \in Seq(Things) : (p \o q) \o r = p \o (q \o r)
    /\ \A p \in Seq(Things) : p \o <<>> = p /\ <<>> \o p = p
    /\ \A p, q \in Seq(Things) : p # <<>> =>
        /\ p \o q \in Seq(Things) /\ p \o q # <<>>
        /\ Head(p \o q) = Head(p) /\ Tail(p \o q) = Tail(p) \o q
<1>1. \A p, q, r \in Seq(Things) : (p \o q) \o r = p \o (q \o r)
  OBVIOUS
<1>2. \A p \in Seq(Things) : p \o <<>> = p /\ <<>> \o p = p
  OBVIOUS
<1>3. \A p, q \in Seq(Things) : p # <<>> =>
        /\ p \o q \in Seq(Things) /\ p \o q # <<>>
        /\ Head(p \o q) = Head(p) /\ Tail(p \o q) = Tail(p) \o q
  OBVIOUS
<1>. QED  BY <1>1, <1>2, <1>3

(* What a program does first, and what is left then. *)
Starts(s, x, d) == s \in Seq(Things) /\ s # <<>> /\ Head(s) = x /\ Tail(s) = d

LEMMA ChangeStateSteps ==
    ASSUME NEW d \in Seq(Things)
    PROVE  /\ \A k \in Kinds : Starts(ChangeState(k) \o d, Make(k), Storing \o d)
           /\ Starts(Storing \o d, Do("store"), Deleting \o d)
           /\ Starts(Deleting \o d, Do("delete"), d)
<1>1. ASSUME NEW p \in Seq(Things), p # <<>>
      PROVE  Starts(p \o d, Head(p), Tail(p) \o d)
  BY <1>1, Concat DEF Starts
<1>2. <<>> \o d = d
  BY Concat
<1>3. \A k \in Kinds : Starts(ChangeState(k) \o d, Make(k), Storing \o d)
  <2>. TAKE k \in Kinds
  <2>1. Starts(ChangeState(k) \o d, Head(ChangeState(k)), Tail(ChangeState(k)) \o d)
    BY <1>1, ChangeStateParts
  <2>. QED  BY <2>1, ChangeStateParts, Zenon
<1>4. Starts(Storing \o d, Head(Storing), Tail(Storing) \o d)
      /\ Starts(Deleting \o d, Head(Deleting), Tail(Deleting) \o d)
  BY <1>1, ChangeStateParts
<1>. QED  BY <1>2, <1>3, <1>4, ChangeStateParts, Zenon

LEMMA OneThingSteps ==
    ASSUME NEW x \in Things, NEW d \in Seq(Things)
    PROVE  Starts(<<x>> \o d, x, d)
BY OneThing DEF Starts

LEMMA EndSteps ==
    /\ Starts(Ret, Do("return"), <<>>)
    /\ Starts(RetCon, Do("return"), Con)
    /\ Starts(Con, Do("constructed"), <<>>)
    /\ Starts(HandleNew, Do("handle"), Ret)
<1>1. Do("return") \in Things /\ Do("constructed") \in Things /\ Do("handle") \in Things
  BY ThingTypes DEF Ops
<1>2. Starts(RetCon, Do("return"), Con) /\ Starts(HandleNew, Do("handle"), Ret)
  <2>1. RetCon = <<Do("return")>> \o Con
    BY DEF RetCon, Ret
  <2>. QED  BY <2>1, <1>1, OneThingSteps, EndTypes, Zenon DEF HandleNew
<1>3. \A x \in Things : Starts(<<x>>, x, <<>>)
  BY DEF Starts
<1>. QED  BY <1>1, <1>2, <1>3 DEF Ret, Con

(* The first operations of these programs. *)
LEMMA FirstOps ==
    /\ FirstOp(<<>>) = "none"
    /\ \A s, d : \A x \in Ops : Starts(s, Do(x), d) => FirstOp(s) = x
    /\ \A s, d : \A c \in Classes :
        Starts(s, Send(c), d) => FirstOp(s) = "send" /\ Head(s).arg = c
    /\ \A s, d : \A k \in Kinds :
        Starts(s, Make(k), d) => FirstOp(s) = "make" /\ Head(s).arg = k
    /\ \A s, d : \A e \in Events :
        Starts(s, Call(e), d) => FirstOp(s) = "call" /\ Head(s).arg = e
    /\ \A s, d : \A e \in Events :
        Starts(s, Again(e), d) => FirstOp(s) = "again" /\ Head(s).arg = e
<1>1. \A s, x, d : Starts(s, x, d) => FirstOp(s) = x.op /\ Head(s) = x
  BY DEF Starts, FirstOp
<1>2. FirstOp(<<>>) = "none"
  BY DEF FirstOp
<1>3. \A s, d : \A x \in Ops : Starts(s, Do(x), d) => FirstOp(s) = x
  BY <1>1, ThingTypes
<1>4. \A s, d : \A c \in Classes :
        Starts(s, Send(c), d) => FirstOp(s) = "send" /\ Head(s).arg = c
  BY <1>1, ThingTypes
<1>5. \A s, d : \A k \in Kinds :
        Starts(s, Make(k), d) => FirstOp(s) = "make" /\ Head(s).arg = k
  BY <1>1, ThingTypes
<1>6. \A s, d : \A e \in Events :
        Starts(s, Call(e), d) => FirstOp(s) = "call" /\ Head(s).arg = e
  BY <1>1, ThingTypes
<1>7. \A s, d : \A e \in Events :
        Starts(s, Again(e), d) => FirstOp(s) = "again" /\ Head(s).arg = e
  BY <1>1, ThingTypes
<1>. QED  BY <1>2, <1>3, <1>4, <1>5, <1>6, <1>7

LEMMA DestructorSteps ==
    ASSUME NEW s \in Seq(DestructorThings)
    PROVE  /\ s \in Seq(Things)
           /\ FirstOp(s) \in {"none"} \cup DestructorOps
           /\ FirstOp(s) = "none" => s = <<>>
           /\ s # <<>> => Tail(s) \in Seq(DestructorThings)
<1>1. s # <<>> => Head(s) \in DestructorThings /\ Tail(s) \in Seq(DestructorThings)
  BY HeadTailProperties
<1>2. DestructorThings \subseteq Things
  BY DEF DestructorThings, Things, Ops
<1>3. s \in Seq(Things)
  BY <1>2
<1>4. CASE s = <<>>
  BY <1>3, <1>4 DEF FirstOp
<1>5. CASE s # <<>>
  <2>1. Head(s).op \in DestructorOps /\ Head(s).op # "none"
    BY <1>1, <1>5 DEF DestructorThings, DestructorOps
  <2>. QED  BY <1>1, <1>3, <1>5, <2>1 DEF FirstOp
<1>. QED  BY <1>4, <1>5

LEMMA OwnersApart ==
    /\ \A a, b : <<a, b>> \in Owned("app") => a \in Settled
    /\ \A a, b : <<a, b>> \in Owned("adosip") => a \in Busy
    /\ Settled \cap Busy = {}
    /\ "Discoving" \in Busy /\ "Discovered" \in Busy /\ "Joining" \in Busy
    /\ "FTComputing" \in Busy /\ "Closed" \in Settled
BY DEF Owned, Settled, Busy

-----------------------------------------------------------------------------
(* Where the application's thread is when it does this or that. *)
AppAtCall ==
    /\ on["app"] = state /\ Current \in Settled
    /\ Head(todo["app"]).arg \in AppEvents \cup {"INIT_SND"}
    /\ Tail(todo["app"]) \in {Ret, RetCon}

AppAtSend ==
    /\ <<Current, "Discoving">> \in Owned("app")
    /\ \E d \in AppAfter : AppIn(d) /\ Tail(todo["app"]) = ChangeState("Discoving") \o d

AppAtMake ==
    \E d \in AppAfter, k \in Kinds :
        /\ AppIn(d)
        /\ Head(todo["app"]).arg = k /\ Tail(todo["app"]) = Storing \o d
        /\ <<Current, k>> \in Owned("app")

AppAtStore ==
    \E d \in AppAfter :
        /\ AppIn(d)
        /\ Tail(todo["app"]) = Deleting \o d
        /\ new["app"] = Len(made) /\ made[new["app"]] \in Kinds
        /\ <<Current, made[new["app"]]>> \in Owned("app")

AppAt ==
    LET op == Op("app")
        rest == Tail(todo["app"])
    IN  \/ op = "call" /\ AppAtCall
        \/ op = "send" /\ AppAtSend
        \/ op = "make" /\ AppAtMake
        \/ op = "store" /\ AppAtStore
        \/ op = "delete" /\ rest \in AppAfter /\ AppIn(rest)
        \/ op = "return" /\ rest \in {<<>>, Con}
        \/ op = "constructed" /\ rest = <<>> /\ on["app"] = 0
        \/ op = "none" /\ todo["app"] = <<>> /\ (on["app"] = 0 \/ ~ Early)
        \/ op \in DestructorOps /\ todo["app"] \in Seq(DestructorThings) /\ ~ Early

Changes == {"send", "make", "store"}

LEMMA AppIsAt ==
    ASSUME AppProgram
    PROVE  AppAt /\ (Op("app") \notin {"call"} \cup Changes => AppResting)
<1>. DEFINE s == todo["app"]
<1>1. CASE AppResting
  <2>1. CASE s \in {<<>>, Con} /\ on["app"] = 0
    BY <1>1, <2>1, EndSteps, FirstOps DEF AppAt, Op, Starts, Ops
  <2>2. CASE s \in {Ret, RetCon}
    BY <1>1, <2>2, EndSteps, FirstOps DEF AppAt, Op, Starts, Ops
  <2>3. CASE s \in Seq(DestructorThings) /\ ~ Early
    BY <1>1, <2>3, DestructorSteps DEF AppAt, Op
  <2>4. ASSUME NEW d \in AppAfter, s = Deleting \o d, AppIn(d)
        PROVE  AppAt
    <3>1. Starts(s, Do("delete"), d)
      BY <2>4, ChangeStateSteps, EndTypes
    <3>. QED  BY <2>4, <3>1, FirstOps DEF AppAt, Op, Starts, Ops
  <2>. QED  BY <1>1, <2>1, <2>2, <2>3, <2>4 DEF AppResting
<1>2. ASSUME AppCalling
      PROVE  Op("app") = "call" /\ AppAtCall
  <2>1. ASSUME NEW e \in AppEvents \cup {"INIT_SND"}, NEW d \in {Ret, RetCon},
               s = <<Call(e)>> \o d
        PROVE  Op("app") = "call" /\ Head(s).arg = e /\ Tail(s) = d
    <3>1. Starts(s, Call(e), d) /\ e \in Events
      BY <2>1, OneThingSteps, EndTypes, ThingTypes DEF Events
    <3>. QED  BY <3>1, FirstOps DEF Op, Starts
  <2>2. on["app"] = state /\ Current \in Settled
    BY <1>2, OwnersApart DEF AppCalling
  <2>. QED  BY <1>2, <2>1, <2>2 DEF AppCalling, AppAtCall
<1>3. ASSUME NEW d \in AppAfter, AppIn(d), <<Current, "Discoving">> \in Owned("app"),
             s = <<Send("multicast")>> \o (ChangeState("Discoving") \o d)
      PROVE  Op("app") = "send" /\ AppAtSend
  <2>1. ChangeState("Discoving") \o d \in Seq(Things)
    BY ChangeStateSteps, EndTypes, OwnersApart DEF Starts, Kinds
  <2>2. Starts(s, Send("multicast"), ChangeState("Discoving") \o d)
    BY <1>3, <2>1, OneThingSteps, ThingTypes DEF Classes
  <2>. QED  BY <1>3, <2>2, FirstOps DEF Op, Starts, Classes, AppAtSend
<1>4. ASSUME NEW d \in AppAfter, AppIn(d), Changing("app", d, Kinds), s # Deleting \o d
      PROVE  \/ Op("app") = "make" /\ AppAtMake
             \/ Op("app") = "store" /\ AppAtStore
  <2>1. ASSUME NEW k \in Kinds, s = ChangeState(k) \o d, <<Current, k>> \in Owned("app")
        PROVE  Op("app") = "make" /\ AppAtMake
    <3>1. Starts(s, Make(k), Storing \o d)
      BY <2>1, ChangeStateSteps, EndTypes
    <3>. QED  BY <1>4, <2>1, <3>1, FirstOps DEF Op, Starts, AppAtMake
  <2>2. ASSUME s = Storing \o d, new["app"] = Len(made), made[new["app"]] \in Kinds,
               <<Current, made[new["app"]]>> \in Owned("app")
        PROVE  Op("app") = "store" /\ AppAtStore
    <3>1. Starts(s, Do("store"), Deleting \o d)
      BY <2>2, ChangeStateSteps, EndTypes
    <3>. QED  BY <1>4, <2>2, <3>1, FirstOps DEF Op, Starts, Ops, AppAtStore
  <2>. QED  BY <1>4, <2>1, <2>2 DEF Changing
<1>5. CASE ~ AppResting /\ ~ AppCalling
  <2>1. PICK d \in AppAfter :
            /\ AppIn(d)
            /\ \/ /\ s = <<Send("multicast")>> \o (ChangeState("Discoving") \o d)
                  /\ <<Current, "Discoving">> \in Owned("app")
               \/ Changing("app", d, Kinds)
    BY <1>5 DEF AppProgram
  <2>2. s # Deleting \o d
    BY <1>5, <2>1 DEF AppResting
  <2>. QED  BY <1>3, <1>4, <2>1, <2>2 DEF AppAt, Changes
<1>. QED  BY <1>1, <1>2, <1>5 DEF AppAt

(* Where the adosip thread is. *)
AdosipAtSend ==
    \/ Tail(todo["adosip"]) = Ret /\ Current \in Busy
    \/ /\ Tail(todo["adosip"]) = ChangeState("FTComputing") \o Ret
       /\ Current = "Joining"
    \/ /\ Tail(todo["adosip"]) = ChangeState("Joining") \o Ret
       /\ Current = "Discovered"

AdosipAtMake ==
    \E d \in {Ret, HandleNew}, k \in Kinds :
        /\ Head(todo["adosip"]).arg = k /\ Tail(todo["adosip"]) = Storing \o d
        /\ <<Current, k>> \in Owned("adosip")
        /\ d = HandleNew => k = "Discovered"

AdosipAtStore ==
    \E d \in {Ret, HandleNew} :
        /\ Tail(todo["adosip"]) = Deleting \o d
        /\ new["adosip"] = Len(made) /\ made[new["adosip"]] \in Kinds
        /\ <<Current, made[new["adosip"]]>> \in Owned("adosip")
        /\ d = HandleNew => made[new["adosip"]] = "Discovered"

AdosipAtDelete ==
    \/ Tail(todo["adosip"]) = Ret
    \/ /\ Tail(todo["adosip"]) = HandleNew
       /\ Current = "Discovered" /\ new["adosip"] = state

AdosipAtCall ==
    /\ Tail(todo["adosip"]) = Ret
    /\ on["adosip"] \in 1..Len(made)
    /\ \/ /\ Head(todo["adosip"]).arg \in AdosipEvents
          /\ on["adosip"] = state \/ made[on["adosip"]] \in Settled
       \/ /\ Head(todo["adosip"]).arg = "JOIN_SND"
          /\ on["adosip"] = state /\ Current = "Discovered"

AdosipAt ==
    LET op == Op("adosip")
        rest == Tail(todo["adosip"])
    IN  \/ op = "none" /\ todo["adosip"] = <<>>
        \/ op = "return" /\ rest = <<>>
        \/ op = "again" /\ Head(todo["adosip"]).arg = "NO_NODE_FIND" /\ rest = Ret
        \/ op = "call" /\ AdosipAtCall
        \/ op = "send" /\ AdosipAtSend
        \/ op = "make" /\ AdosipAtMake
        \/ op = "store" /\ AdosipAtStore
        \/ op = "delete" /\ AdosipAtDelete
        \/ op = "handle" /\ rest = Ret /\ Current = "Discovered" /\ new["adosip"] = state

LEMMA AdosipIsAt ==
    ASSUME AdosipProgram, state \in 1..Len(made)
    PROVE  /\ AdosipAt
           /\ Op("adosip") \in Changes => Current \in Busy
           /\ Current \notin Busy => AdosipResting \/ AdosipCalling
<1>. DEFINE s == todo["adosip"]
<1>0. "handle" \in Ops /\ "return" \in Ops /\ "delete" \in Ops /\ "store" \in Ops
  BY DEF Ops
<1>1. CASE AdosipResting
  <2>1. CASE s = <<>>
    BY <1>1, <2>1, FirstOps DEF AdosipAt, Op, Changes
  <2>2. CASE s = Ret
    <3>1. Starts(s, Do("return"), <<>>)
      BY <2>2, EndSteps
    <3>. QED  BY <1>0, <1>1, <3>1, FirstOps DEF AdosipAt, Op, Starts, Changes
  <2>3. CASE s = Deleting \o Ret
    <3>1. Starts(s, Do("delete"), Ret)
      BY <2>3, ChangeStateSteps, EndTypes
    <3>. QED  BY <1>0, <1>1, <3>1, FirstOps DEF AdosipAt, AdosipAtDelete, Op, Starts, Changes
  <2>4. CASE s = <<Again("NO_NODE_FIND")>> \o Ret
    <3>1. Starts(s, Again("NO_NODE_FIND"), Ret) /\ "NO_NODE_FIND" \in Events
      BY <2>4, OneThingSteps, EndTypes, ThingTypes DEF Events, AdosipEvents
    <3>. QED  BY <1>1, <3>1, FirstOps DEF AdosipAt, Op, Starts, Changes
  <2>. QED  BY <1>1, <2>1, <2>2, <2>3, <2>4 DEF AdosipResting
<1>2. ASSUME NEW e \in Events, s = <<Call(e)>> \o Ret
      PROVE  Op("adosip") = "call" /\ Head(s).arg = e /\ Tail(s) = Ret
  <2>1. Starts(s, Call(e), Ret)
    BY <1>2, OneThingSteps, EndTypes, ThingTypes
  <2>. QED  BY <2>1, FirstOps DEF Op, Starts
<1>3. CASE AdosipCalling
  BY <1>2, <1>3 DEF AdosipCalling, AdosipAt, AdosipAtCall, Events, Changes
<1>4. CASE AdosipInNew
  <2>1. CASE s = HandleNew
    <3>0. Starts(s, Do("handle"), Ret)
      BY <2>1, EndSteps
    <3>1. Op("adosip") = "handle" /\ Tail(s) = Ret
      BY <1>0, <3>0, FirstOps DEF Op, Starts
    <3>. QED  BY <1>4, <3>1, OwnersApart DEF AdosipInNew, AdosipAt, Changes
  <2>2. CASE s = Deleting \o HandleNew
    <3>1. Starts(s, Do("delete"), HandleNew)
      BY <2>2, ChangeStateSteps, EndTypes
    <3>2. Op("adosip") = "delete" /\ Tail(s) = HandleNew
      BY <1>0, <3>1, FirstOps DEF Op, Starts
    <3>. QED  BY <1>4, <3>2, OwnersApart DEF AdosipInNew, AdosipAt, AdosipAtDelete, Changes
  <2>. QED  BY <1>4, <2>1, <2>2 DEF AdosipInNew
<1>5. ASSUME NEW c \in Classes, NEW d \in Seq(Things), s = <<Send(c)>> \o d
      PROVE  Op("adosip") = "send" /\ Tail(s) = d
  <2>1. Starts(s, Send(c), d)
    BY <1>5, OneThingSteps, ThingTypes
  <2>. QED  BY <2>1, FirstOps DEF Op, Starts
<1>6. \A k \in Kinds : ChangeState(k) \o Ret \in Seq(Things)
  BY ChangeStateSteps, EndTypes DEF Starts
<1>7. CASE AdosipJoins
  <2>1. CASE s = <<Call("JOIN_SND")>> \o Ret /\ on["adosip"] = state
    BY <1>2, <1>7, <2>1, OwnersApart
       DEF AdosipJoins, AdosipAt, AdosipAtCall, Events, AppEvents, Changes
  <2>2. CASE s = <<Send("join")>> \o (ChangeState("Joining") \o Ret)
    BY <1>5, <1>6, <1>7, <2>2, OwnersApart
       DEF AdosipJoins, AdosipAt, AdosipAtSend, Classes, Kinds
  <2>. QED  BY <1>7, <2>1, <2>2 DEF AdosipJoins
<1>8. CASE s = <<Send("findsucc")>> \o Ret /\ Current \in Busy
  BY <1>5, <1>8, EndTypes, OwnersApart DEF AdosipAt, AdosipAtSend, Classes
<1>9. CASE s = <<Send("findsucc")>> \o (ChangeState("FTComputing") \o Ret) /\ Current = "Joining"
  BY <1>5, <1>6, <1>9, OwnersApart DEF AdosipAt, AdosipAtSend, Classes, Kinds
<1>10. ASSUME NEW d \in {Ret, HandleNew}, NEW K \in SUBSET Kinds, Changing("adosip", d, K),
              s # Deleting \o d, d = HandleNew => K = {"Discovered"}
       PROVE  /\ \/ Op("adosip") = "make" /\ AdosipAtMake
                 \/ Op("adosip") = "store" /\ AdosipAtStore
              /\ Current \in Busy
  <2>1. ASSUME NEW k \in K, s = ChangeState(k) \o d, <<Current, k>> \in Owned("adosip")
        PROVE  Op("adosip") = "make" /\ AdosipAtMake
    <3>1. Starts(s, Make(k), Storing \o d)
      BY <2>1, ChangeStateSteps, EndTypes
    <3>. QED  BY <1>10, <2>1, <3>1, FirstOps DEF Op, Starts, AdosipAtMake
  <2>2. ASSUME s = Storing \o d, new["adosip"] = Len(made), made[new["adosip"]] \in K,
               <<Current, made[new["adosip"]]>> \in Owned("adosip")
        PROVE  Op("adosip") = "store" /\ AdosipAtStore
    <3>1. Starts(s, Do("store"), Deleting \o d)
      BY <2>2, ChangeStateSteps, EndTypes
    <3>. QED  BY <1>0, <1>10, <2>2, <3>1, FirstOps DEF Op, Starts, AdosipAtStore
  <2>. QED  BY <1>10, <2>1, <2>2, OwnersApart DEF Changing
<1>11. CASE Changing("adosip", Ret, Kinds) /\ ~ AdosipResting
  <2>1. Ret # HandleNew
    BY EndSteps, <1>0, ThingTypes DEF Starts
  <2>. QED  BY <1>10, <1>11, <2>1, OwnersApart DEF AdosipResting, AdosipAt
<1>12. CASE Changing("adosip", HandleNew, {"Discovered"}) /\ s # Deleting \o HandleNew
  <2>1. {"Discovered"} \in SUBSET Kinds
    BY OwnersApart DEF Kinds
  <2>. QED  BY <1>10, <1>12, <2>1, OwnersApart DEF AdosipAt
<1>. QED
  BY <1>1, <1>3, <1>4, <1>7, <1>8, <1>9, <1>11, <1>12 DEF AdosipProgram

LEMMA StabilizeIsAt ==
    ASSUME StabilizeProgram
    PROVE  \/ Op("stabilize") = "none" /\ todo["stabilize"] = <<>>
           \/ /\ Op("stabilize") = "call" /\ Head(todo["stabilize"]).arg = "STABILIZE_SND"
              /\ Tail(todo["stabilize"]) = Ret
           \/ Op("stabilize") = "round" /\ Tail(todo["stabilize"]) = Ret
           \/ Op("stabilize") = "return" /\ Tail(todo["stabilize"]) = <<>>
<1>1. /\ "round" \in Ops /\ "return" \in Ops /\ "STABILIZE_SND" \in Events
      /\ Do("round") \in Things /\ Call("STABILIZE_SND") \in Things
  BY ThingTypes DEF Ops, Events
<1>2. /\ Starts(<<Call("STABILIZE_SND")>> \o Ret, Call("STABILIZE_SND"), Ret)
      /\ Starts(<<Do("round")>> \o Ret, Do("round"), Ret)
  BY <1>1, OneThingSteps, EndTypes
<1>3. CASE todo["stabilize"] = <<>>
  BY <1>3, FirstOps DEF Op
<1>4. CASE todo["stabilize"] = <<Call("STABILIZE_SND")>> \o Ret
  <2>1. Starts(todo["stabilize"], Call("STABILIZE_SND"), Ret)
    BY <1>2, <1>4
  <2>. QED  BY <1>1, <2>1, FirstOps DEF Op, Starts
<1>5. CASE todo["stabilize"] = <<Do("round")>> \o Ret
  <2>1. Starts(todo["stabilize"], Do("round"), Ret)
    BY <1>2, <1>5
  <2>. QED  BY <1>1, <2>1, FirstOps DEF Op, Starts
<1>6. CASE todo["stabilize"] = Ret
  <2>1. Starts(todo["stabilize"], Do("return"), <<>>)
    BY <1>6, EndSteps
  <2>. QED  BY <1>1, <2>1, FirstOps DEF Op, Starts
<1>. QED  BY <1>3, <1>4, <1>5, <1>6 DEF StabilizeProgram

LEMMA FirstOpsOf ==
    /\ \A d \in Seq(Things) :
        /\ \A k \in Kinds : FirstOp(ChangeState(k) \o d) = "make"
        /\ FirstOp(Storing \o d) = "store" /\ FirstOp(Deleting \o d) = "delete"
        /\ \A c \in Classes : FirstOp(<<Send(c)>> \o d) = "send"
        /\ \A e \in Events : FirstOp(<<Call(e)>> \o d) = "call"
        /\ FirstOp(<<Do("round")>> \o d) = "round"
    /\ FirstOp(Ret) = "return" /\ FirstOp(RetCon) = "return" /\ FirstOp(<<>>) = "none"
    /\ FirstOp(Con) = "constructed" /\ FirstOp(HandleNew) = "handle"
<1>0. /\ "return" \in Ops /\ "constructed" \in Ops /\ "handle" \in Ops /\ "store" \in Ops
      /\ "delete" \in Ops /\ "round" \in Ops
  BY DEF Ops
<1>1. ASSUME NEW d \in Seq(Things)
      PROVE  /\ \A k \in Kinds : FirstOp(ChangeState(k) \o d) = "make"
             /\ FirstOp(Storing \o d) = "store" /\ FirstOp(Deleting \o d) = "delete"
  BY <1>0, ChangeStateSteps, FirstOps
<1>2. ASSUME NEW d \in Seq(Things)
      PROVE  /\ \A c \in Classes : FirstOp(<<Send(c)>> \o d) = "send"
             /\ \A e \in Events : FirstOp(<<Call(e)>> \o d) = "call"
             /\ FirstOp(<<Do("round")>> \o d) = "round"
  <2>1. ASSUME NEW c \in Classes  PROVE FirstOp(<<Send(c)>> \o d) = "send"
    BY OneThingSteps, ThingTypes, FirstOps
  <2>2. ASSUME NEW e \in Events  PROVE FirstOp(<<Call(e)>> \o d) = "call"
    BY OneThingSteps, ThingTypes, FirstOps
  <2>3. FirstOp(<<Do("round")>> \o d) = "round"
    BY <1>0, OneThingSteps, ThingTypes, FirstOps
  <2>. QED  BY <2>1, <2>2, <2>3
<1>3. /\ FirstOp(Ret) = "return" /\ FirstOp(RetCon) = "return" /\ FirstOp(<<>>) = "none"
      /\ FirstOp(Con) = "constructed" /\ FirstOp(HandleNew) = "handle"
  BY <1>0, EndSteps, FirstOps
<1>. QED  BY <1>1, <1>2, <1>3

(* What the handlers do. *)
HandlerCases(kind, event, p) ==
    \/ p = <<>>
    \/ event = "INIT_SND" /\ kind = "Closed" /\ p = ChangeState("Inited")
    \/ event = "DISCOVER_SND" /\ kind = "Inited" /\ p = Discovery
    \/ event = "LEAVE_SND" /\ kind = "Normal" /\ p = ChangeState("Closed")
    \/ event = "STABILIZE_SND" /\ p = <<Do("round")>>
    \/ event = "JOIN_SND" /\ kind = "Discovered" /\ p = JoinOverlay
    \/ /\ event \in AdosipEvents
       /\ \/ kind = "Discoving" /\ p = ChangeState("Discovered") \o <<Do("handle")>>
          \/ kind \in {"Discoving", "Joining", "FTComputing"} /\ p = ChangeState("Normal")
          \/ kind = "Joining" /\ p = <<Send("findsucc")>> \o ChangeState("FTComputing")
          \/ kind = "FTComputing" /\ p = <<Send("findsucc")>>

LEMMA HandlersAre ==
    ASSUME NEW kind, NEW event, NEW p \in Handlers(kind, event)
    PROVE  HandlerCases(kind, event, p)
<1>. USE DEF HandlerCases, AdosipEvents, Classes, MulticastIn, FindSuccIn
<1>1. CASE event = "INIT_SND" /\ kind = "Closed"
  BY <1>1 DEF Handlers
<1>2. CASE event = "DISCOVER_SND" /\ kind = "Inited"
  BY <1>2 DEF Handlers
<1>3. CASE event = "multicast" /\ kind \in MulticastIn
  BY <1>3 DEF Handlers
<1>4. CASE event = "NO_NODE_FIND" /\ kind = "Discoving"
  BY <1>4 DEF Handlers
<1>5. CASE event = "JOIN_SND" /\ kind = "Discovered"
  BY <1>5 DEF Handlers
<1>6. CASE event = "join" /\ kind = "Joining"
  BY <1>6 DEF Handlers
<1>7. CASE event = "findsucc" /\ kind \in FindSuccIn
  BY <1>7 DEF Handlers
<1>8. CASE event = "STABILIZE_SND" /\ kind = "Normal"
  BY <1>8 DEF Handlers
<1>9. CASE event = "LEAVE_SND" /\ kind = "Normal"
  BY <1>9 DEF Handlers
<1>. QED  BY <1>1, <1>2, <1>3, <1>4, <1>5, <1>6, <1>7, <1>8, <1>9 DEF Handlers

(* A handler and what comes after it. *)
LEMMA HandlerPrograms ==
    ASSUME NEW d \in Seq(Things)
    PROVE  /\ <<>> \o d = d
           /\ Discovery \o d = <<Send("multicast")>> \o (ChangeState("Discoving") \o d)
           /\ JoinOverlay \o d = <<Send("join")>> \o (ChangeState("Joining") \o d)
           /\ (<<Send("findsucc")>> \o ChangeState("FTComputing")) \o d
                = <<Send("findsucc")>> \o (ChangeState("FTComputing") \o d)
           /\ (ChangeState("Discovered") \o <<Do("handle")>>) \o d
                = ChangeState("Discovered") \o (<<Do("handle")>> \o d)
<1>1. \A k \in Kinds : ChangeState(k) \in Seq(Things)
  BY ChangeStateParts
<1>2. /\ <<Send("multicast")>> \in Seq(Things) /\ <<Send("join")>> \in Seq(Things)
      /\ <<Send("findsucc")>> \in Seq(Things) /\ <<Do("handle")>> \in Seq(Things)
  BY ThingTypes DEF Classes, Ops
<1>3. {"Discoving", "Discovered", "Joining", "FTComputing"} \subseteq Kinds
  BY DEF Kinds, Busy
<1>4. ChangeState("Discoving") \in Seq(Things) /\ ChangeState("Joining") \in Seq(Things)
      /\ ChangeState("Discovered") \in Seq(Things) /\ ChangeState("FTComputing") \in Seq(Things)
  BY <1>1, <1>3
<1>5. \A p, q \in Seq(Things) : (p \o q) \o d = p \o (q \o d)
  BY Concat
<1>6. <<>> \o d = d
  BY Concat
<1>7. Discovery \o d = <<Send("multicast")>> \o (ChangeState("Discoving") \o d)
  BY <1>2, <1>4, <1>5, Zenon DEF Discovery
<1>8. JoinOverlay \o d = <<Send("join")>> \o (ChangeState("Joining") \o d)
  BY <1>2, <1>4, <1>5, Zenon DEF JoinOverlay
<1>9. (<<Send("findsucc")>> \o ChangeState("FTComputing")) \o d
        = <<Send("findsucc")>> \o (ChangeState("FTComputing") \o d)
  BY <1>2, <1>4, <1>5, Zenon
<1>10. (ChangeState("Discovered") \o <<Do("handle")>>) \o d
         = ChangeState("Discovered") \o (<<Do("handle")>> \o d)
  BY <1>2, <1>4, <1>5, Zenon
<1>. QED  BY <1>6, <1>7, <1>8, <1>9, <1>10

(* Programs that a thread can have are sequences of things. *)
LEMMA ProgramTypes ==
    ASSUME NEW d \in Seq(Things)
    PROVE  /\ \A k \in Kinds : ChangeState(k) \o d \in Seq(Things)
           /\ Storing \o d \in Seq(Things) /\ Deleting \o d \in Seq(Things)
           /\ \A c \in Classes : <<Send(c)>> \o d \in Seq(Things)
           /\ \A e \in Events : <<Call(e)>> \o d \in Seq(Things)
           /\ \A k \in Kinds, c \in Classes :
                <<Send(c)>> \o (ChangeState(k) \o d) \in Seq(Things)
           /\ <<Do("round")>> \o d \in Seq(Things)
<1>1. /\ \A k \in Kinds : ChangeState(k) \o d \in Seq(Things)
      /\ Storing \o d \in Seq(Things) /\ Deleting \o d \in Seq(Things)
  BY ChangeStateSteps DEF Starts
<1>2. \A c \in Classes, s \in Seq(Things) : <<Send(c)>> \o s \in Seq(Things)
  BY OneThing, ThingTypes
<1>3. \A e \in Events : <<Call(e)>> \o d \in Seq(Things)
  BY OneThing, ThingTypes
<1>4. <<Do("round")>> \o d \in Seq(Things)
  BY OneThing, ThingTypes DEF Ops
<1>. QED  BY <1>1, <1>2, <1>3, <1>4

-----------------------------------------------------------------------------
(* The steps of one thread in its program. *)
ThreadStep(t) ==
    \/ SendStep(t) \/ MakeStep(t) \/ StoreStep(t) \/ DeleteStep(t) \/ HandleNewStep(t)
    \/ AgainStep(t) \/ CallStep(t) \/ HandleReturns(t)

(* What any of them leaves of the other threads, and what it does first. *)
LEMMA StepLeaves ==
    ASSUME Types, NEW t \in Threads, ThreadStep(t)
    PROVE  /\ todo[t] # <<>> /\ Op(t) = Head(todo[t]).op /\ todo[t] \in Seq(Things)
           /\ \A u \in Threads \ {t} :
               /\ todo'[u] = todo[u] /\ Op(u)' = Op(u) /\ on'[u] = on[u]
               /\ new'[u] = new[u] /\ old'[u] = old[u]
           /\ UNCHANGED <<process, astray>>
           /\ Op(t) \in {"send", "make", "store", "delete", "handle", "again", "call", "return"}
<1>1. todo[t] # <<>> /\ Op(t) = Head(todo[t]).op /\ todo[t] \in Seq(Things)
  BY DEF ThreadStep, SendStep, MakeStep, StoreStep, DeleteStep, HandleNewStep, AgainStep,
     CallStep, HandleReturns, Step, Op, FirstOp, Types
<1>2. Op(t) \in {"send", "make", "store", "delete", "handle", "again", "call", "return"}
  BY <1>1 DEF ThreadStep, SendStep, MakeStep, StoreStep, DeleteStep, HandleNewStep, AgainStep,
     CallStep, HandleReturns, Step
<1>3. UNCHANGED <<process, astray>>
  BY DEF ThreadStep, SendStep, MakeStep, StoreStep, DeleteStep, HandleNewStep, AgainStep,
     CallStep, HandleReturns, ending, budget
<1>4. ASSUME NEW u \in Threads \ {t}
      PROVE  /\ todo'[u] = todo[u] /\ on'[u] = on[u]
             /\ new'[u] = new[u] /\ old'[u] = old[u]
  <2>1. CASE SendStep(t) \/ MakeStep(t) \/ StoreStep(t) \/ DeleteStep(t)
    BY <2>1 DEF SendStep, MakeStep, StoreStep, DeleteStep, Advance, Types
  <2>2. CASE HandleNewStep(t) \/ AgainStep(t) \/ HandleReturns(t)
    BY <2>2 DEF HandleNewStep, AgainStep, HandleReturns, Enter, Types
  <2>3. CASE CallStep(t)
    BY <2>3 DEF CallStep, Types
  <2>. QED  BY <2>1, <2>2, <2>3 DEF ThreadStep
<1>. QED  BY <1>1, <1>2, <1>3, <1>4 DEF Op

(* The order in which a thread does things. *)
Follows(t) ==
    /\ Op(t) = "send"   => Op(t)' \in {"make", "return"}
    /\ Op(t) = "make"   => Op(t)' = "store"
    /\ Op(t) = "store"  => Op(t)' = "delete"
    /\ Op(t) = "delete" => \/ Op(t)' \in {"return", "handle"}
                           \/ t = "app" /\ Op(t)' = "none"
    /\ Op(t) = "handle" => Op(t)' = "call"
    /\ Op(t) = "again"  => Op(t)' = "call"
    /\ Op(t) = "call"   => Op(t)' \in {"send", "make", "return", "round"}
    /\ Op(t) = "return" => Op(t)' \in {"none", "constructed"}


LEMMA Advances ==
    ASSUME Types, NEW t \in Threads, Advance(t), todo[t] # <<>>
    PROVE  /\ todo'[t] = Tail(todo[t]) /\ Tail(todo[t]) \in Seq(Things)
           /\ todo' \in [Threads -> Seq(Things)] /\ on' = on
BY DEF Types, Advance

LEMMA Enters ==
    ASSUME Types, NEW t \in Threads, NEW p \in Seq(Things), NEW o \in Nat, Enter(t, p, o)
    PROVE  /\ todo'[t] = p /\ on'[t] = o
           /\ todo' \in [Threads -> Seq(Things)] /\ on' \in [Threads -> Nat]
           /\ \A u \in Threads \ {t} :
                todo'[u] = todo[u] /\ Op(u)' = Op(u) /\ on'[u] = on[u]
BY DEF Types, Enter, Op

(* A state object is made, and stored. *)
LEMMA Makes ==
    ASSUME Types, NEW t \in Threads, MakeStep(t), NEW k \in Kinds, Head(todo[t]).arg = k
    PROVE  /\ Types' /\ todo'[t] = Tail(todo[t]) /\ on' = on
           /\ made' = Append(made, k) /\ Len(made') = Len(made) + 1 /\ made'[Len(made')] = k
           /\ \A i \in 1..Len(made) : made'[i] = made[i]
           /\ new'[t] = Len(made') /\ old'[t] = state /\ state' = state /\ Current' = Current
           /\ UNCHANGED freedBy
<1>1. todo[t] # <<>> /\ Advance(t)
  BY DEF MakeStep, Step
<1>2. /\ todo'[t] = Tail(todo[t]) /\ on' = on
      /\ todo' \in [Threads -> Seq(Things)]
  BY <1>1, Advances
<1>3. made \in Seq(Kinds) /\ made' = Append(made, k) /\ state \in 1..Len(made)
  BY DEF MakeStep, Types
<1>4. /\ made' \in Seq(Kinds) /\ Len(made') = Len(made) + 1 /\ made'[Len(made')] = k
      /\ \A i \in 1..Len(made) : made'[i] = made[i]
  BY <1>3
<1>5. /\ new'[t] = Len(made) + 1 /\ old'[t] = state /\ UNCHANGED <<state, freedBy>>
      /\ new' \in [Threads -> Nat] /\ old' \in [Threads -> Nat]
  BY <1>3 DEF MakeStep, Types
<1>. QED  BY <1>2, <1>3, <1>4, <1>5 DEF Types, Current

LEMMA Stores ==
    ASSUME Types, NEW t \in Threads, StoreStep(t), new[t] = Len(made)
    PROVE  /\ Types' /\ todo'[t] = Tail(todo[t]) /\ on' = on
           /\ state' = new[t] /\ Current' = made[new[t]]
           /\ UNCHANGED <<made, freedBy, old, new>>
<1>1. todo[t] # <<>> /\ Advance(t)
  BY DEF StoreStep, Step
<1>2. todo'[t] = Tail(todo[t]) /\ on' = on /\ todo' \in [Threads -> Seq(Things)]
  BY <1>1, Advances
<1>3. state' = new[t] /\ UNCHANGED <<made, freedBy, old, new>>
  BY DEF StoreStep
<1>4. state' \in 1..Len(made')
  BY <1>3 DEF Types
<1>. QED  BY <1>2, <1>3, <1>4 DEF Types, Current

(* The other steps change neither the objects nor _state. *)
Keeps == UNCHANGED <<made, state, old, new>> /\ Current' = Current

LEMMA Moves ==
    ASSUME Types, NEW t \in Threads, SendStep(t) \/ DeleteStep(t)
    PROVE  Types' /\ Keeps /\ todo'[t] = Tail(todo[t]) /\ on' = on
<1>1. todo[t] # <<>> /\ Advance(t)
  BY DEF SendStep, DeleteStep, Step
<1>2. todo'[t] = Tail(todo[t]) /\ on' = on /\ todo' \in [Threads -> Seq(Things)]
  BY <1>1, Advances
<1>3. UNCHANGED <<made, state, old, new>>
  BY DEF SendStep, DeleteStep, pointers
<1>. QED  BY <1>2, <1>3 DEF Types, Keeps, Current

LEMMA Returns ==
    ASSUME Types, NEW t \in Threads, HandleReturns(t)
    PROVE  Types' /\ Keeps /\ todo'[t] = Tail(todo[t]) /\ on'[t] = 0
<1>1. Tail(todo[t]) \in Seq(Things) /\ Enter(t, Tail(todo[t]), 0)
  BY DEF HandleReturns, Step, Types
<1>2. UNCHANGED <<made, state, old, new>>
  BY DEF HandleReturns, pointers
<1>. QED  BY <1>1, <1>2, Enters DEF Types, Keeps, Current

LEMMA Calls ==
    ASSUME Types, NEW t \in Threads, CallStep(t), Tail(todo[t]) \in Seq(Things)
    PROVE  /\ Keeps /\ on' = on
           /\ \E p \in Handlers(made[on[t]], Head(todo[t]).arg) :
                todo'[t] = p \o Tail(todo[t])
           /\ \A u \in Threads \ {t} : todo'[u] = todo[u]
           /\ DOMAIN todo' = Threads /\ todo' = [todo EXCEPT ![t] = todo'[t]]
<1>1. /\ \E p \in Handlers(made[on[t]], Head(todo[t]).arg) :
            todo' = [todo EXCEPT ![t] = p \o Tail(@)]
      /\ UNCHANGED <<made, state, old, new, on>>
  BY DEF CallStep, pointers
<1>2. PICK p \in Handlers(made[on[t]], Head(todo[t]).arg) :
            todo' = [todo EXCEPT ![t] = p \o Tail(@)]
  BY <1>1
<1>3. todo'[t] = p \o Tail(todo[t])
  BY <1>2 DEF Types
<1>. QED  BY <1>1, <1>2, <1>3 DEF Types, Keeps, Current

LEMMA CallTypes ==
    ASSUME Types, NEW t \in Threads, Keeps, on' = on, todo'[t] \in Seq(Things),
           todo' = [todo EXCEPT ![t] = todo'[t]]
    PROVE  Types'
BY DEF Types, Keeps

(* Which step a thread takes. *)
LEMMA StepOf ==
    ASSUME NEW t \in Threads, ThreadStep(t)
    PROVE  /\ Op(t) = "send" => SendStep(t)
           /\ Op(t) = "make" => MakeStep(t)
           /\ Op(t) = "store" => StoreStep(t)
           /\ Op(t) = "delete" => DeleteStep(t)
           /\ Op(t) = "handle" => HandleNewStep(t)
           /\ Op(t) = "again" => AgainStep(t)
           /\ Op(t) = "call" => CallStep(t)
           /\ Op(t) = "return" => HandleReturns(t)
BY DEF ThreadStep, SendStep, MakeStep, StoreStep, DeleteStep, HandleNewStep, AgainStep,
   CallStep, HandleReturns, Step, Op, FirstOp

-----------------------------------------------------------------------------
(* The application's thread keeps to its programs. *)
LEMMA AppSteps ==
    ASSUME Types, AppProgram, ThreadStep("app")
    PROVE  /\ Types' /\ AppProgram' /\ Follows("app")
           /\ Op("app") \notin {"make", "store"} => Keeps
           /\ on'["app"] = IF Op("app") = "return" THEN 0 ELSE on["app"]
<1>. DEFINE s == todo["app"]
            r == todo'["app"]
<1>. "app" \in Threads
  BY DEF Threads
<1>0. /\ AppAt /\ s \in Seq(Things) /\ s # <<>>
      /\ Op("app") \in {"send", "make", "store", "delete", "handle", "again", "call", "return"}
      /\ UNCHANGED process
  BY AppIsAt, StepLeaves
<1>1. \A d \in AppAfter : d \in Seq(Things)
  BY EndTypes
<1>2. CASE Op("app") = "send"
  <2>1. SendStep("app") /\ AppAtSend
    BY <1>0, <1>2, StepOf DEF AppAt, DestructorOps
  <2>2. Types' /\ Keeps /\ r = Tail(s) /\ on' = on
    BY <2>1, Moves
  <2>3. PICK d \in AppAfter : AppIn(d) /\ Tail(s) = ChangeState("Discoving") \o d
    BY <2>1 DEF AppAtSend
  <2>4. "Discoving" \in Kinds /\ AppIn(d)' /\ <<Current', "Discoving">> \in Owned("app")
    BY <2>1, <2>2, <2>3, OwnersApart DEF Kinds, AppIn, AppAtSend, Keeps
  <2>5. Changing("app", d, Kinds)'
    BY <2>2, <2>3, <2>4 DEF Changing
  <2>6. AppProgram'
    BY <2>4, <2>5 DEF AppProgram
  <2>7. Op("app")' = "make"
    BY <1>1, <2>2, <2>3, <2>4, FirstOpsOf DEF Op
  <2>. QED  BY <1>2, <2>2, <2>6, <2>7 DEF Follows
<1>3. CASE Op("app") = "make"
  <2>1. MakeStep("app") /\ AppAtMake
    BY <1>0, <1>3, StepOf DEF AppAt, DestructorOps
  <2>2. PICK d \in AppAfter, k \in Kinds :
            /\ AppIn(d) /\ Head(s).arg = k /\ Tail(s) = Storing \o d
            /\ <<Current, k>> \in Owned("app")
    BY <2>1 DEF AppAtMake
  <2>3. /\ Types' /\ r = Tail(s) /\ on' = on /\ made'[Len(made')] = k
        /\ new'["app"] = Len(made') /\ Current' = Current
    BY <2>1, <2>2, Makes
  <2>4. AppIn(d)' /\ Changing("app", d, Kinds)'
    BY <2>2, <2>3 DEF Changing, AppIn
  <2>5. Op("app")' = "store"
    BY <1>1, <2>2, <2>3, FirstOpsOf DEF Op
  <2>. QED  BY <1>3, <2>3, <2>4, <2>5 DEF AppProgram, Follows
<1>4. CASE Op("app") = "store"
  <2>1. StoreStep("app") /\ AppAtStore
    BY <1>0, <1>4, StepOf DEF AppAt, DestructorOps
  <2>2. PICK d \in AppAfter :
            AppIn(d) /\ Tail(s) = Deleting \o d /\ new["app"] = Len(made)
    BY <2>1 DEF AppAtStore
  <2>3. Types' /\ r = Tail(s) /\ on' = on
    BY <2>1, <2>2, Stores
  <2>4. AppIn(d)' /\ AppResting'
    BY <2>2, <2>3 DEF AppResting, AppIn
  <2>5. Op("app")' = "delete"
    BY <1>1, <2>2, <2>3, FirstOpsOf DEF Op
  <2>. QED  BY <1>4, <2>3, <2>4, <2>5 DEF AppProgram, Follows
<1>5. CASE Op("app") = "delete"
  <2>1. DeleteStep("app") /\ Tail(s) \in AppAfter /\ AppIn(Tail(s))
    BY <1>0, <1>5, StepOf DEF AppAt, DestructorOps
  <2>2. Types' /\ Keeps /\ r = Tail(s) /\ on' = on
    BY <2>1, Moves
  <2>3. AppResting'
    BY <2>1, <2>2 DEF AppResting, AppAfter, AppIn
  <2>4. Op("app")' \in {"none", "return"}
    BY <2>1, <2>2, FirstOpsOf DEF Op, AppAfter
  <2>. QED  BY <1>5, <2>2, <2>3, <2>4 DEF AppProgram, Follows
<1>6. CASE Op("app") = "return"
  <2>1. HandleReturns("app") /\ Tail(s) \in {<<>>, Con}
    BY <1>0, <1>6, StepOf DEF AppAt, DestructorOps
  <2>2. Types' /\ Keeps /\ r = Tail(s) /\ on'["app"] = 0
    BY <2>1, Returns
  <2>3. AppResting' /\ Op("app")' \in {"none", "constructed"}
    BY <2>1, <2>2, FirstOpsOf DEF AppResting, Op
  <2>. QED  BY <1>6, <2>2, <2>3 DEF AppProgram, Follows
<1>7. CASE Op("app") = "call"
  <2>1. CallStep("app") /\ AppAtCall
    BY <1>0, <1>7, StepOf DEF AppAt, DestructorOps
  <2>2. PICK d \in {Ret, RetCon} : Tail(s) = d
    BY <2>1 DEF AppAtCall
  <2>3. d \in AppAfter /\ d \in Seq(Things) /\ d # <<>> /\ AppIn(d)' /\ FirstOp(d) = "return"
    BY EndTypes, EndSteps, FirstOpsOf DEF AppAfter, AppIn, Starts
  <2>4. /\ Keeps /\ on' = on /\ todo' = [todo EXCEPT !["app"] = r]
        /\ \E p \in Handlers(Current, Head(s).arg) : r = p \o Tail(s)
    BY <2>1, <2>2, <2>3, Calls DEF AppAtCall, Current
  <2>5. PICK p \in Handlers(Current, Head(s).arg) : r = p \o d
    BY <2>2, <2>4
  <2>6. /\ Current \in Settled /\ Head(s).arg \in AppEvents \cup {"INIT_SND"}
        /\ HandlerCases(Current, Head(s).arg, p)
    BY <2>1, HandlersAre DEF AppAtCall
  <2>7. \/ p = <<>>
        \/ Current = "Closed" /\ p = ChangeState("Inited")
        \/ Current = "Inited" /\ p = Discovery
        \/ Current = "Normal" /\ p = ChangeState("Closed")
    <3>1. /\ Head(s).arg # "STABILIZE_SND" /\ Head(s).arg \notin AdosipEvents
          /\ Current # "Discovered"
      BY <2>6 DEF AppEvents, AdosipEvents, Classes, Settled
    <3>. QED  BY <2>6, <3>1, Zenon DEF HandlerCases
  <2>8. CASE p = <<>>
    <3>1. r = d
      BY <2>3, <2>5, <2>8, HandlerPrograms
    <3>2. Types' /\ AppResting' /\ Op("app")' = "return"
      BY <2>3, <2>4, <3>1, CallTypes DEF AppResting, Op
    <3>. QED  BY <1>7, <2>4, <3>2 DEF AppProgram, Follows
  <2>9. ASSUME NEW k \in Kinds, p = ChangeState(k), <<Current, k>> \in Owned("app")
        PROVE  Types' /\ AppProgram' /\ Op("app")' = "make"
    <3>1. r \in Seq(Things) /\ FirstOp(r) = "make" /\ r = ChangeState(k) \o d
      BY <2>3, <2>5, <2>9, ProgramTypes, FirstOpsOf
    <3>2. Changing("app", d, Kinds)'
      BY <2>4, <2>9, <3>1 DEF Changing, Keeps
    <3>. QED  BY <2>3, <2>4, <3>1, <3>2, CallTypes DEF AppProgram, Op
  <2>10. CASE Current = "Inited" /\ p = Discovery
    <3>0. "Discoving" \in Kinds /\ "multicast" \in Classes
      BY OwnersApart DEF Kinds, Classes
    <3>1. r = <<Send("multicast")>> \o (ChangeState("Discoving") \o d)
      BY <2>3, <2>5, <2>10, HandlerPrograms
    <3>2. r \in Seq(Things) /\ FirstOp(r) = "send"
      <4>1. ChangeState("Discoving") \o d \in Seq(Things)
        BY <2>3, <3>0, ProgramTypes
      <4>2. FirstOp(<<Send("multicast")>> \o (ChangeState("Discoving") \o d)) = "send"
        BY <3>0, <4>1, FirstOpsOf
      <4>3. <<Send("multicast")>> \o (ChangeState("Discoving") \o d) \in Seq(Things)
        BY <2>3, <3>0, ProgramTypes
      <4>. QED  BY <3>1, <4>2, <4>3
    <3>3. <<Current', "Discoving">> \in Owned("app")
      BY <2>4, <2>10 DEF Owned, Settled, Keeps
    <3>. QED  BY <1>7, <2>3, <2>4, <3>1, <3>2, <3>3, CallTypes DEF AppProgram, Op, Follows
  <2>11. CASE Current = "Closed" /\ p = ChangeState("Inited")
    BY <1>7, <2>4, <2>9, <2>11 DEF Owned, Follows, Kinds, Settled
  <2>12. CASE Current = "Normal" /\ p = ChangeState("Closed")
    BY <1>7, <2>4, <2>9, <2>12 DEF Owned, Follows, Kinds, Settled
  <2>. QED  BY <2>7, <2>8, <2>10, <2>11, <2>12
<1>. QED  BY <1>0, <1>2, <1>3, <1>4, <1>5, <1>6, <1>7 DEF AppAt, DestructorOps

LEMMA AdosipEventsApart ==
    /\ \A e \in AdosipEvents : e \notin AppEvents /\ e \notin {"INIT_SND", "STABILIZE_SND"}
    /\ \A k \in Settled : k \notin {"Discoving", "Discovered", "Joining", "FTComputing"}
    /\ "JOIN_SND" \notin AdosipEvents /\ "JOIN_SND" \in Events
    /\ AdosipEvents \subseteq Events
BY DEF AdosipEvents, Classes, AppEvents, Settled, Events

(* So does the adosip thread. *)
LEMMA AdosipSteps ==
    ASSUME Types, AdosipProgram, ThreadStep("adosip")
    PROVE  /\ Types' /\ AdosipProgram' /\ Follows("adosip")
           /\ Op("adosip") \notin {"make", "store"} => Keeps
           /\ on'["adosip"] = IF Op("adosip") = "return" THEN 0
                              ELSE IF Op("adosip") = "handle" THEN new["adosip"]
                              ELSE IF Op("adosip") = "again" THEN state ELSE on["adosip"]
<1>. DEFINE s == todo["adosip"]
            r == todo'["adosip"]
<1>. "adosip" \in Threads
  BY DEF Threads
<1>0. /\ AdosipAt /\ s \in Seq(Things) /\ s # <<>>
      /\ Op("adosip") \in {"send", "make", "store", "delete", "handle", "again", "call", "return"}
      /\ state \in 1..Len(made) /\ state \in Nat /\ Current \in Kinds
  BY AdosipIsAt, StepLeaves DEF Types, Current
<1>1. Ret \in Seq(Things) /\ HandleNew \in Seq(Things)
  BY EndTypes
<1>2. CASE Op("adosip") = "send"
  <2>1. SendStep("adosip") /\ AdosipAtSend
    BY <1>0, <1>2, StepOf DEF AdosipAt
  <2>2. Types' /\ Keeps /\ r = Tail(s) /\ on' = on
    BY <2>1, Moves
  <2>3. CASE Tail(s) = Ret
    BY <1>2, <2>2, <2>3, FirstOpsOf DEF AdosipProgram, AdosipResting, Follows, Op
  <2>4. ASSUME NEW k \in Kinds, Tail(s) = ChangeState(k) \o Ret, <<Current, k>> \in Owned("adosip")
        PROVE  AdosipProgram' /\ Op("adosip")' = "make"
    <3>1. Changing("adosip", Ret, Kinds)'
      BY <2>2, <2>4 DEF Changing, Keeps
    <3>. QED  BY <1>1, <2>2, <2>4, <3>1, FirstOpsOf DEF AdosipProgram, Op
  <2>5. /\ Current = "Joining" => <<Current, "FTComputing">> \in Owned("adosip")
        /\ Current = "Discovered" => <<Current, "Joining">> \in Owned("adosip")
        /\ "FTComputing" \in Kinds /\ "Joining" \in Kinds
    BY OwnersApart DEF Owned, Kinds
  <2>. QED  BY <1>2, <2>1, <2>2, <2>3, <2>4, <2>5 DEF AdosipAtSend, Follows
<1>3. CASE Op("adosip") = "make"
  <2>1. MakeStep("adosip") /\ AdosipAtMake
    BY <1>0, <1>3, StepOf DEF AdosipAt
  <2>2. PICK d \in {Ret, HandleNew}, k \in Kinds :
            /\ Head(s).arg = k /\ Tail(s) = Storing \o d
            /\ <<Current, k>> \in Owned("adosip") /\ (d = HandleNew => k = "Discovered")
    BY <2>1 DEF AdosipAtMake
  <2>3. /\ Types' /\ r = Tail(s) /\ on' = on /\ made'[Len(made')] = k
        /\ new'["adosip"] = Len(made') /\ Current' = Current
    BY <2>1, <2>2, Makes
  <2>4. Op("adosip")' = "store"
    BY <1>1, <2>2, <2>3, FirstOpsOf DEF Op
  <2>5. CASE d = Ret
    <3>1. Changing("adosip", Ret, Kinds)'
      BY <2>2, <2>3, <2>5 DEF Changing
    <3>. QED  BY <1>3, <2>3, <2>4, <3>1 DEF AdosipProgram, Follows
  <2>6. CASE d = HandleNew
    <3>1. Changing("adosip", HandleNew, {"Discovered"})'
      BY <2>2, <2>3, <2>6 DEF Changing
    <3>2. r # Deleting \o HandleNew
      BY <1>1, <2>4, FirstOpsOf DEF Op
    <3>. QED  BY <1>3, <2>3, <2>4, <3>1, <3>2 DEF AdosipProgram, Follows
  <2>. QED  BY <2>5, <2>6
<1>4. CASE Op("adosip") = "store"
  <2>1. StoreStep("adosip") /\ AdosipAtStore
    BY <1>0, <1>4, StepOf DEF AdosipAt
  <2>2. PICK d \in {Ret, HandleNew} :
            /\ Tail(s) = Deleting \o d /\ new["adosip"] = Len(made)
            /\ (d = HandleNew => made[new["adosip"]] = "Discovered")
    BY <2>1 DEF AdosipAtStore
  <2>3. /\ Types' /\ r = Tail(s) /\ on' = on /\ Current' = made[new["adosip"]]
        /\ state' = new["adosip"] /\ new' = new
    BY <2>1, <2>2, Stores
  <2>4. Op("adosip")' = "delete"
    BY <1>1, <2>2, <2>3, FirstOpsOf DEF Op
  <2>5. AdosipResting' \/ AdosipInNew'
    BY <2>2, <2>3 DEF AdosipResting, AdosipInNew
  <2>. QED  BY <1>4, <2>3, <2>4, <2>5 DEF AdosipProgram, Follows
<1>5. CASE Op("adosip") = "delete"
  <2>1. DeleteStep("adosip") /\ AdosipAtDelete
    BY <1>0, <1>5, StepOf DEF AdosipAt
  <2>2. Types' /\ Keeps /\ r = Tail(s) /\ on' = on
    BY <2>1, Moves
  <2>3. AdosipResting' \/ AdosipInNew'
    BY <2>1, <2>2 DEF AdosipAtDelete, AdosipResting, AdosipInNew, Keeps
  <2>4. Op("adosip")' \in {"return", "handle"}
    BY <2>1, <2>2, FirstOpsOf DEF Op, AdosipAtDelete
  <2>. QED  BY <1>5, <2>2, <2>3, <2>4 DEF AdosipProgram, Follows
<1>6. CASE Op("adosip") = "return"
  <2>1. HandleReturns("adosip") /\ Tail(s) = <<>>
    BY <1>0, <1>6, StepOf DEF AdosipAt
  <2>2. Types' /\ Keeps /\ r = Tail(s) /\ on'["adosip"] = 0
    BY <2>1, Returns
  <2>3. AdosipResting' /\ Op("adosip")' = "none"
    BY <2>1, <2>2, FirstOpsOf DEF AdosipResting, Op
  <2>. QED  BY <1>6, <2>2, <2>3 DEF AdosipProgram, Follows
<1>7. CASE Op("adosip") = "handle"
  <2>1. /\ HandleNewStep("adosip") /\ Tail(s) = Ret
        /\ Current = "Discovered" /\ new["adosip"] = state
    BY <1>0, <1>7, StepOf DEF AdosipAt
  <2>2. Enter("adosip", <<Call("JOIN_SND")>> \o Ret, new["adosip"]) /\ Keeps
    BY <2>1 DEF HandleNewStep, Keeps, pointers, Current
  <2>3. <<Call("JOIN_SND")>> \o Ret \in Seq(Things)
    BY <1>1, ProgramTypes, AdosipEventsApart
  <2>4. /\ r = <<Call("JOIN_SND")>> \o Ret /\ on'["adosip"] = new["adosip"]
        /\ todo' \in [Threads -> Seq(Things)] /\ on' \in [Threads -> Nat]
    BY <1>0, <2>1, <2>2, <2>3, Enters
  <2>5. Types' /\ Current' = "Discovered" /\ on'["adosip"] = state'
    BY <2>1, <2>2, <2>4 DEF Types, Keeps
  <2>6. AdosipJoins' /\ Op("adosip")' = "call"
    BY <1>1, <2>4, <2>5, FirstOpsOf, AdosipEventsApart DEF AdosipJoins, Op
  <2>. QED  BY <1>7, <2>2, <2>4, <2>5, <2>6 DEF AdosipProgram, Follows
<1>8. CASE Op("adosip") = "again"
  <2>1. AgainStep("adosip") /\ Tail(s) = Ret /\ Head(s).arg = "NO_NODE_FIND"
    BY <1>0, <1>8, StepOf DEF AdosipAt
  <2>2. Enter("adosip", <<Call("NO_NODE_FIND")>> \o Ret, state) /\ Keeps
    BY <2>1 DEF AgainStep, Keeps, pointers, Current
  <2>3. <<Call("NO_NODE_FIND")>> \o Ret \in Seq(Things) /\ "NO_NODE_FIND" \in AdosipEvents
    BY <1>1, ProgramTypes, AdosipEventsApart DEF AdosipEvents
  <2>4. /\ r = <<Call("NO_NODE_FIND")>> \o Ret /\ on'["adosip"] = state
        /\ todo' \in [Threads -> Seq(Things)] /\ on' \in [Threads -> Nat]
    BY <1>0, <2>1, <2>2, <2>3, Enters
  <2>5. Types' /\ on'["adosip"] = state' /\ on'["adosip"] \in 1..Len(made')
    BY <1>0, <2>1, <2>2, <2>4 DEF Types, Keeps
  <2>6. AdosipCalling' /\ Op("adosip")' = "call"
    BY <1>1, <2>3, <2>4, <2>5, FirstOpsOf, AdosipEventsApart DEF AdosipCalling, Op
  <2>. QED  BY <1>8, <2>2, <2>4, <2>5, <2>6 DEF AdosipProgram, Follows
<1>9. CASE Op("adosip") = "call"
  <2>1. CallStep("adosip") /\ AdosipAtCall
    BY <1>0, <1>9, StepOf DEF AdosipAt
  <2>2. /\ Keeps /\ on' = on /\ todo' = [todo EXCEPT !["adosip"] = r]
        /\ \E p \in Handlers(made[on["adosip"]], Head(s).arg) : r = p \o Ret
    BY <1>1, <2>1, Calls DEF AdosipAtCall
  <2>3. PICK p \in Handlers(made[on["adosip"]], Head(s).arg) : r = p \o Ret
    BY <2>2
  <2>4. HandlerCases(made[on["adosip"]], Head(s).arg, p)
    BY HandlersAre
  <2>5. /\ "Discoving" \in Kinds /\ "Discovered" \in Kinds /\ "Joining" \in Kinds
        /\ "FTComputing" \in Kinds /\ "Normal" \in Kinds
        /\ "findsucc" \in Classes /\ "join" \in Classes
    BY OwnersApart DEF Kinds, Classes, Settled
  <2>6. CASE p = <<>>
    <3>1. r = Ret
      BY <1>1, <2>3, <2>6, HandlerPrograms
    <3>2. Types' /\ AdosipResting' /\ Op("adosip")' = "return"
      BY <1>1, <2>2, <3>1, CallTypes, FirstOpsOf DEF AdosipResting, Op
    <3>. QED  BY <1>9, <2>2, <3>2 DEF AdosipProgram, Follows
  <2>7. ASSUME NEW k \in Kinds, p = ChangeState(k), <<Current, k>> \in Owned("adosip")
        PROVE  Types' /\ AdosipProgram' /\ Op("adosip")' = "make"
    <3>1. r \in Seq(Things) /\ FirstOp(r) = "make" /\ r = ChangeState(k) \o Ret
      BY <1>1, <2>3, <2>7, ProgramTypes, FirstOpsOf
    <3>2. Changing("adosip", Ret, Kinds)'
      BY <2>2, <2>7, <3>1 DEF Changing, Keeps
    <3>. QED  BY <2>2, <3>1, <3>2, CallTypes DEF AdosipProgram, Op
  <2>8. CASE Current = "Discoving" /\ p = ChangeState("Discovered") \o <<Do("handle")>>
    <3>1. r = ChangeState("Discovered") \o HandleNew
      BY <1>1, <2>3, <2>8, HandlerPrograms DEF HandleNew
    <3>2. r \in Seq(Things) /\ FirstOp(r) = "make" /\ r # Deleting \o HandleNew
      <4>1. r \in Seq(Things) /\ FirstOp(r) = "make"
        BY <1>1, <2>5, <3>1, ProgramTypes, FirstOpsOf
      <4>2. FirstOp(Deleting \o HandleNew) = "delete"
        BY <1>1, FirstOpsOf
      <4>. QED  BY <4>1, <4>2
    <3>3. <<Current', "Discovered">> \in Owned("adosip")
      BY <2>2, <2>8 DEF Owned, Keeps
    <3>4. Changing("adosip", HandleNew, {"Discovered"})'
      BY <3>1, <3>3 DEF Changing
    <3>. QED  BY <1>9, <2>2, <3>2, <3>4, CallTypes DEF AdosipProgram, Op, Follows
  <2>9. CASE Current = "Joining" /\ p = <<Send("findsucc")>> \o ChangeState("FTComputing")
    <3>1. r = <<Send("findsucc")>> \o (ChangeState("FTComputing") \o Ret)
      BY <1>1, <2>3, <2>9, HandlerPrograms
    <3>2. ChangeState("FTComputing") \o Ret \in Seq(Things) /\ r \in Seq(Things)
      BY <1>1, <2>5, <3>1, ProgramTypes
    <3>3. FirstOp(r) = "send"
      BY <2>5, <3>1, <3>2, FirstOpsOf
    <3>4. Op("adosip")' = "send" /\ Types' /\ Current' = "Joining"
      BY <2>2, <2>9, <3>2, <3>3, CallTypes DEF Op, Keeps
    <3>. QED  BY <1>9, <2>2, <3>1, <3>4 DEF AdosipProgram, Follows
  <2>10. CASE Current = "FTComputing" /\ p = <<Send("findsucc")>>
    <3>1. r \in Seq(Things) /\ r = <<Send("findsucc")>> \o Ret
      BY <1>1, <2>3, <2>5, <2>10, ProgramTypes
    <3>3. FirstOp(r) = "send"
      BY <1>1, <2>5, <3>1, FirstOpsOf
    <3>4. Op("adosip")' = "send" /\ Types' /\ Current' \in Busy
      BY <2>2, <2>10, <3>1, <3>3, CallTypes, OwnersApart DEF Op, Keeps
    <3>. QED  BY <1>9, <2>2, <3>1, <3>4 DEF AdosipProgram, Follows
  <2>11. CASE Current = "Discovered" /\ p = JoinOverlay
    <3>1. r = <<Send("join")>> \o (ChangeState("Joining") \o Ret)
      BY <1>1, <2>3, <2>11, HandlerPrograms
    <3>2. ChangeState("Joining") \o Ret \in Seq(Things) /\ r \in Seq(Things)
      BY <1>1, <2>5, <3>1, ProgramTypes
    <3>3. FirstOp(r) = "send"
      BY <2>5, <3>1, <3>2, FirstOpsOf
    <3>4. Op("adosip")' = "send" /\ Types' /\ Current' = "Discovered"
      BY <2>2, <2>11, <3>2, <3>3, CallTypes DEF Op, Keeps
    <3>. QED  BY <1>9, <2>2, <3>1, <3>4 DEF AdosipProgram, AdosipJoins, Follows
  <2>12. CASE Current \in {"Discoving", "Joining", "FTComputing"} /\ p = ChangeState("Normal")
    BY <1>9, <2>2, <2>5, <2>7, <2>12 DEF Owned, Follows
  <2>13. \/ p = <<>>
         \/ Current = "Discoving" /\ p = ChangeState("Discovered") \o <<Do("handle")>>
         \/ Current = "Joining" /\ p = <<Send("findsucc")>> \o ChangeState("FTComputing")
         \/ Current = "FTComputing" /\ p = <<Send("findsucc")>>
         \/ Current = "Discovered" /\ p = JoinOverlay
         \/ Current \in {"Discoving", "Joining", "FTComputing"} /\ p = ChangeState("Normal")
    <3>1. CASE Head(s).arg \in AdosipEvents /\ on["adosip"] = state
      BY <2>4, <3>1, AdosipEventsApart DEF HandlerCases, AppEvents, Current
    <3>2. CASE Head(s).arg \in AdosipEvents /\ made[on["adosip"]] \in Settled
      BY <2>4, <3>2, AdosipEventsApart DEF HandlerCases, AppEvents
    <3>3. CASE Head(s).arg = "JOIN_SND" /\ on["adosip"] = state
      BY <2>4, <3>3, AdosipEventsApart DEF HandlerCases, Current
    <3>. QED  BY <2>1, <3>1, <3>2, <3>3 DEF AdosipAtCall
  <2>. QED  BY <2>6, <2>8, <2>9, <2>10, <2>11, <2>12, <2>13
<1>. QED  BY <1>0, <1>2, <1>3, <1>4, <1>5, <1>6, <1>7, <1>8, <1>9

(* A stabilize thread does nothing to _state. *)
LEMMA StabilizeSteps ==
    ASSUME Types, StabilizeProgram, ThreadStep("stabilize")
    PROVE  /\ Types' /\ StabilizeProgram' /\ Keeps
           /\ Op("stabilize") \in {"call", "return"}
           /\ Op("stabilize")' \in {"none", "round", "return"}
<1>. DEFINE s == todo["stabilize"]
            r == todo'["stabilize"]
<1>. "stabilize" \in Threads
  BY DEF Threads
<1>1. Op("stabilize") \in {"call", "return"} /\ s # <<>>
  BY StabilizeIsAt, StepLeaves
<1>2. CASE Op("stabilize") = "return"
  <2>1. HandleReturns("stabilize") /\ Tail(s) = <<>>
    BY <1>2, StabilizeIsAt, StepOf
  <2>2. Types' /\ Keeps /\ r = <<>>
    BY <2>1, Returns
  <2>. QED  BY <1>2, <2>2, FirstOpsOf DEF StabilizeProgram, Op
<1>3. CASE Op("stabilize") = "call"
  <2>1. CallStep("stabilize") /\ Tail(s) = Ret /\ Head(s).arg = "STABILIZE_SND"
    BY <1>3, StabilizeIsAt, StepOf
  <2>2. /\ Keeps /\ on' = on /\ todo' = [todo EXCEPT !["stabilize"] = r]
        /\ \E p \in Handlers(made[on["stabilize"]], "STABILIZE_SND") : r = p \o Ret
    BY <2>1, Calls, EndTypes
  <2>3. PICK p \in Handlers(made[on["stabilize"]], "STABILIZE_SND") : r = p \o Ret
    BY <2>2
  <2>4. p = <<>> \/ p = <<Do("round")>>
    <3>1. "STABILIZE_SND" \notin AdosipEvents
      BY AdosipEventsApart
    <3>. QED  BY <3>1, HandlersAre DEF HandlerCases
  <2>5. /\ r = Ret \/ r = <<Do("round")>> \o Ret
        /\ r \in Seq(Things) /\ FirstOp(r) \in {"round", "return"}
    <3>1. <<>> \o Ret = Ret /\ Ret \in Seq(Things) /\ FirstOp(Ret) = "return"
      BY HandlerPrograms, FirstOpsOf, EndTypes
    <3>2. <<Do("round")>> \o Ret \in Seq(Things) /\ FirstOp(<<Do("round")>> \o Ret) = "round"
      BY <3>1, ProgramTypes, FirstOpsOf
    <3>. QED  BY <2>3, <2>4, <3>1, <3>2
  <2>. QED  BY <1>3, <2>2, <2>5, CallTypes DEF StabilizeProgram, Op
<1>. QED  BY <1>1, <1>2, <1>3

(* A handler that an object in a settled state was called for does nothing. *)
LEMMA AdosipCallsState ==
    ASSUME Types, AdosipProgram, CallStep("adosip")
    PROVE  on["adosip"] = state \/ Op("adosip")' = "return"
<1>. "adosip" \in Threads
  BY DEF Threads
<1>1. AdosipAtCall
  <2>1. Op("adosip") = "call" /\ AdosipAt
    BY AdosipIsAt DEF CallStep, Step, Op, FirstOp, Types
  <2>. QED  BY <2>1 DEF AdosipAt
<1>2. CASE made[on["adosip"]] \in Settled /\ Head(todo["adosip"]).arg \in AdosipEvents
  <2>1. PICK p \in Handlers(made[on["adosip"]], Head(todo["adosip"]).arg) :
            todo'["adosip"] = p \o Ret
    BY <1>1, Calls, EndTypes DEF AdosipAtCall
  <2>2. p = <<>>
    <3>1. HandlerCases(made[on["adosip"]], Head(todo["adosip"]).arg, p)
      BY HandlersAre
    <3>. QED  BY <1>2, <3>1, AdosipEventsApart DEF HandlerCases, AppEvents
  <2>3. todo'["adosip"] = Ret
    BY <2>1, <2>2, HandlerPrograms, EndTypes
  <2>. QED  BY <2>3, FirstOpsOf DEF Op
<1>. QED  BY <1>1, <1>2 DEF AdosipAtCall

-----------------------------------------------------------------------------
(* What the step of another thread leaves. *)
LEMMA AppFrame ==
    ASSUME Types, AppProgram, UNCHANGED process, todo'["app"] = todo["app"],
           on'["app"] = on["app"], new'["app"] = new["app"],
           UNCHANGED <<made, state>> \/ Current \in Busy
    PROVE  AppProgram'
<1>1. CASE UNCHANGED <<made, state>>
  BY <1>1 DEF AppProgram, AppResting, AppCalling, Changing, AppIn, Early, Current
<1>2. CASE Current \in Busy
  <2>1. AppResting
    <3>1. \A d : Changing("app", d, Kinds) => todo["app"] = Deleting \o d
      BY <1>2, OwnersApart DEF Changing
    <3>. QED  BY <1>2, <3>1, OwnersApart DEF AppProgram, AppCalling, AppResting
  <2>2. AppResting'
    BY <2>1 DEF AppResting, AppIn, Early
  <2>. QED  BY <2>2 DEF AppProgram
<1>. QED  BY <1>1, <1>2

LEMMA AdosipFrame ==
    ASSUME Types, AdosipProgram, todo'["adosip"] = todo["adosip"],
           on'["adosip"] = on["adosip"], new'["adosip"] = new["adosip"],
           \/ UNCHANGED <<made, state>>
           \/ /\ Current \in Settled /\ Len(made') \in Nat /\ Len(made) <= Len(made')
              /\ \A i \in 1..Len(made) : made'[i] = made[i]
    PROVE  AdosipProgram'
<1>1. CASE UNCHANGED <<made, state>>
  BY <1>1 DEF AdosipProgram, AdosipResting, AdosipCalling, AdosipInNew, AdosipJoins,
     Changing, Current
<1>2. CASE /\ Current \in Settled /\ Len(made') \in Nat /\ Len(made) <= Len(made')
           /\ \A i \in 1..Len(made) : made'[i] = made[i]
  <2>1. AdosipResting \/ AdosipCalling
    BY <1>2, AdosipIsAt, OwnersApart DEF Types
  <2>2. CASE AdosipResting
    BY <2>2 DEF AdosipResting, AdosipProgram
  <2>3. CASE AdosipCalling
    <3>1. on["adosip"] \in 1..Len(made) /\ made[on["adosip"]] \in Settled
      BY <1>2, <2>3 DEF AdosipCalling, Current
    <3>2. on'["adosip"] \in 1..Len(made') /\ made'[on'["adosip"]] \in Settled
      BY <1>2, <3>1 DEF Types
    <3>3. AdosipCalling'
      BY <2>3, <3>2 DEF AdosipCalling
    <3>. QED  BY <3>3 DEF AdosipProgram
  <2>. QED  BY <2>1, <2>2, <2>3
<1>. QED  BY <1>1, <1>2

LEMMA StabilizeFrame ==
    ASSUME StabilizeProgram, todo'["stabilize"] = todo["stabilize"]
    PROVE  StabilizeProgram'
BY DEF StabilizeProgram

(* The application's thread changes _state in a settled one only, adosip   *)
(* only between these: never both at a time.                               *)
LEMMA OneChanges ==
    ASSUME Types, Programs
    PROVE  /\ Op("app") \in {"call"} \cup Changes => Current \in Settled
           /\ Op("adosip") \in Changes => Current \in Busy
           /\ Op("stabilize") \notin Changes \cup {"delete"}
           /\ \A t \in Threads : Op(t) = "store" => new[t] = Len(made)
           /\ \A t \in Threads : Op(t) \in {"make"} =>
                \E k \in Kinds : Head(todo[t]).arg = k
<1>1. AppAt /\ AdosipAt /\ (Op("adosip") \in Changes => Current \in Busy)
  BY AppIsAt, AdosipIsAt DEF Programs, Types
<1>2. Op("app") \in {"call"} \cup Changes => Current \in Settled
  BY <1>1, OwnersApart
     DEF AppAt, Changes, AppAtCall, AppAtSend, AppAtMake, AppAtStore, DestructorOps
<1>3. Op("stabilize") \notin Changes \cup {"delete"}
  BY StabilizeIsAt DEF Programs, Changes
<1>4. /\ Op("app") = "store" => new["app"] = Len(made)
      /\ Op("app") = "make" => \E k \in Kinds : Head(todo["app"]).arg = k
  BY <1>1 DEF AppAt, DestructorOps, AppAtMake, AppAtStore
<1>5. /\ Op("adosip") = "store" => new["adosip"] = Len(made)
      /\ Op("adosip") = "make" => \E k \in Kinds : Head(todo["adosip"]).arg = k
  BY <1>1 DEF AdosipAt, AdosipAtMake, AdosipAtStore
<1>. QED  BY <1>1, <1>2, <1>3, <1>4, <1>5 DEF Threads, Changes

(* A step of one thread that leaves the objects. *)
LEMMA LocalStep ==
    ASSUME Good, NEW t \in Threads, UNCHANGED <<made, state, old, new>>, Types',
           Early' => UNCHANGED freedBy,
           \A u \in Threads \ {t} : todo'[u] = todo[u] /\ on'[u] = on[u],
           t # "app" => UNCHANGED process,
           t = "app" => /\ AppProgram'
                        /\ Early' => Early /\ AppObject'
                        /\ ~ Early' => todo'["app"] \in Seq(DestructorThings),
           t = "adosip" => AdosipProgram' /\ (Early' => AdosipObject'),
           t = "stabilize" => StabilizeProgram',
           Early' => Op(t)' \notin {"store", "delete"}
    PROVE  Good'
<1>1. Programs'
  <2>1. AppProgram'
    BY AppFrame DEF Good, Programs, Threads
  <2>2. AdosipProgram'
    BY AdosipFrame DEF Good, Programs, Threads
  <2>3. StabilizeProgram'
    BY StabilizeFrame DEF Good, Programs, Threads
  <2>. QED  BY <2>1, <2>2, <2>3 DEF Programs
<1>2. Early' => Early
  BY DEF Early
<1>3. \A u \in Threads \ {t} : Op(u)' = Op(u)
  BY DEF Op
<1>4. ASSUME Early'
      PROVE  ObjectsInOrder'
  BY <1>2, <1>3, <1>4 DEF Good, ObjectsInOrder, Freed
<1>5. ASSUME Early'
      PROVE  AppObject'
  BY <1>2, <1>3, <1>5 DEF Good, AppObject, Freed, Current, Threads
<1>6. ASSUME Early'
      PROVE  AdosipObject'
  BY <1>2, <1>3, <1>6 DEF Good, AdosipObject, Freed, Current, Threads
<1>7. ~ Early' => todo'["app"] \in Seq(DestructorThings)
  BY DEF Good, Early, Threads
<1>. QED  BY <1>1, <1>4, <1>5, <1>6, <1>7 DEF Good

LEMMA GoodUnchanged ==
    ASSUME Good, UNCHANGED <<made, state, freedBy, todo, old, new, on, process>>
    PROVE  Good'
<1>1. Programs'
  BY DEF Good, Programs, AppProgram, AppResting, AppCalling, Changing, AppIn, Early, Current,
     AdosipProgram, AdosipResting, AdosipCalling, AdosipInNew, AdosipJoins, StabilizeProgram
<1>2. Types' /\ Early' = Early
  BY DEF Good, Types, Early
<1>3. Early => ObjectsInOrder' /\ AppObject' /\ AdosipObject'
  BY DEF Good, ObjectsInOrder, AppObject, AdosipObject, Freed, Current, Op
<1>. QED  BY <1>1, <1>2, <1>3 DEF Good

-----------------------------------------------------------------------------
(* The thread steps that leave the objects. *)
LEMMA EasySteps ==
    ASSUME Good, Early, NEW t \in {"app", "adosip"}, ThreadStep(t),
           Op(t) \notin {"make", "store", "delete"}
    PROVE  Good'
<1>. t \in Threads
  BY DEF Threads
<1>1. /\ Types /\ AppProgram /\ AdosipProgram /\ ObjectsInOrder /\ AppObject /\ AdosipObject
      /\ state \in 1..Len(made)
  BY DEF Good, Programs, Types
<1>2. /\ \A u \in Threads \ {t} : todo'[u] = todo[u] /\ on'[u] = on[u]
      /\ UNCHANGED process
      /\ Op(t) \in {"send", "handle", "again", "call", "return"}
  BY <1>1, StepLeaves
<1>3. UNCHANGED freedBy
  BY <1>1, <1>2, StepOf
     DEF SendStep, HandleNewStep, AgainStep, CallStep, HandleReturns, pointers
<1>4. CASE t = "app"
  <2>1. /\ Types' /\ AppProgram' /\ Follows("app") /\ Keeps
        /\ on'["app"] = IF Op("app") = "return" THEN 0 ELSE on["app"]
    BY <1>1, <1>4, AppSteps
  <2>2. AppAt /\ AppAt'
    <3>1. AppAt
      BY <1>1, AppIsAt
    <3>2. AppAt'
      BY <2>1, AppIsAt, PTL
    <3>. QED  BY <3>1, <3>2
  <2>3. Op("app") \in {"send", "call", "return"}
    BY <1>2, <1>4, <2>2 DEF AppAt
  <2>4. Op("app")' \in {"none", "send", "make", "return", "constructed"}
    BY <2>1, <2>2, <2>3 DEF Follows, AppAt, DestructorOps
  <2>5. AppObject'
    <3>1. CASE Op("app") = "return"
      BY <2>1, <3>1 DEF AppObject
    <3>2. CASE Op("app") \in {"send", "call"}
      <4>1. Op("app")' \in {"send", "make", "return"}
        BY <2>1, <2>4, <3>2 DEF Follows
      <4>2. on["app"] # 0 => on["app"] = state
        BY <1>1, <3>2 DEF AppObject
      <4>3. Current \in Settled
        BY <1>1, <3>2, OneChanges DEF Good, Changes
      <4>. QED  BY <2>1, <3>2, <4>1, <4>2, <4>3 DEF AppObject, Keeps
    <3>. QED  BY <2>3, <3>1, <3>2
  <2>. QED  BY <1>2, <1>3, <1>4, <2>1, <2>4, <2>5, LocalStep DEF Early, Keeps
<1>5. CASE t = "adosip"
  <2>1. /\ Types' /\ AdosipProgram' /\ Follows("adosip") /\ Keeps
        /\ on'["adosip"] = IF Op("adosip") = "return" THEN 0
                           ELSE IF Op("adosip") = "handle" THEN new["adosip"]
                           ELSE IF Op("adosip") = "again" THEN state ELSE on["adosip"]
    BY <1>1, <1>5, AdosipSteps
  <2>2. AdosipAt /\ AdosipAt'
    <3>1. AdosipAt
      BY <1>1, AdosipIsAt
    <3>2. (state \in 1..Len(made))'
      BY <2>1 DEF Types
    <3>3. AdosipAt'
      BY <2>1, <3>2, AdosipIsAt, PTL
    <3>. QED  BY <3>1, <3>3
  <2>3. Op("adosip")' \in {"none", "send", "make", "return", "call"}
    BY <1>2, <1>5, <2>1, <2>2 DEF Follows, AdosipAt
  <2>4. AdosipObject'
    <3>1. CASE Op("adosip") = "return"
      BY <2>1, <3>1 DEF AdosipObject
    <3>2. CASE Op("adosip") \in {"handle", "again"}
      <4>1. on'["adosip"] = state'
        BY <2>1, <2>2, <3>2 DEF AdosipAt, Keeps
      <4>2. Op("adosip")' = "call"
        BY <2>1, <3>2 DEF Follows
      <4>. QED  BY <1>1, <2>1, <4>1, <4>2 DEF AdosipObject, Keeps
    <3>3. CASE Op("adosip") = "call"
      <4>1. /\ on["adosip"] = state \/ Op("adosip")' = "return"
        BY <1>1, <1>5, <3>3, StepOf, AdosipCallsState
      <4>2. /\ on["adosip"] # 0 => /\ on["adosip"] \in 1..Len(made)
                                   /\ on["adosip"] = state \/ made[on["adosip"]] \in Settled
        BY <1>1, <3>3 DEF AdosipObject
      <4>3. Op("adosip")' \in {"send", "make", "return"}
        BY <2>1, <2>3, <3>3 DEF Follows
      <4>. QED  BY <2>1, <3>3, <4>1, <4>2, <4>3 DEF AdosipObject, Keeps
    <3>4. CASE Op("adosip") = "send"
      <4>1. on["adosip"] # 0 => on["adosip"] \in 1..Len(made) /\ on["adosip"] = state
        BY <1>1, <3>4 DEF AdosipObject
      <4>2. Op("adosip")' \in {"make", "return"}
        BY <2>1, <3>4 DEF Follows
      <4>. QED  BY <2>1, <3>4, <4>1, <4>2 DEF AdosipObject, Keeps
    <3>. QED  BY <1>2, <1>5, <3>1, <3>2, <3>3, <3>4
  <2>. QED  BY <1>2, <1>3, <1>5, <2>1, <2>3, <2>4, LocalStep DEF Early, Keeps
<1>. QED  BY <1>4, <1>5

LEMMA StabilizeKeeps ==
    ASSUME Good, ThreadStep("stabilize")
    PROVE  Good'
<1>. "stabilize" \in Threads
  BY DEF Threads
<1>1. Types /\ StabilizeProgram
  BY DEF Good, Programs
<1>2. /\ \A u \in Threads \ {"stabilize"} : todo'[u] = todo[u] /\ on'[u] = on[u]
      /\ UNCHANGED process
  BY <1>1, StepLeaves
<1>3. /\ Types' /\ StabilizeProgram' /\ Keeps
      /\ Op("stabilize") \in {"call", "return"}
      /\ Op("stabilize")' \in {"none", "round", "return"}
  BY <1>1, StabilizeSteps
<1>4. UNCHANGED freedBy
  BY <1>1, <1>3, StepOf DEF CallStep, HandleReturns, pointers
<1>. QED  BY <1>2, <1>3, <1>4, LocalStep DEF Keeps

-----------------------------------------------------------------------------
(* The steps of a ChangeState, in thread t while the other does nothing    *)
(* to _state.                                                              *)
LEMMA OrderMade ==
    ASSUME Good, Early, NEW t \in {"app", "adosip"}, ThreadStep(t),
           Op(t) \in {"make", "store", "delete"}, Follows(t)
    PROVE  /\ ObjectsInOrder'
           /\ Op(t) = "make" => \E k \in Kinds :
                /\ Current' = Current /\ state' = state /\ UNCHANGED freedBy
                /\ made' = Append(made, k)
           /\ Op(t) = "store" => /\ old[t] = state /\ UNCHANGED <<made, freedBy, old, new>>
                                 /\ state' = Len(made)
           /\ Op(t) = "delete" => /\ old[t] \notin Freed /\ freedBy'[old[t]] = t
                                  /\ Freed' = Freed \cup {old[t]} /\ Keeps
                                  /\ \A i \in Freed : freedBy'[i] = freedBy[i]
<1>. t \in Threads /\ Types /\ Programs /\ ObjectsInOrder
  BY DEF Threads, Good
<1>0. \A u \in Threads \ {t} :
        /\ Op(u)' = Op(u) /\ old'[u] = old[u] /\ new'[u] = new[u]
        /\ Op(t) \in {"make", "store"} => Op(u) # "store"
  BY StepLeaves, OneChanges, OwnersApart DEF Changes, Threads
<1>1. CASE Op(t) = "make"
  <2>1. PICK k \in Kinds : Head(todo[t]).arg = k
    BY <1>1, OneChanges
  <2>2. /\ Current' = Current /\ state' = state /\ UNCHANGED freedBy
        /\ made' = Append(made, k) /\ new'[t] = Len(made') /\ old'[t] = state
        /\ Len(made') = Len(made) + 1
    BY <1>1, <2>1, Makes, StepOf
  <2>3. Op(t)' = "store"
    BY <1>1 DEF Follows
  <2>4. state < Len(made')
    BY <2>2 DEF Types
  <2>5. ObjectsInOrder'
    BY <1>0, <1>1, <2>2, <2>3, <2>4 DEF ObjectsInOrder, Freed
  <2>. QED  BY <1>1, <2>2, <2>5
<1>2. CASE Op(t) = "store"
  <2>1. new[t] = Len(made)
    BY <1>2, OneChanges
  <2>2. state' = Len(made) /\ UNCHANGED <<made, freedBy, old, new>>
    BY <1>2, <2>1, Stores, StepOf
  <2>3. old[t] = state /\ state < state' /\ Op(t)' = "delete" /\ state \in Nat /\ state' \in Nat
        /\ state >= 1
    BY <1>2, <2>1, <2>2 DEF ObjectsInOrder, Follows, Types
  <2>4. \A i \in Freed : i \in 1..(state - 1) /\ i \in 1..(state' - 1) /\ i # state
    <3>1. \A i \in Freed : i \in 1..(state - 1)
      BY DEF ObjectsInOrder
    <3>. QED  BY <2>3, <3>1
  <2>5. ASSUME NEW u \in Threads, Op(u)' = "delete"
        PROVE  /\ old'[u] \in 1..(state' - 1) /\ old'[u] \notin Freed'
               /\ \A v \in Threads \ {u} : Op(v)' = "delete" => old'[u] # old'[v]
    <3>1. ASSUME NEW w \in Threads \ {t}, Op(w)' = "delete"
          PROVE  /\ old'[w] \in 1..(state - 1) /\ old'[w] \notin Freed' /\ old'[w] # state
                 /\ \A v \in Threads \ {w, t} : Op(v)' = "delete" => old'[w] # old'[v]
      BY <1>0, <2>2, <2>3, <3>1 DEF ObjectsInOrder, Freed
    <3>2. CASE u = t
      BY <2>2, <2>3, <2>4, <3>1, <3>2 DEF Freed
    <3>3. CASE u # t
      <4>1. /\ old'[u] \in 1..(state - 1) /\ old'[u] \notin Freed' /\ old'[u] # state
            /\ \A v \in Threads \ {u, t} : Op(v)' = "delete" => old'[u] # old'[v]
        BY <2>5, <3>1, <3>3
      <4>. QED  BY <2>2, <2>3, <4>1
    <3>. QED  BY <3>2, <3>3
  <2>6. ObjectsInOrder'
    <3>1. \A u \in Threads : Op(u)' # "store"
      BY <1>0, <1>2, <2>3
    <3>2. Freed' \subseteq 1..(state' - 1)
      BY <2>2, <2>4 DEF Freed
    <3>. QED  BY <2>5, <3>1, <3>2 DEF ObjectsInOrder
  <2>. QED  BY <1>2, <2>2, <2>3, <2>6
<1>3. CASE Op(t) = "delete"
  <2>1. DeleteStep(t) /\ Keeps
    BY <1>3, Moves, StepOf
  <2>2. old[t] \notin Freed /\ freedBy' = [i \in Freed \cup {old[t]} |->
                                            IF i \in Freed THEN freedBy[i] ELSE t]
    BY <2>1 DEF DeleteStep, Delete
  <2>3. /\ Freed' = Freed \cup {old[t]} /\ freedBy'[old[t]] = t
        /\ \A i \in Freed : freedBy'[i] = freedBy[i]
    BY <2>2 DEF Freed
  <2>4. Op(t)' \notin {"store", "delete"} /\ old[t] \in 1..(state - 1)
    BY <1>3 DEF Follows, ObjectsInOrder
  <2>5. state' = state /\ old' = old
    BY <2>1 DEF Keeps
  <2>6. Freed' \subseteq 1..(state' - 1)
    BY <2>3, <2>4, <2>5 DEF ObjectsInOrder
  <2>7. \A u \in Threads : Op(u)' # "store" \/ (u # t /\ Op(u) = "store")
    BY <1>0, <2>4
  <2>8. ASSUME NEW u \in Threads, Op(u)' = "delete"
        PROVE  u # t /\ Op(u) = "delete"
    BY <1>0, <2>4, <2>8
  <2>9. ASSUME NEW u \in Threads, Op(u)' = "delete"
        PROVE  /\ old'[u] \in 1..(state' - 1) /\ old'[u] \notin Freed'
               /\ \A v \in Threads \ {u} : Op(v)' = "delete" => old'[v] # old'[u]
    <3>1. u # t /\ Op(u) = "delete"
      BY <2>8, <2>9
    <3>2. old[u] \in 1..(state - 1) /\ old[u] \notin Freed /\ old[u] # old[t]
      BY <1>3, <3>1 DEF ObjectsInOrder
    <3>3. \A v \in Threads \ {u} : Op(v) = "delete" => old[v] # old[u]
      BY <3>1 DEF ObjectsInOrder
    <3>. QED  BY <2>3, <2>5, <2>8, <3>2, <3>3
  <2>10. \A u \in Threads : Op(u)' = "store" => old'[u] = state' /\ state' < new'[u]
    <3>1. \A u \in Threads \ {t} : new'[u] = new[u]
      BY <1>0
    <3>. QED  BY <2>5, <2>7, <3>1 DEF ObjectsInOrder
  <2>11. ObjectsInOrder'
    BY <2>6, <2>9, <2>10 DEF ObjectsInOrder
  <2>. QED  BY <1>3, <2>1, <2>2, <2>3, <2>11
<1>. QED  BY <1>1, <1>2, <1>3

LEMMA AppChanges ==
    ASSUME Good, Early, ThreadStep("app"), Op("app") \in {"make", "store", "delete"}
    PROVE  Good'
<1>. "app" \in Threads /\ "adosip" \in Threads /\ Types /\ Programs
  BY DEF Threads, Good
<1>1. Types' /\ AppProgram' /\ Follows("app") /\ on'["app"] = on["app"]
  BY AppSteps DEF Programs
<1>2. /\ \A u \in Threads \ {"app"} :
            /\ todo'[u] = todo[u] /\ Op(u)' = Op(u) /\ on'[u] = on[u]
            /\ new'[u] = new[u] /\ old'[u] = old[u]
      /\ UNCHANGED process
  BY StepLeaves
<1>3. ObjectsInOrder' /\ Early' /\ ObjectsInOrder /\ AppObject /\ AdosipObject
  BY <1>1, <1>2, OrderMade DEF Good, Early
<1>4. /\ Op("app") = "make" => \E k \in Kinds :
            /\ Current' = Current /\ state' = state /\ UNCHANGED freedBy
            /\ made' = Append(made, k)
      /\ Op("app") = "store" => /\ old["app"] = state /\ UNCHANGED <<made, freedBy, old, new>>
                                /\ state' = Len(made)
      /\ Op("app") = "delete" => /\ old["app"] \notin Freed /\ freedBy'[old["app"]] = "app"
                                 /\ Freed' = Freed \cup {old["app"]} /\ Keeps
                                 /\ \A i \in Freed : freedBy'[i] = freedBy[i]
  BY <1>1, OrderMade
<1>5. Op("app") \in {"make", "store"} => Current \in Settled /\ Op("adosip") \notin Changes
  BY OneChanges, OwnersApart DEF Changes
<1>6. /\ Len(made') \in Nat /\ Len(made) \in Nat /\ Len(made) <= Len(made')
      /\ \A i \in 1..Len(made) : made'[i] = made[i]
  <2>1. made \in Seq(Kinds)
    BY DEF Types
  <2>2. CASE Op("app") = "make"
    <3>1. PICK k \in Kinds : made' = Append(made, k)
      BY <1>4, <2>2
    <3>. QED  BY <2>1, <3>1
  <2>3. CASE Op("app") \in {"store", "delete"}
    <3>1. made' = made
      BY <1>4, <2>3 DEF Keeps
    <3>. QED  BY <2>1, <3>1
  <2>. QED  BY <2>2, <2>3
<1>7. Programs'
  <2>1. AdosipProgram'
    BY <1>2, <1>4, <1>5, <1>6, AdosipFrame DEF Programs, Threads, Keeps
  <2>2. StabilizeProgram'
    BY <1>2, StabilizeFrame DEF Programs, Threads
  <2>. QED  BY <1>1, <2>1, <2>2 DEF Programs
<1>8. AppObject'
  <2>1. CASE Op("app") = "make"
    BY <1>1, <1>3, <1>4, <2>1 DEF AppObject, Follows
  <2>2. CASE Op("app") = "store"
    BY <1>1, <1>3, <1>4, <2>2 DEF AppObject, Follows
  <2>3. CASE Op("app") = "delete"
    <3>1. AppAt'
      BY <1>1, AppIsAt, PTL
    <3>2. Op("app")' = "return" \/ on'["app"] = 0
      BY <1>1, <1>3, <2>3, <3>1 DEF Follows, AppAt, DestructorOps
    <3>. QED  BY <1>1, <1>3, <1>4, <2>3, <3>2 DEF AppObject
  <2>. QED  BY <2>1, <2>2, <2>3
<1>9. AdosipObject'
  <2>1. CASE Op("app") = "make"
    BY <1>2, <1>3, <1>4, <1>6, <2>1 DEF AdosipObject, Freed
  <2>2. CASE Op("app") = "store"
    BY <1>2, <1>3, <1>4, <1>5, <2>2 DEF AdosipObject, Freed, Changes, Current
  <2>3. CASE Op("app") = "delete"
    BY <1>2, <1>3, <1>4, <2>3 DEF AdosipObject, Keeps
  <2>. QED  BY <2>1, <2>2, <2>3
<1>. QED  BY <1>1, <1>3, <1>7, <1>8, <1>9 DEF Good

LEMMA AdosipChanges ==
    ASSUME Good, Early, ThreadStep("adosip"), Op("adosip") \in {"make", "store", "delete"}
    PROVE  Good'
<1>. "app" \in Threads /\ "adosip" \in Threads /\ Types /\ Programs
  BY DEF Threads, Good
<1>1. Types' /\ AdosipProgram' /\ Follows("adosip") /\ on'["adosip"] = on["adosip"]
  BY AdosipSteps DEF Programs
<1>2. /\ \A u \in Threads \ {"adosip"} :
            /\ todo'[u] = todo[u] /\ Op(u)' = Op(u) /\ on'[u] = on[u]
            /\ new'[u] = new[u] /\ old'[u] = old[u]
      /\ UNCHANGED process
  BY StepLeaves
<1>3. ObjectsInOrder' /\ Early' /\ ObjectsInOrder /\ AppObject /\ AdosipObject
  BY <1>1, <1>2, OrderMade DEF Good, Early
<1>4. /\ Op("adosip") = "make" => \E k \in Kinds :
            /\ Current' = Current /\ state' = state /\ UNCHANGED freedBy
            /\ made' = Append(made, k)
      /\ Op("adosip") = "store" => /\ old["adosip"] = state
                                   /\ UNCHANGED <<made, freedBy, old, new>>
                                   /\ state' = Len(made)
      /\ Op("adosip") = "delete" => /\ old["adosip"] \notin Freed
                                    /\ freedBy'[old["adosip"]] = "adosip"
                                    /\ Freed' = Freed \cup {old["adosip"]} /\ Keeps
                                    /\ \A i \in Freed : freedBy'[i] = freedBy[i]
  BY <1>1, OrderMade
<1>5. Op("adosip") \in {"make", "store"} =>
        Current \in Busy /\ Current \notin Settled /\ Op("app") \notin {"call"} \cup Changes
  BY OneChanges, OwnersApart DEF Changes
<1>6. /\ Len(made') \in Nat /\ Len(made) \in Nat /\ Len(made) <= Len(made')
      /\ \A i \in 1..Len(made) : made'[i] = made[i]
  <2>1. made \in Seq(Kinds)
    BY DEF Types
  <2>2. CASE Op("adosip") = "make"
    <3>1. PICK k \in Kinds : made' = Append(made, k)
      BY <1>4, <2>2
    <3>. QED  BY <2>1, <3>1
  <2>3. CASE Op("adosip") \in {"store", "delete"}
    <3>1. made' = made
      BY <1>4, <2>3 DEF Keeps
    <3>. QED  BY <2>1, <3>1
  <2>. QED  BY <2>2, <2>3
<1>7. Programs'
  <2>1. AppProgram'
    BY <1>2, <1>4, <1>5, AppFrame DEF Programs, Threads, Keeps
  <2>2. StabilizeProgram'
    BY <1>2, StabilizeFrame DEF Programs, Threads
  <2>. QED  BY <1>1, <2>1, <2>2 DEF Programs
<1>8. AdosipObject'
  <2>1. CASE Op("adosip") = "make"
    BY <1>1, <1>3, <1>4, <1>6, <2>1 DEF AdosipObject, Follows
  <2>2. CASE Op("adosip") = "store"
    BY <1>1, <1>3, <1>4, <2>2 DEF AdosipObject, Follows
  <2>3. CASE Op("adosip") = "delete"
    <3>1. Op("adosip")' \in {"return", "handle"}
      BY <1>1, <2>3 DEF Follows
    <3>. QED  BY <1>1, <1>3, <1>4, <1>6, <2>3, <3>1 DEF AdosipObject
  <2>. QED  BY <2>1, <2>2, <2>3
<1>9. AppObject'
  <2>1. CASE Op("adosip") \in {"make", "store"}
    BY <1>2, <1>3, <1>4, <1>5, <2>1 DEF AppObject, Freed, Changes
  <2>3. CASE Op("adosip") = "delete"
    BY <1>2, <1>3, <1>4, <2>3 DEF AppObject, Keeps
  <2>. QED  BY <2>1, <2>3
<1>. QED  BY <1>1, <1>3, <1>7, <1>8, <1>9 DEF Good

(* While the node is deleted nothing is said of the objects. *)
LEMMA LateSteps ==
    ASSUME Good, ~ Early, ThreadStep("adosip")
    PROVE  Good'
<1>. "app" \in Threads /\ "adosip" \in Threads /\ Types /\ Programs
  BY DEF Threads, Good
<1>1. Types' /\ AdosipProgram'
  BY AdosipSteps DEF Programs
<1>2. /\ \A u \in Threads \ {"adosip"} :
            todo'[u] = todo[u] /\ on'[u] = on[u] /\ new'[u] = new[u]
      /\ UNCHANGED process
  BY StepLeaves
<1>3. AppProgram' /\ ~ Early' /\ todo'["app"] \in Seq(DestructorThings)
  <2>1. ~ Early' /\ todo'["app"] = todo["app"] /\ todo["app"] \in Seq(DestructorThings)
    BY <1>2 DEF Good, Early, Threads
  <2>. QED  BY <2>1 DEF AppProgram, AppResting
<1>4. StabilizeProgram'
  BY <1>2, StabilizeFrame DEF Programs, Threads
<1>. QED  BY <1>1, <1>3, <1>4 DEF Good, Programs

LEMMA DeadIsGood ==
    ASSUME Good, Dies
    PROVE  Good'
<1>1. todo' = [t \in Threads |-> <<>>] /\ on' = [t \in Threads |-> 0] /\ process' = "dead"
      /\ UNCHANGED <<made, state, old, new>>
  BY DEF Dies, pointers
<1>2. Types'
  BY <1>1, EndTypes DEF Good, Types
<1>3. AppProgram' /\ AdosipProgram' /\ StabilizeProgram'
  BY <1>1 DEF AppProgram, AppResting, AdosipProgram, AdosipResting, StabilizeProgram, Threads
<1>4. ~ Early' /\ todo'["app"] \in Seq(DestructorThings)
  BY <1>1 DEF Early, Threads
<1>. QED  BY <1>2, <1>3, <1>4 DEF Good, Programs

LEMMA WorkKeeps ==
    ASSUME Good, NEW t \in Threads, Work(t)
    PROVE  Good'
<1>1. CASE UseFreed(t)
  BY <1>1, DeadIsGood DEF UseFreed
<1>2. CASE ThreadStep(t)
  <2>1. CASE t = "stabilize"
    BY <1>2, <2>1, StabilizeKeeps
  <2>2. CASE t = "adosip"
    BY <1>2, <2>2, EasySteps, AdosipChanges, LateSteps
  <2>3. CASE t = "app"
    <3>1. Early
      <4>1. Op("app") \in {"send", "make", "store", "delete", "handle", "again", "call", "return"}
        BY <1>2, <2>3, StepLeaves DEF Good
      <4>2. ~ Early => Op("app") \in {"none"} \cup DestructorOps
        BY DestructorSteps DEF Good, Op
      <4>. QED  BY <4>1, <4>2 DEF DestructorOps
    <3>. QED  BY <1>2, <2>3, <3>1, EasySteps, AppChanges
  <2>. QED  BY <2>1, <2>2, <2>3 DEF Threads
<1>. QED  BY <1>1, <1>2 DEF Work, ThreadStep

-----------------------------------------------------------------------------
LEMMA ConstructedKeeps ==
    ASSUME Good, Constructed
    PROVE  Good'
<1>. "app" \in Threads /\ Types /\ Programs
  BY DEF Threads, Good
<1>1. todo["app"] # <<>> /\ Op("app") = "constructed" /\ Advance("app")
  BY DEF Constructed, Step, Op, FirstOp
<1>2. Early
  <2>1. ~ Early => Op("app") \in {"none"} \cup DestructorOps
    BY DestructorSteps DEF Good, Op
  <2>. QED  BY <1>1, <2>1 DEF DestructorOps
<1>3. Tail(todo["app"]) = <<>> /\ on["app"] = 0
  <2>1. AppAt
    BY AppIsAt DEF Programs
  <2>. QED  BY <1>1, <2>1 DEF AppAt, DestructorOps
<1>4. /\ todo'["app"] = <<>> /\ on' = on /\ todo' \in [Threads -> Seq(Things)]
      /\ \A u \in Threads \ {"app"} : todo'[u] = todo[u]
      /\ process' = "running" /\ UNCHANGED <<made, state, freedBy, old, new>>
  BY <1>1, <1>3, Advances DEF Constructed, Advance, pointers, Types
<1>5. Types' /\ AppProgram'
  BY <1>3, <1>4 DEF Types, AppProgram, AppResting
<1>6. AppObject' /\ Op("app")' = "none"
  BY <1>3, <1>4 DEF AppObject, Op, FirstOp
<1>. QED  BY <1>2, <1>4, <1>5, <1>6, LocalStep DEF Early

(* delete mynode. *)
LEMMA DestructorKeeps ==
    ASSUME Good, Destructor
    PROVE  Good'
<1>. "app" \in Threads /\ Types /\ Programs
  BY DEF Threads, Good
<1>1. CASE Dies
  BY <1>1, DeadIsGood
<1>2. CASE ~ Dies
  <2>1. todo["app"] # <<>> /\ Op("app") \in DestructorOps /\ Advance("app")
    BY <1>2 DEF Destructor, DeleteState, DeleteStabilize, DeleteTransport, JoinTransport,
       FreeOsip, DeleteAdOsip, JoinAdosip, Step, Op, FirstOp, DestructorOps
  <2>2. UNCHANGED <<made, state, old, new>> /\ process' \in {process, "deleted"}
    BY <1>2 DEF Destructor, DeleteState, DeleteStabilize, DeleteTransport, JoinTransport,
       FreeOsip, DeleteAdOsip, JoinAdosip, pointers, ending
  <2>3. todo["app"] \in Seq(DestructorThings) /\ ~ Early
    <3>1. AppAt
      BY AppIsAt DEF Programs
    <3>. QED  BY <2>1, <3>1 DEF AppAt, DestructorOps
  <2>4. /\ todo'["app"] = Tail(todo["app"]) /\ on' = on /\ todo' \in [Threads -> Seq(Things)]
        /\ \A u \in Threads \ {"app"} : todo'[u] = todo[u]
        /\ todo'["app"] \in Seq(DestructorThings)
    BY <2>1, <2>3, Advances, DestructorSteps DEF Advance, Types
  <2>5. ~ Early' /\ Types'
    BY <2>2, <2>3, <2>4 DEF Early, Types
  <2>6. AppProgram'
    BY <2>4, <2>5 DEF AppProgram, AppResting
  <2>. QED  BY <2>2, <2>4, <2>5, <2>6, LocalStep
<1>. QED  BY <1>1, <1>2

(* A call of the application in a settled state. *)
LEMMA AppEnters ==
    ASSUME Good, process = "running", NEW p \in Seq(Things), NEW o \in Nat, Enter("app", p, o),
           UNCHANGED <<made, state, freedBy, old, new, process>>, Current \in Settled,
           \/ p \in {Discovery, ChangeState("Normal")} /\ o = 0
           \/ \E e \in AppEvents : p = Handle(e) /\ o = state
    PROVE  Good'
<1>. "app" \in Threads /\ Types /\ Programs /\ Early /\ Early'
  BY DEF Threads, Good, Early
<1>1. /\ todo'["app"] = p /\ on'["app"] = o
      /\ todo' \in [Threads -> Seq(Things)] /\ on' \in [Threads -> Nat]
      /\ \A u \in Threads \ {"app"} : todo'[u] = todo[u] /\ on'[u] = on[u]
  BY Enters
<1>2. Types' /\ Current' = Current
  BY <1>1 DEF Types, Current
<1>3. <<>> \in AppAfter /\ "Discoving" \in Kinds /\ "Normal" \in Kinds /\ "multicast" \in Classes
  BY OwnersApart DEF AppAfter, Kinds, Settled, Classes
<1>4. \A k \in Kinds : ChangeState(k) \o <<>> = ChangeState(k) /\ ChangeState(k) \in Seq(Things)
  BY Concat, ChangeStateParts
<1>5. CASE p = Discovery /\ o = 0
  <2>1. p = <<Send("multicast")>> \o (ChangeState("Discoving") \o <<>>)
    BY <1>3, <1>4, <1>5 DEF Discovery
  <2>2. <<Current', "Discoving">> \in Owned("app")
    BY <1>2 DEF Owned
  <2>3. AppProgram'
    BY <1>1, <1>3, <1>5, <2>1, <2>2 DEF AppProgram, AppIn
  <2>4. FirstOp(p) = "send"
    BY <1>3, <1>4, <2>1, FirstOpsOf
  <2>. QED  BY <1>1, <1>2, <1>5, <2>3, <2>4, LocalStep DEF AppObject, Op
<1>6. CASE p = ChangeState("Normal") /\ o = 0
  <2>1. p = ChangeState("Normal") \o <<>>
    BY <1>3, <1>4, <1>6
  <2>2. <<Current', "Normal">> \in Owned("app")
    BY <1>2 DEF Owned
  <2>3. Changing("app", <<>>, Kinds)'
    BY <1>1, <1>3, <2>1, <2>2 DEF Changing
  <2>4. AppProgram'
    BY <1>1, <1>3, <1>6, <2>3 DEF AppProgram, AppIn
  <2>5. FirstOp(p) = "make"
    BY <1>3, <2>1, FirstOpsOf, EndTypes
  <2>. QED  BY <1>1, <1>2, <1>6, <2>4, <2>5, LocalStep DEF AppObject, Op
<1>7. ASSUME NEW e \in AppEvents, p = Handle(e), o = state
      PROVE  Good'
  <2>1. p = <<Call(e)>> \o Ret
    BY <1>7 DEF Handle, Ret
  <2>2. AppCalling'
    BY <1>1, <1>2, <1>7, <2>1 DEF AppCalling
  <2>3. FirstOp(p) = "call"
    BY <2>1, FirstOpsOf, EndTypes DEF Events
  <2>4. AppObject'
    BY <1>1, <1>7, <2>3 DEF AppObject, Op
  <2>. QED  BY <1>1, <1>2, <2>2, <2>3, <2>4, LocalStep DEF AppProgram, Op
<1>. QED  BY <1>5, <1>6, <1>7

LEMMA InputKeeps ==
    ASSUME Good, Input, ~ astray'
    PROVE  Good'
<1>. "app" \in Threads /\ Types /\ Programs /\ state \in Nat
  BY DEF Threads, Good, Types
<1>1. ASSUME NEW p \in Seq(Things), NEW o \in Nat, AppCall(p, o),
             \/ p \in {Discovery, ChangeState("Normal")} /\ o = 0
             \/ \E e \in AppEvents : p = Handle(e) /\ o = state
      PROVE  Good'
  <2>1. process = "running" /\ Current \in Settled /\ Enter("app", p, o)
        /\ UNCHANGED <<made, state, freedBy, old, new, process>>
    BY <1>1 DEF AppCall, Ready, pointers, ending
  <2>. QED  BY <1>1, <2>1, AppEnters
<1>2. Discovery \in Seq(Things) /\ ChangeState("Normal") \in Seq(Things)
      /\ \A e \in Events : Handle(e) \in Seq(Things)
  <2>1. ChangeState("Normal") \in Seq(Things) /\ ChangeState("Discoving") \in Seq(Things)
    BY ChangeStateParts, OwnersApart DEF Kinds, Settled
  <2>2. Send("multicast") \in Things /\ Do("return") \in Things
    BY ThingTypes DEF Classes, Ops
  <2>3. Discovery \in Seq(Things)
    BY <2>1, <2>2, OneThing DEF Discovery
  <2>4. ASSUME NEW e \in Events  PROVE Handle(e) \in Seq(Things)
    BY <2>2, ThingTypes DEF Handle
  <2>. QED  BY <2>1, <2>3, <2>4
<1>3. CASE StartNode
  BY <1>1, <1>2, <1>3 DEF StartNode
<1>4. CASE Discover
  BY <1>1, <1>2, <1>4 DEF Discover, AppEvents, Events
<1>5. CASE Join
  BY <1>1, <1>2, <1>5 DEF Join, AppEvents, Events
<1>6. CASE Leave
  BY <1>1, <1>2, <1>6 DEF Leave, AppEvents, Events
<1>7. CASE DeleteNode
  <2>. DEFINE d == <<Do("delete state"), Do("delete th_stabilize"),
                     Do("delete th_transport"), Do("join transport"),
                     Do("free osip"), Do("delete adosip"), Do("join adosip")>>
  <2>1. d \in Seq(DestructorThings)
    <3>1. \A x \in DestructorOps : Do(x) \in DestructorThings
      BY DEF Do, DestructorThings
    <3>2. /\ Do("delete state") \in DestructorThings
          /\ Do("delete th_stabilize") \in DestructorThings
          /\ Do("delete th_transport") \in DestructorThings
          /\ Do("join transport") \in DestructorThings
          /\ Do("free osip") \in DestructorThings
          /\ Do("delete adosip") \in DestructorThings
          /\ Do("join adosip") \in DestructorThings
      BY <3>1, Zenon DEF DestructorOps
    <3>3. \A a1, a2, a3, a4, a5, a6, a7 \in DestructorThings :
            <<a1, a2, a3, a4, a5, a6, a7>> \in Seq(DestructorThings)
      OBVIOUS
    <3>. HIDE DEF Do, DestructorThings
    <3>. QED  BY <3>2, <3>3, Zenon
  <2>2. d \in Seq(Things)
    BY <2>1, DestructorSteps
  <2>3. /\ Enter("app", d, 0) /\ process' = "deleting"
        /\ UNCHANGED <<made, state, old, new>>
    BY <1>7 DEF DeleteNode, pointers
  <2>. HIDE DEF d
  <2>4. /\ todo'["app"] = d /\ on'["app"] = 0
        /\ todo' \in [Threads -> Seq(Things)] /\ on' \in [Threads -> Nat]
        /\ \A u \in Threads \ {"app"} : todo'[u] = todo[u] /\ on'[u] = on[u]
    BY <2>2, <2>3, Enters
  <2>5. Types' /\ ~ Early'
    BY <2>3, <2>4 DEF Types, Early
  <2>6. AppProgram'
    BY <2>1, <2>4, <2>5 DEF AppProgram, AppResting
  <2>. QED  BY <2>1, <2>3, <2>4, <2>5, <2>6, LocalStep
<1>. QED  BY <1>3, <1>4, <1>5, <1>6, <1>7 DEF Input

(* The adosip thread reads _state, or forgets the object it read. *)
LEMMA AdosipEnters ==
    ASSUME Good, NEW p \in Seq(Things), NEW o \in Nat, Enter("adosip", p, o),
           UNCHANGED <<made, state, freedBy, old, new, process>>,
           \/ p \in {<<>>, <<Again("NO_NODE_FIND")>> \o Ret} /\ o = 0
           \/ o = state /\ \E e \in AdosipEvents : p = <<Call(e)>> \o Ret
    PROVE  Good'
<1>. "adosip" \in Threads /\ Types /\ Programs /\ state \in 1..Len(made)
  BY DEF Threads, Good, Types
<1>1. /\ todo'["adosip"] = p /\ on'["adosip"] = o
      /\ todo' \in [Threads -> Seq(Things)] /\ on' \in [Threads -> Nat]
      /\ \A u \in Threads \ {"adosip"} : todo'[u] = todo[u] /\ on'[u] = on[u]
  BY Enters
<1>2. Types'
  BY <1>1 DEF Types
<1>3. CASE p \in {<<>>, <<Again("NO_NODE_FIND")>> \o Ret} /\ o = 0
  <2>1. AdosipProgram' /\ AdosipObject'
    BY <1>1, <1>3 DEF AdosipProgram, AdosipResting, AdosipObject
  <2>2. FirstOp(p) \in {"none", "again"}
    <3>1. "NO_NODE_FIND" \in Events
      BY DEF Events, AdosipEvents
    <3>2. Starts(<<Again("NO_NODE_FIND")>> \o Ret, Again("NO_NODE_FIND"), Ret)
      BY <3>1, OneThingSteps, ThingTypes, EndTypes
    <3>. QED  BY <1>3, <3>1, <3>2, FirstOps
  <2>. QED  BY <1>1, <1>2, <2>1, <2>2, LocalStep DEF Op
<1>4. ASSUME NEW e \in AdosipEvents, p = <<Call(e)>> \o Ret, o = state
      PROVE  Good'
  <2>1. FirstOp(p) = "call"
    BY <1>4, FirstOpsOf, EndTypes, AdosipEventsApart
  <2>2. AdosipCalling'
    BY <1>1, <1>4 DEF AdosipCalling
  <2>3. AdosipObject'
    BY <1>1, <1>4, <2>1 DEF AdosipObject, Op
  <2>. QED  BY <1>1, <1>2, <2>1, <2>2, <2>3, LocalStep DEF AdosipProgram, Op
<1>. QED  BY <1>3, <1>4

LEMMA HandlerKeeps ==
    ASSUME Good, NEW class \in Classes, HandleEvent(class) \/ KillTransaction(class)
    PROVE  Good'
<1>1. Types /\ UNCHANGED <<made, state, freedBy, old, new, process>> /\ state \in Nat
  BY DEF Good, Types, HandleEvent, KillTransaction, pointers, ending
<1>2. CASE HandleEvent(class)
  <2>1. Handle(class) = <<Call(class)>> \o Ret /\ class \in AdosipEvents
    BY DEF Handle, Ret, AdosipEvents
  <2>2. Handle(class) \in Seq(Things)
    BY <2>1, ProgramTypes, EndTypes, AdosipEventsApart
  <2>3. Enter("adosip", Handle(class), state)
    BY <1>2 DEF HandleEvent
  <2>. QED  BY <1>1, <2>1, <2>2, <2>3, AdosipEnters
<1>3. CASE KillTransaction(class)
  <2>1. Timeout(class) \in {<<>>, <<Again("NO_NODE_FIND")>> \o Ret}
    BY DEF Timeout, Ret
  <2>2. Timeout(class) \in Seq(Things)
    <3>1. <<Again("NO_NODE_FIND")>> \o Ret \in Seq(Things)
      BY OneThing, ThingTypes, EndTypes DEF Events, AdosipEvents
    <3>. QED  BY <2>1, <3>1, EndTypes
  <2>3. Enter("adosip", Timeout(class), 0)
    BY <1>3 DEF KillTransaction
  <2>. QED  BY <1>1, <2>1, <2>2, <2>3, AdosipEnters
<1>. QED  BY <1>2, <1>3

LEMMA RoundKeeps ==
    ASSUME Good, Round \/ EndRound
    PROVE  Good'
<1>. "stabilize" \in Threads /\ Types /\ Programs /\ state \in Nat
  BY DEF Threads, Good, Types
<1>1. UNCHANGED <<made, state, freedBy, old, new, process>>
  BY DEF Round, EndRound, pointers, ending
<1>2. CASE Round
  <2>1. Handle("STABILIZE_SND") = <<Call("STABILIZE_SND")>> \o Ret
    BY DEF Handle, Ret
  <2>2. /\ Handle("STABILIZE_SND") \in Seq(Things)
        /\ FirstOp(Handle("STABILIZE_SND")) = "call"
    <3>1. "STABILIZE_SND" \in Events /\ Ret \in Seq(Things)
      BY EndTypes DEF Events
    <3>2. \A e \in Events : /\ <<Call(e)>> \o Ret \in Seq(Things)
                            /\ FirstOp(<<Call(e)>> \o Ret) = "call"
      BY <3>1, ProgramTypes, FirstOpsOf
    <3>. QED  BY <2>1, <3>1, <3>2, Zenon
  <2>3. Enter("stabilize", Handle("STABILIZE_SND"), state)
    BY <1>2 DEF Round
  <2>4. /\ todo'["stabilize"] = Handle("STABILIZE_SND")
        /\ todo' \in [Threads -> Seq(Things)] /\ on' \in [Threads -> Nat]
        /\ \A u \in Threads \ {"stabilize"} : todo'[u] = todo[u] /\ on'[u] = on[u]
    BY <2>2, <2>3, Enters
  <2>5. Types' /\ StabilizeProgram'
    BY <1>1, <2>1, <2>4 DEF Types, StabilizeProgram
  <2>. QED  BY <1>1, <2>2, <2>4, <2>5, LocalStep DEF Op
<1>3. CASE EndRound
  <2>1. todo["stabilize"] # <<>> /\ Op("stabilize") = "round" /\ Advance("stabilize")
    BY <1>3 DEF EndRound, Step, Op, FirstOp
  <2>2. Tail(todo["stabilize"]) = Ret
    BY <2>1, StabilizeIsAt DEF Programs
  <2>3. /\ todo'["stabilize"] = Ret /\ todo' \in [Threads -> Seq(Things)] /\ on' = on
        /\ \A u \in Threads \ {"stabilize"} : todo'[u] = todo[u]
    BY <2>1, <2>2, Advances DEF Advance, Types
  <2>4. Types' /\ StabilizeProgram'
    BY <1>1, <2>3 DEF Types, StabilizeProgram
  <2>. QED  BY <1>1, <2>3, <2>4, FirstOpsOf, LocalStep DEF Op
<1>. QED  BY <1>2, <1>3

(* An application that went astray once counts as astray for ever. *)
LEMMA AstrayStep ==
    ASSUME astray \in BOOLEAN, [Next]_lvars
    PROVE  astray' \in BOOLEAN /\ (astray => astray')
<1>1. ASSUME NEW t \in Threads, Work(t)
      PROVE  UNCHANGED astray
  BY <1>1 DEF Work, SendStep, MakeStep, StoreStep, DeleteStep, HandleNewStep, AgainStep,
     CallStep, HandleReturns, UseFreed, Dies, budget
<1>2. CASE Constructed \/ Destructor
  BY <1>2 DEF Constructed, Destructor, DeleteState, DeleteStabilize, DeleteTransport,
     JoinTransport, FreeOsip, DeleteAdOsip, JoinAdosip, Dies, budget
<1>3. CASE Input
  BY <1>3, Zenon DEF Input, StartNode, Discover, Join, Leave, AppCall, DeleteNode, Spend
<1>4. CASE Transport \/ TransportExits
  BY <1>4 DEF Transport, ReceiveResponse, ReceiveRequest, ReceiveTooEarly, Deliver, Dies,
     TransportExits, budget
<1>5. CASE Adosip /\ ~ Work("adosip")
  BY <1>5 DEF Adosip, Select, HandleEvent, ExecuteFreed, EndPass, Dies, budget
<1>6. CASE Timers \/ Round \/ EndRound \/ UNCHANGED lvars
  BY <1>6 DEF Timers, KillTransaction, Round, EndRound, lvars, budget
<1>. QED
  BY <1>1, <1>2, <1>3, <1>4, <1>5, <1>6 DEF Next, App, Adosip, Stabilizer, Threads

LEMMA GoodStep ==
    ASSUME Good, [Next]_lvars, ~ astray'
    PROVE  Good'
<1>1. CASE App
  BY <1>1, WorkKeeps, ConstructedKeeps, DestructorKeeps DEF App, Threads
<1>2. CASE Input
  BY <1>2, InputKeeps
<1>3. CASE Transport \/ TransportExits
  <2>1. Dies \/ UNCHANGED <<made, state, freedBy, todo, old, new, on, process>>
    BY <1>3 DEF Transport, TransportExits, ReceiveResponse, ReceiveRequest, ReceiveTooEarly,
       Deliver, pointers, threads, ending
  <2>. QED  BY <2>1, GoodUnchanged, DeadIsGood
<1>4. CASE Adosip
  <2>1. CASE Work("adosip")
    BY <2>1, WorkKeeps DEF Threads
  <2>2. CASE \E c \in Classes : HandleEvent(c)
    BY <2>2, HandlerKeeps
  <2>3. CASE Select \/ ExecuteFreed \/ EndPass
    <3>1. Dies \/ UNCHANGED <<made, state, freedBy, todo, old, new, on, process>>
      BY <2>3 DEF Select, ExecuteFreed, EndPass, pointers, threads, ending
    <3>. QED  BY <3>1, GoodUnchanged, DeadIsGood
  <2>. QED  BY <1>4, <2>1, <2>2, <2>3 DEF Adosip
<1>5. CASE Timers
  BY <1>5, HandlerKeeps DEF Timers
<1>6. CASE Round \/ Stabilizer
  BY <1>6, RoundKeeps, WorkKeeps DEF Stabilizer, Threads
<1>7. CASE UNCHANGED lvars
  BY <1>7, GoodUnchanged DEF lvars, pointers, threads, ending
<1>. QED  BY <1>1, <1>2, <1>3, <1>4, <1>5, <1>6, <1>7 DEF Next

LEMMA GoodInit == Init => LInv
<1>. SUFFICES ASSUME Init  PROVE LInv
  OBVIOUS
<1>0. "app" \in Threads /\ "adosip" \in Threads /\ "stabilize" \in Threads
  BY DEF Threads
<1>1. /\ todo["app"] = <<Call("INIT_SND")>> \o RetCon /\ on["app"] = state
      /\ \A t \in Threads \ {"app"} : todo[t] = <<>> /\ on[t] = 0
  <2>1. Handle("INIT_SND") \o Con = <<Call("INIT_SND")>> \o RetCon
    <3>1. Handle("INIT_SND") = <<Call("INIT_SND")>> \o Ret
      BY DEF Handle, Ret
    <3>2. Call("INIT_SND") \in Things
      BY ThingTypes DEF Events
    <3>3. <<Call("INIT_SND")>> \in Seq(Things)
      BY <3>2
    <3>4. \A p, q, r \in Seq(Things) : (p \o q) \o r = p \o (q \o r)
      BY Concat
    <3>5. Ret \in Seq(Things) /\ Con \in Seq(Things)
      BY EndTypes
    <3>6. (<<Call("INIT_SND")>> \o Ret) \o Con = <<Call("INIT_SND")>> \o (Ret \o Con)
      BY <3>3, <3>4, <3>5, Zenon
    <3>. QED  BY <3>1, <3>6, Zenon DEF RetCon
  <2>2. todo["app"] = Handle("INIT_SND") \o Con
    BY DEF Init, Threads, Con
  <2>. QED  BY <1>0, <2>1, <2>2 DEF Init
<1>2. Current = "Closed" /\ state = 1 /\ made = <<"Closed">>
  BY DEF Init, Current
<1>3. RetCon \in Seq(Things) /\ "INIT_SND" \in Events /\ "Closed" \in Kinds
  BY EndTypes DEF Events, Kinds, Settled
<1>4. todo["app"] \in Seq(Things) /\ FirstOp(todo["app"]) = "call"
  BY <1>1, <1>3, ProgramTypes, FirstOpsOf
<1>5. Types
  <2>1. made \in Seq(Kinds) /\ state \in 1..Len(made)
    BY <1>2, <1>3
  <2>2. DOMAIN todo = Threads /\ todo = [t \in Threads |-> todo[t]]
    BY DEF Init
  <2>3. \A t \in Threads : todo[t] \in Seq(Things)
    BY <1>1, <1>4, EndTypes DEF Threads
  <2>4. todo \in [Threads -> Seq(Things)]
    BY <2>2, <2>3
  <2>5. old \in [Threads -> Nat] /\ new \in [Threads -> Nat] /\ on \in [Threads -> Nat]
    BY <1>2 DEF Init
  <2>. QED  BY <2>1, <2>4, <2>5 DEF Types
<1>6. Programs
  <2>1. AppCalling
    BY <1>1, <1>2 DEF AppCalling
  <2>. QED
    BY <1>0, <1>1, <2>1 DEF Programs, AppProgram, AdosipProgram, AdosipResting, StabilizeProgram
<1>7. /\ Op("app") = "call"
      /\ \A t \in Threads \ {"app"} : Op(t) = "none" /\ on[t] = 0
  BY <1>1, <1>4, FirstOpsOf DEF Op
<1>8. Freed = {}
  BY DEF Init, Freed
<1>9. ObjectsInOrder /\ AppObject /\ AdosipObject
  <2>1. \A t \in Threads : Op(t) \in {"call", "none"}
    BY <1>7
  <2>2. ObjectsInOrder
    BY <1>8, <2>1 DEF ObjectsInOrder
  <2>. QED  BY <1>0, <1>1, <1>7, <2>2 DEF AppObject, AdosipObject
<1>10. Early /\ astray \in BOOLEAN
  BY DEF Early, Init
<1>. QED  BY <1>5, <1>6, <1>9, <1>10 DEF LInv, Good

(* As long as the application calls in settled states, the objects and     *)
(* programs stay in the order from which the theorems below follow.        *)
LEMMA LInvInductive == Spec => []LInv
<1>1. LInv /\ [Next]_lvars => LInv'
  BY AstrayStep, GoodStep DEF LInv
<1>. QED  BY <1>1, GoodInit, PTL DEF Spec

-----------------------------------------------------------------------------
(* Before the node is deleted, and as long as the application calls its    *)
(* functions in Closed, Inited and Normal states only: two threads never   *)
(* delete one state object, and none deletes the current one               *)
(* (Node::ChangeState, which has no lock).                                 *)
THEOREM DeletesAreSafe == Spec => []DeletesSafe
<1>1. LInv => DeletesSafe
  BY DEF LInv, Good, Early, DeletesSafe, Kept, ObjectsInOrder, Step, Op, FirstOp
<1>. QED  BY <1>1, LInvInductive, PTL

LEMMA OpsLeft ==
    ASSUME NEW s \in Seq(Things), s # <<>>, Head(s).op \in {"call", "round", "return"},
           Tail(s) \in {<<>>, Ret}
    PROVE  \A i \in DOMAIN s : s[i].op \in {"call", "round", "return"}
<1>1. ASSUME NEW i \in DOMAIN s
      PROVE  \/ i = 1 /\ s[i] = Head(s)
             \/ i - 1 \in DOMAIN Tail(s) /\ s[i] = Tail(s)[i - 1]
  BY <1>1
<1>2. ASSUME NEW j \in DOMAIN Tail(s)
      PROVE  Tail(s)[j].op = "return"
  <2>1. Tail(s) = <<Do("return")>>
    BY <1>2 DEF Ret
  <2>2. \A x : \A k \in DOMAIN <<x>> : <<x>>[k] = x
    OBVIOUS
  <2>3. Tail(s)[j] = Do("return")
    BY <1>2, <2>1, <2>2, Zenon
  <2>. QED  BY <2>3, ThingTypes DEF Ops
<1>. QED  BY <1>1, <1>2

(* Under the same discipline the application's thread is never in the      *)
(* Handle of an object that another thread deleted, the adosip thread in   *)
(* a Closed, Inited or Normal one at most, and whoever is in one has       *)
(* nothing left to do to _state (ClosedState, InitedState, NormalState).   *)
THEOREM HandlersAreKept == Spec => []HandlerStateKept
<1>1. LInv => HandlerStateKept
  <2>. SUFFICES ASSUME Types, Programs, ObjectsInOrder, AppObject, AdosipObject,
                       NEW t \in Threads, on[t] \in Freed, freedBy[on[t]] # t
                PROVE  /\ t # "app"
                       /\ t = "adosip" => made[on[t]] \in Settled
                       /\ \A i \in DOMAIN todo[t] : todo[t][i].op \in {"call", "round", "return"}
    BY DEF LInv, Good, Early, HandlerStateKept, Kept
  <2>1. on[t] # 0 /\ on[t] # state
    BY DEF ObjectsInOrder, Types
  <2>2. Op(t) = "delete" => old[t] \notin Freed
    BY DEF ObjectsInOrder
  <2>3. t # "app"
    BY <2>1, <2>2 DEF AppObject
  <2>4. CASE t = "adosip"
    <3>1. Op(t) \in {"call", "return"} /\ made[on[t]] \in Settled
      BY <2>1, <2>2, <2>4 DEF AdosipObject
    <3>2. AdosipAt /\ state \in 1..Len(made)
      BY AdosipIsAt DEF Programs, Types
    <3>3. Tail(todo[t]) \in {<<>>, Ret}
      BY <2>4, <3>1, <3>2 DEF AdosipAt, AdosipAtCall
    <3>4. todo[t] \in Seq(Things) /\ todo[t] # <<>> /\ Head(todo[t]).op \in {"call", "round", "return"}
      BY <3>1 DEF Op, FirstOp, Types
    <3>. QED  BY <2>3, <3>1, <3>3, <3>4, OpsLeft
  <2>5. CASE t = "stabilize"
    <3>1. \/ todo[t] = <<>>
          \/ /\ Op(t) \in {"call", "round", "return"}
             /\ Tail(todo[t]) \in {<<>>, Ret}
      BY <2>5, StabilizeIsAt DEF Programs
    <3>2. CASE todo[t] = <<>>
      BY <2>5, <3>2
    <3>3. CASE Op(t) \in {"call", "round", "return"} /\ Tail(todo[t]) \in {<<>>, Ret}
      <4>1. todo[t] \in Seq(Things) /\ todo[t] # <<>> /\ Head(todo[t]).op \in {"call", "round", "return"}
        BY <3>3 DEF Op, FirstOp, Types
      <4>. QED  BY <2>5, <3>3, <4>1, OpsLeft
    <3>. QED  BY <3>1, <3>2, <3>3
  <2>. QED  BY <2>3, <2>4, <2>5 DEF Threads
<1>. QED  BY <1>1, LInvInductive, PTL

-----------------------------------------------------------------------------
(* The only step that changes the state is the store of a ChangeState. *)
LEMMA OnlyStores ==
    ASSUME [Next]_lvars
    PROVE  \/ \E t \in Threads : StoreStep(t)
           \/ UNCHANGED state /\ (UNCHANGED made \/ \E k : made' = Append(made, k))
<1>. USE DEF pointers
<1>1. ASSUME NEW t \in Threads, Work(t)
      PROVE  \/ StoreStep(t)
             \/ UNCHANGED state /\ (UNCHANGED made \/ \E k : made' = Append(made, k))
  BY <1>1 DEF Work, SendStep, MakeStep, DeleteStep, HandleNewStep, AgainStep, CallStep,
     HandleReturns, UseFreed, Dies
<1>2. CASE Constructed \/ Destructor
  BY <1>2 DEF Constructed, Destructor, DeleteState, DeleteStabilize, DeleteTransport,
     JoinTransport, FreeOsip, DeleteAdOsip, JoinAdosip, Dies
<1>3. CASE Input
  BY <1>3 DEF Input, StartNode, Discover, Join, Leave, AppCall, DeleteNode
<1>4. CASE Transport \/ TransportExits
  BY <1>4 DEF Transport, ReceiveResponse, ReceiveRequest, ReceiveTooEarly, Deliver, Dies,
     TransportExits
<1>5. CASE Adosip /\ ~ Work("adosip")
  BY <1>5 DEF Adosip, Select, HandleEvent, ExecuteFreed, EndPass, Dies
<1>6. CASE Timers \/ Round \/ EndRound \/ UNCHANGED lvars
  BY <1>6 DEF Timers, KillTransaction, Round, EndRound, lvars
<1>. QED  BY <1>1, <1>2, <1>3, <1>4, <1>5, <1>6 DEF Next, App, Adosip, Stabilizer, Threads

LEMMA StateMoves ==
    ASSUME Good, [Next]_lvars
    PROVE  Current' = Current \/ <<Current, Current'>> \in Owned("app") \cup Owned("adosip")
<1>1. ASSUME NEW t \in Threads, StoreStep(t)
      PROVE  <<Current, Current'>> \in Owned("app") \cup Owned("adosip")
  <2>1. Op(t) = "store" /\ state' = new[t] /\ UNCHANGED made
    BY <1>1 DEF StoreStep, Step, Op, FirstOp
  <2>2. t # "stabilize"
    BY <2>1, OneChanges DEF Good, Changes
  <2>3. /\ t = "app" => <<Current, made[new[t]]>> \in Owned("app")
        /\ t = "adosip" => <<Current, made[new[t]]>> \in Owned("adosip")
    <3>1. AppAt /\ AdosipAt
      BY AppIsAt, AdosipIsAt DEF Good, Programs, Types
    <3>. QED  BY <2>1, <3>1 DEF AppAt, AdosipAt, AppAtStore, AdosipAtStore, DestructorOps
  <2>. QED  BY <2>1, <2>2, <2>3 DEF Current, Threads
<1>2. ASSUME UNCHANGED state, UNCHANGED made \/ \E k : made' = Append(made, k)
      PROVE  Current' = Current
  <2>1. made \in Seq(Kinds) /\ state \in 1..Len(made)
    BY DEF Good, Types
  <2>2. \A i \in 1..Len(made) : made'[i] = made[i]
    BY <1>2, <2>1
  <2>. QED  BY <1>2, <2>1, <2>2 DEF Current
<1>. QED  BY <1>1, <1>2, OnlyStores

(* A process that is dead stays so. *)
LEMMA DeadStays == process = "dead" /\ [Next]_lvars => process' = "dead"
<1>. SUFFICES ASSUME process = "dead", [Next]_lvars  PROVE process' = "dead"
  OBVIOUS
<1>1. \A t \in Threads : ~ Work(t)
  BY DEF Work, SendStep, MakeStep, StoreStep, DeleteStep, HandleNewStep, AgainStep, CallStep,
     HandleReturns, UseFreed, Step, Alive
<1>2. ~ (Constructed \/ Destructor)
  BY DEF Constructed, Destructor, DeleteState, DeleteStabilize, DeleteTransport,
     JoinTransport, FreeOsip, DeleteAdOsip, JoinAdosip, Step, Alive
<1>3. ~ Input
  BY DEF Input, StartNode, Discover, Join, Leave, AppCall, DeleteNode, Ready
<1>4. ~ (Transport \/ TransportExits)
  BY DEF Transport, ReceiveResponse, ReceiveRequest, ReceiveTooEarly, TransportExits, Alive
<1>5. ~ (Adosip \/ Timers)
  BY <1>1 DEF Adosip, Select, HandleEvent, ExecuteFreed, EndPass, Timers, KillTransaction,
     Alive, Threads
<1>6. ~ (Round \/ EndRound)
  BY DEF Round, EndRound, Step, Alive
<1>. QED
  BY <1>1, <1>2, <1>3, <1>4, <1>5, <1>6 DEF Next, App, Stabilizer, Threads, lvars, ending

(* What is seen of a move of the state. *)
LEMMA SeenMoves ==
    ASSUME LInv, [Next]_lvars
    PROVE  \/ KindSeen' = KindSeen
           \/ KindSeen \in States!Living /\ KindSeen' = "Down"
           \/ KindSeen' \in States!Living /\ <<KindSeen, KindSeen'>> \in States!Edges
           \/ KindSeen \in Settled /\ KindSeen' \in {"Discoving", "Normal"}
<1>1. CASE process = "dead" \/ astray
  <2>1. process' = "dead" \/ astray'
    BY <1>1, DeadStays, AstrayStep DEF LInv
  <2>. QED  BY <1>1, <2>1 DEF KindSeen
<1>2. CASE process # "dead" /\ ~ astray
  <2>1. Good /\ Current \in Kinds
    BY <1>2 DEF LInv, Good, Types, Current
  <2>2. KindSeen = (IF Current = "Discovered" THEN "Discoving" ELSE Current)
    BY <1>2 DEF KindSeen
  <2>3. KindSeen \in States!Living
    BY <2>1, <2>2 DEF Kinds, Settled, Busy, States!Living
  <2>4. CASE process' = "dead" \/ astray'
    BY <2>3, <2>4 DEF KindSeen
  <2>5. CASE ~ (process' = "dead" \/ astray')
    <3>1. KindSeen' = (IF Current' = "Discovered" THEN "Discoving" ELSE Current')
      BY <2>5 DEF KindSeen
    <3>2. CASE Current' = Current
      BY <2>2, <3>1, <3>2
    <3>3. CASE <<Current, Current'>> \in Owned("adosip")
      BY <2>2, <3>1, <3>3 DEF Owned, States!Living, States!Edges
    <3>4. CASE <<Current, Current'>> \in Owned("app")
      <4>1. CASE <<Current, Current'>> \in Settled \X {"Discoving", "Normal"}
        BY <2>2, <3>1, <4>1 DEF Settled
      <4>2. CASE <<Current, Current'>> \in {<<"Closed", "Inited">>, <<"Normal", "Closed">>}
        BY <2>2, <3>1, <4>2 DEF States!Living, States!Edges
      <4>. QED  BY <3>4, <4>1, <4>2 DEF Owned
    <3>. QED  BY <2>1, <3>2, <3>3, <3>4, StateMoves
  <2>. QED  BY <2>4, <2>5
<1>. QED  BY <1>1, <1>2

(* Whatever the threads do at once, the state moves along the life cycle   *)
(* that Node.h documents, until the process dies or the application calls  *)
(* a function in another state than Closed, Inited or Normal.              *)
THEOREM ThreadsKeepLifeCycle == Spec => LifeCycle
<1>. DEFINE seen == [p \in {"p"} |-> KindSeen]
<1>1. Init => States!Init
  BY DEF Init, States!Init, KindSeen, Current
<1>2. LInv /\ [Next]_lvars => [States!Next]_seen
  <2>. SUFFICES ASSUME LInv, [Next]_lvars  PROVE [States!Next]_seen
    OBVIOUS
  <2>1. seen["p"] = KindSeen /\ \A k : [seen EXCEPT !["p"] = k] = [p \in {"p"} |-> k]
    OBVIOUS
  <2>2. CASE KindSeen' = KindSeen
    BY <2>2
  <2>3. CASE KindSeen \in States!Living /\ KindSeen' = "Down"
    <3>1. States!Die("p")
      BY <2>1, <2>3 DEF States!Die, States!Move, States!Gone
    <3>. QED  BY <3>1 DEF States!Next
  <2>4. CASE KindSeen' \in States!Living /\ <<KindSeen, KindSeen'>> \in States!Edges
    <3>1. States!Go("p")
      BY <2>1, <2>4 DEF States!Go, States!Move
    <3>. QED  BY <3>1 DEF States!Next
  <2>5. CASE KindSeen \in Settled /\ KindSeen' \in {"Discoving", "Normal"}
    <3>1. States!Start("p")
      BY <2>1, <2>5 DEF States!Start, States!Move
    <3>. QED  BY <3>1 DEF States!Next
  <2>. QED  BY <2>2, <2>3, <2>4, <2>5, SeenMoves
<1>. QED  BY <1>1, <1>2, LInvInductive, PTL DEF Spec, LifeCycle, States!Spec
=============================================================================

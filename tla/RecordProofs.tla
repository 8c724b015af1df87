---------------------------- MODULE RecordProofs ----------------------------
(***************************************************************************)
(* The records of the gRPC wires, for every value of the constants: what   *)
(* the data store holds of a wire is what ReconGWires needs to bring it    *)
(* back, provided the calls of the peer for one wire come one after the    *)
(* other and do not overlap the DEL of their container (Orderly).          *)
(*                                                                         *)
(* Three things could spoil a record: another call for the same wire that  *)
(* read it earlier and writes it later, the wire of another container with *)
(* the same link, and the deletion of all records with a link id.  For the *)
(* first, calls that may change a wire are alone with it, but for a plugin *)
(* whose interface was taken away (LocalOK).  For the others, a pod has    *)
(* one container at a time and a link one pod on this node (EndsInv).      *)
(***************************************************************************)
EXTENDS GRPCWireProofs

-----------------------------------------------------------------------------
(* Containers and calls.                                                    *)

Earlier(d, c) == PodOf(d) = PodOf(c) /\ d[2] < c[2]

\* No call is served before the records have been replayed.
DownIsIdle == phase # "serving" => \A h \in Calls : call[h].at = "idle"

\* A pod's containers live one after the other.
OneByOne ==
    \A c, d \in Containers : Earlier(d, c) /\ life[c] # "new" => life[d] = "gone"

\* A wire is made or changed while its container lives, and deleted when its
\* DEL is under way.
LivingCalls ==
    \A h \in Calls :
        /\ call[h].at \in WireSteps => life[call[h].c] = "live"
        /\ call[h].at \in DelSteps => life[call[h].c] = "deleting"

\* The steps of a call of the peer at which it may change the wire.
Changing == WireSteps \ {"l_add"}

\* A container has one plugin and one DEL, a wire one call of the peer.
AloneOK ==
    \A g, h \in Calls : g # h /\ call[g].c = call[h].c =>
        /\ ~(call[g].at \in DelSteps /\ call[h].at \in DelSteps)
        /\ ~(call[g].at = "l_add" /\ call[h].at = "l_add")
        /\ call[g].l = call[h].l
               => ~(call[g].at \in Changing /\ call[h].at \in Changing)

OrderInv == DownIsIdle /\ OneByOne /\ LivingCalls /\ AloneOK

\* A pod with a container that lives has none that is being deleted.
LEMMA OneLives ==
    ASSUME OneByOne, NEW c \in Containers, NEW d \in Containers,
           PodOf(c) = PodOf(d), c # d, life[c] = "live"
    PROVE  life[d] \in {"new", "gone"}
<1>1. Earlier(c, d) \/ Earlier(d, c)
  BY GRPCWireAssumption DEF Containers, PodOf, Earlier
<1> QED
  BY <1>1 DEF OneByOne

\* What most steps do to the calls: each stays as it is, ends, is about to
\* start a thread, or goes on with the same wire or the same DEL.
Follows ==
    \A g \in Calls :
        \/ call'[g] = call[g]
        \/ call'[g].at = "idle"
        \/ call[g].at \in WireSteps /\ call'[g].at = "go"
        \/ /\ call[g].at \in Changing /\ call'[g].at \in Changing
           /\ call'[g].c = call[g].c /\ call'[g].l = call[g].l
        \/ /\ call[g].at \in DelSteps /\ call'[g].at \in DelSteps
           /\ call'[g].c = call[g].c

\* A deletion holds no wire that it did not hold before.
HeldStay ==
    \A g \in Calls : call'[g].at \in HeldSteps =>
        call[g].at \in HeldSteps /\ call'[g].o = call[g].o

\* The kinds of steps are distinct.
LEMMA StepKinds ==
    /\ "idle" \notin WireSteps \cup DelSteps \cup HeldSteps \cup Changing
    /\ "go" \notin WireSteps \cup DelSteps \cup HeldSteps \cup Changing
    /\ "l_add" \notin Changing
    /\ Changing \subseteq WireSteps /\ HeldSteps \subseteq DelSteps
    /\ WireSteps \cap DelSteps = {}
BY DEF WireSteps, DelSteps, HeldSteps, Changing

\* Such steps keep the order.
LEMMA OrderSame ==
    ASSUME OrderInv, Follows, UNCHANGED <<phase, life>>
    PROVE  OrderInv'
<1>1. DownIsIdle'
  BY StepKinds DEF OrderInv, DownIsIdle, Follows
<1>2. OneByOne'
  BY DEF OrderInv, OneByOne, Earlier
<1>3. LivingCalls'
  BY StepKinds DEF OrderInv, LivingCalls, Follows
<1>4. AloneOK'
  <2> SUFFICES ASSUME NEW g \in Calls, NEW h \in Calls, g # h,
                      call'[g].c = call'[h].c
               PROVE  /\ ~(call'[g].at \in DelSteps /\ call'[h].at \in DelSteps)
                      /\ ~(call'[g].at = "l_add" /\ call'[h].at = "l_add")
                      /\ call'[g].l = call'[h].l
                           => ~(call'[g].at \in Changing /\ call'[h].at \in Changing)
    BY DEF AloneOK
  <2>1. ASSUME NEW x \in Calls, call'[x].at \in DelSteps
        PROVE  call[x].at \in DelSteps /\ call'[x].c = call[x].c
    BY <2>1, StepKinds DEF Follows
  <2>2. ASSUME NEW x \in Calls, call'[x].at = "l_add"
        PROVE  call'[x] = call[x]
    <3>1. call'[x].at \in WireSteps
      BY <2>2 DEF WireSteps
    <3> QED
      BY <2>2, <3>1, StepKinds DEF Follows
  <2>3. ASSUME NEW x \in Calls, call'[x].at \in Changing
        PROVE  /\ call[x].at \in Changing
               /\ call'[x].c = call[x].c /\ call'[x].l = call[x].l
    BY <2>3, StepKinds DEF Follows
  <2> QED
    BY <2>1, <2>2, <2>3 DEF OrderInv, AloneOK
<1> QED
  BY <1>1, <1>2, <1>3, <1>4 DEF OrderInv

\* A call that is at work is served by a daemon that serves.
LEMMA AtWork ==
    ASSUME OrderInv, NEW h \in Calls, call[h].at # "idle"
    PROVE  phase = "serving"
BY DEF OrderInv, DownIsIdle

-----------------------------------------------------------------------------
(* How the steps change the calls.                                          *)

OthersStay(h) == \A g \in Calls : g # h => call'[g] = call[g]

\* Setting one call.
LEMMA SetsOne ==
    ASSUME TypeInv, NEW h \in Calls, NEW k, call' = [call EXCEPT ![h] = k]
    PROVE  call'[h] = k /\ OthersStay(h)
BY DEF TypeInv, CallsOK, OthersStay

\* Ending one.
LEMMA Returns ==
    ASSUME TypeInv, NEW h \in Calls, Return(h)
    PROVE  call'[h].at = "idle" /\ OthersStay(h) /\ Follows /\ HeldStay
<1>1. call'[h] = Idle /\ OthersStay(h)
  BY SetsOne DEF Return
<1>2. Idle.at = "idle"
  BY DEF Idle
<1> QED
  BY <1>1, <1>2, StepKinds DEF OthersStay, Follows, HeldStay

\* Taking one to another step.
LEMMA GoesOn ==
    ASSUME TypeInv, NEW h \in Calls, NEW s, call' = [call EXCEPT ![h].at = s]
    PROVE  /\ call'[h].at = s
           /\ call'[h].c = call[h].c /\ call'[h].l = call[h].l
           /\ call'[h].o = call[h].o /\ call'[h].ifc = call[h].ifc
           /\ call'[h].peer = call[h].peer
           /\ OthersStay(h)
<1> DEFINE k == [call[h] EXCEPT !.at = s]
<1>1. call[h] \in CallType /\ call' = [call EXCEPT ![h] = k]
  BY DEF TypeInv, CallsOK
<1>2. /\ k.at = s /\ k.c = call[h].c /\ k.l = call[h].l /\ k.o = call[h].o
      /\ k.ifc = call[h].ifc /\ k.peer = call[h].peer
  BY <1>1 DEF CallType
<1> HIDE DEF k
<1> QED
  BY <1>1, <1>2, SetsOne

\* A call that makes or changes a wire and goes on, ends or is about to start a
\* thread.
LEMMA ChangingFollows ==
    ASSUME NEW h \in Calls, OthersStay(h), call[h].at \in WireSteps,
           \/ call'[h].at \in {"idle", "go"}
           \/ /\ call[h].at \in Changing /\ call'[h].at \in Changing
              /\ call'[h].c = call[h].c /\ call'[h].l = call[h].l
    PROVE  Follows /\ HeldStay
BY StepKinds DEF OthersStay, Follows, HeldStay

\* A deletion that goes on with the wire it holds, or without one.
LEMMA DeletingFollows ==
    ASSUME NEW h \in Calls, OthersStay(h), call[h].at \in DelSteps,
           call'[h].at \in DelSteps, call'[h].c = call[h].c,
           call'[h].at \in HeldSteps =>
               call[h].at \in HeldSteps /\ call'[h].o = call[h].o
    PROVE  Follows /\ HeldStay
BY DEF OthersStay, Follows, HeldStay

\* The entry of a wire into the map and the store.
LEMMA AddsWire ==
    ASSUME TypeInv, NEW h \in Calls, NEW c, NEW l, NEW i, NEW p,
           AddWireInMemNDataStore(h, c, l, i, p)
    PROVE  call'[h].at = "go" /\ OthersStay(h)
<1> DEFINE k == [call[h] EXCEPT !.at = "go", !.o = nobj + 1, !.n = 1]
<1>1. call[h] \in CallType /\ call' = [call EXCEPT ![h] = k]
  BY DEF AddWireInMemNDataStore, TypeInv, CallsOK
<1>2. k.at = "go"
  BY <1>1 DEF CallType
<1> HIDE DEF k
<1> QED
  BY <1>1, <1>2, SetsOne

\* The reading of an updated wire.
LEMMA ReadsStatus ==
    ASSUME TypeInv, NEW h \in Calls, RemoteStatus(h)
    PROVE  /\ call'[h].at = "r_store"
           /\ call'[h].c = call[h].c /\ call'[h].l = call[h].l
           /\ call'[h].o = call[h].o /\ call'[h].ifc = call[h].ifc
           /\ call'[h].peer = obj[call[h].o].peer
           /\ OthersStay(h)
<1> DEFINE k == [call[h] EXCEPT !.at = "r_store", !.peer = obj[call[h].o].peer]
<1>1. call[h] \in CallType /\ call' = [call EXCEPT ![h] = k]
  BY DEF RemoteStatus, TypeInv, CallsOK
<1>2. /\ k.at = "r_store" /\ k.c = call[h].c /\ k.l = call[h].l /\ k.o = call[h].o
      /\ k.ifc = call[h].ifc /\ k.peer = obj[call[h].o].peer
  BY <1>1 DEF CallType
<1> HIDE DEF k
<1> QED
  BY <1>1, <1>2, SetsOne

\* The making of an interface for the peer.
LEMMA MakesVeth ==
    ASSUME TypeInv, NEW h \in Calls, ~Return(h), RemoteMake(h)
    PROVE  /\ inpod[call[h].c][call[h].l] = 0
           /\ MakeVeth(call[h].c, call[h].l)
           /\ call'[h].at = "r_add" /\ call'[h].ifc = nif + 1
           /\ call'[h].c = call[h].c /\ call'[h].l = call[h].l
           /\ OthersStay(h)
<1> DEFINE k == [call[h] EXCEPT !.at = "r_add", !.ifc = nif + 1]
<1>1. /\ call[h] \in CallType /\ call' = [call EXCEPT ![h] = k]
      /\ inpod[call[h].c][call[h].l] = 0 /\ MakeVeth(call[h].c, call[h].l)
  BY DEF RemoteMake, TypeInv, CallsOK
<1>2. /\ k.at = "r_add" /\ k.c = call[h].c /\ k.l = call[h].l
      /\ k.ifc = nif + 1
  BY <1>1 DEF CallType
<1> HIDE DEF k
<1> QED
  BY <1>1, <1>2, SetsOne

\* The calls that create and update wires, once they have begun.
LEMMA CreateFollows ==
    ASSUME TypeInv, NEW h \in Calls,
           \/ LocalAdd(h) \/ RemoteStatus(h) \/ RemoteStore(h) \/ RemoteClean(h)
           \/ RemoteClassify(h) \/ RemoteRemove(h) \/ RemoteMake(h) \/ RemoteAdd(h)
           \/ GoThread(h)
    PROVE  /\ Follows /\ HeldStay /\ OthersStay(h)
           /\ call[h].at # "idle" /\ UNCHANGED <<phase, life, todo>>
<1>1. call[h].at # "idle" /\ UNCHANGED <<phase, life, todo>>
  BY DEF LocalAdd, RemoteStatus, RemoteStore, RemoteClean, RemoteClassify,
         RemoteRemove, RemoteMake, RemoteAdd, GoThread
<1>2. CASE LocalAdd(h) \/ RemoteAdd(h)
  <2>1. call[h].at \in WireSteps
    BY <1>2 DEF LocalAdd, RemoteAdd, WireSteps
  <2>2. CASE Return(h)
    BY <1>1, <2>2, Returns
  <2>3. CASE AddWireInMemNDataStore(h, call[h].c, call[h].l, call[h].ifc, call[h].peer)
    BY <1>1, <2>1, <2>3, AddsWire, ChangingFollows
  <2> QED
    BY <1>2, <2>2, <2>3 DEF LocalAdd, RemoteAdd
<1>3. CASE RemoteStatus(h)
  <2>1. call[h].at \in Changing /\ "r_store" \in Changing
    BY <1>3 DEF RemoteStatus, Changing, WireSteps
  <2> QED
    BY <1>1, <1>3, <2>1, StepKinds, ReadsStatus, ChangingFollows
<1>4. CASE RemoteStore(h)
  <2>1. call[h].at \in WireSteps
    BY <1>4 DEF RemoteStore, WireSteps
  <2>2. call'[h].at = "go" /\ OthersStay(h)
    BY <1>4, GoesOn DEF RemoteStore
  <2> QED
    BY <1>1, <2>1, <2>2, ChangingFollows
<1>5. CASE RemoteClean(h) \/ RemoteClassify(h) \/ RemoteRemove(h)
  <2>1. CASE Return(h)
    BY <1>1, <2>1, Returns
  <2>2. CASE ~Return(h)
    <3>1. PICK s \in {"r_classify", "r_remove", "r_make"} :
            call' = [call EXCEPT ![h].at = s]
      BY <1>5, <2>2 DEF RemoteClean, RemoteClassify, RemoteRemove
    <3>2. call[h].at \in Changing /\ s \in Changing /\ call[h].at \in WireSteps
      BY <1>5 DEF RemoteClean, RemoteClassify, RemoteRemove, Changing, WireSteps
    <3>3. /\ call'[h].at = s /\ OthersStay(h)
          /\ call'[h].c = call[h].c /\ call'[h].l = call[h].l
      BY <3>1, GoesOn
    <3> QED
      BY <1>1, <3>2, <3>3, ChangingFollows
  <2> QED
    BY <2>1, <2>2
<1>6. CASE RemoteMake(h)
  <2>1. CASE Return(h)
    BY <1>1, <2>1, Returns
  <2>2. CASE ~Return(h)
    <3>1. call[h].at \in Changing /\ "r_add" \in Changing /\ call[h].at \in WireSteps
      BY <1>6 DEF RemoteMake, Changing, WireSteps
    <3> QED
      BY <1>1, <1>6, <2>2, <3>1, MakesVeth, ChangingFollows
  <2> QED
    BY <2>1, <2>2
<1>7. CASE GoThread(h)
  BY <1>1, <1>7, Returns DEF GoThread
<1> QED
  BY <1>2, <1>3, <1>4, <1>5, <1>6, <1>7

\* A deletion takes a wire out of the map.
LEMMA Extracts ==
    ASSUME TypeInv, NEW h \in Calls, ExtractOneWireByPod(h)
    PROVE  \E c \in Containers, l \in Links :
             /\ PodWire(PodOf(call[h].c), c, l)
             /\ wires' = [wires EXCEPT ![c][l] = 0]
             /\ call[h].at = "d_next" /\ call'[h].at = "d_stop"
             /\ call'[h].c = call[h].c /\ call'[h].o = wires[c][l]
             /\ OthersStay(h)
<1>1. PICK c \in Containers, l \in Links :
        /\ PodWire(PodOf(call[h].c), c, l)
        /\ wires' = [wires EXCEPT ![c][l] = 0]
        /\ call' = [call EXCEPT ![h].at = "d_stop", ![h].o = wires[c][l]]
  BY DEF ExtractOneWireByPod
<1> DEFINE k == [call[h] EXCEPT !.at = "d_stop", !.o = wires[c][l]]
<1>2. call[h] \in CallType /\ call' = [call EXCEPT ![h] = k]
  BY <1>1 DEF TypeInv, CallsOK
<1>3. k.at = "d_stop" /\ k.c = call[h].c /\ k.o = wires[c][l]
  BY <1>2 DEF CallType
<1>4. call[h].at = "d_next"
  BY DEF ExtractOneWireByPod
<1> HIDE DEF k
<1> QED
  BY <1>1, <1>2, <1>3, <1>4, SetsOne

\* The steps of a deletion with a wire it holds.
LEMMA DeleteFollows ==
    ASSUME TypeInv, NEW h \in Calls,
           DelStop(h) \/ DelClose(h) \/ DelVeth(h) \/ DelUnstore(h)
    PROVE  /\ Follows /\ HeldStay /\ OthersStay(h)
           /\ call[h].at \in HeldSteps /\ UNCHANGED <<phase, life, todo, wires>>
<1>1. call[h].at \in HeldSteps /\ UNCHANGED <<phase, life, todo, wires>>
  BY DEF DelStop, DelClose, DelVeth, DelUnstore, HeldSteps, memory
<1>2. CASE DelStop(h) \/ DelClose(h) \/ DelVeth(h)
  <2>1. PICK s \in {"d_close", "d_veth", "d_unstore"} :
          call' = [call EXCEPT ![h].at = s]
    BY <1>2 DEF DelStop, DelClose, DelVeth
  <2>2. s \in HeldSteps
    BY DEF HeldSteps
  <2>3. /\ call'[h].at = s /\ OthersStay(h)
        /\ call'[h].c = call[h].c /\ call'[h].o = call[h].o
    BY <2>1, GoesOn
  <2> QED
    BY <1>1, <2>2, <2>3, StepKinds, DeletingFollows
<1>3. CASE DelUnstore(h)
  <2> DEFINE k == [call[h] EXCEPT !.at = "d_next", !.o = 0]
  <2>1. call[h] \in CallType /\ call' = [call EXCEPT ![h] = k]
    BY <1>3 DEF DelUnstore, TypeInv, CallsOK
  <2>2. k.at = "d_next" /\ k.c = call[h].c
    BY <2>1 DEF CallType
  <2>3. "d_next" \in DelSteps /\ "d_next" \notin HeldSteps
    BY DEF DelSteps, HeldSteps
  <2> HIDE DEF k
  <2>4. call'[h] = k /\ OthersStay(h)
    BY <2>1, SetsOne
  <2> QED
    BY <1>1, <2>2, <2>3, <2>4, StepKinds, DeletingFollows
<1> QED
  BY <1>2, <1>3

-----------------------------------------------------------------------------
(* How calls begin.                                                         *)

LEMMA LocalBegins ==
    ASSUME TypeInv, NEW h \in Calls, NEW c \in Containers, NEW l \in Links,
           NEW p \in PeerIfs, LocalCall(h, c, l, p)
    PROVE  /\ call[h].at = "idle" /\ OthersStay(h)
           /\ call'[h].at = "l_add" /\ call'[h].c = c /\ call'[h].l = l
           /\ call'[h].ifc = nif + 1
<1> DEFINE k == [Idle EXCEPT !.at = "l_add", !.c = c, !.l = l, !.ifc = nif + 1,
                             !.peer = p]
<1>1. call' = [call EXCEPT ![h] = k] /\ call[h].at = "idle"
  BY DEF LocalCall
<1>2. k.at = "l_add" /\ k.c = c /\ k.l = l /\ k.ifc = nif + 1
  BY DEF Idle
<1> HIDE DEF k
<1> QED
  BY <1>1, <1>2, SetsOne

LEMMA RemoteBegins ==
    ASSUME TypeInv, NEW h \in Calls, NEW c \in Containers, NEW l \in Links,
           NEW p \in PeerIfs, RemoteCall(h, c, l, p)
    PROVE  /\ call[h].at = "idle" /\ OthersStay(h)
           /\ call'[h].c = c /\ call'[h].l = l
           /\ \/ /\ wires[c][l] # 0 /\ UpdateWire(wires[c][l], p)
                 /\ call'[h].at = "r_status" /\ call'[h].o = wires[c][l]
                 /\ call'[h].ifc = obj[wires[c][l]].ifc
              \/ /\ wires[c][l] = 0 /\ UNCHANGED obj
                 /\ call'[h].at = "r_clean"
<1> DEFINE o == wires[c][l]
           k == [Idle EXCEPT !.c = c, !.l = l, !.peer = p]
           ku == [k EXCEPT !.at = "r_status", !.o = o, !.n = obj[o].gen + 1,
                           !.ifc = obj[o].ifc]
           kc == [k EXCEPT !.at = "r_clean"]
<1>1. /\ call[h].at = "idle"
      /\ \/ o # 0 /\ UpdateWire(o, p) /\ call' = [call EXCEPT ![h] = ku]
         \/ o = 0 /\ UNCHANGED obj /\ call' = [call EXCEPT ![h] = kc]
  BY DEF RemoteCall
<1>2. /\ ku.at = "r_status" /\ ku.c = c /\ ku.l = l /\ ku.o = o
      /\ ku.ifc = obj[o].ifc
      /\ kc.at = "r_clean" /\ kc.c = c /\ kc.l = l
  BY DEF Idle
<1> HIDE DEF ku, kc
<1> QED
  BY <1>1, <1>2, SetsOne

LEMMA DeleteBegins ==
    ASSUME TypeInv, NEW h \in Calls, NEW c \in Containers, DeleteCall(h, c)
    PROVE  /\ call[h].at = "idle" /\ OthersStay(h)
           /\ call'[h].at = "d_next" /\ call'[h].c = c
<1> DEFINE k == [Idle EXCEPT !.at = "d_next", !.c = c]
<1>1. call' = [call EXCEPT ![h] = k] /\ call[h].at = "idle"
  BY DEF DeleteCall
<1>2. k.at = "d_next" /\ k.c = c
  BY DEF Idle
<1> HIDE DEF k
<1> QED
  BY <1>1, <1>2, SetsOne

-----------------------------------------------------------------------------
(* The order is kept.                                                       *)

\* A call begins that is alone in what it does.
LEMMA OrderBegin ==
    ASSUME OrderInv, NEW h \in Calls, OthersStay(h), UNCHANGED <<phase, life>>,
           phase = "serving", call'[h].at \in WireSteps, life[call'[h].c] = "live",
           call'[h].at = "l_add" =>
               \A g \in Calls : ~(call[g].at = "l_add" /\ call[g].c = call'[h].c),
           call'[h].at \in Changing =>
               \A g \in Calls : ~(/\ call[g].at \in Changing
                                  /\ call[g].c = call'[h].c /\ call[g].l = call'[h].l)
    PROVE  OrderInv'
<1>1. DownIsIdle' /\ OneByOne'
  BY DEF OrderInv, DownIsIdle, OneByOne, Earlier
<1>2. LivingCalls'
  BY StepKinds DEF OrderInv, LivingCalls, OthersStay
<1>3. AloneOK'
  <2> SUFFICES ASSUME NEW a \in Calls, NEW b \in Calls, a # b,
                      call'[a].c = call'[b].c
               PROVE  /\ ~(call'[a].at \in DelSteps /\ call'[b].at \in DelSteps)
                      /\ ~(call'[a].at = "l_add" /\ call'[b].at = "l_add")
                      /\ call'[a].l = call'[b].l
                           => ~(call'[a].at \in Changing /\ call'[b].at \in Changing)
    BY DEF AloneOK
  <2>1. CASE a = h
    BY <2>1, StepKinds DEF OthersStay
  <2>2. CASE b = h
    BY <2>2, StepKinds DEF OthersStay
  <2>3. CASE a # h /\ b # h
    BY <2>3 DEF OthersStay, OrderInv, AloneOK
  <2> QED
    BY <2>1, <2>2, <2>3
<1> QED
  BY <1>1, <1>2, <1>3 DEF OrderInv

\* The calls that create and update wires.
LEMMA OrderCreate ==
    ASSUME Orderly, TypeInv, OrderInv, NEW h \in Calls, Create(h)
    PROVE  OrderInv'
<1>1. ASSUME NEW c \in Containers, NEW l \in Links, NEW p \in PeerIfs,
             LocalCall(h, c, l, p)
      PROVE  OrderInv'
  <2>1. /\ phase = "serving" /\ life[c] = "live" /\ UNCHANGED <<phase, life>>
        /\ \A g \in Calls : ~(call[g].at = "l_add" /\ call[g].c = c)
    BY <1>1 DEF LocalCall
  <2>2. "l_add" \in WireSteps
    BY DEF WireSteps
  <2> QED
    BY <1>1, <2>1, <2>2, StepKinds, LocalBegins, OrderBegin
<1>2. ASSUME NEW c \in Containers, NEW l \in Links, NEW p \in PeerIfs,
             RemoteCall(h, c, l, p)
      PROVE  OrderInv'
  <2>1. /\ phase = "serving" /\ life[c] = "live" /\ UNCHANGED <<phase, life>>
        /\ \A g \in Calls :
             ~(call[g].at \in RemoteSteps /\ call[g].c = c /\ call[g].l = l)
    BY <1>2 DEF RemoteCall, InOrder
  <2>2. Changing \subseteq RemoteSteps
    BY DEF Changing, WireSteps, RemoteSteps
  <2>3. call'[h].at \in Changing /\ call'[h].at # "l_add"
    BY <1>2, RemoteBegins DEF Changing, WireSteps
  <2> QED
    BY <1>2, <2>1, <2>2, <2>3, StepKinds, RemoteBegins, OrderBegin
<1> QED
  BY <1>1, <1>2, CreateFollows, OrderSame DEF Create

\* The DEL of a pod.
LEMMA OrderDelete ==
    ASSUME Orderly, TypeInv, OrderInv, NEW h \in Calls, Delete(h)
    PROVE  OrderInv'
<1>1. ASSUME NEW c \in Containers, DeleteCall(h, c) PROVE OrderInv'
  <2>1. /\ phase = "serving" /\ phase' = phase
        /\ life[c] \in {"live", "deleting"}
        /\ life' = [life EXCEPT ![c] = "deleting"]
        /\ \A g \in Calls : call[g].c # c
    BY <1>1 DEF DeleteCall
  <2>2. life'[c] = "deleting" /\ \A d \in Containers : d # c => life'[d] = life[d]
    BY <2>1 DEF TypeInv, HostOK
  <2>3. "d_next" \in DelSteps
    BY DEF DelSteps
  <2>4. DownIsIdle' /\ OneByOne'
    BY <2>1, <2>2 DEF OrderInv, DownIsIdle, OneByOne, Earlier
  <2>5. LivingCalls'
    <3> SUFFICES ASSUME NEW g \in Calls
                 PROVE  /\ call'[g].at \in WireSteps => life'[call'[g].c] = "live"
                        /\ call'[g].at \in DelSteps => life'[call'[g].c] = "deleting"
      BY DEF LivingCalls
    <3>1. CASE g = h
      BY <1>1, <2>2, <2>3, <3>1, StepKinds, DeleteBegins
    <3>2. CASE g # h
      <4>1. call'[g] = call[g] /\ call[g].c # c
        BY <1>1, <2>1, <3>2, DeleteBegins DEF OthersStay
      <4>2. call[g].at \in WireSteps \cup DelSteps => call[g].c \in Containers
        BY DEF TypeInv, CallsOK, CallFine
      <4> QED
        BY <2>2, <4>1, <4>2 DEF OrderInv, LivingCalls
    <3> QED
      BY <3>1, <3>2
  <2>6. AloneOK'
    BY <1>1, <2>1, DeleteBegins DEF OthersStay, OrderInv, AloneOK
  <2> QED
    BY <2>4, <2>5, <2>6 DEF OrderInv
<1>2. CASE ExtractOneWireByPod(h)
  <2>1. call[h].at \in DelSteps /\ call'[h].at \in DelSteps
        /\ call'[h].c = call[h].c /\ OthersStay(h)
    BY <1>2, Extracts DEF DelSteps
  <2>2. Follows
    BY <2>1 DEF OthersStay, Follows
  <2> QED
    BY <1>2, <2>2, OrderSame DEF ExtractOneWireByPod
<1>3. CASE DelByPod(h)
  <2>1. /\ call[h].at = "d_next" /\ phase' = phase
        /\ life' = [life EXCEPT ![call[h].c] = "deleted"]
        /\ call'[h].at = "idle" /\ OthersStay(h) /\ Follows
    BY <1>3, Returns DEF DelByPod
  <2>2. call[h].at \in DelSteps
    BY <2>1 DEF DelSteps
  <2>3. call[h].c \in Containers /\ life[call[h].c] = "deleting"
    BY <2>2 DEF TypeInv, CallsOK, CallFine, OrderInv, LivingCalls
  <2>4. /\ life'[call[h].c] = "deleted"
        /\ \A d \in Containers : d # call[h].c => life'[d] = life[d]
    BY <2>1, <2>3 DEF TypeInv, HostOK
  <2>5. DownIsIdle'
    BY <2>1, <2>2, StepKinds, AtWork DEF DownIsIdle
  <2>6. OneByOne'
    BY <2>3, <2>4 DEF OrderInv, OneByOne, Earlier
  <2>7. LivingCalls'
    <3> SUFFICES ASSUME NEW g \in Calls, g # h
                 PROVE  /\ call[g].at \in WireSteps => life'[call[g].c] = "live"
                        /\ call[g].at \in DelSteps => life'[call[g].c] = "deleting"
      BY <2>1, StepKinds DEF LivingCalls, OthersStay
    <3>1. call[g].at \in WireSteps \cup DelSteps => call[g].c \in Containers
      BY DEF TypeInv, CallsOK, CallFine
    <3>2. call[g].at \in DelSteps => call[g].c # call[h].c
      BY <2>2 DEF OrderInv, AloneOK
    <3>3. call[g].at \in WireSteps => call[g].c # call[h].c
      BY <2>3 DEF OrderInv, LivingCalls
    <3> QED
      BY <2>4, <3>1, <3>2, <3>3 DEF OrderInv, LivingCalls
  <2>8. AloneOK'
    <3>1. ASSUME NEW g \in Calls, call'[g].at # "idle" PROVE call'[g] = call[g]
      BY <2>1, <3>1 DEF OthersStay
    <3> QED
      BY <3>1, StepKinds DEF OrderInv, AloneOK
  <2> QED
    BY <2>5, <2>6, <2>7, <2>8 DEF OrderInv
<1> QED
  BY <1>1, <1>2, <1>3, DeleteFollows, OrderSame DEF Delete

\* Pods, downs, threads, crash and restart.
LEMMA OrderOthers ==
    ASSUME TypeInv, OrderInv,
           \/ \E c \in Containers : Pod(c)
           \/ \E c \in Containers, l \in Links : GRPCWireDownRemote(c, l)
           \/ \E o \in Objs, g \in Gens : Forward(o, g)
           \/ Crash \/ Recon \/ UNCHANGED vars
    PROVE  OrderInv'
<1>1. ASSUME NEW c \in Containers, Pod(c) PROVE OrderInv'
  <2>1. PICK s \in {"live", "gone"} :
          /\ life' = [life EXCEPT ![c] = s] /\ UNCHANGED <<phase, call>>
          /\ life[c] = (IF s = "live" THEN "new" ELSE "deleted")
          /\ s = "live" => \A d \in Containers : Earlier(d, c) => life[d] = "gone"
    BY <1>1 DEF Pod, StartPod, RemoveSandbox, Earlier
  <2>2. life'[c] = s /\ \A d \in Containers : d # c => life'[d] = life[d]
    BY <2>1 DEF TypeInv, HostOK
  <2>3. DownIsIdle' /\ AloneOK'
    BY <2>1 DEF OrderInv, DownIsIdle, AloneOK
  <2>4. OneByOne'
    <3> SUFFICES ASSUME NEW a \in Containers, NEW b \in Containers,
                        Earlier(b, a), life'[a] # "new"
                 PROVE  life'[b] = "gone"
      BY DEF OneByOne, Earlier
    <3>1. a # b
      BY GRPCWireAssumption DEF Earlier, Containers
    <3>2. CASE a = c /\ s = "live"
      BY <2>1, <2>2, <3>1, <3>2
    <3>3. CASE ~(a = c /\ s = "live")
      <4>1. life[a] # "new"
        BY <2>1, <2>2, <3>3
      <4>2. life[b] = "gone"
        BY <4>1 DEF OrderInv, OneByOne
      <4> QED
        BY <2>1, <2>2, <4>2
    <3> QED
      BY <3>2, <3>3
  <2>5. LivingCalls'
    <3>1. \A g \in Calls : call[g].at \in WireSteps \cup DelSteps =>
            call[g].c \in Containers /\ call[g].c # c
      BY <2>1 DEF TypeInv, CallsOK, CallFine, OrderInv, LivingCalls
    <3> QED
      BY <2>1, <2>2, <3>1 DEF OrderInv, LivingCalls
  <2> QED
    BY <2>3, <2>4, <2>5 DEF OrderInv
<1>2. CASE \/ \E c \in Containers, l \in Links : GRPCWireDownRemote(c, l)
           \/ \E o \in Objs, g \in Gens : Forward(o, g)
           \/ UNCHANGED vars
  <2>1. UNCHANGED <<phase, life, call>>
    BY <1>2 DEF GRPCWireDownRemote, Forward, ThreadWait, ThreadRun, ThreadPacket,
                ThreadSent, ThreadStop, Thread, vars
  <2> QED
    BY <2>1, OrderSame DEF Follows
<1>3. CASE Crash
  <2>1. \A h \in Calls : call'[h].at = "idle"
    BY <1>3 DEF Crash, Idle
  <2>2. UNCHANGED life
    BY <1>3 DEF Crash
  <2>3. DownIsIdle' /\ LivingCalls' /\ AloneOK'
    BY <2>1, StepKinds DEF DownIsIdle, LivingCalls, AloneOK
  <2>4. OneByOne'
    BY <2>2 DEF OrderInv, OneByOne, Earlier
  <2> QED
    BY <2>3, <2>4 DEF OrderInv
<1>4. CASE Recon
  <2>1. phase # "serving" /\ UNCHANGED <<call, life>>
    BY <1>4 DEF Recon, Restart, ReCreateGWire, Serve
  <2>2. \A h \in Calls : call'[h].at = "idle"
    BY <2>1 DEF OrderInv, DownIsIdle
  <2>3. DownIsIdle' /\ LivingCalls' /\ AloneOK'
    BY <2>2, StepKinds DEF DownIsIdle, LivingCalls, AloneOK
  <2>4. OneByOne'
    BY <2>1 DEF OrderInv, OneByOne, Earlier
  <2> QED
    BY <2>3, <2>4 DEF OrderInv
<1> QED
  BY <1>1, <1>2, <1>3, <1>4

LEMMA OrderStep ==
    ASSUME Orderly, TypeInv, OrderInv, [Next]_vars
    PROVE  OrderInv'
BY OrderCreate, OrderDelete, OrderOthers DEF Next

-----------------------------------------------------------------------------
(* Links, pods and records.                                                 *)

\* Wires, records and calls are about links of their pod, and a deletion holds
\* wires of its pod.
ObjEnds == \A o \in Objs : o <= nobj => EndOf[obj[o].l] = PodOf(obj[o].c)
StoreEnds == \A r \in store : EndOf[r.l] = PodOf(r.c)
CallEnds ==
    \A h \in Calls :
        /\ call[h].at \in WireSteps => EndOf[call[h].l] = PodOf(call[h].c)
        /\ call[h].at \in HeldSteps => PodOf(obj[call[h].o].c) = PodOf(call[h].c)

\* So a link has one record at most.
OneRecord == \A q, r \in store : q.l = r.l => q = r

\* What is still to be replayed is still on record.
TodoOK == todo \subseteq store /\ (phase # "recon" => todo = {})

\* A container that has not been started has neither wire nor record.
NewOK ==
    \A c \in Containers : life[c] = "new" =>
        /\ \A l \in Links : wires[c][l] = 0
        /\ \A r \in store : r.c # c

EndsInv == ObjEnds /\ StoreEnds /\ CallEnds /\ OneRecord /\ TodoOK /\ NewOK

\* The objects keep their container, link and interface.
SameEnds ==
    /\ nobj' = nobj
    /\ \A o \in Objs : o <= nobj =>
         obj'[o].c = obj[o].c /\ obj'[o].l = obj[o].l /\ obj'[o].ifc = obj[o].ifc

LEMMA CallEndsSame ==
    ASSUME TypeInv, CallEnds, Follows, HeldStay,
           \A o \in Objs : o <= nobj => obj'[o].c = obj[o].c
    PROVE  CallEnds'
<1> SUFFICES ASSUME NEW h \in Calls
             PROVE  /\ call'[h].at \in WireSteps
                         => EndOf[call'[h].l] = PodOf(call'[h].c)
                    /\ call'[h].at \in HeldSteps
                         => PodOf(obj'[call'[h].o].c) = PodOf(call'[h].c)
  BY DEF CallEnds
<1>1. ASSUME call'[h].at \in WireSteps
      PROVE  /\ call[h].at \in WireSteps
             /\ call'[h].c = call[h].c /\ call'[h].l = call[h].l
  BY <1>1, StepKinds DEF Follows
<1>2. ASSUME call'[h].at \in HeldSteps
      PROVE  /\ call[h].at \in HeldSteps /\ call'[h].o = call[h].o
             /\ call'[h].c = call[h].c
  BY <1>2, StepKinds DEF Follows, HeldStay
<1> QED
  BY <1>1, <1>2, HeldObj DEF CallEnds

\* Nothing is added to the map, the objects or the store.
LEMMA EndsSame ==
    ASSUME TypeInv, EndsInv, CallEnds', TodoOK', SameEnds, store' \subseteq store,
           \A c \in Containers, l \in Links : wires'[c][l] \in {0, wires[c][l]},
           \A c \in Containers : life'[c] = "new" => life[c] = "new"
    PROVE  EndsInv'
<1>1. ObjEnds'
  BY DEF EndsInv, ObjEnds, SameEnds
<1>2. StoreEnds' /\ OneRecord'
  BY DEF EndsInv, StoreEnds, OneRecord
<1>3. NewOK'
  BY DEF EndsInv, NewOK
<1> QED
  BY <1>1, <1>2, <1>3 DEF EndsInv

\* A record is written.
LEMMA UpsertEnds ==
    ASSUME StoreEnds, OneRecord, NEW c, NEW l, NEW i, NEW p, EndOf[l] = PodOf(c),
           store' = Upsert(store, Rec(c, l, i, p))
    PROVE  StoreEnds' /\ OneRecord'
<1> DEFINE r == Rec(c, l, i, p)
<1>1. r.c = c /\ r.l = l
  BY DEF Rec
<1> HIDE DEF r
<1>2. ASSUME NEW q \in store'
      PROVE  q = r \/ (q \in store /\ ~(q.l = l /\ PodOf(q.c) = PodOf(c)))
  BY <1>1 DEF Upsert, r
<1>3. StoreEnds'
  BY <1>1, <1>2 DEF StoreEnds
<1>4. OneRecord'
  <2> SUFFICES ASSUME NEW x \in store', NEW y \in store', x.l = y.l
               PROVE  x = y
    BY DEF OneRecord
  <2>1. ASSUME NEW q \in store', q.l = l PROVE q = r
    BY <1>2, <2>1 DEF StoreEnds
  <2> QED
    BY <1>1, <1>2, <2>1 DEF OneRecord
<1> QED
  BY <1>3, <1>4

\* A wire is added.
LEMMA NewFacts ==
    ASSUME TypeInv, NEW c \in Containers, NEW l \in Links, NEW i, NEW p,
           NewWire(c, l, i, p)
    PROVE  /\ nobj' = nobj + 1 /\ nobj' \in Objs
           /\ \A o \in Objs : o <= nobj => o # nobj' /\ obj'[o] = obj[o]
           /\ \A o \in Objs : o <= nobj' => o = nobj' \/ o <= nobj
           /\ obj'[nobj'].c = c /\ obj'[nobj'].l = l
           /\ obj'[nobj'].ifc = i /\ obj'[nobj'].peer = p
           /\ wires'[c][l] = nobj'
           /\ \A d \in Containers, m \in Links :
                ~(d = c /\ m = l) => wires'[d][m] = wires[d][m]
<1> DEFINE w == [c |-> c, l |-> l, ifc |-> i, peer |-> p, ready |-> TRUE, gen |-> 1]
<1>1. nobj \in Nat /\ nobj' = nobj + 1 /\ nobj' \in Objs
  BY Counters, GRPCWireAssumption DEF NewWire, Objs
<1>2. obj' = [obj EXCEPT ![nobj'] = w] /\ wires' = [wires EXCEPT ![c][l] = nobj']
  BY <1>1 DEF NewWire
<1>3. /\ obj'[nobj'].c = c /\ obj'[nobj'].l = l
      /\ obj'[nobj'].ifc = i /\ obj'[nobj'].peer = p
  BY <1>1, <1>2 DEF TypeInv, MemoryOK
<1> HIDE DEF w
<1>4. \A o \in Objs : o # nobj' => obj'[o] = obj[o]
  BY <1>1, <1>2 DEF TypeInv, MemoryOK
<1>5. \A o \in Objs : /\ o <= nobj => o # nobj'
                      /\ o <= nobj' => o = nobj' \/ o <= nobj
  BY <1>1 DEF Objs
<1>6. /\ wires'[c][l] = nobj'
      /\ \A d \in Containers, m \in Links :
           ~(d = c /\ m = l) => wires'[d][m] = wires[d][m]
  BY <1>2 DEF TypeInv, MemoryOK
<1> QED
  BY <1>1, <1>3, <1>4, <1>5, <1>6

LEMMA EndsNew ==
    ASSUME TypeInv, EndsInv, NEW c \in Containers, NEW l \in Links, NEW i, NEW p,
           NewWire(c, l, i, p), EndOf[l] = PodOf(c), life[c] # "new",
           UNCHANGED life, Follows, HeldStay, TodoOK', StoreEnds', OneRecord',
           \A r \in store' : r \in store \/ r.c = c
    PROVE  EndsInv'
<1>1. ObjEnds'
  BY NewFacts DEF EndsInv, ObjEnds
<1>2. CallEnds'
  BY NewFacts, CallEndsSame DEF EndsInv
<1>3. NewOK'
  BY NewFacts DEF EndsInv, NewOK
<1> QED
  BY <1>1, <1>2, <1>3 DEF EndsInv

\* While the daemon serves, nothing is left to be replayed.
LEMMA TodoDone ==
    ASSUME TodoOK, phase = "serving", UNCHANGED <<phase, todo>>
    PROVE  TodoOK'
BY DEF TodoOK

\* A call begins about a link of its pod, or with no wire to hold.
LEMMA CallEndsBegin ==
    ASSUME TypeInv, CallEnds, NEW h \in Calls, OthersStay(h),
           \A o \in Objs : o <= nobj => obj'[o].c = obj[o].c,
           call'[h].at \notin HeldSteps,
           call'[h].at \in WireSteps => EndOf[call'[h].l] = PodOf(call'[h].c)
    PROVE  CallEnds'
BY HeldObj DEF CallEnds, OthersStay

\* An update keeps container, link and interface of every wire, and the peer of
\* every other.
LEMMA UpdateSame ==
    ASSUME TypeInv, NEW x \in Objs, NEW p, UpdateWire(x, p)
    PROVE  /\ \A o \in Objs : o # x => obj'[o] = obj[o]
           /\ obj'[x].c = obj[x].c /\ obj'[x].l = obj[x].l
           /\ obj'[x].ifc = obj[x].ifc
<1> DEFINE w == [obj[x] EXCEPT !.gen = @ + 1, !.peer = p, !.ready = TRUE]
<1>1. obj[x] \in ObjType /\ obj' = [obj EXCEPT ![x] = w]
  BY DEF UpdateWire, TypeInv, MemoryOK
<1>2. w.c = obj[x].c /\ w.l = obj[x].l /\ w.ifc = obj[x].ifc
  BY <1>1 DEF ObjType
<1> HIDE DEF w
<1> QED
  BY <1>1, <1>2 DEF TypeInv, MemoryOK

\* Taking a wire down changes nothing of this, nor its peer.
LEMMA DownSame ==
    ASSUME TypeInv, NEW x \in Objs, obj' = [obj EXCEPT ![x].ready = FALSE],
           UNCHANGED nobj
    PROVE  /\ SameEnds
           /\ \A o \in Objs : o <= nobj => obj'[o].peer = obj[o].peer
<1> DEFINE w == [obj[x] EXCEPT !.ready = FALSE]
<1>1. obj[x] \in ObjType /\ obj' = [obj EXCEPT ![x] = w]
  BY DEF TypeInv, MemoryOK
<1>2. /\ w.c = obj[x].c /\ w.l = obj[x].l /\ w.ifc = obj[x].ifc
      /\ w.peer = obj[x].peer
  BY <1>1 DEF ObjType
<1> HIDE DEF w
<1> QED
  BY <1>1, <1>2 DEF TypeInv, MemoryOK, SameEnds

\* The arguments of a call that makes or changes a wire.
LEMMA WireArgs ==
    ASSUME TypeInv, NEW h \in Calls, call[h].at \in WireSteps
    PROVE  /\ call[h].c \in Containers /\ call[h].l \in Links
           /\ call[h].ifc \in Nat /\ call[h].ifc <= nif
<1>1. call[h] \in CallType /\ CallFine(call[h], nobj, nif)
  BY DEF TypeInv, CallsOK
<1> QED
  BY <1>1, GRPCWireAssumption DEF CallFine, CallType

\* A wire enters the map and the store.
LEMMA EndsAdd ==
    ASSUME TypeInv, OrderInv, EndsInv, NEW h \in Calls, call[h].at \in WireSteps,
           AddWireInMemNDataStore(h, call[h].c, call[h].l, call[h].ifc, call[h].peer),
           Follows, HeldStay, UNCHANGED <<phase, life, todo>>
    PROVE  EndsInv'
<1> DEFINE c == call[h].c
           l == call[h].l
           i == call[h].ifc
           p == call[h].peer
<1>1. c \in Containers /\ l \in Links /\ EndOf[l] = PodOf(c) /\ life[c] = "live"
  BY WireArgs DEF EndsInv, CallEnds, OrderInv, LivingCalls
<1>2. NewWire(c, l, i, p) /\ store' = Upsert(store, Rec(c, l, i, p))
  BY DEF AddWireInMemNDataStore
<1>3. \A r \in store' : r \in store \/ r.c = c
  BY <1>2 DEF Upsert, Rec
<1>4. TodoOK'
  BY AtWork, StepKinds, TodoDone DEF EndsInv
<1> HIDE DEF c, l, i, p
<1>5. StoreEnds' /\ OneRecord'
  BY <1>1, <1>2, UpsertEnds DEF EndsInv
<1> QED
  BY <1>1, <1>2, <1>3, <1>4, <1>5, EndsNew

\* The calls that create and update wires.
LEMMA EndsCreate ==
    ASSUME TypeInv, OrderInv, EndsInv, NEW h \in Calls, Create(h)
    PROVE  EndsInv'
<1>1. ASSUME NEW c \in Containers, NEW l \in Links, NEW p \in PeerIfs,
             LocalCall(h, c, l, p)
      PROVE  EndsInv'
  <2>1. /\ UNCHANGED <<phase, wires, obj, nobj, store, todo, life>>
        /\ EndOf[l] = PodOf(c)
    BY <1>1 DEF LocalCall, memory
  <2>2. CallEnds'
    BY <1>1, <2>1, LocalBegins, CallEndsBegin DEF EndsInv, HeldSteps
  <2> QED
    BY <2>1, <2>2, EndsSame DEF SameEnds, EndsInv, TodoOK
<1>2. ASSUME NEW c \in Containers, NEW l \in Links, NEW p \in PeerIfs,
             RemoteCall(h, c, l, p)
      PROVE  EndsInv'
  <2>1. /\ UNCHANGED <<phase, wires, nobj, store, todo, life>>
        /\ EndOf[l] = PodOf(c)
    BY <1>2 DEF RemoteCall
  <2>2. SameEnds
    <3>1. CASE UNCHANGED obj
      BY <2>1, <3>1 DEF SameEnds
    <3>2. CASE wires[c][l] # 0 /\ UpdateWire(wires[c][l], p)
      BY <2>1, <3>2, MapObj, UpdateSame DEF SameEnds
    <3> QED
      BY <1>2, <3>1, <3>2, RemoteBegins
  <2>3. CallEnds'
    <3>1. call'[h].at \notin HeldSteps
      BY <1>2, RemoteBegins DEF HeldSteps
    <3> QED
      BY <1>2, <2>1, <2>2, <3>1, RemoteBegins, CallEndsBegin DEF EndsInv, SameEnds
  <2> QED
    BY <2>1, <2>2, <2>3, EndsSame DEF EndsInv, TodoOK
<1>3. CASE LocalAdd(h) \/ RemoteAdd(h)
  <2>1. /\ Follows /\ HeldStay /\ UNCHANGED <<phase, life, todo>>
        /\ call[h].at \in WireSteps
    BY <1>3, CreateFollows DEF LocalAdd, RemoteAdd, WireSteps
  <2>2. CASE UNCHANGED <<memory, store>>
    <3>1. UNCHANGED <<wires, obj, nobj, store>>
      BY <2>2 DEF memory
    <3>2. CallEnds'
      BY <2>1, <3>1, CallEndsSame DEF EndsInv
    <3> QED
      BY <2>1, <3>1, <3>2, EndsSame DEF SameEnds, EndsInv, TodoOK
  <2>3. CASE AddWireInMemNDataStore(h, call[h].c, call[h].l, call[h].ifc, call[h].peer)
    BY <2>1, <2>3, EndsAdd
  <2> QED
    BY <1>3, <2>2, <2>3 DEF LocalAdd, RemoteAdd
<1>4. CASE RemoteStore(h)
  <2> DEFINE c == call[h].c
             l == call[h].l
             i == call[h].ifc
             p == call[h].peer
  <2>1. /\ Follows /\ HeldStay /\ UNCHANGED <<phase, life, todo, wires, obj, nobj>>
        /\ call[h].at \in WireSteps /\ call[h].at # "idle"
    BY <1>4, CreateFollows DEF RemoteStore, WireSteps, memory
  <2>2. c \in Containers /\ l \in Links /\ EndOf[l] = PodOf(c) /\ life[c] = "live"
    BY <2>1, WireArgs DEF EndsInv, CallEnds, OrderInv, LivingCalls
  <2>3. store' = Upsert(store, Rec(c, l, i, p))
    BY <1>4 DEF RemoteStore
  <2>4. \A r \in store' : r \in store \/ r.c = c
    BY <2>3 DEF Upsert, Rec
  <2> HIDE DEF c, l, i, p
  <2>5. StoreEnds' /\ OneRecord'
    BY <2>2, <2>3, UpsertEnds DEF EndsInv
  <2>6. CallEnds' /\ TodoOK'
    BY <2>1, CallEndsSame, AtWork, TodoDone DEF EndsInv
  <2>7. ObjEnds' /\ NewOK'
    BY <2>1, <2>2, <2>4 DEF EndsInv, ObjEnds, NewOK
  <2> QED
    BY <2>5, <2>6, <2>7 DEF EndsInv
<1>5. CASE \/ RemoteStatus(h) \/ RemoteClean(h) \/ RemoteClassify(h)
           \/ RemoteRemove(h) \/ RemoteMake(h) \/ GoThread(h)
  <2>1. Follows /\ HeldStay /\ UNCHANGED <<phase, life, todo>>
    BY <1>5, CreateFollows
  <2>2. UNCHANGED <<wires, obj, nobj, store>>
    BY <1>5 DEF RemoteStatus, RemoteClean, RemoteClassify, RemoteRemove, RemoteMake,
                GoThread, memory
  <2>3. CallEnds'
    BY <2>1, <2>2, CallEndsSame DEF EndsInv
  <2> QED
    BY <2>1, <2>2, <2>3, EndsSame DEF SameEnds, EndsInv, TodoOK
<1> QED
  BY <1>1, <1>2, <1>3, <1>4, <1>5 DEF Create

\* The DEL of a pod.
LEMMA EndsDelete ==
    ASSUME TypeInv, StopInv, OrderInv, EndsInv, NEW h \in Calls, Delete(h)
    PROVE  EndsInv'
<1>1. ASSUME NEW c \in Containers, DeleteCall(h, c) PROVE EndsInv'
  <2>1. /\ UNCHANGED <<phase, wires, obj, nobj, store, todo>>
        /\ life' = [life EXCEPT ![c] = "deleting"]
    BY <1>1 DEF DeleteCall, memory
  <2>2. CallEnds'
    <3>1. call'[h].at \notin HeldSteps /\ call'[h].at \notin WireSteps
      BY <1>1, DeleteBegins DEF HeldSteps, WireSteps
    <3> QED
      BY <1>1, <2>1, <3>1, DeleteBegins, CallEndsBegin DEF EndsInv
  <2>3. \A d \in Containers : life'[d] = "new" => life[d] = "new"
    BY <2>1 DEF TypeInv, HostOK
  <2> QED
    BY <2>1, <2>2, <2>3, EndsSame DEF SameEnds, EndsInv, TodoOK
<1>2. CASE ExtractOneWireByPod(h)
  <2>1. PICK c \in Containers, l \in Links :
          /\ PodWire(PodOf(call[h].c), c, l)
          /\ wires' = [wires EXCEPT ![c][l] = 0]
          /\ call'[h].at = "d_stop"
          /\ call'[h].c = call[h].c /\ call'[h].o = wires[c][l]
          /\ OthersStay(h)
    BY <1>2, Extracts
  <2>2. UNCHANGED <<phase, obj, nobj, store, todo, life>>
    BY <1>2 DEF ExtractOneWireByPod
  <2>3. PodOf(obj[wires[c][l]].c) = PodOf(call[h].c)
    BY <2>1 DEF PodWire, StopInv, MapOK
  <2>4. CallEnds'
    <3>1. "d_stop" \notin WireSteps
      BY DEF WireSteps
    <3> QED
      BY <2>1, <2>2, <2>3, <3>1 DEF EndsInv, CallEnds, OthersStay
  <2>5. \A d \in Containers, m \in Links : wires'[d][m] \in {0, wires[d][m]}
    BY <2>1 DEF TypeInv, MemoryOK
  <2> QED
    BY <2>2, <2>4, <2>5, EndsSame DEF SameEnds, EndsInv, TodoOK
<1>3. CASE DelStop(h) \/ DelClose(h) \/ DelVeth(h) \/ DelUnstore(h)
  <2>1. /\ Follows /\ HeldStay /\ UNCHANGED <<phase, life, todo, wires>>
        /\ call[h].at \in HeldSteps
    BY <1>3, DeleteFollows
  <2>2. SameEnds
    <3>1. CASE DelClose(h)
      BY <2>1, <3>1, HeldObj, DownSame DEF DelClose
    <3>2. CASE DelStop(h) \/ DelVeth(h) \/ DelUnstore(h)
      BY <3>2 DEF DelStop, DelVeth, DelUnstore, memory, SameEnds
    <3> QED
      BY <1>3, <3>1, <3>2
  <2>3. store' \subseteq store
    BY <1>3 DEF DelStop, DelClose, DelVeth, DelUnstore, DropLink
  <2>4. CallEnds' /\ TodoOK'
    BY <2>1, <2>2, StepKinds, CallEndsSame, AtWork, TodoDone DEF EndsInv, SameEnds
  <2> QED
    BY <2>1, <2>2, <2>3, <2>4, EndsSame
<1>4. CASE DelByPod(h)
  <2>1. /\ call[h].at = "d_next" /\ UNCHANGED <<phase, todo, wires, obj, nobj>>
        /\ life' = [life EXCEPT ![call[h].c] = "deleted"]
        /\ Follows /\ HeldStay
        /\ store' \subseteq store
    BY <1>4, Returns DEF DelByPod, DropPod, memory
  <2>2. \A d \in Containers : life'[d] = "new" => life[d] = "new"
    BY <2>1 DEF TypeInv, HostOK
  <2>3. CallEnds' /\ TodoOK'
    BY <2>1, CallEndsSame, AtWork, TodoDone DEF EndsInv
  <2> QED
    BY <2>1, <2>2, <2>3, EndsSame DEF SameEnds
<1> QED
  BY <1>1, <1>2, <1>3, <1>4 DEF Delete

\* Pods, downs, threads, crash and restart.
LEMMA EndsOthers ==
    ASSUME TypeInv, OrderInv, EndsInv,
           \/ \E c \in Containers : Pod(c)
           \/ \E c \in Containers, l \in Links : GRPCWireDownRemote(c, l)
           \/ \E o \in Objs, g \in Gens : Forward(o, g)
           \/ Crash \/ Recon \/ UNCHANGED vars
    PROVE  EndsInv'
<1>1. ASSUME NEW c \in Containers, Pod(c) PROVE EndsInv'
  <2>1. UNCHANGED <<phase, wires, obj, nobj, store, todo, call>>
    BY <1>1 DEF Pod, StartPod, RemoveSandbox, memory
  <2>2. \A d \in Containers : life'[d] = "new" => life[d] = "new"
    BY <1>1 DEF Pod, StartPod, RemoveSandbox, TypeInv, HostOK
  <2>3. CallEnds' /\ TodoOK'
    BY <2>1 DEF EndsInv, CallEnds, TodoOK
  <2> QED
    BY <2>1, <2>2, <2>3, EndsSame DEF SameEnds
<1>2. CASE \/ \E c \in Containers, l \in Links : GRPCWireDownRemote(c, l)
           \/ \E o \in Objs, g \in Gens : Forward(o, g)
           \/ UNCHANGED vars
  <2>1. UNCHANGED <<phase, wires, nobj, store, todo, call, life>>
    BY <1>2 DEF GRPCWireDownRemote, Forward, ThreadWait, ThreadRun, ThreadPacket,
                ThreadSent, ThreadStop, Thread, vars, memory
  <2>2. SameEnds
    <3>1. ASSUME NEW c \in Containers, NEW l \in Links, GRPCWireDownRemote(c, l)
          PROVE  SameEnds
      BY <2>1, <3>1, MapObj, DownSame DEF GRPCWireDownRemote, WireDown
    <3>2. CASE UNCHANGED obj
      BY <2>1, <3>2 DEF SameEnds
    <3>3. ASSUME NEW o \in Objs, NEW g \in Gens, Forward(o, g) PROVE UNCHANGED obj
      BY <3>3 DEF Forward, ThreadWait, ThreadRun, ThreadPacket, ThreadSent,
                  ThreadStop, Thread
    <3> QED
      BY <1>2, <3>1, <3>2, <3>3 DEF vars, memory
  <2>3. CallEnds' /\ TodoOK'
    BY <2>1, <2>2, CallEndsSame DEF EndsInv, TodoOK, Follows, HeldStay, SameEnds
  <2> QED
    BY <2>1, <2>2, <2>3, EndsSame
<1>3. CASE Crash
  <2>1. /\ nobj' = 0 /\ todo' = {} /\ UNCHANGED <<store, life>>
        /\ \A h \in Calls : call'[h].at = "idle"
        /\ \A c \in Containers, l \in Links : wires'[c][l] = 0
    BY <1>3 DEF Crash, Idle, NoWires
  <2>2. ObjEnds' /\ CallEnds' /\ TodoOK'
    BY <2>1, StepKinds DEF ObjEnds, CallEnds, TodoOK, Objs
  <2>3. StoreEnds' /\ OneRecord' /\ NewOK'
    BY <2>1 DEF EndsInv, StoreEnds, OneRecord, NewOK
  <2> QED
    BY <2>2, <2>3 DEF EndsInv
<1>4. CASE Restart \/ Serve
  <2>1. UNCHANGED <<wires, obj, nobj, store, call, life>>
    BY <1>4 DEF Restart, Serve, memory
  <2>2. TodoOK'
    BY <1>4 DEF Restart, Serve, TodoOK
  <2>3. CallEnds'
    BY <2>1 DEF EndsInv, CallEnds
  <2> QED
    BY <2>1, <2>2, <2>3, EndsSame DEF SameEnds
<1>5. ASSUME NEW r \in todo, ReCreateGWire(r) PROVE EndsInv'
  <2>1. /\ phase = "recon" /\ UNCHANGED <<phase, call, life>>
        /\ todo' = todo \ {r} /\ r \in store /\ r \in RecType
    BY <1>5 DEF ReCreateGWire, EndsInv, TodoOK, TypeInv, StoreOK
  <2>2. r.c \in Containers /\ r.l \in Links
    BY <2>1 DEF RecType
  <2>3. Follows /\ HeldStay
    BY <2>1 DEF Follows, HeldStay
  <2>4. CASE NewWire(r.c, r.l, r.ifc, r.peer) /\ UNCHANGED store
    <3>1. TodoOK' /\ StoreEnds' /\ OneRecord'
      BY <2>1, <2>4 DEF EndsInv, TodoOK, StoreEnds, OneRecord
    <3>2. EndOf[r.l] = PodOf(r.c) /\ life[r.c] # "new"
      BY <2>1, <2>2 DEF EndsInv, StoreEnds, NewOK
    <3> QED
      BY <2>1, <2>2, <2>3, <2>4, <3>1, <3>2, EndsNew
  <2>5. CASE store' = DropLink(store, r.l) /\ UNCHANGED memory
    <3>1. UNCHANGED <<wires, obj, nobj>>
      BY <2>5 DEF memory
    <3>2. TodoOK'
      <4>1. \A q \in todo : q \in store /\ (q # r => q.l # r.l)
        BY <2>1 DEF EndsInv, TodoOK, OneRecord
      <4> QED
        BY <2>1, <2>5, <4>1 DEF TodoOK, DropLink
    <3>3. CallEnds'
      BY <2>1, <3>1 DEF EndsInv, CallEnds
    <3> QED
      BY <2>1, <2>5, <3>1, <3>2, <3>3, EndsSame DEF SameEnds, DropLink
  <2> QED
    BY <1>5, <2>4, <2>5 DEF ReCreateGWire
<1> QED
  BY <1>1, <1>2, <1>3, <1>4, <1>5 DEF Recon

LEMMA EndsStep ==
    ASSUME TypeInv, StopInv, OrderInv, EndsInv, [Next]_vars
    PROVE  EndsInv'
BY EndsCreate, EndsDelete, EndsOthers DEF Next

-----------------------------------------------------------------------------
(* What the store knows of a wire.                                          *)

About(h, c, l) == call[h].c = c /\ call[h].l = l
IfOf(h) == Exists(call[h].c, call[h].l, call[h].ifc)

\* The steps at which an update is about to be recorded, and those at which a
\* call of the peer is about to record something.
Updating == {"r_status", "r_store"}
Filing == Updating \cup {"r_add"}

\* The interface that a call of the peer has made stays until it is filed.
Made(h) == call[h].at = "r_add" => IfOf(h)

\* As long as the interface of a plugin is there, nobody else has made, or is
\* about to record, a wire in its place.
Local(h) ==
    \A c \in Containers, l \in Links :
        call[h].at = "l_add" /\ About(h, c, l) /\ IfOf(h) =>
            /\ wires[c][l] = 0
            /\ \A g \in Calls : About(g, c, l) => call[g].at \notin Filing

\* What an update has read of a wire that works is what the wire has.
Updated(h) ==
    \A c \in Containers, l \in Links :
        call[h].at \in Updating /\ About(h, c, l) =>
            /\ wires[c][l] # 0
            /\ \A o \in Objs : wires[c][l] = o /\ HostIf(o) =>
                 /\ call[h].o = o /\ call[h].ifc = obj[o].ifc
                 /\ call[h].at = "r_store" => call[h].peer = obj[o].peer

\* A wire that works is on record, or an update is about to record it.
Covered(c, l) ==
    \A o \in Objs : wires[c][l] = o /\ HostIf(o) /\ life[c] = "live" =>
        \/ Rec(c, l, obj[o].ifc, obj[o].peer) \in store
        \/ \E h \in Calls : About(h, c, l) /\ call[h].at \in Updating

CoverInv ==
    /\ \A h \in Calls : Made(h) /\ Local(h) /\ Updated(h)
    /\ \A c \in Containers, l \in Links : Covered(c, l)

LEMMA FilingSteps ==
    /\ Filing \subseteq Changing /\ Filing \subseteq WireSteps
    /\ Updating \subseteq Filing /\ Filing = Updating \cup {"r_add"}
    /\ "r_status" \in Updating /\ "r_store" \in Updating /\ "r_add" \in Filing
    /\ "r_add" \notin Updating
    /\ "l_add" \in WireSteps /\ "l_add" \notin Filing
    /\ "idle" \notin Filing /\ "go" \notin Filing
    /\ Filing \cap DelSteps = {}
BY DEF Filing, Updating, WireSteps, Changing, DelSteps

\* The objects that there are keep container, link and interface.
KeepsEnds ==
    \A o \in Objs : o <= nobj =>
        obj'[o].c = obj[o].c /\ obj'[o].l = obj[o].l /\ obj'[o].ifc = obj[o].ifc

\* The interface of a call does not come back.
LEMMA CallIfsGone ==
    ASSUME TypeInv, KeepsIfs, NEW h \in Calls, call[h].at \in WireSteps,
           call'[h] = call[h], IfOf(h)'
    PROVE  IfOf(h)
<1>1. call[h].c \in Containers /\ call[h].l \in Links
      /\ call[h].ifc \in Nat /\ call[h].ifc <= nif
  BY WireArgs
<1>2. call[h].ifc # nif + 1
  BY <1>1, Counters
<1> QED
  BY <1>1, <1>2 DEF KeepsIfs, IfOf, Exists

\* What a step must leave alone to keep each part.
LEMMA MadeKept ==
    ASSUME NEW h \in Calls, Made(h),
           call'[h].at = "r_add" =>
               /\ call'[h] = call[h]
               /\ inpod'[call[h].c][call[h].l] = inpod[call[h].c][call[h].l]
    PROVE  Made(h)'
BY DEF Made, IfOf, Exists

LEMMA LocalKept ==
    ASSUME TypeInv, KeepsIfs, NEW h \in Calls, Local(h),
           call'[h].at = "l_add" => call'[h] = call[h],
           \A c \in Containers, l \in Links :
               call[h].at = "l_add" /\ About(h, c, l) /\ IfOf(h) /\ wires[c][l] = 0 =>
                   /\ wires'[c][l] = 0
                   /\ \A g \in Calls : call'[g].at \in Filing /\ About(g, c, l)'
                         => call[g].at \in Filing /\ About(g, c, l)
    PROVE  Local(h)'
<1> SUFFICES ASSUME NEW c \in Containers, NEW l \in Links, call'[h].at = "l_add",
                    About(h, c, l)', IfOf(h)'
             PROVE  /\ wires'[c][l] = 0
                    /\ \A g \in Calls : About(g, c, l)' => call'[g].at \notin Filing
  BY DEF Local
<1>1. call'[h] = call[h] /\ call[h].at = "l_add" /\ call[h].at \in WireSteps
  BY FilingSteps
<1>2. IfOf(h) /\ About(h, c, l)
  BY <1>1, CallIfsGone DEF About
<1>3. /\ wires[c][l] = 0
      /\ \A g \in Calls : About(g, c, l) => call[g].at \notin Filing
  BY <1>1, <1>2 DEF Local
<1> QED
  BY <1>1, <1>2, <1>3

LEMMA UpdatedKept ==
    ASSUME TypeInv, KeepsIfs, KeepsEnds, NEW h \in Calls, Updated(h),
           call'[h].at \in Updating => call'[h] = call[h],
           \A c \in Containers, l \in Links :
               call[h].at \in Updating /\ About(h, c, l) =>
                   /\ wires'[c][l] = wires[c][l]
                   /\ \A o \in Objs : wires[c][l] = o => obj'[o].peer = obj[o].peer
    PROVE  Updated(h)'
<1> SUFFICES ASSUME NEW c \in Containers, NEW l \in Links, call'[h].at \in Updating,
                    About(h, c, l)'
             PROVE  /\ wires'[c][l] # 0
                    /\ \A o \in Objs : wires'[c][l] = o /\ HostIf(o)' =>
                         /\ call'[h].o = o /\ call'[h].ifc = obj'[o].ifc
                         /\ call'[h].at = "r_store" => call'[h].peer = obj'[o].peer
  BY DEF Updated
<1>1. call'[h] = call[h] /\ call[h].at \in Updating /\ About(h, c, l)
  BY DEF About
<1>2. wires[c][l] # 0 /\ wires'[c][l] = wires[c][l]
  BY <1>1 DEF Updated
<1>3. ASSUME NEW o \in Objs, wires'[c][l] = o, HostIf(o)'
      PROVE  /\ call'[h].o = o /\ call'[h].ifc = obj'[o].ifc
             /\ call'[h].at = "r_store" => call'[h].peer = obj'[o].peer
  <2>1. o <= nobj
    BY <1>2, <1>3, MapObj
  <2>2. HostIf(o) /\ obj'[o].ifc = obj[o].ifc /\ obj'[o].peer = obj[o].peer
    BY <1>1, <1>2, <1>3, <2>1, IfsGone DEF KeepsEnds
  <2> QED
    BY <1>1, <1>2, <1>3, <2>2 DEF Updated
<1> QED
  BY <1>2, <1>3

LEMMA CoveredKept ==
    ASSUME TypeInv, MapOK, KeepsIfs, KeepsEnds,
           NEW c \in Containers, NEW l \in Links, Covered(c, l),
           wires'[c][l] \in {0, wires[c][l]},
           life'[c] = "live" => life[c] = "live" \/ wires[c][l] = 0,
           \A o \in Objs : wires[c][l] = o => obj'[o].peer = obj[o].peer,
           \A r \in store : r.c = c /\ r.l = l /\ life'[c] = "live"
                            /\ wires'[c][l] # 0 /\ Exists(c, l, r.ifc) => r \in store',
           \A g \in Calls : call[g].at \in Updating /\ About(g, c, l)
               => call'[g].at \in Updating /\ About(g, c, l)'
    PROVE  Covered(c, l)'
<1> SUFFICES ASSUME NEW o \in Objs, wires'[c][l] = o, HostIf(o)', life'[c] = "live"
             PROVE  \/ Rec(c, l, obj'[o].ifc, obj'[o].peer) \in store'
                    \/ \E h \in Calls : About(h, c, l)' /\ call'[h].at \in Updating
  BY DEF Covered
<1>1. o # 0 /\ wires[c][l] = o
  BY DEF Objs
<1>2. o <= nobj /\ obj[o].c = c /\ obj[o].l = l /\ life[c] = "live"
  BY <1>1, MapObj DEF MapOK
<1>3. /\ HostIf(o) /\ Exists(c, l, obj[o].ifc)
      /\ obj'[o].ifc = obj[o].ifc /\ obj'[o].peer = obj[o].peer
  BY <1>1, <1>2, IfsGone DEF KeepsEnds, HostIf
<1>4. CASE \E h \in Calls : About(h, c, l) /\ call[h].at \in Updating
  BY <1>4
<1>5. CASE Rec(c, l, obj[o].ifc, obj[o].peer) \in store
  <2> DEFINE r == Rec(c, l, obj[o].ifc, obj[o].peer)
  <2>1. r.c = c /\ r.l = l /\ r.ifc = obj[o].ifc
    BY DEF Rec
  <2>2. r \in store
    BY <1>5
  <2> HIDE DEF r
  <2>3. r \in store'
    BY <1>1, <1>3, <2>1, <2>2
  <2> QED
    BY <1>3, <2>3 DEF r
<1> QED
  BY <1>1, <1>2, <1>3, <1>4, <1>5 DEF Covered

\* No call comes to file a wire, and no update is left undone.
FilingStays ==
    \A g \in Calls :
        call'[g].at \in Filing \cup {"l_add"} \/ call[g].at \in Updating
            => call'[g] = call[g]

LEMMA FilingOne ==
    ASSUME NEW h \in Calls, OthersStay(h), call'[h].at \notin Filing \cup {"l_add"},
           call[h].at \notin Updating
    PROVE  FilingStays
BY DEF OthersStay, FilingStays

\* Steps that change no wire, add none, and take no record of one that works.
LEMMA CoverSame ==
    ASSUME TypeInv, MapOK, CoverInv, KeepsIfs, FilingStays, KeepsEnds,
           \A o \in Objs : o <= nobj => obj'[o].peer = obj[o].peer,
           \A c \in Containers, l \in Links : wires'[c][l] \in {0, wires[c][l]},
           \A g \in Calls : call[g].at \in Updating =>
               wires'[call[g].c][call[g].l] = wires[call[g].c][call[g].l],
           \A g \in Calls : call[g].at = "r_add" =>
               inpod'[call[g].c][call[g].l] = inpod[call[g].c][call[g].l],
           \A c \in Containers : life'[c] = "live" =>
               life[c] = "live" \/ \A l \in Links : wires[c][l] = 0,
           \A r \in store : life'[r.c] = "live" /\ wires'[r.c][r.l] # 0
               /\ Exists(r.c, r.l, r.ifc) => r \in store'
    PROVE  CoverInv'
<1>1. \A c \in Containers, l \in Links, o \in Objs :
        wires[c][l] = o => obj'[o].peer = obj[o].peer
  BY MapObj DEF Objs
<1>2. ASSUME NEW h \in Calls PROVE Made(h)' /\ Local(h)' /\ Updated(h)'
  <2>1. Made(h) /\ Local(h) /\ Updated(h)
    BY DEF CoverInv
  <2>2. /\ call'[h].at = "r_add" => call'[h] = call[h]
        /\ call'[h].at = "l_add" => call'[h] = call[h]
        /\ call'[h].at \in Updating => call'[h] = call[h]
    BY FilingSteps DEF FilingStays
  <2>3. \A g \in Calls : call'[g].at \in Filing => call'[g] = call[g]
    BY DEF FilingStays
  <2>4. Made(h)'
    BY <2>1, <2>2, MadeKept
  <2>5. Local(h)'
    <3>1. \A c \in Containers, l \in Links : wires[c][l] = 0 =>
            /\ wires'[c][l] = 0
            /\ \A g \in Calls : call'[g].at \in Filing /\ About(g, c, l)'
                  => call[g].at \in Filing /\ About(g, c, l)
      BY <2>3 DEF About
    <3> QED
      BY <2>1, <2>2, <3>1, LocalKept
  <2>6. Updated(h)'
    <3>1. \A c \in Containers, l \in Links :
            call[h].at \in Updating /\ About(h, c, l) =>
                /\ wires'[c][l] = wires[c][l]
                /\ \A o \in Objs : wires[c][l] = o => obj'[o].peer = obj[o].peer
      BY <1>1 DEF About
    <3> QED
      BY <2>1, <2>2, <3>1, UpdatedKept
  <2> QED
    BY <2>4, <2>5, <2>6
<1>3. ASSUME NEW c \in Containers, NEW l \in Links PROVE Covered(c, l)'
  <2>1. Covered(c, l)
    BY DEF CoverInv
  <2>2. life'[c] = "live" => life[c] = "live" \/ wires[c][l] = 0
    OBVIOUS
  <2>3. \A r \in store : r.c = c /\ r.l = l /\ life'[c] = "live"
          /\ wires'[c][l] # 0 /\ Exists(c, l, r.ifc) => r \in store'
    OBVIOUS
  <2>4. \A g \in Calls : call[g].at \in Updating /\ About(g, c, l)
          => call'[g].at \in Updating /\ About(g, c, l)'
    BY DEF FilingStays, About
  <2> QED
    BY <1>1, <2>1, <2>2, <2>3, <2>4, CoveredKept
<1> QED
  BY <1>2, <1>3 DEF CoverInv

\* A wire is added with its record; no update of the wire it replaces is under
\* way, and no plugin waits to file another interface that is there.
LEMMA CoverNew ==
    ASSUME TypeInv, MapOK, CoverInv,
           NEW c \in Containers, NEW l \in Links, NEW i, NEW p,
           NewWire(c, l, i, p), FilingStays, UNCHANGED <<inpod, life>>,
           Exists(c, l, i) =>
               \A g \in Calls : call[g].at \in Updating => ~About(g, c, l),
           \A g \in Calls : call'[g].at = "l_add" /\ About(g, c, l) => ~IfOf(g),
           life[c] = "live" => Rec(c, l, i, p) \in store',
           \A r \in store :
               life[r.c] = "live" /\ ~(r.c = c /\ r.l = l) => r \in store'
    PROVE  CoverInv'
<1>1. /\ nobj' = nobj + 1 /\ nobj' \in Objs /\ nobj' # 0
      /\ \A o \in Objs : o <= nobj => obj'[o] = obj[o]
      /\ obj'[nobj'].c = c /\ obj'[nobj'].l = l
      /\ obj'[nobj'].ifc = i /\ obj'[nobj'].peer = p
      /\ wires'[c][l] = nobj'
      /\ \A d \in Containers, m \in Links :
           ~(d = c /\ m = l) => wires'[d][m] = wires[d][m]
  BY NewFacts DEF Objs
<1>2. KeepsIfs /\ KeepsEnds
  BY <1>1 DEF KeepsIfs, KeepsEnds
<1>3. \A d \in Containers, m \in Links, o \in Objs :
        wires[d][m] = o => obj'[o].peer = obj[o].peer
  <2>1. \A d \in Containers, m \in Links, o \in Objs : wires[d][m] = o => o <= nobj
    BY MapObj DEF Objs
  <2> QED
    BY <1>1, <2>1
<1>4. ASSUME NEW h \in Calls PROVE Made(h)' /\ Local(h)' /\ Updated(h)'
  <2>1. Made(h) /\ Local(h) /\ Updated(h)
    BY DEF CoverInv
  <2>2. /\ call'[h].at = "r_add" => call'[h] = call[h]
        /\ call'[h].at = "l_add" => call'[h] = call[h]
        /\ call'[h].at \in Updating => call'[h] = call[h]
    BY FilingSteps DEF FilingStays
  <2>3. \A g \in Calls : call'[g].at \in Filing => call'[g] = call[g]
    BY DEF FilingStays
  <2>4. Made(h)'
    BY <2>1, <2>2, MadeKept
  <2>5. Local(h)'
    <3>1. CASE call'[h].at = "l_add"
      <4>1. \A d \in Containers, m \in Links :
              call[h].at = "l_add" /\ About(h, d, m) /\ IfOf(h) /\ wires[d][m] = 0 =>
              /\ wires'[d][m] = 0
              /\ \A g \in Calls : call'[g].at \in Filing /\ About(g, d, m)'
                    => call[g].at \in Filing /\ About(g, d, m)
        BY <1>1, <2>3, <3>1 DEF About
      <4> QED
        BY <1>2, <2>1, <2>2, <4>1, LocalKept
    <3>2. CASE call'[h].at # "l_add"
      BY <3>2 DEF Local
    <3> QED
      BY <3>1, <3>2
  <2>6. Updated(h)'
    <3>1. CASE ~(call[h].at \in Updating /\ About(h, c, l))
      <4>1. \A d \in Containers, m \in Links :
              call[h].at \in Updating /\ About(h, d, m) =>
                  /\ wires'[d][m] = wires[d][m]
                  /\ \A o \in Objs : wires[d][m] = o => obj'[o].peer = obj[o].peer
        BY <1>1, <1>3, <3>1
      <4> QED
        BY <1>2, <2>1, <2>2, <4>1, UpdatedKept
    <3>2. CASE call[h].at \in Updating /\ About(h, c, l)
      <4>1. ~Exists(c, l, i)
        BY <3>2
      <4>2. \A o \in Objs : wires'[c][l] = o => ~HostIf(o)'
        BY <1>1, <4>1 DEF HostIf, Exists
      <4>3. call'[h] = call[h]
        BY <3>2 DEF FilingStays
      <4>4. \A d \in Containers, m \in Links : About(h, d, m)' => d = c /\ m = l
        BY <3>2, <4>3 DEF About
      <4> QED
        BY <1>1, <4>2, <4>4 DEF Updated
    <3> QED
      BY <3>1, <3>2
  <2> QED
    BY <2>4, <2>5, <2>6
<1>5. ASSUME NEW d \in Containers, NEW m \in Links PROVE Covered(d, m)'
  <2>1. CASE d = c /\ m = l
    BY <1>1, <2>1 DEF Covered
  <2>2. CASE ~(d = c /\ m = l)
    <3>1. Covered(d, m) /\ wires'[d][m] = wires[d][m]
      BY <1>1, <2>2 DEF CoverInv
    <3>2. \A r \in store : r.c = d /\ r.l = m /\ life'[d] = "live"
            /\ wires'[d][m] # 0 /\ Exists(d, m, r.ifc) => r \in store'
      BY <2>2
    <3>3. \A g \in Calls : call[g].at \in Updating /\ About(g, d, m)
            => call'[g].at \in Updating /\ About(g, d, m)'
      BY DEF FilingStays, About
    <3> QED
      BY <1>2, <1>3, <3>1, <3>2, <3>3, CoveredKept
  <2> QED
    BY <2>1, <2>2
<1> QED
  BY <1>4, <1>5 DEF CoverInv

-----------------------------------------------------------------------------
(* The steps that make, change or record a wire.                            *)

\* A veth pair is made.
LEMMA VethFacts ==
    ASSUME TypeInv, NEW c \in Containers, NEW l \in Links, MakeVeth(c, l)
    PROVE  /\ KeepsIfs /\ inpod'[c][l] = nif + 1
           /\ \A d \in Containers, m \in Links :
                ~(d = c /\ m = l) => inpod'[d][m] = inpod[d][m]
BY DEF MakeVeth, KeepsIfs, TypeInv, HostOK

\* Where there was no interface, this takes that of no call and of no wire.
LEMMA VethKeeps ==
    ASSUME TypeInv, MapOK, CoverInv, NEW c \in Containers, NEW l \in Links,
           MakeVeth(c, l), inpod[c][l] = 0, NEW h \in Calls, OthersStay(h),
           call[h].at \notin Filing, call'[h].at \notin Updating,
           UNCHANGED <<wires, obj, store, life>>
    PROVE  /\ \A g \in Calls : g # h => Made(g)'
           /\ \A g \in Calls : Updated(g)'
           /\ \A d \in Containers, m \in Links : Covered(d, m)'
<1>1. KeepsIfs /\ KeepsEnds
  BY VethFacts DEF KeepsEnds
<1>2. ASSUME NEW g \in Calls, g # h PROVE Made(g)'
  <2>1. Made(g) /\ call'[g] = call[g]
    BY <1>2 DEF CoverInv, OthersStay
  <2>2. CASE call[g].at = "r_add"
    <3>1. call[g].c \in Containers /\ call[g].l \in Links
      BY <2>2, FilingSteps, WireArgs
    <3>2. inpod[call[g].c][call[g].l] # 0
      BY <2>1, <2>2 DEF Made, IfOf, Exists
    <3>3. inpod'[call[g].c][call[g].l] = inpod[call[g].c][call[g].l]
      BY <3>1, <3>2, VethFacts
    <3> QED
      BY <2>1, <3>3, MadeKept
  <2>3. CASE call[g].at # "r_add"
    BY <2>1, <2>3 DEF Made
  <2> QED
    BY <2>2, <2>3
<1>3. ASSUME NEW g \in Calls PROVE Updated(g)'
  <2>1. Updated(g) /\ (call'[g].at \in Updating => call'[g] = call[g])
    BY DEF CoverInv, OthersStay
  <2> QED
    BY <1>1, <2>1, UpdatedKept
<1>4. ASSUME NEW d \in Containers, NEW m \in Links PROVE Covered(d, m)'
  <2>1. Covered(d, m)
    BY DEF CoverInv
  <2>2. \A g \in Calls : call[g].at \in Updating /\ About(g, d, m)
          => call'[g].at \in Updating /\ About(g, d, m)'
    BY FilingSteps DEF OthersStay, About
  <2> QED
    BY <1>1, <2>1, <2>2, CoveredKept
<1> QED
  BY <1>2, <1>3, <1>4

\* The plugin has made an interface.
LEMMA CoverLocalCall ==
    ASSUME TypeInv, MapOK, CoverInv, NEW h \in Calls, NEW c \in Containers,
           NEW l \in Links, NEW p \in PeerIfs, LocalCall(h, c, l, p)
    PROVE  CoverInv'
<1>1. /\ wires[c][l] = 0 /\ inpod[c][l] = 0 /\ MakeVeth(c, l)
      /\ UNCHANGED <<wires, obj, store, life>>
  BY DEF LocalCall, memory
<1>2. /\ call[h].at = "idle" /\ OthersStay(h)
      /\ call'[h].at = "l_add" /\ call'[h].c = c /\ call'[h].l = l
  BY LocalBegins
<1>3. /\ \A g \in Calls : g # h => Made(g)'
      /\ \A g \in Calls : Updated(g)'
      /\ \A d \in Containers, m \in Links : Covered(d, m)'
  BY <1>1, <1>2, FilingSteps, VethKeeps
<1>4. Made(h)'
  BY <1>2 DEF Made
<1>5. ASSUME NEW g \in Calls PROVE Local(g)'
  <2>1. CASE g = h
    <3>1. \A x \in Calls : About(x, c, l)' => call'[x].at \notin Filing
      <4> SUFFICES ASSUME NEW x \in Calls, x # h, About(x, c, l),
                          call[x].at \in Filing
                   PROVE  FALSE
        BY <1>2, FilingSteps DEF OthersStay, About
      <4>1. CASE call[x].at = "r_add"
        BY <1>1, <4>1 DEF CoverInv, Made, IfOf, Exists, About
      <4>2. CASE call[x].at \in Updating
        BY <1>1, <4>2 DEF CoverInv, Updated
      <4> QED
        BY <4>1, <4>2, FilingSteps
    <3>2. \A d \in Containers, m \in Links : About(h, d, m)' => d = c /\ m = l
      BY <1>2 DEF About
    <3> QED
      BY <1>1, <2>1, <3>1, <3>2 DEF Local
  <2>2. CASE g # h
    <3>1. Local(g) /\ KeepsIfs /\ call'[g] = call[g]
      BY <1>1, <1>2, <2>2, VethFacts DEF CoverInv, OthersStay
    <3>2. \A x \in Calls : call'[x].at \in Filing => call'[x] = call[x]
      BY <1>2, FilingSteps DEF OthersStay
    <3> QED
      BY <1>1, <3>1, <3>2, LocalKept DEF About
  <2> QED
    BY <2>1, <2>2
<1> QED
  BY <1>3, <1>4, <1>5 DEF CoverInv

\* The peer's call has made one.
LEMMA CoverMake ==
    ASSUME TypeInv, MapOK, CoverInv, NEW h \in Calls, ~Return(h), RemoteMake(h)
    PROVE  CoverInv'
<1> DEFINE c == call[h].c
           l == call[h].l
<1>1. UNCHANGED <<wires, obj, store, life>> /\ call[h].at = "r_make"
  BY DEF RemoteMake, memory
<1>2. c \in Containers /\ l \in Links
  BY <1>1, WireArgs DEF WireSteps
<1>3. /\ inpod[c][l] = 0 /\ MakeVeth(c, l) /\ OthersStay(h)
      /\ call'[h].at = "r_add" /\ call'[h].ifc = nif + 1
      /\ call'[h].c = c /\ call'[h].l = l
  BY MakesVeth
<1>4. call[h].at \notin Filing /\ call'[h].at \notin Updating
  BY <1>1, <1>3 DEF Filing, Updating
<1>5. Made(h)'
  BY <1>2, <1>3, Counters, VethFacts DEF Made, IfOf, Exists
<1> HIDE DEF c, l
<1>6. /\ \A g \in Calls : g # h => Made(g)'
      /\ \A g \in Calls : Updated(g)'
      /\ \A d \in Containers, m \in Links : Covered(d, m)'
  BY <1>1, <1>2, <1>3, <1>4, VethKeeps
<1>7. ASSUME NEW g \in Calls PROVE Local(g)'
  <2>1. Local(g) /\ KeepsIfs
    BY <1>2, <1>3, VethFacts DEF CoverInv
  <2>2. call'[g].at = "l_add" => call'[g] = call[g]
    BY <1>3 DEF OthersStay
  <2>3. \A d \in Containers, m \in Links :
          About(g, d, m) /\ IfOf(g) => ~(d = c /\ m = l)
    BY <1>3 DEF About, IfOf, Exists
  <2>4. \A x \in Calls : call'[x].at \in Filing =>
          call'[x] = call[x] \/ (call'[x].c = c /\ call'[x].l = l)
    BY <1>3 DEF OthersStay
  <2> QED
    BY <1>1, <2>1, <2>2, <2>3, <2>4, LocalKept DEF About
<1> QED
  BY <1>5, <1>6, <1>7 DEF CoverInv

\* The peer updates a wire. Nobody else is at work on it.
LEMMA CoverUpdate ==
    ASSUME TypeInv, MapOK, CoverInv, NEW h \in Calls,
           NEW c \in Containers, NEW l \in Links, NEW p,
           OthersStay(h), call'[h].c = c, call'[h].l = l, call'[h].at = "r_status",
           wires[c][l] # 0, UpdateWire(wires[c][l], p), call'[h].o = wires[c][l],
           call'[h].ifc = obj[wires[c][l]].ifc, call[h].at = "idle",
           UNCHANGED <<wires, store, inpod, life>>,
           \A g \in Calls : ~(call[g].at \in Filing /\ About(g, c, l))
    PROVE  CoverInv'
<1> DEFINE w == wires[c][l]
<1>1. w \in Objs /\ w <= nobj
  BY MapObj
<1>2. /\ \A o \in Objs : o # w => obj'[o] = obj[o]
      /\ obj'[w].c = obj[w].c /\ obj'[w].l = obj[w].l /\ obj'[w].ifc = obj[w].ifc
  BY <1>1, UpdateSame
<1>3. KeepsIfs /\ KeepsEnds
  BY <1>2 DEF KeepsIfs, KeepsEnds
<1>4. \A d \in Containers, m \in Links, o \in Objs :
        wires[d][m] = o /\ ~(d = c /\ m = l) => o # w
  BY <1>1 DEF MapOK, Objs
<1>5. call'[h].o = w /\ call'[h].ifc = obj'[w].ifc /\ wires'[c][l] = w /\ w # 0
  BY <1>2
<1> HIDE DEF w
<1>6. ASSUME NEW g \in Calls PROVE Made(g)' /\ Local(g)' /\ Updated(g)'
  <2>1. Made(g) /\ Local(g) /\ Updated(g)
    BY DEF CoverInv
  <2>2. /\ call'[g].at = "r_add" => call'[g] = call[g]
        /\ call'[g].at = "l_add" => call'[g] = call[g]
    BY DEF OthersStay
  <2>3. Made(g)'
    BY <2>1, <2>2, MadeKept
  <2>4. Local(g)'
    <3>1. \A d \in Containers, m \in Links : wires[d][m] = 0 =>
            \A x \in Calls : call'[x].at \in Filing /\ About(x, d, m)' =>
                call[x].at \in Filing /\ About(x, d, m)
      BY DEF OthersStay, About
    <3> QED
      BY <1>3, <2>1, <2>2, <3>1, LocalKept
  <2>5. Updated(g)'
    <3>1. CASE g = h
      <4>1. \A d \in Containers, m \in Links : About(h, d, m)' => d = c /\ m = l
        BY DEF About
      <4> QED
        BY <1>5, <3>1, <4>1 DEF Updated
    <3>2. CASE g # h
      <4>1. call'[g] = call[g]
        BY <3>2 DEF OthersStay
      <4>2. \A d \in Containers, m \in Links :
              call[g].at \in Updating /\ About(g, d, m) =>
                  \A o \in Objs : wires[d][m] = o => obj'[o].peer = obj[o].peer
        BY <1>2, <1>4, FilingSteps
      <4> QED
        BY <1>3, <2>1, <4>1, <4>2, UpdatedKept
    <3> QED
      BY <3>1, <3>2
  <2> QED
    BY <2>3, <2>4, <2>5
<1>7. ASSUME NEW d \in Containers, NEW m \in Links PROVE Covered(d, m)'
  <2>1. CASE d = c /\ m = l
    BY <2>1, FilingSteps DEF Covered, About
  <2>2. CASE ~(d = c /\ m = l)
    <3>1. Covered(d, m)
      BY DEF CoverInv
    <3>2. \A o \in Objs : wires[d][m] = o => obj'[o].peer = obj[o].peer
      BY <1>2, <1>4, <2>2
    <3>3. \A g \in Calls : call[g].at \in Updating /\ About(g, d, m)
            => call'[g].at \in Updating /\ About(g, d, m)'
      BY FilingSteps DEF OthersStay, About
    <3> QED
      BY <1>3, <3>1, <3>2, <3>3, CoveredKept
  <2> QED
    BY <2>1, <2>2
<1> QED
  BY <1>6, <1>7 DEF CoverInv

\* It reads what the wire is now ...
LEMMA CoverStatus ==
    ASSUME TypeInv, MapOK, CoverInv, NEW h \in Calls, RemoteStatus(h)
    PROVE  CoverInv'
<1>1. /\ call[h].at = "r_status" /\ UNCHANGED <<wires, obj, store, inpod, life>>
      /\ call'[h].at = "r_store"
      /\ call'[h].c = call[h].c /\ call'[h].l = call[h].l
      /\ call'[h].o = call[h].o /\ call'[h].ifc = call[h].ifc
      /\ call'[h].peer = obj[call[h].o].peer
      /\ OthersStay(h)
  BY ReadsStatus DEF RemoteStatus, memory, host
<1>2. KeepsIfs /\ KeepsEnds
  BY <1>1 DEF KeepsIfs, KeepsEnds
<1>3. ASSUME NEW g \in Calls PROVE Made(g)' /\ Local(g)' /\ Updated(g)'
  <2>1. Made(g) /\ Local(g) /\ Updated(g)
    BY DEF CoverInv
  <2>2. /\ call'[g].at = "r_add" => call'[g] = call[g]
        /\ call'[g].at = "l_add" => call'[g] = call[g]
    BY <1>1 DEF OthersStay
  <2>3. Made(g)'
    BY <1>1, <2>1, <2>2, MadeKept
  <2>4. Local(g)'
    <3>1. \A x \in Calls : call'[x].at \in Filing =>
            call[x].at \in Filing /\ call'[x].c = call[x].c /\ call'[x].l = call[x].l
      BY <1>1, FilingSteps DEF OthersStay
    <3> QED
      BY <1>1, <1>2, <2>1, <2>2, <3>1, LocalKept DEF About
  <2>5. Updated(g)'
    <3>1. CASE g = h
      <4>1. \A o \in Objs : HostIf(o)' => HostIf(o)
        BY <1>1 DEF HostIf, Exists
      <4>2. \A c \in Containers, l \in Links : About(h, c, l)' => About(h, c, l)
        BY <1>1 DEF About
      <4> QED
        BY <1>1, <2>1, <3>1, <4>1, <4>2, FilingSteps DEF Updated
    <3>2. CASE g # h
      BY <1>1, <1>2, <2>1, <3>2, UpdatedKept DEF OthersStay
    <3> QED
      BY <3>1, <3>2
  <2> QED
    BY <2>3, <2>4, <2>5
<1>4. ASSUME NEW c \in Containers, NEW l \in Links PROVE Covered(c, l)'
  <2>1. Covered(c, l)
    BY DEF CoverInv
  <2>2. \A g \in Calls : call[g].at \in Updating /\ About(g, c, l)
          => call'[g].at \in Updating /\ About(g, c, l)'
    BY <1>1, FilingSteps DEF OthersStay, About
  <2> QED
    BY <1>1, <1>2, <2>1, <2>2, CoveredKept
<1> QED
  BY <1>3, <1>4 DEF CoverInv

\* What replaces a record drops none of another container that lives.
LEMMA UpsertKeeps ==
    ASSUME TypeInv, OneByOne, NEW c \in Containers, NEW l, NEW i, NEW p,
           life[c] = "live", store' = Upsert(store, Rec(c, l, i, p))
    PROVE  /\ Rec(c, l, i, p) \in store'
           /\ \A r \in store :
                life[r.c] = "live" /\ ~(r.c = c /\ r.l = l) => r \in store'
<1> DEFINE q == Rec(c, l, i, p)
<1>1. q.c = c /\ q.l = l
  BY DEF Rec
<1>2. q \in store' /\ \A r \in store :
        ~(r.l = q.l /\ PodOf(r.c) = PodOf(q.c)) => r \in store'
  BY DEF Upsert
<1> HIDE DEF q
<1>3. ASSUME NEW r \in store, life[r.c] = "live", ~(r.c = c /\ r.l = l)
      PROVE  r \in store'
  <2>1. r.c \in Containers
    BY DEF TypeInv, StoreOK, RecType
  <2>2. ~(r.l = l /\ PodOf(r.c) = PodOf(c))
    BY <1>3, <2>1, OneLives
  <2> QED
    BY <1>1, <1>2, <2>2
<1> QED
  BY <1>2, <1>3 DEF q

\* ... and what it has read is still so when it is recorded.
LEMMA CoverStore ==
    ASSUME TypeInv, MapOK, OrderInv, CoverInv, NEW h \in Calls, RemoteStore(h)
    PROVE  CoverInv'
<1> DEFINE c == call[h].c
           l == call[h].l
           i == call[h].ifc
           p == call[h].peer
<1>1. /\ call[h].at = "r_store" /\ UNCHANGED <<wires, obj, inpod, life>>
      /\ store' = Upsert(store, Rec(c, l, i, p))
      /\ call'[h].at = "go" /\ OthersStay(h)
  BY GoesOn DEF RemoteStore, memory, host
<1>2. c \in Containers /\ l \in Links /\ life[c] = "live" /\ About(h, c, l)
  BY <1>1, FilingSteps, WireArgs DEF OrderInv, LivingCalls, About
<1>3. \A o \in Objs : wires[c][l] = o /\ HostIf(o) => i = obj[o].ifc /\ p = obj[o].peer
  BY <1>1, <1>2, FilingSteps DEF CoverInv, Updated
<1> HIDE DEF c, l, i, p
<1>4. /\ Rec(c, l, i, p) \in store'
      /\ \A r \in store : life[r.c] = "live" /\ ~(r.c = c /\ r.l = l) => r \in store'
  BY <1>1, <1>2, UpsertKeeps DEF OrderInv
<1>5. KeepsIfs /\ KeepsEnds
  BY <1>1 DEF KeepsIfs, KeepsEnds
<1>6. ASSUME NEW g \in Calls PROVE Made(g)' /\ Local(g)' /\ Updated(g)'
  <2>1. Made(g) /\ Local(g) /\ Updated(g)
    BY DEF CoverInv
  <2>2. /\ call'[g].at = "r_add" => call'[g] = call[g]
        /\ call'[g].at = "l_add" => call'[g] = call[g]
        /\ call'[g].at \in Updating => call'[g] = call[g]
    BY <1>1, FilingSteps DEF OthersStay
  <2>3. Made(g)' /\ Updated(g)'
    BY <1>1, <1>5, <2>1, <2>2, MadeKept, UpdatedKept
  <2>4. \A x \in Calls : call'[x].at \in Filing => call'[x] = call[x]
    BY <1>1, FilingSteps DEF OthersStay
  <2>5. Local(g)'
    BY <1>1, <1>5, <2>1, <2>2, <2>4, LocalKept DEF About
  <2> QED
    BY <2>3, <2>5
<1>7. ASSUME NEW d \in Containers, NEW m \in Links PROVE Covered(d, m)'
  <2>1. CASE d = c /\ m = l
    <3>1. \A o \in Objs : HostIf(o)' => HostIf(o)
      BY <1>1 DEF HostIf, Exists
    <3> QED
      BY <1>1, <1>3, <1>4, <2>1, <3>1 DEF Covered
  <2>2. CASE ~(d = c /\ m = l)
    <3>1. Covered(d, m)
      BY DEF CoverInv
    <3>2. \A r \in store : r.c = d /\ r.l = m /\ life'[d] = "live" => r \in store'
      BY <1>1, <1>4, <2>2
    <3>3. \A g \in Calls : call[g].at \in Updating /\ About(g, d, m)
            => call'[g].at \in Updating /\ About(g, d, m)'
      BY <1>1, <1>2, <2>2 DEF OthersStay, About
    <3> QED
      BY <1>1, <1>5, <3>1, <3>2, <3>3, CoveredKept
  <2> QED
    BY <2>1, <2>2
<1> QED
  BY <1>6, <1>7 DEF CoverInv

\* A wire is entered by the plugin or by the peer.
LEMMA CoverAdd ==
    ASSUME TypeInv, MapOK, OrderInv, CoverInv, NEW h \in Calls,
           call[h].at \in {"l_add", "r_add"}, UNCHANGED <<inpod, life>>,
           AddWireInMemNDataStore(h, call[h].c, call[h].l, call[h].ifc, call[h].peer)
    PROVE  CoverInv'
<1> DEFINE c == call[h].c
           l == call[h].l
           i == call[h].ifc
           p == call[h].peer
<1>1. /\ NewWire(c, l, i, p) /\ store' = Upsert(store, Rec(c, l, i, p))
      /\ call'[h].at = "go" /\ OthersStay(h)
  BY AddsWire DEF AddWireInMemNDataStore
<1>2. c \in Containers /\ l \in Links /\ life[c] = "live" /\ About(h, c, l)
  BY FilingSteps, WireArgs DEF OrderInv, LivingCalls, About
<1>3. FilingStays
  BY <1>1, FilingSteps, FilingOne
<1>4. IfOf(h) <=> Exists(c, l, i)
  BY DEF IfOf
<1> HIDE DEF c, l, i, p
<1>5. ASSUME Exists(c, l, i), NEW g \in Calls, call[g].at \in Updating
      PROVE  ~About(g, c, l)
  <2>1. CASE call[h].at = "l_add"
    BY <1>2, <1>4, <1>5, <2>1, FilingSteps DEF CoverInv, Local
  <2>2. CASE call[h].at = "r_add"
    BY <1>2, <1>5, <2>2, FilingSteps DEF OrderInv, AloneOK, About
  <2> QED
    BY <2>1, <2>2
<1>6. ASSUME NEW g \in Calls, call'[g].at = "l_add", About(g, c, l)
      PROVE  ~IfOf(g)
  <2>1. g # h /\ call[g].at = "l_add"
    BY <1>1, <1>6 DEF OthersStay
  <2>2. CASE call[h].at = "l_add"
    BY <1>2, <1>6, <2>1, <2>2 DEF OrderInv, AloneOK, About
  <2>3. CASE call[h].at = "r_add"
    BY <1>2, <1>6, <2>1, <2>3, FilingSteps DEF CoverInv, Local
  <2> QED
    BY <2>2, <2>3
<1>7. /\ Rec(c, l, i, p) \in store'
      /\ \A r \in store : life[r.c] = "live" /\ ~(r.c = c /\ r.l = l) => r \in store'
  BY <1>1, <1>2, UpsertKeeps DEF OrderInv
<1> QED
  BY <1>1, <1>2, <1>3, <1>5, <1>6, <1>7, CoverNew

-----------------------------------------------------------------------------
(* All steps.                                                               *)

\* Steps that leave map, objects, store and pods alone.
LEMMA CoverIdle ==
    ASSUME TypeInv, MapOK, CoverInv, FilingStays,
           UNCHANGED <<wires, obj, store, inpod, life>>
    PROVE  CoverInv'
<1>1. KeepsIfs /\ KeepsEnds
  BY DEF KeepsIfs, KeepsEnds
<1> QED
  BY <1>1, CoverSame

\* The calls that create and update wires.
LEMMA CoverCreate ==
    ASSUME Orderly, TypeInv, MapOK, OrderInv, CoverInv, NEW h \in Calls, Create(h)
    PROVE  CoverInv'
<1>1. ASSUME NEW c \in Containers, NEW l \in Links, NEW p \in PeerIfs,
             LocalCall(h, c, l, p)
      PROVE  CoverInv'
  BY <1>1, CoverLocalCall
<1>2. ASSUME NEW c \in Containers, NEW l \in Links, NEW p \in PeerIfs,
             RemoteCall(h, c, l, p)
      PROVE  CoverInv'
  <2>1. /\ UNCHANGED <<wires, store, inpod, life>>
        /\ \A g \in Calls :
             ~(call[g].at \in RemoteSteps /\ call[g].c = c /\ call[g].l = l)
    BY <1>2 DEF RemoteCall, InOrder, host
  <2>2. \A g \in Calls : ~(call[g].at \in Filing /\ About(g, c, l))
    BY <2>1 DEF Filing, Updating, RemoteSteps, About
  <2>3. CASE wires[c][l] # 0
    BY <1>2, <2>1, <2>2, <2>3, RemoteBegins, CoverUpdate
  <2>4. CASE wires[c][l] = 0
    <3>1. /\ call'[h].at = "r_clean" /\ call[h].at = "idle" /\ OthersStay(h)
          /\ UNCHANGED obj
      BY <1>2, <2>4, RemoteBegins
    <3>2. FilingStays
      BY <3>1, FilingOne DEF Filing, Updating
    <3> QED
      BY <2>1, <3>1, <3>2, CoverIdle
  <2> QED
    BY <2>3, <2>4
<1>3. CASE LocalAdd(h) \/ RemoteAdd(h)
  <2>1. call[h].at \in {"l_add", "r_add"} /\ UNCHANGED <<inpod, life>>
    BY <1>3 DEF LocalAdd, RemoteAdd, host
  <2>2. CASE AddWireInMemNDataStore(h, call[h].c, call[h].l, call[h].ifc, call[h].peer)
    BY <2>1, <2>2, CoverAdd
  <2>3. CASE Return(h) /\ UNCHANGED <<memory, store>>
    <3>1. FilingStays
      BY <2>1, <2>3, Returns, FilingOne DEF Filing, Updating
    <3> QED
      BY <2>1, <2>3, <3>1, CoverIdle DEF memory
  <2> QED
    BY <1>3, <2>2, <2>3 DEF LocalAdd, RemoteAdd
<1>4. CASE RemoteClean(h) \/ RemoteClassify(h) \/ GoThread(h)
  <2>1. UNCHANGED <<wires, obj, store, inpod, life>>
    BY <1>4 DEF RemoteClean, RemoteClassify, GoThread, memory, host
  <2>2. call[h].at \notin Updating /\ OthersStay(h)
    BY <1>4, CreateFollows DEF RemoteClean, RemoteClassify, GoThread, Updating
  <2>3. call'[h].at \in {"idle", "r_classify", "r_make", "r_remove"}
    <3>1. CASE Return(h)
      BY <3>1, Returns
    <3>2. CASE ~Return(h)
      <4>1. PICK s \in {"r_classify", "r_make", "r_remove"} :
              call' = [call EXCEPT ![h].at = s]
        BY <1>4, <3>2 DEF RemoteClean, RemoteClassify, GoThread
      <4> QED
        BY <4>1, GoesOn
    <3> QED
      BY <3>1, <3>2
  <2>4. call'[h].at \notin Filing \cup {"l_add"}
    BY <2>3 DEF Filing, Updating
  <2> QED
    BY <2>1, <2>2, <2>4, FilingOne, CoverIdle
<1>5. CASE RemoteRemove(h)
  <2>1. /\ UNCHANGED <<wires, obj, store, life>> /\ OthersStay(h)
        /\ call[h].at = "r_remove"
    BY <1>5, CreateFollows DEF RemoteRemove, memory
  <2>2. CASE Return(h) /\ UNCHANGED inpod
    <3>1. FilingStays
      BY <2>1, <2>2, Returns, FilingOne DEF Filing, Updating
    <3> QED
      BY <2>1, <2>2, <3>1, CoverIdle
  <2>3. CASE /\ inpod' = [inpod EXCEPT ![call[h].c][call[h].l] = 0]
             /\ call' = [call EXCEPT ![h].at = "r_make"]
    <3>1. FilingStays
      BY <2>1, <2>3, GoesOn, FilingOne DEF Filing, Updating
    <3>2. KeepsIfs /\ KeepsEnds
      BY <2>1, <2>3 DEF KeepsIfs, KeepsEnds, TypeInv, HostOK
    <3>3. ASSUME NEW g \in Calls, call[g].at = "r_add"
          PROVE  inpod'[call[g].c][call[g].l] = inpod[call[g].c][call[g].l]
      <4>1. call[g].c \in Containers /\ call[g].l \in Links
        BY <3>3, FilingSteps, WireArgs
      <4>2. g # h /\ call[h].at \in Changing /\ call[g].at \in Changing
        BY <2>1, <3>3 DEF Changing, WireSteps
      <4>3. ~(call[g].c = call[h].c /\ call[g].l = call[h].l)
        BY <4>2 DEF OrderInv, AloneOK
      <4> QED
        BY <2>3, <4>1, <4>3 DEF TypeInv, HostOK
    <3> QED
      BY <2>1, <3>1, <3>2, <3>3, CoverSame
  <2> QED
    BY <1>5, <2>2, <2>3 DEF RemoteRemove
<1>6. CASE RemoteMake(h)
  <2>1. CASE Return(h)
    <3>1. UNCHANGED <<wires, obj, store, life>> /\ call[h].at = "r_make"
      BY <1>6 DEF RemoteMake, memory
    <3>2. call'[h].at = "idle" /\ OthersStay(h)
      BY <2>1, Returns
    <3>3. UNCHANGED inpod
      <4>1. CASE UNCHANGED host
        BY <4>1 DEF host
      <4>2. CASE call' = [call EXCEPT ![h].at = "r_add", ![h].ifc = nif + 1]
        <5> DEFINE k == [call[h] EXCEPT !.at = "r_add", !.ifc = nif + 1]
        <5>1. call[h] \in CallType /\ call' = [call EXCEPT ![h] = k]
          BY <4>2 DEF TypeInv, CallsOK
        <5>2. k.at = "r_add"
          BY <5>1 DEF CallType
        <5> HIDE DEF k
        <5>3. call'[h].at = "r_add"
          BY <5>1, <5>2, SetsOne
        <5> QED
          BY <3>2, <5>3
      <4> QED
        BY <1>6, <4>1, <4>2 DEF RemoteMake
    <3>4. FilingStays
      BY <3>1, <3>2, FilingOne DEF Filing, Updating
    <3> QED
      BY <3>1, <3>3, <3>4, CoverIdle
  <2>2. CASE ~Return(h)
    BY <1>6, <2>2, CoverMake
  <2> QED
    BY <2>1, <2>2
<1> QED
  BY <1>1, <1>2, <1>3, <1>4, <1>5, <1>6, CoverStatus, CoverStore DEF Create

\* While a container is being deleted, no container of its pod lives.
LEMMA NoneLives ==
    ASSUME TypeInv, OrderInv, NEW h \in Calls, call[h].at \in DelSteps,
           NEW c \in Containers, PodOf(c) = PodOf(call[h].c)
    PROVE  life[c] # "live"
<1>1. call[h].c \in Containers /\ life[call[h].c] = "deleting"
  BY DEF TypeInv, CallsOK, CallFine, OrderInv, LivingCalls
<1> QED
  BY <1>1, OneLives DEF OrderInv

\* The DEL of a pod: what it takes belongs to no container that lives.
LEMMA CoverDelete ==
    ASSUME TypeInv, MapOK, OrderInv, EndsInv, CoverInv, NEW h \in Calls, Delete(h)
    PROVE  CoverInv'
<1>1. ASSUME NEW g \in Calls, call[g].at \in Filing
      PROVE  call[g].c \in Containers /\ call[g].l \in Links /\ life[call[g].c] = "live"
  BY <1>1, FilingSteps, WireArgs DEF OrderInv, LivingCalls
<1>2. ASSUME OthersStay(h), call[h].at \in DelSteps \cup {"idle"},
             call'[h].at \in DelSteps \cup {"idle"}
      PROVE  FilingStays
  BY <1>2, FilingOne DEF Filing, Updating, DelSteps
<1>3. UNCHANGED inpod => KeepsIfs
  BY DEF KeepsIfs
<1>4. ASSUME NEW c \in Containers, DeleteCall(h, c) PROVE CoverInv'
  <2>1. /\ UNCHANGED <<wires, obj, store, inpod>>
        /\ life' = [life EXCEPT ![c] = "deleting"]
    BY <1>4 DEF DeleteCall, memory, host
  <2>2. FilingStays
    BY <1>2, <1>4, DeleteBegins DEF DelSteps
  <2>3. \A d \in Containers : life'[d] = "live" => life[d] = "live"
    BY <2>1 DEF TypeInv, HostOK
  <2>4. KeepsEnds
    BY <2>1 DEF KeepsEnds
  <2> QED
    BY <1>3, <2>1, <2>2, <2>3, <2>4, CoverSame
<1>5. CASE ExtractOneWireByPod(h)
  <2>1. PICK c \in Containers, l \in Links :
          /\ PodWire(PodOf(call[h].c), c, l)
          /\ wires' = [wires EXCEPT ![c][l] = 0]
          /\ call[h].at = "d_next" /\ call'[h].at = "d_stop"
          /\ OthersStay(h)
    BY <1>5, Extracts
  <2>2. UNCHANGED <<obj, store, inpod, life>>
    BY <1>5 DEF ExtractOneWireByPod, host
  <2>3. call[h].at \in DelSteps /\ call'[h].at \in DelSteps
    BY <2>1 DEF DelSteps
  <2>4. FilingStays /\ KeepsIfs /\ KeepsEnds
    BY <1>2, <1>3, <2>1, <2>2, <2>3 DEF KeepsEnds
  <2>5. \A d \in Containers, m \in Links :
          /\ wires'[d][m] \in {0, wires[d][m]}
          /\ d # c => wires'[d][m] = wires[d][m]
    BY <2>1 DEF TypeInv, MemoryOK
  <2>6. life[c] # "live"
    BY <2>1, <2>3, NoneLives DEF PodWire
  <2>7. ASSUME NEW g \in Calls, call[g].at \in Updating
        PROVE  wires'[call[g].c][call[g].l] = wires[call[g].c][call[g].l]
    BY <1>1, <2>5, <2>6, <2>7, FilingSteps
  <2> QED
    BY <2>2, <2>4, <2>5, <2>7, CoverSame
<1>6. CASE DelStop(h) \/ DelClose(h) \/ DelVeth(h) \/ DelUnstore(h)
  <2> DEFINE x == call[h].o
  <2>1. /\ UNCHANGED <<wires, life>> /\ OthersStay(h)
        /\ call[h].at \in HeldSteps /\ call[h].at \in DelSteps
    BY <1>6, StepKinds, DeleteFollows
  <2>2. x \in Objs /\ x <= nobj /\ obj[x].c \in Containers /\ obj[x].l \in Links
    BY <2>1, HeldObj DEF TypeInv, MemoryOK, ObjMade
  <2>3. PodOf(obj[x].c) = PodOf(call[h].c)
    BY <2>1 DEF EndsInv, CallEnds
  <2>4. life[obj[x].c] # "live"
    BY <2>1, <2>2, <2>3, NoneLives
  <2>5. FilingStays
    <3>1. call'[h].at \in DelSteps \cup {"idle"}
      BY <1>6, <2>1, StepKinds, DeleteFollows DEF Follows
    <3> QED
      BY <1>2, <2>1, <3>1
  <2>6. KeepsEnds /\ \A o \in Objs : o <= nobj => obj'[o].peer = obj[o].peer
    <3>1. CASE DelClose(h)
      BY <2>2, <3>1, DownSame DEF DelClose, KeepsEnds, SameEnds
    <3>2. CASE DelStop(h) \/ DelVeth(h) \/ DelUnstore(h)
      BY <3>2 DEF DelStop, DelVeth, DelUnstore, memory, KeepsEnds
    <3> QED
      BY <1>6, <3>1, <3>2
  <2>7. /\ KeepsIfs
        /\ \A d \in Containers, m \in Links :
             d # obj[x].c => inpod'[d][m] = inpod[d][m]
    <3>1. CASE UNCHANGED inpod
      BY <1>3, <3>1
    <3>2. CASE inpod' = [inpod EXCEPT ![obj[x].c][obj[x].l] = 0]
      BY <2>2, <3>2 DEF KeepsIfs, TypeInv, HostOK
    <3> QED
      BY <1>6, <3>1, <3>2 DEF DelStop, DelClose, DelVeth, DelUnstore, host
  <2>8. ASSUME NEW g \in Calls, call[g].at = "r_add"
        PROVE  inpod'[call[g].c][call[g].l] = inpod[call[g].c][call[g].l]
    BY <1>1, <2>4, <2>7, <2>8, FilingSteps
  <2>9. ASSUME NEW r \in store, life'[r.c] = "live" PROVE r \in store'
    <3>1. CASE UNCHANGED store
      BY <3>1
    <3>2. CASE store' = DropLink(store, obj[x].l)
      <4>1. r.c \in Containers /\ EndOf[r.l] = PodOf(r.c)
        BY DEF TypeInv, StoreOK, RecType, EndsInv, StoreEnds
      <4>2. EndOf[obj[x].l] = PodOf(call[h].c)
        BY <2>2, <2>3 DEF EndsInv, ObjEnds
      <4>3. r.l # obj[x].l
        BY <2>1, <2>9, <4>1, <4>2, NoneLives
      <4> QED
        BY <3>2, <4>3 DEF DropLink
    <3> QED
      BY <1>6, <3>1, <3>2 DEF DelStop, DelClose, DelVeth, DelUnstore
  <2> HIDE DEF x
  <2> QED
    BY <2>1, <2>5, <2>6, <2>7, <2>8, <2>9, CoverSame
<1>7. CASE DelByPod(h)
  <2>1. /\ call[h].at = "d_next" /\ UNCHANGED <<wires, obj, inpod>>
        /\ life' = [life EXCEPT ![call[h].c] = "deleted"]
        /\ store' = DropPod(store, PodOf(call[h].c))
        /\ call'[h].at = "idle" /\ OthersStay(h)
    BY <1>7, Returns DEF DelByPod, memory, host
  <2>2. call[h].at \in DelSteps
    BY <2>1 DEF DelSteps
  <2>3. \A d \in Containers : life'[d] = "live" => life[d] = "live"
    BY <2>1 DEF TypeInv, HostOK
  <2>4. FilingStays /\ KeepsIfs /\ KeepsEnds
    BY <1>2, <1>3, <2>1, <2>2 DEF KeepsEnds
  <2>5. ASSUME NEW r \in store, life'[r.c] = "live" PROVE r \in store'
    <3>1. r.c \in Containers
      BY DEF TypeInv, StoreOK, RecType
    <3>2. PodOf(r.c) # PodOf(call[h].c)
      BY <2>2, <2>3, <2>5, <3>1, NoneLives
    <3> QED
      BY <2>1, <3>2 DEF DropPod
  <2> QED
    BY <2>1, <2>3, <2>4, <2>5, CoverSame
<1> QED
  BY <1>4, <1>5, <1>6, <1>7 DEF Delete

\* Pods, downs, threads, crash and restart.
LEMMA CoverOthers ==
    ASSUME TypeInv, MapOK, OrderInv, EndsInv, CoverInv,
           \/ \E c \in Containers : Pod(c)
           \/ \E c \in Containers, l \in Links : GRPCWireDownRemote(c, l)
           \/ \E o \in Objs, g \in Gens : Forward(o, g)
           \/ Crash \/ Recon \/ UNCHANGED vars
    PROVE  CoverInv'
<1>1. UNCHANGED call => FilingStays
  BY DEF FilingStays
<1>2. UNCHANGED inpod => KeepsIfs
  BY DEF KeepsIfs
<1>3. UNCHANGED obj => KeepsEnds
  BY DEF KeepsEnds
<1>4. ASSUME NEW c \in Containers, StartPod(c) PROVE CoverInv'
  <2>1. /\ UNCHANGED <<wires, obj, call, store, inpod>>
        /\ life[c] = "new" /\ life' = [life EXCEPT ![c] = "live"]
    BY <1>4 DEF StartPod, memory, host
  <2>2. \A l \in Links : wires[c][l] = 0
    BY <2>1 DEF EndsInv, NewOK
  <2>3. \A d \in Containers : life'[d] = "live" => life[d] = "live" \/ d = c
    BY <2>1 DEF TypeInv, HostOK
  <2> QED
    BY <1>1, <1>2, <1>3, <2>1, <2>2, <2>3, CoverSame
<1>5. ASSUME NEW c \in Containers, RemoveSandbox(c) PROVE CoverInv'
  <2>1. /\ UNCHANGED <<wires, obj, call, store>>
        /\ life[c] = "deleted" /\ life' = [life EXCEPT ![c] = "gone"]
        /\ inpod' = [inpod EXCEPT ![c] = [l \in Links |-> 0]]
    BY <1>5 DEF RemoveSandbox, memory
  <2>2. \A d \in Containers : life'[d] = "live" => life[d] = "live"
    BY <2>1 DEF TypeInv, HostOK
  <2>3. /\ KeepsIfs
        /\ \A d \in Containers, m \in Links : d # c => inpod'[d][m] = inpod[d][m]
    BY <2>1 DEF KeepsIfs, TypeInv, HostOK
  <2>4. ASSUME NEW g \in Calls, call[g].at = "r_add"
        PROVE  inpod'[call[g].c][call[g].l] = inpod[call[g].c][call[g].l]
    <3>1. call[g].c \in Containers /\ call[g].l \in Links /\ life[call[g].c] = "live"
      BY <2>4, FilingSteps, WireArgs DEF OrderInv, LivingCalls
    <3> QED
      BY <2>1, <2>3, <3>1
  <2> QED
    BY <1>1, <1>3, <2>1, <2>2, <2>3, <2>4, CoverSame
<1>6. ASSUME NEW c \in Containers, NEW l \in Links, GRPCWireDownRemote(c, l)
      PROVE  CoverInv'
  <2>1. /\ wires[c][l] # 0 /\ obj' = [obj EXCEPT ![wires[c][l]].ready = FALSE]
        /\ UNCHANGED <<wires, nobj, call, store, inpod, life>>
    BY <1>6 DEF GRPCWireDownRemote, WireDown, host
  <2>2. KeepsEnds /\ \A o \in Objs : o <= nobj => obj'[o].peer = obj[o].peer
    BY <2>1, MapObj, DownSame DEF SameEnds, KeepsEnds
  <2> QED
    BY <1>1, <1>2, <2>1, <2>2, CoverSame
<1>7. ASSUME NEW o \in Objs, NEW g \in Gens, Forward(o, g) PROVE CoverInv'
  <2>1. UNCHANGED <<wires, obj, call, store, inpod, life>>
    BY <1>7 DEF Forward, ThreadWait, ThreadRun, ThreadPacket, ThreadSent, ThreadStop,
                Thread, host
  <2> QED
    BY <1>1, <2>1, CoverIdle
<1>8. CASE Restart \/ Serve \/ UNCHANGED vars
  <2>1. UNCHANGED <<wires, obj, call, store, inpod, life>>
    BY <1>8 DEF Restart, Serve, vars, memory, host
  <2> QED
    BY <1>1, <2>1, CoverIdle
<1>9. CASE Crash
  <2>1. /\ \A h \in Calls : call'[h].at = "idle"
        /\ \A c \in Containers, l \in Links : wires'[c][l] = 0
    BY <1>9 DEF Crash, Idle, NoWires
  <2>2. \A h \in Calls : Made(h)' /\ Local(h)' /\ Updated(h)'
    BY <2>1, FilingSteps DEF Made, Local, Updated
  <2>3. \A c \in Containers, l \in Links : Covered(c, l)'
    BY <2>1 DEF Covered, Objs
  <2> QED
    BY <2>2, <2>3 DEF CoverInv
<1>10. ASSUME NEW r \in todo, ReCreateGWire(r) PROVE CoverInv'
  <2>1. /\ phase = "recon" /\ UNCHANGED <<call, life, inpod>>
        /\ r \in store /\ r \in RecType
    BY <1>10 DEF ReCreateGWire, EndsInv, TodoOK, TypeInv, StoreOK, host
  <2>2. /\ r.c \in Containers /\ r.l \in Links
        /\ Rec(r.c, r.l, r.ifc, r.peer) = r
    BY <2>1 DEF RecType, Rec
  <2>3. \A g \in Calls : call[g].at = "idle"
    BY <2>1 DEF OrderInv, DownIsIdle
  <2>4. CASE NewWire(r.c, r.l, r.ifc, r.peer) /\ UNCHANGED store
    BY <1>1, <2>1, <2>2, <2>3, <2>4, FilingSteps, CoverNew
  <2>5. CASE /\ ~Exists(r.c, r.l, r.ifc) /\ store' = DropLink(store, r.l)
             /\ UNCHANGED memory
    <3>1. UNCHANGED <<wires, obj>>
      BY <2>5 DEF memory
    <3>2. ASSUME NEW q \in store, Exists(q.c, q.l, q.ifc) PROVE q \in store'
      <4>1. q.l # r.l
        BY <2>1, <2>5, <3>2 DEF EndsInv, OneRecord
      <4> QED
        BY <2>5, <4>1 DEF DropLink
    <3> QED
      BY <1>1, <1>2, <1>3, <2>1, <3>1, <3>2, CoverSame
  <2> QED
    BY <1>10, <2>4, <2>5 DEF ReCreateGWire
<1> QED
  BY <1>4, <1>5, <1>6, <1>7, <1>8, <1>9, <1>10 DEF Pod, Recon

LEMMA CoverStep ==
    ASSUME Orderly, TypeInv, StopInv, OrderInv, EndsInv, CoverInv, [Next]_vars
    PROVE  CoverInv'
BY CoverCreate, CoverDelete, CoverOthers DEF Next, StopInv

-----------------------------------------------------------------------------
(* The theorem.                                                             *)

RecordInv == OrderInv /\ EndsInv /\ CoverInv

LEMMA InitRecord == Init => RecordInv
<1> SUFFICES ASSUME Init PROVE RecordInv
  OBVIOUS
<1>1. /\ phase = "serving" /\ nobj = 0 /\ store = {} /\ todo = {}
      /\ \A c \in Containers, l \in Links : wires[c][l] = 0
      /\ \A c \in Containers : life[c] = "new"
      /\ \A h \in Calls : call[h].at = "idle"
  BY DEF Init, NoWires, Idle
<1>2. OrderInv
  <2>1. DownIsIdle /\ OneByOne
    BY <1>1 DEF DownIsIdle, OneByOne
  <2>2. LivingCalls /\ AloneOK
    BY <1>1, StepKinds DEF LivingCalls, AloneOK
  <2> QED
    BY <2>1, <2>2 DEF OrderInv
<1>3. EndsInv
  <2>1. ObjEnds /\ StoreEnds /\ OneRecord /\ TodoOK /\ NewOK
    BY <1>1 DEF ObjEnds, StoreEnds, OneRecord, TodoOK, NewOK, Objs
  <2>2. CallEnds
    BY <1>1, StepKinds DEF CallEnds
  <2> QED
    BY <2>1, <2>2 DEF EndsInv
<1>4. CoverInv
  <2>1. \A h \in Calls : Made(h) /\ Local(h) /\ Updated(h)
    BY <1>1, FilingSteps DEF Made, Local, Updated
  <2>2. \A c \in Containers, l \in Links : Covered(c, l)
    BY <1>1 DEF Covered, Objs
  <2> QED
    BY <2>1, <2>2 DEF CoverInv
<1> QED
  BY <1>2, <1>3, <1>4 DEF RecordInv

LEMMA NextRecord ==
    ASSUME Orderly
    PROVE  TypeInv /\ StopInv /\ RecordInv /\ [Next]_vars => RecordInv'
BY OrderStep, EndsStep, CoverStep DEF RecordInv

\* No update is under way where no goroutine is at work.
LEMMA RecordCovers == TypeInv /\ RecordInv => RecordsCover
<1> SUFFICES ASSUME TypeInv, RecordInv, NEW c \in Containers, NEW l \in Links,
                    wires[c][l] # 0, HostIf(wires[c][l]), Quiet(c, l)
             PROVE  Rec(c, l, obj[wires[c][l]].ifc, obj[wires[c][l]].peer) \in store
  BY DEF RecordsCover
<1>1. wires[c][l] \in Objs /\ life[c] = "live"
  BY MapObj DEF Quiet
<1>2. \A h \in Calls : ~About(h, c, l)
  BY DEF Quiet, About
<1> QED
  BY <1>1, <1>2 DEF RecordInv, CoverInv, Covered

\* A crash loses no wire and misdirects none: whatever the interleaving of
\* plugins, peers, deletions, downs and restarts, a wire that works is on record
\* with the peer interface it has, once no call is at work on it. This is so
\* although AddGRPCWireRemote reads the updated wire and writes its record
\* outside the lock, RemoveWireAcrosAll drops records by link id alone, and
\* ensureNoStaleRemoteEnd may remove the interface of a plugin. It takes that
\* the peer's calls for a wire come one after the other, and before the DEL.
THEOREM RecordsCoverHolds ==
    ASSUME Orderly
    PROVE  Spec => []RecordsCover
<1>1. Init => RecordInv
  BY InitRecord
<1>2. TypeInv /\ StopInv /\ RecordInv /\ [Next]_vars => RecordInv'
  BY NextRecord
<1>3. Spec => []RecordInv
  BY <1>1, <1>2, TypeInvAlways, StopInvAlways, PTL DEF Spec
<1> QED
  BY <1>3, TypeInvAlways, RecordCovers, PTL
=============================================================================

--------------------------- MODULE GRPCWireProofs ---------------------------
(***************************************************************************)
(* Proofs about GRPCWire, for every set of pods, links and goroutines and  *)
(* every bound: the types, that no stop channel is closed twice, and that  *)
(* a wire that is ready has a thread.                                      *)
(***************************************************************************)
EXTENDS GRPCWire, TLAPS

\* Which fields of a call mean something at which step.
WireSteps == {"l_add", "r_clean", "r_classify", "r_remove", "r_make", "r_add",
              "r_status", "r_store"}
GoSteps   == {"r_status", "r_store", "go"}
HeldSteps == {"d_stop", "d_close", "d_veth", "d_unstore"}

CallFine(k, no, ni) ==
    /\ k \in CallType
    /\ k.o <= no /\ k.ifc <= ni
    /\ k.at \in WireSteps => k.c \in Containers /\ k.l \in Links /\ k.peer \in PeerIfs
    /\ k.at \in DelSteps => k.c \in Containers
    /\ k.at \in GoSteps => k.o # 0 /\ k.n # 0
    /\ k.at \in HeldSteps => k.o # 0

CallsOK ==
    /\ call \in [Calls -> CallType]
    /\ \A h \in Calls : CallFine(call[h], nobj, nif)

\* An object that was allocated has its fields set.
ObjMade(w) == w.gen # 0 /\ w.l \in Links /\ w.c \in Containers /\ w.peer \in PeerIfs

MemoryOK ==
    /\ wires \in [Containers -> [Links -> 0..nobj]]
    /\ obj \in [Objs -> ObjType]
    /\ nobj \in 0..MaxWires
    /\ closed \subseteq Objs \X Gens
    /\ panic \in BOOLEAN
    /\ thr \in [Objs -> [Gens -> ThrType]]
    /\ \A o \in Objs : obj[o].ifc <= nif
    /\ \A o \in Objs : o <= nobj => ObjMade(obj[o])

StoreOK ==
    /\ store \subseteq RecType /\ todo \subseteq RecType
    /\ \A r \in store \cup todo : r.ifc <= nif

HostOK ==
    /\ nif \in 0..MaxIfs
    /\ inpod \in [Containers -> [Links -> 0..nif]]
    /\ life \in [Containers -> {"new", "live", "deleting", "deleted", "gone"}]
    /\ phase \in {"down", "recon", "serving"}
    /\ crashes \in 0..MaxCrashes

\* The inductive form of TypeOK.
TypeInv == CallsOK /\ MemoryOK /\ StoreOK /\ HostOK

\* TypeInv implies the type invariant.
LEMMA TypeInvOK == TypeInv => TypeOK
BY DEF TypeInv, CallsOK, CallFine, MemoryOK, StoreOK, HostOK, TypeOK

-----------------------------------------------------------------------------
\* An idle call is well formed.
LEMMA IdleFine == ASSUME NEW no \in Nat, NEW ni \in Nat PROVE CallFine(Idle, no, ni)
BY GRPCWireAssumption
   DEF CallFine, Idle, CallType, CallSteps, WireSteps, DelSteps, GoSteps, HeldSteps

\* It has the type of a call.
LEMMA IdleTyped == Idle \in CallType
BY GRPCWireAssumption DEF Idle, CallType, CallSteps

\* A call stays well formed when objects and interfaces are added.
LEMMA FineGrows ==
    ASSUME NEW no \in Nat, NEW ni \in Nat, NEW mo \in Nat, NEW mi \in Nat,
           no <= mo, ni <= mi, NEW k, CallFine(k, no, ni)
    PROVE  CallFine(k, mo, mi)
BY GRPCWireAssumption DEF CallFine, CallType

\* Setting one call to a well-formed one keeps them all so.
LEMMA SetCall ==
    ASSUME TypeInv, NEW h \in Calls, NEW k, call' = [call EXCEPT ![h] = k],
           nobj' \in Nat, nif' \in Nat, nobj <= nobj', nif <= nif',
           CallFine(k, nobj', nif')
    PROVE  CallsOK'
<1>1. nobj \in Nat /\ nif \in Nat
  BY GRPCWireAssumption DEF TypeInv, MemoryOK, HostOK
<1>2. call' \in [Calls -> CallType]
  BY DEF TypeInv, CallsOK, CallFine
<1>3. ASSUME NEW g \in Calls PROVE CallFine(call'[g], nobj', nif')
  <2>1. CASE g = h
    BY <2>1 DEF TypeInv, CallsOK
  <2>2. CASE g # h
    <3>1. call'[g] = call[g] /\ CallFine(call[g], nobj, nif)
      BY <2>2 DEF TypeInv, CallsOK
    <3> QED
      BY <1>1, <3>1, FineGrows
  <2> QED
    BY <2>1, <2>2
<1> QED
  BY <1>2, <1>3 DEF CallsOK

\* A call that ends is idle, and leaves the others alone.
LEMMA ReturnOK ==
    ASSUME TypeInv, NEW h \in Calls, Return(h), UNCHANGED <<nobj, nif>>
    PROVE  CallsOK'
<1>1. nobj \in Nat /\ nif \in Nat
  BY GRPCWireAssumption DEF TypeInv, MemoryOK, HostOK
<1>2. CallFine(Idle, nobj', nif')
  BY <1>1, IdleFine
<1>3. nobj' \in Nat /\ nif' \in Nat /\ nobj <= nobj' /\ nif <= nif'
  BY <1>1
<1>4. call' = [call EXCEPT ![h] = Idle]
  BY DEF Return
<1> QED
  BY <1>2, <1>3, <1>4, SetCall

\* A call that goes on to another step, keeping its arguments.
LEMMA StepOK ==
    ASSUME TypeInv, NEW h \in Calls, NEW s \in CallSteps,
           call' = [call EXCEPT ![h].at = s], UNCHANGED <<nobj, nif>>,
           s \in WireSteps => call[h].at \in WireSteps,
           s \in DelSteps  => call[h].at \in DelSteps,
           s \in GoSteps   => call[h].at \in GoSteps,
           s \in HeldSteps => call[h].at \in HeldSteps
    PROVE  CallsOK'
<1> DEFINE k == [call[h] EXCEPT !.at = s]
<1>1. nobj \in Nat /\ nif \in Nat
  BY GRPCWireAssumption DEF TypeInv, MemoryOK, HostOK
<1>2. call[h] \in CallType /\ CallFine(call[h], nobj, nif)
  BY DEF TypeInv, CallsOK
<1>3. call' = [call EXCEPT ![h] = k]
  BY DEF TypeInv, CallsOK
<1>4. k \in CallType
  BY <1>2 DEF CallType
<1>5. CallFine(k, nobj', nif')
  BY <1>2, <1>4 DEF CallFine, CallType
<1>6. nobj' \in Nat /\ nif' \in Nat /\ nobj <= nobj' /\ nif <= nif'
  BY <1>1
<1> HIDE DEF k
<1> QED
  BY <1>3, <1>5, <1>6, SetCall

\* The counters are natural numbers.
LEMMA Counters == TypeInv => nobj \in Nat /\ nif \in Nat
BY GRPCWireAssumption DEF TypeInv, MemoryOK, HostOK

\* Making a veth uses up one interface number.
LEMMA MakeVethOK ==
    ASSUME TypeInv, NEW c \in Containers, NEW l \in Links, MakeVeth(c, l)
    PROVE  /\ nif' = nif + 1 /\ nif' \in 0..MaxIfs /\ nif' \in Nat /\ nif <= nif'
           /\ inpod' \in [Containers -> [Links -> 0..nif']]
<1>1. nif \in Nat /\ nif < MaxIfs /\ nif' = nif + 1 /\ MaxIfs \in Nat
  BY Counters, GRPCWireAssumption DEF MakeVeth
<1>2. nif + 1 \in 0..nif' /\ 0..nif \subseteq 0..nif'
  BY <1>1
<1>3. inpod \in [Containers -> [Links -> 0..nif']]
  <2>1. inpod \in [Containers -> [Links -> 0..nif]]
    BY DEF TypeInv, HostOK
  <2> QED
    BY <1>2, <2>1
<1>4. [inpod EXCEPT ![c][l] = nif + 1] \in [Containers -> [Links -> 0..nif']]
  BY <1>2, <1>3
<1> QED
  BY <1>1, <1>4 DEF MakeVeth

\* More interfaces keep the wire objects and the records in range.
LEMMA RangeGrows ==
    ASSUME TypeInv, nif' \in Nat, nif <= nif'
    PROVE  /\ UNCHANGED memory => MemoryOK'
           /\ UNCHANGED <<store, todo>> => StoreOK'
<1>1. nif \in Nat /\ \A o \in Objs : obj[o].ifc \in Nat
  BY Counters, GRPCWireAssumption DEF TypeInv, MemoryOK, ObjType
<1>2. \A r \in store \cup todo : r.ifc \in Nat
  BY GRPCWireAssumption DEF TypeInv, StoreOK, RecType
<1>3. ASSUME UNCHANGED memory PROVE MemoryOK'
  BY <1>1, <1>3 DEF TypeInv, MemoryOK, memory
<1>4. ASSUME UNCHANGED <<store, todo>> PROVE StoreOK'
  BY <1>2, <1>1, <1>4 DEF TypeInv, StoreOK
<1> QED
  BY <1>3, <1>4

\* Writing a record, and removing records, keeps the store typed.
LEMMA UpsertOK ==
    ASSUME StoreOK, NEW r \in RecType, r.ifc <= nif
    PROVE  /\ Upsert(store, r) \subseteq RecType
           /\ \A q \in Upsert(store, r) : q.ifc <= nif
BY DEF StoreOK, Upsert

\* A new wire object is typed, and so are the map and the others.
LEMMA NewWireOK ==
    ASSUME TypeInv, NEW c \in Containers, NEW l \in Links, NEW i \in 0..MaxIfs,
           i <= nif, NEW p \in PeerIfs, NewWire(c, l, i, p),
           UNCHANGED <<closed, panic, nif>>,
           thr' \in [Objs -> [Gens -> ThrType]]
    PROVE  /\ MemoryOK'
           /\ nobj' = nobj + 1 /\ nobj' \in Objs
<1> DEFINE w == [c |-> c, l |-> l, ifc |-> i, peer |-> p, ready |-> TRUE, gen |-> 1]
<1>1. nobj \in Nat /\ nobj' = nobj + 1 /\ nobj' \in Objs /\ nobj' \in 0..MaxWires
  BY Counters, GRPCWireAssumption DEF NewWire, Objs
<1>2. w \in ObjType
  BY GRPCWireAssumption DEF ObjType
<1>3. obj' = [obj EXCEPT ![nobj'] = w] /\ wires' = [wires EXCEPT ![c][l] = nobj']
  BY <1>1 DEF NewWire
<1>4. obj' \in [Objs -> ObjType]
  BY <1>2, <1>3 DEF TypeInv, MemoryOK
<1>5. wires' \in [Containers -> [Links -> 0..nobj']]
  <2>1. nobj' \in 0..nobj' /\ 0..nobj \subseteq 0..nobj'
    BY <1>1
  <2>2. wires \in [Containers -> [Links -> 0..nobj]]
    BY DEF TypeInv, MemoryOK
  <2>3. wires \in [Containers -> [Links -> 0..nobj']]
    BY <2>1, <2>2
  <2> QED
    BY <1>3, <2>1, <2>3
<1>6. \A o \in Objs : obj'[o].ifc <= nif'
  BY <1>1, <1>3 DEF TypeInv, MemoryOK
<1>7. ASSUME NEW o \in Objs, o <= nobj'
      PROVE  ObjMade(obj'[o])
  <2>1. CASE o = nobj'
    BY <1>1, <1>3, <2>1 DEF TypeInv, MemoryOK, ObjMade
  <2>2. CASE o # nobj'
    <3>1. o <= nobj /\ obj'[o] = obj[o]
      BY <1>1, <1>3, <1>7, <2>2 DEF Objs, TypeInv, MemoryOK
    <3> QED
      BY <3>1 DEF TypeInv, MemoryOK
  <2> QED
    BY <2>1, <2>2
<1> QED
  BY <1>1, <1>4, <1>5, <1>6, <1>7 DEF TypeInv, MemoryOK

\* So is everything that AddWireInMemNDataStore changes.
LEMMA AddWireOK ==
    ASSUME TypeInv, NEW h \in Calls, NEW c \in Containers, NEW l \in Links,
           NEW i \in 0..MaxIfs, i <= nif, NEW p \in PeerIfs,
           AddWireInMemNDataStore(h, c, l, i, p), UNCHANGED <<todo, nif>>
    PROVE  CallsOK' /\ MemoryOK' /\ StoreOK'
<1>1. MemoryOK' /\ nobj' = nobj + 1 /\ nobj' \in Objs
  BY NewWireOK DEF AddWireInMemNDataStore, TypeInv, MemoryOK
<1>2. StoreOK'
  <2>1. Rec(c, l, i, p) \in RecType /\ Rec(c, l, i, p).ifc <= nif
    BY DEF Rec, RecType
  <2>2. store' = Upsert(store, Rec(c, l, i, p))
    BY DEF AddWireInMemNDataStore
  <2>3. store' \subseteq RecType /\ \A q \in store' : q.ifc <= nif
    BY <2>1, <2>2, UpsertOK DEF TypeInv
  <2> QED
    BY <2>3 DEF TypeInv, StoreOK
<1>3. CallsOK'
  <2> DEFINE k == [call[h] EXCEPT !.at = "go", !.o = nobj + 1, !.n = 1]
  <2>1. call[h] \in CallType /\ CallFine(call[h], nobj, nif)
    BY DEF TypeInv, CallsOK
  <2>2. nobj + 1 \in 0..MaxWires /\ 1 \in 0..MaxGen
    BY <1>1, GRPCWireAssumption DEF Objs
  <2>3. k \in CallType
    BY <2>1, <2>2 DEF CallType, CallSteps
  <2>4. nobj' \in Nat /\ nif' \in Nat /\ nobj <= nobj' /\ nif <= nif'
    BY <1>1, Counters
  <2>5. CallFine(k, nobj', nif')
    <3>1. k.at = "go" /\ k.o = nobj' /\ k.n = 1 /\ k.ifc = call[h].ifc
      BY <1>1, <2>1 DEF CallType
    <3>2. k.ifc <= nif' /\ k.o <= nobj' /\ k.o # 0 /\ k.n # 0
      BY <1>1, <2>1, <2>4, <3>1 DEF CallFine, Objs
    <3> HIDE DEF k
    <3> QED
      BY <2>3, <3>1, <3>2 DEF CallFine, WireSteps, DelSteps, GoSteps, HeldSteps
  <2>6. call' = [call EXCEPT ![h] = k]
    BY DEF AddWireInMemNDataStore, TypeInv, CallsOK
  <2> HIDE DEF k
  <2> QED
    BY <2>4, <2>5, <2>6, SetCall
<1> QED
  BY <1>1, <1>2, <1>3

-----------------------------------------------------------------------------
(* Types: the calls that create wires.                                      *)

\* The two calls begin with well-formed arguments.
LEMMA LocalCallType ==
    ASSUME TypeInv, NEW h \in Calls, NEW c \in Containers, NEW l \in Links,
           NEW p \in PeerIfs, LocalCall(h, c, l, p)
    PROVE  TypeInv'
<1> DEFINE k == [Idle EXCEPT !.at = "l_add", !.c = c, !.l = l, !.ifc = nif + 1,
                             !.peer = p]
<1>1. MakeVeth(c, l) /\ call' = [call EXCEPT ![h] = k]
  BY DEF LocalCall
<1>2. /\ nif' = nif + 1 /\ nif' \in 0..MaxIfs /\ nif' \in Nat /\ nif <= nif'
      /\ inpod' \in [Containers -> [Links -> 0..nif']]
  BY <1>1, MakeVethOK
<1>3. MemoryOK' /\ StoreOK'
  BY <1>2, RangeGrows DEF LocalCall
<1>4. HostOK'
  BY <1>2 DEF LocalCall, TypeInv, HostOK
<1>5. nobj \in Nat /\ nobj' = nobj
  BY Counters DEF LocalCall, memory
<1>6. k \in CallType
  BY <1>2, IdleTyped DEF CallType, CallSteps
<1>7. CallFine(k, nobj', nif')
  BY <1>2, <1>5, <1>6
  DEF CallFine, Idle, WireSteps, DelSteps, GoSteps, HeldSteps
<1>8. nobj' \in Nat /\ nobj <= nobj'
  BY <1>5
<1>10. CallsOK'
  <2> HIDE DEF k
  <2> QED
    BY <1>1, <1>2, <1>7, <1>8, SetCall
<1> QED
  BY <1>3, <1>4, <1>10 DEF TypeInv

\* AddGRPCWireRemote finds a wire and updates it, or goes on to make one.
LEMMA RemoteCallType ==
    ASSUME TypeInv, NEW h \in Calls, NEW c \in Containers, NEW l \in Links,
           NEW p \in PeerIfs, RemoteCall(h, c, l, p)
    PROVE  TypeInv'
<1> DEFINE o == wires[c][l]
           k == [Idle EXCEPT !.c = c, !.l = l, !.peer = p]
           ku == [k EXCEPT !.at = "r_status", !.o = o, !.n = obj[o].gen + 1,
                           !.ifc = obj[o].ifc]
           kc == [k EXCEPT !.at = "r_clean"]
<1>1. StoreOK' /\ HostOK' /\ nobj' = nobj /\ nif' = nif
  BY DEF RemoteCall, TypeInv, StoreOK, HostOK, host
<1>2. nobj' \in Nat /\ nif' \in Nat /\ nobj <= nobj' /\ nif <= nif'
  BY <1>1, Counters
<1>3. CASE o # 0 /\ UpdateWire(o, p) /\ call' = [call EXCEPT ![h] = ku]
  <2>0. o \in 0..nobj /\ nobj \in 0..MaxWires /\ MaxWires \in Nat
    BY GRPCWireAssumption DEF TypeInv, MemoryOK
  <2>1. o \in Objs /\ o <= nobj /\ obj[o] \in ObjType /\ obj[o].gen \in 0..MaxGen
    BY <1>3, <2>0 DEF TypeInv, MemoryOK, Objs, ObjType
  <2>2. obj[o].gen + 1 \in Gens /\ obj[o].gen + 1 \in 0..MaxGen
    BY <1>3, <2>1, GRPCWireAssumption DEF UpdateWire, Gens
  <2>3. MemoryOK'
    <3> DEFINE w == [obj[o] EXCEPT !.gen = @ + 1, !.peer = p, !.ready = TRUE]
    <3>1. obj' = [obj EXCEPT ![o] = w]
      BY <1>3 DEF UpdateWire, TypeInv, MemoryOK
    <3>2. /\ w \in ObjType /\ w.gen = obj[o].gen + 1 /\ w.ifc = obj[o].ifc
          /\ w.c = obj[o].c /\ w.l = obj[o].l /\ w.peer = p
      BY <2>1, <2>2 DEF ObjType
    <3>3. \A x \in Objs : obj'[x].ifc <= nif'
      BY <1>1, <3>1, <3>2, <2>1 DEF TypeInv, MemoryOK
    <3>4. \A x \in Objs : x <= nobj' => ObjMade(obj'[x])
      <4> HIDE DEF w
      <4> QED
        BY <1>1, <2>1, <2>2, <3>1, <3>2 DEF TypeInv, MemoryOK, ObjMade, Gens
    <3>5. obj' \in [Objs -> ObjType]
      BY <3>1, <3>2 DEF TypeInv, MemoryOK
    <3> QED
      BY <1>1, <3>3, <3>4, <3>5 DEF RemoteCall, TypeInv, MemoryOK
  <2>4. CallFine(ku, nobj', nif')
    <3>1. o \in 0..MaxWires /\ obj[o].ifc \in 0..MaxIfs /\ obj[o].ifc <= nif
      BY <2>1 DEF TypeInv, MemoryOK, ObjType, Objs
    <3>2. ku \in CallType
      BY <2>2, <3>1 DEF Idle, CallType, CallSteps
    <3>3. /\ ku.at = "r_status" /\ ku.o = o /\ ku.n = obj[o].gen + 1 /\ ku.c = c
          /\ ku.l = l /\ ku.peer = p /\ ku.ifc = obj[o].ifc
      BY DEF Idle
    <3>4. ku.o <= nobj' /\ ku.ifc <= nif' /\ ku.o # 0 /\ ku.n # 0
      BY <1>1, <1>3, <2>1, <2>2, <3>1, <3>3 DEF Gens
    <3> HIDE DEF ku
    <3> QED
      BY <3>2, <3>3, <3>4 DEF CallFine, WireSteps, DelSteps, GoSteps, HeldSteps
  <2>5. CallsOK'
    <3> HIDE DEF ku
    <3> QED
      BY <1>2, <1>3, <2>4, SetCall
  <2> QED
    BY <1>1, <2>3, <2>5 DEF TypeInv
<1>4. CASE call' = [call EXCEPT ![h] = kc] /\ UNCHANGED obj
  <2>1. MemoryOK'
    BY <1>1, <1>4 DEF RemoteCall, TypeInv, MemoryOK
  <2>2. kc \in CallType
    BY IdleTyped DEF CallType, CallSteps
  <2>3. CallFine(kc, nobj', nif')
    BY <1>2, <2>2 DEF Idle, CallFine, WireSteps, DelSteps, GoSteps, HeldSteps
  <2>4. CallsOK'
    <3> HIDE DEF kc
    <3> QED
      BY <1>2, <1>4, <2>3, SetCall
  <2> QED
    BY <1>1, <2>1, <2>4 DEF TypeInv
<1> QED
  BY <1>3, <1>4 DEF RemoteCall

\* The later steps of both calls keep the types.
LEMMA CreateType ==
    ASSUME TypeInv, NEW h \in Calls, Create(h)
    PROVE  TypeInv'
<1>0. call[h] \in CallType /\ CallFine(call[h], nobj, nif)
  BY DEF TypeInv, CallsOK
<1> DEFINE s == call[h].at
<1>1. s \in WireSteps => /\ call[h].c \in Containers /\ call[h].l \in Links
                         /\ call[h].peer \in PeerIfs
                         /\ call[h].ifc \in 0..MaxIfs /\ call[h].ifc <= nif
  BY <1>0 DEF CallFine, CallType
<1>2. CASE LocalAdd(h) \/ RemoteAdd(h)
  <2>1. s \in WireSteps
    BY <1>2 DEF LocalAdd, RemoteAdd, WireSteps
  <2>2. UNCHANGED <<phase, todo, host, life, crashes>>
    BY <1>2 DEF LocalAdd, RemoteAdd
  <2>3. HostOK'
    BY <2>2 DEF TypeInv, HostOK, host
  <2>4. CASE AddWireInMemNDataStore(h, call[h].c, call[h].l, call[h].ifc, call[h].peer)
    BY <1>1, <2>1, <2>2, <2>3, <2>4, AddWireOK DEF TypeInv, host
  <2>5. CASE Return(h) /\ UNCHANGED <<memory, store>>
    <3>1. CallsOK'
      BY <2>2, <2>5, ReturnOK DEF memory, host
    <3> QED
      BY <2>2, <2>3, <2>5, <3>1 DEF TypeInv, MemoryOK, StoreOK, memory, host
  <2> QED
    BY <1>2, <2>4, <2>5 DEF LocalAdd, RemoteAdd
<1>3. CASE RemoteStore(h)
  <2> DEFINE r == Rec(call[h].c, call[h].l, call[h].ifc, call[h].peer)
  <2>1. s \in WireSteps /\ s \in GoSteps /\ UNCHANGED <<nobj, nif>>
    BY <1>3 DEF RemoteStore, WireSteps, GoSteps, memory, host
  <2>2. r \in RecType /\ r.ifc <= nif
    BY <1>1, <2>1 DEF Rec, RecType
  <2>3. StoreOK'
    <3>1. store' \subseteq RecType /\ \A q \in store' : q.ifc <= nif
      BY <1>3, <2>2, UpsertOK DEF RemoteStore, TypeInv
    <3> QED
      BY <1>3, <2>1, <3>1 DEF RemoteStore, TypeInv, StoreOK
  <2>4. CallsOK'
    <3>1. "go" \in CallSteps /\ "go" \notin WireSteps \cup DelSteps \cup HeldSteps
      BY DEF CallSteps, WireSteps, DelSteps, HeldSteps
    <3> QED
      BY <1>3, <2>1, <3>1, StepOK DEF RemoteStore
  <2> QED
    BY <1>3, <2>3, <2>4 DEF RemoteStore, TypeInv, MemoryOK, HostOK, memory, host
<1>4. CASE RemoteClean(h) \/ RemoteClassify(h)
  <2>1. s \in WireSteps /\ UNCHANGED <<nobj, nif>>
    BY <1>4 DEF RemoteClean, RemoteClassify, WireSteps, memory, host
  <2>2. /\ {"r_classify", "r_remove", "r_make"} \subseteq CallSteps
        /\ {"r_classify", "r_remove", "r_make"} \cap (DelSteps \cup GoSteps \cup HeldSteps)
             = {}
    BY DEF CallSteps, DelSteps, GoSteps, HeldSteps
  <2>3. CallsOK'
    BY <1>4, <2>1, <2>2, ReturnOK, StepOK DEF RemoteClean, RemoteClassify
  <2> QED
    BY <1>4, <2>3
    DEF RemoteClean, RemoteClassify, TypeInv, MemoryOK, StoreOK, HostOK, memory, host
<1>5. CASE RemoteRemove(h)
  <2>1. s \in WireSteps /\ UNCHANGED <<nobj, nif>>
    BY <1>5 DEF RemoteRemove, WireSteps, memory
  <2>2. "r_make" \in CallSteps /\ "r_make" \notin DelSteps \cup GoSteps \cup HeldSteps
    BY DEF CallSteps, DelSteps, GoSteps, HeldSteps
  <2>3. CallsOK'
    BY <1>5, <2>1, <2>2, ReturnOK, StepOK DEF RemoteRemove
  <2>4. inpod' \in [Containers -> [Links -> 0..nif]]
    <3>1. inpod \in [Containers -> [Links -> 0..nif]] /\ 0 \in 0..nif
      BY Counters DEF TypeInv, HostOK
    <3> QED
      BY <1>5, <3>1 DEF RemoteRemove
  <2> QED
    BY <1>5, <2>3, <2>4
    DEF RemoteRemove, TypeInv, MemoryOK, StoreOK, HostOK, memory
<1>6. CASE RemoteMake(h)
  <2>1. s \in WireSteps /\ nobj' = nobj
    BY <1>6 DEF RemoteMake, WireSteps, memory
  <2>2. CASE /\ MakeVeth(call[h].c, call[h].l)
             /\ call' = [call EXCEPT ![h].at = "r_add", ![h].ifc = nif + 1]
    <3> DEFINE k == [call[h] EXCEPT !.at = "r_add", !.ifc = nif + 1]
    <3>1. /\ nif' = nif + 1 /\ nif' \in 0..MaxIfs /\ nif' \in Nat /\ nif <= nif'
          /\ inpod' \in [Containers -> [Links -> 0..nif']]
      BY <1>1, <2>1, <2>2, MakeVethOK
    <3>2. MemoryOK' /\ StoreOK'
      BY <1>6, <3>1, RangeGrows DEF RemoteMake
    <3>3. HostOK'
      BY <1>6, <3>1 DEF RemoteMake, TypeInv, HostOK
    <3>4. call' = [call EXCEPT ![h] = k]
      BY <2>2 DEF TypeInv, CallsOK
    <3>5. k \in CallType
      BY <1>0, <3>1 DEF CallType, CallSteps
    <3>6. /\ k.at = "r_add" /\ k.c = call[h].c /\ k.l = call[h].l
          /\ k.peer = call[h].peer /\ k.ifc = nif' /\ k.o = call[h].o
      BY <1>0, <3>1 DEF CallType
    <3>7. k.o <= nobj' /\ k.ifc <= nif' /\ nobj' \in Nat /\ nobj <= nobj'
      BY <1>0, <2>1, <3>1, <3>6, Counters DEF CallFine
    <3> HIDE DEF k
    <3>8. CallFine(k, nobj', nif')
      BY <1>1, <2>1, <3>5, <3>6, <3>7
      DEF CallFine, WireSteps, DelSteps, GoSteps, HeldSteps
    <3> QED
      BY <3>1, <3>2, <3>3, <3>4, <3>7, <3>8, SetCall DEF TypeInv
  <2>3. CASE Return(h) /\ UNCHANGED host
    <3>1. CallsOK'
      BY <2>1, <2>3, ReturnOK DEF host
    <3> QED
      BY <1>6, <2>3, <3>1 DEF RemoteMake, TypeInv, MemoryOK, StoreOK, HostOK, memory, host
  <2> QED
    BY <1>6, <2>2, <2>3 DEF RemoteMake
<1>7. CASE GoThread(h)
  <2>1. call[h].o \in Objs /\ call[h].n \in Gens
    BY <1>0, <1>7, GRPCWireAssumption
    DEF GoThread, CallFine, CallType, GoSteps, Objs, Gens
  <2>2. thr' \in [Objs -> [Gens -> ThrType]]
    <3> DEFINE t == [thr[call[h].o][call[h].n] EXCEPT !.at = "new"]
    <3>0. thr[call[h].o][call[h].n] \in ThrType
      BY <2>1 DEF TypeInv, MemoryOK
    <3>1. t \in ThrType
      BY <3>0 DEF ThrType, ThreadStates
    <3>2. thr' = [thr EXCEPT ![call[h].o][call[h].n] = t]
      BY <1>7, <2>1 DEF GoThread, TypeInv, MemoryOK
    <3> QED
      BY <3>1, <3>2 DEF TypeInv, MemoryOK
  <2>3. CallsOK'
    BY <1>7, ReturnOK DEF GoThread, host
  <2> QED
    BY <1>7, <2>2, <2>3 DEF GoThread, TypeInv, MemoryOK, StoreOK, HostOK, host
<1>8. CASE RemoteStatus(h)
  <2> DEFINE q == obj[call[h].o].peer
             k == [call[h] EXCEPT !.at = "r_store", !.peer = q]
  <2>1. s \in WireSteps /\ s \in GoSteps /\ UNCHANGED <<nobj, nif>>
    BY <1>8 DEF RemoteStatus, WireSteps, GoSteps, memory, host
  <2>2. q \in PeerIfs
    <3>1. call[h].o \in Objs /\ call[h].o <= nobj
      BY <1>0, <2>1, GRPCWireAssumption DEF CallFine, CallType, Objs
    <3> QED
      BY <3>1 DEF TypeInv, MemoryOK, ObjMade
  <2>3. call' = [call EXCEPT ![h] = k]
    BY <1>8 DEF RemoteStatus, TypeInv, CallsOK
  <2>4. k \in CallType
    BY <1>0, <2>2 DEF CallType, CallSteps
  <2>5. /\ k.at = "r_store" /\ k.c = call[h].c /\ k.l = call[h].l /\ k.peer = q
        /\ k.ifc = call[h].ifc /\ k.o = call[h].o /\ k.n = call[h].n
    BY <1>0 DEF CallType
  <2> HIDE DEF k, q
  <2>6. k.o <= nobj' /\ k.ifc <= nif' /\ k.o # 0 /\ k.n # 0
    BY <1>0, <2>1, <2>5 DEF CallFine
  <2>7. CallFine(k, nobj', nif')
    BY <1>1, <2>1, <2>2, <2>4, <2>5, <2>6
    DEF CallFine, WireSteps, DelSteps, GoSteps, HeldSteps
  <2>8. nobj' \in Nat /\ nif' \in Nat /\ nobj <= nobj' /\ nif <= nif'
    BY <2>1, Counters
  <2>9. CallsOK'
    BY <2>3, <2>7, <2>8, SetCall
  <2> QED
    BY <1>8, <2>9 DEF RemoteStatus, TypeInv, MemoryOK, StoreOK, HostOK, memory, host
<1> QED
  BY <1>2, <1>3, <1>4, <1>5, <1>6, <1>7, <1>8, LocalCallType, RemoteCallType DEF Create

-----------------------------------------------------------------------------
(* Types: deleting wires, threads, pods, crash and restart.                 *)

\* An object that is reached through the map is an allocated one.
LEMMA MapObj ==
    ASSUME TypeInv, NEW c \in Containers, NEW l \in Links, wires[c][l] # 0
    PROVE  wires[c][l] \in Objs /\ wires[c][l] <= nobj
BY GRPCWireAssumption DEF TypeInv, MemoryOK, Objs

\* So is one that a deletion holds.
LEMMA HeldObj ==
    ASSUME TypeInv, NEW h \in Calls, call[h].at \in HeldSteps
    PROVE  call[h].o \in Objs /\ call[h].o <= nobj
BY GRPCWireAssumption DEF TypeInv, CallsOK, CallFine, CallType, Objs

\* It has a stop channel.
LEMMA MadeGen ==
    ASSUME TypeInv, NEW o \in Objs, o <= nobj
    PROVE  obj[o].gen \in Gens
BY GRPCWireAssumption DEF TypeInv, MemoryOK, ObjType, ObjMade, Gens

\* Closing the stop channel of an allocated object keeps the types.
LEMMA CloseOK ==
    ASSUME TypeInv, NEW o \in Objs, o <= nobj, Close(o)
    PROVE  closed' \subseteq Objs \X Gens /\ panic' \in BOOLEAN
<1>1. obj[o].gen \in Gens
  BY MadeGen
<1> QED
  BY <1>1 DEF Close, TypeInv, MemoryOK

\* So does marking it as not ready.
LEMMA UnreadyOK ==
    ASSUME TypeInv, NEW o \in Objs, obj' = [obj EXCEPT ![o].ready = FALSE],
           UNCHANGED <<nobj, nif>>
    PROVE  /\ obj' \in [Objs -> ObjType]
           /\ \A x \in Objs : obj'[x].ifc <= nif'
           /\ \A x \in Objs : x <= nobj' => ObjMade(obj'[x])
<1> DEFINE w == [obj[o] EXCEPT !.ready = FALSE]
<1>0. obj[o] \in ObjType
  BY DEF TypeInv, MemoryOK
<1>1. obj' = [obj EXCEPT ![o] = w]
  BY DEF TypeInv, MemoryOK
<1>2. /\ w \in ObjType /\ w.gen = obj[o].gen /\ w.ifc = obj[o].ifc
      /\ w.c = obj[o].c /\ w.l = obj[o].l /\ w.peer = obj[o].peer
  BY <1>0 DEF ObjType
<1> HIDE DEF w
<1> QED
  BY <1>1, <1>2 DEF TypeInv, MemoryOK, ObjMade

\* The DEL of a pod keeps the types.
LEMMA DeleteType ==
    ASSUME TypeInv, NEW h \in Calls, Delete(h)
    PROVE  TypeInv'
<1>0. call[h] \in CallType /\ CallFine(call[h], nobj, nif) /\ nobj \in Nat /\ nif \in Nat
  BY Counters DEF TypeInv, CallsOK
<1>1. ASSUME NEW c \in Containers, DeleteCall(h, c) PROVE TypeInv'
  <2> DEFINE k == [Idle EXCEPT !.at = "d_next", !.c = c]
  <2>1. k \in CallType /\ k.o = 0 /\ k.ifc = 0 /\ k.at = "d_next" /\ k.c = c
    BY IdleTyped DEF CallType, CallSteps, Idle
  <2>2. call' = [call EXCEPT ![h] = k] /\ UNCHANGED <<nobj, nif>>
    BY <1>1 DEF DeleteCall, memory, host
  <2> HIDE DEF k
  <2>3. CallFine(k, nobj', nif')
    BY <1>0, <2>1, <2>2 DEF CallFine, WireSteps, DelSteps, GoSteps, HeldSteps
  <2>4. nobj' \in Nat /\ nif' \in Nat /\ nobj <= nobj' /\ nif <= nif'
    BY <1>0, <2>2
  <2>5. CallsOK'
    BY <2>2, <2>3, <2>4, SetCall
  <2> QED
    BY <1>1, <2>5 DEF DeleteCall, TypeInv, MemoryOK, StoreOK, HostOK, memory, host
<1>2. CASE ExtractOneWireByPod(h)
  <2>1. PICK c \in Containers, l \in Links :
          /\ wires[c][l] # 0
          /\ wires' = [wires EXCEPT ![c][l] = 0]
          /\ call' = [call EXCEPT ![h].at = "d_stop", ![h].o = wires[c][l]]
    BY <1>2 DEF ExtractOneWireByPod, PodWire
  <2> DEFINE k == [call[h] EXCEPT !.at = "d_stop", !.o = wires[c][l]]
  <2>2. wires[c][l] \in Objs /\ wires[c][l] <= nobj
    BY <2>1, MapObj
  <2>3. call[h].at = "d_next" /\ UNCHANGED <<nobj, nif>>
    BY <1>2 DEF ExtractOneWireByPod, host
  <2>4. wires[c][l] \in 0..MaxWires
    BY <2>2 DEF Objs
  <2>5. /\ k \in CallType /\ k.at = "d_stop" /\ k.o = wires[c][l] /\ k.ifc = call[h].ifc
        /\ k.c = call[h].c
    BY <1>0, <2>4 DEF CallType, CallSteps
  <2>6. call' = [call EXCEPT ![h] = k]
    BY <2>1 DEF TypeInv, CallsOK
  <2> HIDE DEF k
  <2>7. CallFine(k, nobj', nif')
    BY <1>0, <2>1, <2>2, <2>3, <2>5 DEF CallFine, WireSteps, DelSteps, GoSteps, HeldSteps
  <2>8. nobj' \in Nat /\ nif' \in Nat /\ nobj <= nobj' /\ nif <= nif'
    BY <1>0, <2>3
  <2>9. CallsOK'
    BY <2>6, <2>7, <2>8, SetCall
  <2>10. wires' \in [Containers -> [Links -> 0..nobj']]
    <3>1. 0 \in 0..nobj' /\ wires \in [Containers -> [Links -> 0..nobj']]
      BY <1>0, <2>3 DEF TypeInv, MemoryOK
    <3> QED
      BY <2>1, <3>1
  <2> QED
    BY <1>2, <2>9, <2>10
    DEF ExtractOneWireByPod, TypeInv, MemoryOK, StoreOK, HostOK, host
<1>3. CASE DelStop(h)
  <2>1. /\ {"d_close", "d_veth"} \subseteq CallSteps
        /\ {"d_close", "d_veth"} \cap (WireSteps \cup GoSteps) = {}
        /\ call[h].at \in DelSteps /\ call[h].at \in HeldSteps
    BY <1>3 DEF DelStop, CallSteps, WireSteps, GoSteps, HeldSteps, DelSteps
  <2>2. UNCHANGED <<nobj, nif>>
    BY <1>3 DEF DelStop, memory, host
  <2>3. CallsOK'
    BY <1>3, <2>1, <2>2, StepOK DEF DelStop
  <2> QED
    BY <1>3, <2>3 DEF DelStop, TypeInv, MemoryOK, StoreOK, HostOK, memory, host
<1>4. CASE DelClose(h)
  <2>1. /\ "d_veth" \in CallSteps /\ "d_veth" \notin WireSteps \cup GoSteps
        /\ call[h].at \in DelSteps /\ call[h].at \in HeldSteps
    BY <1>4 DEF DelClose, CallSteps, WireSteps, GoSteps, HeldSteps, DelSteps
  <2>2. UNCHANGED <<nobj, nif>>
    BY <1>4 DEF DelClose, host
  <2>3. CallsOK'
    BY <1>4, <2>1, <2>2, StepOK DEF DelClose
  <2>4. call[h].o \in Objs /\ call[h].o <= nobj
    BY <2>1, HeldObj
  <2>5. closed' \subseteq Objs \X Gens /\ panic' \in BOOLEAN
    BY <1>4, <2>4, CloseOK DEF DelClose
  <2>6. /\ obj' \in [Objs -> ObjType]
        /\ \A x \in Objs : obj'[x].ifc <= nif'
        /\ \A x \in Objs : x <= nobj' => ObjMade(obj'[x])
    BY <1>4, <2>2, <2>4, UnreadyOK DEF DelClose
  <2> QED
    BY <1>4, <2>2, <2>3, <2>5, <2>6 DEF DelClose, TypeInv, MemoryOK, StoreOK, HostOK, host
<1>5. CASE DelVeth(h)
  <2>1. /\ "d_unstore" \in CallSteps /\ "d_unstore" \notin WireSteps \cup GoSteps
        /\ call[h].at \in DelSteps /\ call[h].at \in HeldSteps
    BY <1>5 DEF DelVeth, CallSteps, WireSteps, GoSteps, HeldSteps, DelSteps
  <2>2. UNCHANGED <<nobj, nif>>
    BY <1>5 DEF DelVeth, memory
  <2>3. CallsOK'
    BY <1>5, <2>1, <2>2, StepOK DEF DelVeth
  <2>4. inpod' \in [Containers -> [Links -> 0..nif]]
    <3>1. inpod \in [Containers -> [Links -> 0..nif]] /\ 0 \in 0..nif
      BY <1>0 DEF TypeInv, HostOK
    <3> QED
      BY <1>5, <3>1 DEF DelVeth
  <2> QED
    BY <1>5, <2>3, <2>4 DEF DelVeth, TypeInv, MemoryOK, StoreOK, HostOK, memory
<1>6. CASE DelUnstore(h)
  <2> DEFINE k == [call[h] EXCEPT !.at = "d_next", !.o = 0]
  <2>1. call[h].at \in DelSteps /\ UNCHANGED <<nobj, nif>>
    BY <1>6 DEF DelUnstore, DelSteps, memory, host
  <2>2. 0 \in 0..MaxWires
    BY GRPCWireAssumption
  <2>3. /\ k \in CallType /\ k.at = "d_next" /\ k.o = 0 /\ k.ifc = call[h].ifc
        /\ k.c = call[h].c
    BY <1>0, <2>2 DEF CallType, CallSteps
  <2>4. call' = [call EXCEPT ![h] = k]
    BY <1>6 DEF DelUnstore, TypeInv, CallsOK
  <2> HIDE DEF k
  <2>5. CallFine(k, nobj', nif')
    BY <1>0, <2>1, <2>3 DEF CallFine, WireSteps, DelSteps, GoSteps, HeldSteps
  <2>6. nobj' \in Nat /\ nif' \in Nat /\ nobj <= nobj' /\ nif <= nif'
    BY <1>0, <2>1
  <2>7. CallsOK'
    BY <2>4, <2>5, <2>6, SetCall
  <2>8. store' \subseteq store
    BY <1>6 DEF DelUnstore, DropLink
  <2> QED
    BY <1>6, <2>1, <2>7, <2>8
    DEF DelUnstore, TypeInv, MemoryOK, StoreOK, HostOK, memory, host
<1>7. CASE DelByPod(h)
  <2>1. CallsOK'
    BY <1>7, ReturnOK DEF DelByPod, memory, host
  <2>2. store' \subseteq store /\ UNCHANGED nif
    BY <1>7 DEF DelByPod, DropPod, host
  <2>3. life' \in [Containers -> {"new", "live", "deleting", "deleted", "gone"}]
    BY <1>7 DEF DelByPod, TypeInv, HostOK
  <2> QED
    BY <1>7, <2>1, <2>2, <2>3
    DEF DelByPod, TypeInv, MemoryOK, StoreOK, HostOK, memory, host
<1> QED
  BY <1>1, <1>2, <1>3, <1>4, <1>5, <1>6, <1>7 DEF Delete

\* The peer takes a wire down: the types stay.
LEMMA DownType ==
    ASSUME TypeInv, NEW c \in Containers, NEW l \in Links, GRPCWireDownRemote(c, l)
    PROVE  TypeInv'
<1>1. wires[c][l] \in Objs /\ wires[c][l] <= nobj
  BY MapObj DEF GRPCWireDownRemote
<1>2. closed' \subseteq Objs \X Gens /\ panic' \in BOOLEAN
  <2>1. CASE Close(wires[c][l])
    BY <1>1, <2>1, CloseOK
  <2>2. CASE UNCHANGED <<panic, closed>>
    BY <2>2 DEF TypeInv, MemoryOK
  <2> QED
    BY <2>1, <2>2 DEF GRPCWireDownRemote, WireDown
<1>3. UNCHANGED <<nobj, nif>>
  BY DEF GRPCWireDownRemote, host
<1>4. /\ obj' \in [Objs -> ObjType]
      /\ \A x \in Objs : obj'[x].ifc <= nif'
      /\ \A x \in Objs : x <= nobj' => ObjMade(obj'[x])
  BY <1>1, <1>3, UnreadyOK DEF GRPCWireDownRemote, WireDown
<1> QED
  BY <1>2, <1>3, <1>4
  DEF GRPCWireDownRemote, TypeInv, CallsOK, MemoryOK, StoreOK, HostOK, host

\* A step of a thread keeps the types.
LEMMA ThreadType ==
    ASSUME TypeInv, NEW o \in Objs, NEW g \in Gens, NEW from, NEW to \in ThreadStates,
           NEW on \in 0..MaxGen, Thread(o, g, from, to, on)
    PROVE  TypeInv'
<1>1. [at |-> to, on |-> on] \in ThrType
  BY DEF ThrType
<1>2. thr' \in [Objs -> [Gens -> ThrType]]
  BY <1>1 DEF Thread, TypeInv, MemoryOK
<1> QED
  BY <1>2 DEF Thread, TypeInv, CallsOK, MemoryOK, StoreOK, HostOK, host

\* So every step of Forward does.
LEMMA ForwardType ==
    ASSUME TypeInv, NEW o \in Objs, NEW g \in Gens, Forward(o, g)
    PROVE  TypeInv'
<1>1. obj[o].gen \in 0..MaxGen /\ 0 \in 0..MaxGen
  BY GRPCWireAssumption DEF TypeInv, MemoryOK, ObjType
<1>2. {"none", "wait", "run", "send"} \subseteq ThreadStates
  BY DEF ThreadStates
<1> QED
  BY <1>1, <1>2, ThreadType
  DEF Forward, ThreadWait, ThreadRun, ThreadPacket, ThreadSent, ThreadStop

\* Pods that start and sandboxes that go keep the types.
LEMMA PodType ==
    ASSUME TypeInv, NEW c \in Containers, Pod(c)
    PROVE  TypeInv'
<1>1. life' \in [Containers -> {"new", "live", "deleting", "deleted", "gone"}]
  BY DEF Pod, StartPod, RemoveSandbox, TypeInv, HostOK
<1>2. inpod' \in [Containers -> [Links -> 0..nif]] /\ UNCHANGED nif
  <2>1. inpod \in [Containers -> [Links -> 0..nif]]
        /\ [l \in Links |-> 0] \in [Links -> 0..nif]
    BY Counters DEF TypeInv, HostOK
  <2> QED
    BY <2>1 DEF Pod, StartPod, RemoveSandbox, host
<1>3. UNCHANGED <<phase, memory, call, store, todo, crashes>>
  BY DEF Pod, StartPod, RemoveSandbox
<1> QED
  BY <1>1, <1>2, <1>3 DEF TypeInv, CallsOK, MemoryOK, StoreOK, HostOK, memory

\* The values the memory starts from are typed.
LEMMA FreshOK ==
    /\ NoWires \in [Containers -> [Links -> 0..0]]
    /\ [o \in Objs |-> NoObj] \in [Objs -> ObjType]
    /\ NoThreads \in [Objs -> [Gens -> ThrType]]
<1>1. NoObj \in ObjType
  BY GRPCWireAssumption DEF NoObj, ObjType
<1>2. NoThr \in ThrType
  BY GRPCWireAssumption DEF NoThr, ThrType, ThreadStates
<1> QED
  BY <1>1, <1>2 DEF NoWires, NoThreads

\* A daemon that has died has no memory left, and that is typed.
LEMMA CrashType == ASSUME TypeInv, Crash PROVE TypeInv'
<1>0. nif \in Nat /\ UNCHANGED nif
  BY Counters DEF Crash, host
<1>1. CallsOK'
  <2>1. \A h \in Calls : call'[h] = Idle
    BY DEF Crash
  <2>2. CallFine(Idle, 0, nif)
    BY <1>0, IdleFine
  <2>3. nobj' = 0
    BY DEF Crash
  <2>4. call' \in [Calls -> CallType]
    BY IdleTyped DEF Crash
  <2> QED
    BY <1>0, <2>1, <2>2, <2>3, <2>4 DEF CallsOK
<1>2. MemoryOK'
  <2>1. \A o \in Objs : obj'[o] = NoObj
    BY DEF Crash
  <2>2. NoObj.ifc = 0 /\ \A o \in Objs : ~(o <= 0)
    BY GRPCWireAssumption DEF NoObj, Objs
  <2>3. nobj' = 0 /\ 0 \in 0..MaxWires /\ closed' = {} /\ panic' = panic
    BY GRPCWireAssumption DEF Crash
  <2>4. /\ wires' \in [Containers -> [Links -> 0..nobj']]
        /\ obj' \in [Objs -> ObjType] /\ thr' \in [Objs -> [Gens -> ThrType]]
    BY FreshOK DEF Crash
  <2>5. \A o \in Objs : obj'[o].ifc <= nif'
    BY <1>0, <2>1, <2>2
  <2> QED
    BY <2>2, <2>3, <2>4, <2>5 DEF TypeInv, MemoryOK
<1>3. StoreOK'
  BY <1>0 DEF Crash, TypeInv, StoreOK
<1>4. HostOK'
  BY <1>0, GRPCWireAssumption DEF Crash, TypeInv, HostOK, host
<1> QED
  BY <1>1, <1>2, <1>3, <1>4 DEF TypeInv

\* What ReconGWires makes of the records is typed.
LEMMA ReconType == ASSUME TypeInv, Recon PROVE TypeInv'
<1>1. CASE Restart
  BY <1>1 DEF Restart, TypeInv, CallsOK, MemoryOK, StoreOK, HostOK, memory, host
<1>2. CASE Serve
  BY <1>2 DEF Serve, TypeInv, CallsOK, MemoryOK, StoreOK, HostOK, memory, host
<1>3. ASSUME NEW r \in todo, ReCreateGWire(r) PROVE TypeInv'
  <2>1. UNCHANGED <<phase, call, nif, inpod, life, crashes>> /\ todo' \subseteq todo
    BY <1>3 DEF ReCreateGWire, host
  <2>2. HostOK'
    BY <2>1 DEF TypeInv, HostOK
  <2>3. CASE /\ NewWire(r.c, r.l, r.ifc, r.peer)
             /\ thr' = [thr EXCEPT ![nobj + 1][1].at = "new"]
             /\ UNCHANGED <<closed, panic, store>>
    <3>1. /\ r.c \in Containers /\ r.l \in Links /\ r.ifc \in 0..MaxIfs
          /\ r.ifc <= nif /\ r.peer \in PeerIfs
      BY DEF TypeInv, StoreOK, RecType
    <3>2. nobj \in Nat /\ nobj + 1 \in Objs /\ 1 \in Gens
      BY <2>3, Counters, GRPCWireAssumption DEF NewWire, Objs, Gens
    <3>3. thr' \in [Objs -> [Gens -> ThrType]]
      <4> DEFINE t == [thr[nobj + 1][1] EXCEPT !.at = "new"]
      <4>0. thr[nobj + 1][1] \in ThrType
        BY <3>2 DEF TypeInv, MemoryOK
      <4>1. t \in ThrType
        BY <4>0 DEF ThrType, ThreadStates
      <4>2. thr' = [thr EXCEPT ![nobj + 1][1] = t]
        BY <2>3, <3>2 DEF TypeInv, MemoryOK
      <4> QED
        BY <4>1, <4>2 DEF TypeInv, MemoryOK
    <3>4. MemoryOK' /\ nobj' = nobj + 1
      BY <2>1, <2>3, <3>1, <3>3, NewWireOK
    <3>5. CallsOK'
      <4>1. nobj' \in Nat /\ nobj <= nobj' /\ nif \in Nat /\ nif <= nif
        BY <3>2, <3>4, Counters
      <4>2. \A h \in Calls : CallFine(call[h], nobj', nif)
        BY <3>2, <4>1, FineGrows DEF TypeInv, CallsOK
      <4> QED
        BY <2>1, <4>2 DEF TypeInv, CallsOK
    <3> QED
      BY <2>1, <2>2, <2>3, <3>4, <3>5 DEF TypeInv, StoreOK
  <2>4. CASE store' = DropLink(store, r.l) /\ UNCHANGED memory
    BY <2>1, <2>2, <2>4 DEF DropLink, TypeInv, CallsOK, MemoryOK, StoreOK, memory
  <2> QED
    BY <1>3, <2>3, <2>4 DEF ReCreateGWire
<1> QED
  BY <1>1, <1>2, <1>3 DEF Recon

\* The daemon starts with nothing, and that is typed.
LEMMA InitType == Init => TypeInv
<1> SUFFICES ASSUME Init PROVE TypeInv
  OBVIOUS
<1>1. CallsOK
  <2>1. CallFine(Idle, 0, 0)
    BY IdleFine
  <2>2. call \in [Calls -> CallType] /\ \A h \in Calls : call[h] = Idle
    BY IdleTyped DEF Init
  <2>3. nobj = 0 /\ nif = 0
    BY DEF Init
  <2> QED
    BY <2>1, <2>2, <2>3 DEF CallsOK
<1>2. MemoryOK
  <2>1. NoObj.ifc = 0 /\ \A o \in Objs : ~(o <= 0)
    BY GRPCWireAssumption DEF NoObj, Objs
  <2>2. \A o \in Objs : obj[o].ifc <= nif
    BY <2>1 DEF Init
  <2>3. nobj = 0 /\ 0 \in 0..MaxWires /\ closed = {} /\ panic = FALSE
    BY GRPCWireAssumption DEF Init
  <2>4. /\ wires \in [Containers -> [Links -> 0..nobj]]
        /\ obj \in [Objs -> ObjType] /\ thr \in [Objs -> [Gens -> ThrType]]
    BY FreshOK DEF Init
  <2> QED
    BY <2>1, <2>2, <2>3, <2>4 DEF MemoryOK
<1>3. StoreOK
  BY DEF Init, StoreOK
<1>4. HostOK
  BY FreshOK, GRPCWireAssumption DEF Init, HostOK
<1> QED
  BY <1>1, <1>2, <1>3, <1>4 DEF TypeInv

\* Every step keeps TypeInv.
LEMMA NextType == TypeInv /\ [Next]_vars => TypeInv'
<1> SUFFICES ASSUME TypeInv, [Next]_vars PROVE TypeInv'
  OBVIOUS
<1>1. CASE Next
  BY <1>1, PodType, CreateType, DeleteType, DownType, ForwardType, CrashType, ReconType
  DEF Next
<1>2. CASE UNCHANGED vars
  BY <1>2 DEF vars, memory, host, TypeInv, CallsOK, MemoryOK, StoreOK, HostOK
<1> QED
  BY <1>1, <1>2

\* TypeInv holds for ever.
LEMMA TypeInvAlways == Spec => []TypeInv
BY InitType, NextType, PTL DEF Spec

\* The state of the daemon of a node always has the shape the code gives it:
\* whatever the calls, deletions and restarts, no map entry, call or thread
\* refers to a wire that was never allocated.
THEOREM DaemonTypes == Spec => []TypeOK
BY TypeInvAlways, TypeInvOK, PTL

-----------------------------------------------------------------------------
(* The stop channels of the wires.                                          *)
(* No channel is closed twice, so the daemon never panics, and a wire that  *)
(* is ready has a thread. Neither needs the peer's calls to be in order.    *)

\* An object in the map is the wire it is filed under, so it is filed once.
MapOK ==
    \A c \in Containers, l \in Links :
        wires[c][l] # 0 => obj[wires[c][l]].c = c /\ obj[wires[c][l]].l = l

\* Closed channels were made, and that of a ready wire is open.
ClosedOK ==
    /\ \A o \in Objs, g \in Gens :
          <<o, g>> \in closed => o <= nobj /\ g <= obj[o].gen
    /\ \A o \in Objs : obj[o].ready => <<o, obj[o].gen>> \notin closed

\* A wire that a deletion holds is out of the map and out of reach of any other
\* deletion; what it has read of IsReady is still so when it closes the channel.
HeldOK ==
    /\ \A h \in Calls, c \in Containers, l \in Links :
          call[h].at \in HeldSteps => wires[c][l] # call[h].o
    /\ \A h, g \in Calls :
          call[h].at \in HeldSteps /\ call[g].at \in HeldSteps /\ call[h].o = call[g].o
              => h = g
    /\ \A h \in Calls : call[h].at = "d_close" => obj[call[h].o].ready

StopInv == MapOK /\ ClosedOK /\ HeldOK /\ NoPanic

-----------------------------------------------------------------------------
\* What a step does to the calls that hold a wire: it may end some of them.
KeepsHeld ==
    \A g \in Calls : call'[g].at \in HeldSteps =>
        /\ call[g].at \in HeldSteps /\ call'[g].o = call[g].o
        /\ call'[g].at = "d_close" => call[g].at = "d_close"

\* Setting one call to a step that holds no wire.
LEMMA KeepsOne ==
    ASSUME TypeInv, NEW h \in Calls, NEW k, k.at \notin HeldSteps,
           call' = [call EXCEPT ![h] = k]
    PROVE  KeepsHeld
BY DEF TypeInv, CallsOK, KeepsHeld

\* Ending a call.
LEMMA KeepsReturn ==
    ASSUME TypeInv, NEW h \in Calls, Return(h)
    PROVE  KeepsHeld
<1>1. Idle.at \notin HeldSteps
  BY DEF Idle, HeldSteps
<1> QED
  BY <1>1, KeepsOne DEF Return

\* Taking one call to another step.
LEMMA KeepsStep ==
    ASSUME TypeInv, NEW h \in Calls, NEW s, call' = [call EXCEPT ![h].at = s],
           s \in HeldSteps => call[h].at \in HeldSteps, s # "d_close"
    PROVE  KeepsHeld
<1>1. call[h] \in CallType /\ call' = [call EXCEPT ![h] = [call[h] EXCEPT !.at = s]]
  BY DEF TypeInv, CallsOK
<1>2. call'[h].at = s /\ call'[h].o = call[h].o
  BY <1>1 DEF TypeInv, CallsOK, CallType
<1>3. \A g \in Calls : g # h => call'[g] = call[g]
  BY <1>1 DEF TypeInv, CallsOK
<1> QED
  BY <1>2, <1>3 DEF KeepsHeld

\* A step that leaves map, objects and channels alone keeps StopInv.
LEMMA StopSame ==
    ASSUME StopInv, KeepsHeld, UNCHANGED <<wires, obj, nobj, closed, panic>>
    PROVE  StopInv'
<1>1. MapOK' /\ ClosedOK' /\ NoPanic'
  BY DEF StopInv, MapOK, ClosedOK, NoPanic
<1>2. HeldOK'
  <2>1. "d_close" \in HeldSteps
    BY DEF HeldSteps
  <2> QED
    BY <2>1 DEF StopInv, KeepsHeld, HeldOK
<1> QED
  BY <1>1, <1>2 DEF StopInv

\* A new object is not held, and its channel is open.
LEMMA StopNew ==
    ASSUME TypeInv, StopInv, KeepsHeld, NEW c \in Containers, NEW l \in Links,
           NEW i, NEW p, NewWire(c, l, i, p), UNCHANGED <<closed, panic>>
    PROVE  StopInv'
<1> DEFINE w == [c |-> c, l |-> l, ifc |-> i, peer |-> p, ready |-> TRUE, gen |-> 1]
<1>1. nobj \in Nat /\ nobj' = nobj + 1 /\ nobj' \in Objs
  BY Counters, GRPCWireAssumption DEF NewWire, Objs
<1>2. obj' = [obj EXCEPT ![nobj'] = w] /\ wires' = [wires EXCEPT ![c][l] = nobj']
  BY <1>1 DEF NewWire
<1>3. /\ obj'[nobj'].c = c /\ obj'[nobj'].l = l /\ obj'[nobj'].gen = 1
      /\ \A o \in Objs : o # nobj' => obj'[o] = obj[o]
  BY <1>1, <1>2 DEF TypeInv, MemoryOK
<1> HIDE DEF w
<1>4. \A o \in Objs : o <= nobj => o # nobj'
  BY <1>1 DEF Objs
<1>5. MapOK'
  <2> SUFFICES ASSUME NEW d \in Containers, NEW m \in Links, wires'[d][m] # 0
               PROVE  obj'[wires'[d][m]].c = d /\ obj'[wires'[d][m]].l = m
    BY DEF MapOK
  <2>1. CASE d = c /\ m = l
    <3>1. wires'[d][m] = nobj'
      BY <1>2, <2>1 DEF TypeInv, MemoryOK
    <3> QED
      BY <1>3, <2>1, <3>1
  <2>2. CASE ~(d = c /\ m = l)
    <3>1. wires'[d][m] = wires[d][m]
      BY <1>2, <2>2 DEF TypeInv, MemoryOK
    <3>2. wires[d][m] \in Objs /\ wires[d][m] <= nobj
      BY <3>1, MapObj
    <3> QED
      BY <1>3, <1>4, <3>1, <3>2 DEF StopInv, MapOK
  <2> QED
    BY <2>1, <2>2
<1>6. ClosedOK'
  <2>1. \A g \in Gens : <<nobj', g>> \notin closed
    BY <1>1 DEF StopInv, ClosedOK, Objs
  <2>2. <<nobj', obj'[nobj'].gen>> \notin closed'
    BY <1>3, <2>1, GRPCWireAssumption DEF Gens
  <2>3. \A o \in Objs, g \in Gens :
          <<o, g>> \in closed' => o <= nobj' /\ g <= obj'[o].gen
    <3> SUFFICES ASSUME NEW o \in Objs, NEW g \in Gens, <<o, g>> \in closed'
                 PROVE  o <= nobj' /\ g <= obj'[o].gen
      OBVIOUS
    <3>1. o <= nobj /\ g <= obj[o].gen
      BY DEF StopInv, ClosedOK
    <3> QED
      BY <1>1, <1>3, <1>4, <3>1 DEF Objs
  <2>4. \A o \in Objs : obj'[o].ready => <<o, obj'[o].gen>> \notin closed'
    BY <1>3, <2>2 DEF StopInv, ClosedOK
  <2> QED
    BY <2>3, <2>4 DEF ClosedOK
<1>7. HeldOK'
  <2>1. \A h \in Calls : call[h].at \in HeldSteps => call[h].o \in Objs /\ call[h].o # nobj'
    BY <1>4, HeldObj
  <2>2. \A h \in Calls, d \in Containers, m \in Links :
          call[h].at \in HeldSteps => wires'[d][m] # call[h].o
    BY <1>2, <2>1 DEF StopInv, HeldOK, TypeInv, MemoryOK
  <2>3. "d_close" \in HeldSteps
    BY DEF HeldSteps
  <2>4. \A h \in Calls : call'[h].at = "d_close" => obj'[call'[h].o].ready
    BY <1>3, <2>1, <2>3 DEF KeepsHeld, StopInv, HeldOK
  <2> QED
    BY <2>2, <2>4 DEF KeepsHeld, StopInv, HeldOK
<1> QED
  BY <1>5, <1>6, <1>7 DEF StopInv, NoPanic

\* An update makes a channel that nobody has closed.
LEMMA StopUpdate ==
    ASSUME TypeInv, StopInv, KeepsHeld, NEW c \in Containers, NEW l \in Links,
           NEW p, wires[c][l] # 0, UpdateWire(wires[c][l], p),
           UNCHANGED <<wires, nobj, closed, panic>>
    PROVE  StopInv'
<1> DEFINE o == wires[c][l]
           w == [obj[o] EXCEPT !.gen = @ + 1, !.peer = p, !.ready = TRUE]
<1>1. o \in Objs /\ o <= nobj
  BY MapObj
<1>2. obj[o] \in ObjType /\ obj[o].gen \in Nat /\ obj[o].gen + 1 \in Gens
  BY <1>1, GRPCWireAssumption DEF UpdateWire, TypeInv, MemoryOK, ObjType, Gens
<1>3. obj' = [obj EXCEPT ![o] = w]
  BY <1>1 DEF UpdateWire, TypeInv, MemoryOK
<1>4. w.gen = obj[o].gen + 1 /\ w.c = obj[o].c /\ w.l = obj[o].l /\ w.ready
  BY <1>2 DEF ObjType
<1> HIDE DEF w
<1>5. obj'[o] = w /\ \A x \in Objs : x # o => obj'[x] = obj[x]
  BY <1>1, <1>3 DEF TypeInv, MemoryOK
<1> HIDE DEF o
<1>6. MapOK'
  <2> SUFFICES ASSUME NEW d \in Containers, NEW m \in Links, wires[d][m] # 0
               PROVE  obj'[wires[d][m]].c = d /\ obj'[wires[d][m]].l = m
    BY DEF MapOK
  <2>1. wires[d][m] \in Objs
    BY MapObj
  <2> QED
    BY <1>4, <1>5, <2>1 DEF StopInv, MapOK
<1>7. ClosedOK'
  <2>1. <<o, obj[o].gen + 1>> \notin closed
    <3>1. ~(obj[o].gen + 1 <= obj[o].gen)
      BY <1>2
    <3> QED
      BY <1>1, <1>2, <3>1 DEF StopInv, ClosedOK
  <2>2. \A x \in Objs : obj'[x].ready => <<x, obj'[x].gen>> \notin closed'
    BY <1>4, <1>5, <2>1 DEF StopInv, ClosedOK
  <2>3. \A x \in Objs, g \in Gens :
          <<x, g>> \in closed' => x <= nobj' /\ g <= obj'[x].gen
    <3> SUFFICES ASSUME NEW x \in Objs, NEW g \in Gens, <<x, g>> \in closed
                 PROVE  x <= nobj /\ g <= obj'[x].gen
      OBVIOUS
    <3>1. x <= nobj /\ g <= obj[x].gen /\ g \in Nat
      BY DEF StopInv, ClosedOK, Gens
    <3>2. x = o => g <= obj[o].gen + 1
      BY <1>2, <3>1
    <3> QED
      BY <1>4, <1>5, <3>1, <3>2
  <2> QED
    BY <2>2, <2>3 DEF ClosedOK
<1>8. HeldOK'
  <2>1. "d_close" \in HeldSteps
    BY DEF HeldSteps
  <2>2. \A h \in Calls : call[h].at \in HeldSteps => call[h].o \in Objs /\ call[h].o # o
    BY HeldObj DEF StopInv, HeldOK, o
  <2>3. \A h \in Calls : call'[h].at = "d_close" => obj'[call'[h].o].ready
    BY <1>5, <2>1, <2>2 DEF KeepsHeld, StopInv, HeldOK
  <2> QED
    BY <2>3 DEF KeepsHeld, StopInv, HeldOK
<1> QED
  BY <1>6, <1>7, <1>8 DEF StopInv, NoPanic

\* Closing the open channel of a ready wire, which is not ready afterwards, is
\* safe if no deletion is between its test and its close.
LEMMA StopClose ==
    ASSUME TypeInv, StopInv, KeepsHeld, NEW o \in Objs, o <= nobj,
           obj[o].ready, Close(o), obj' = [obj EXCEPT ![o].ready = FALSE],
           \A h \in Calls : call'[h].at = "d_close" => call'[h].o # o,
           UNCHANGED <<wires, nobj>>
    PROVE  StopInv'
<1> DEFINE w == [obj[o] EXCEPT !.ready = FALSE]
<1>1. obj[o] \in ObjType /\ obj[o].gen \in Gens
  BY MadeGen DEF TypeInv, MemoryOK
<1>2. obj' = [obj EXCEPT ![o] = w]
  BY DEF TypeInv, MemoryOK
<1>3. w.gen = obj[o].gen /\ w.c = obj[o].c /\ w.l = obj[o].l /\ ~w.ready
  BY <1>1 DEF ObjType
<1> HIDE DEF w
<1>4. obj'[o] = w /\ \A x \in Objs : x # o => obj'[x] = obj[x]
  BY <1>2 DEF TypeInv, MemoryOK
<1>5. NoPanic'
  BY DEF Close, StopInv, ClosedOK, NoPanic
<1>6. MapOK'
  <2> SUFFICES ASSUME NEW d \in Containers, NEW m \in Links, wires[d][m] # 0
               PROVE  obj'[wires[d][m]].c = d /\ obj'[wires[d][m]].l = m
    BY DEF MapOK
  <2>1. wires[d][m] \in Objs
    BY MapObj
  <2> QED
    BY <1>3, <1>4, <2>1 DEF StopInv, MapOK
<1>7. ClosedOK'
  <2>0. obj[o].gen <= obj[o].gen
    BY <1>1 DEF Gens
  <2>1. closed' = closed \cup {<<o, obj[o].gen>>}
    BY DEF Close
  <2>2. \A x \in Objs : obj'[x].ready => <<x, obj'[x].gen>> \notin closed'
    BY <1>3, <1>4, <2>1 DEF StopInv, ClosedOK
  <2>3. \A x \in Objs, g \in Gens :
          <<x, g>> \in closed' => x <= nobj' /\ g <= obj'[x].gen
    BY <1>3, <1>4, <2>0, <2>1 DEF StopInv, ClosedOK
  <2> QED
    BY <2>2, <2>3 DEF ClosedOK
<1>8. HeldOK'
  <2>1. "d_close" \in HeldSteps
    BY DEF HeldSteps
  <2>2. \A h \in Calls : call[h].at \in HeldSteps => call[h].o \in Objs
    BY HeldObj
  <2>3. \A h \in Calls : call'[h].at = "d_close" => obj'[call'[h].o].ready
    BY <1>4, <2>1, <2>2 DEF KeepsHeld, StopInv, HeldOK
  <2> QED
    BY <2>3 DEF KeepsHeld, StopInv, HeldOK
<1> QED
  BY <1>5, <1>6, <1>7, <1>8 DEF StopInv

-----------------------------------------------------------------------------
\* The calls that create and update wires keep StopInv.
LEMMA StopCreate ==
    ASSUME TypeInv, StopInv, NEW h \in Calls, Create(h)
    PROVE  StopInv'
<1>0. call[h] \in CallType /\ CallFine(call[h], nobj, nif)
  BY DEF TypeInv, CallsOK
<1>1. ASSUME NEW c \in Containers, NEW l \in Links, NEW p \in PeerIfs,
             LocalCall(h, c, l, p)
      PROVE  StopInv'
  <2> DEFINE k == [Idle EXCEPT !.at = "l_add", !.c = c, !.l = l, !.ifc = nif + 1,
                               !.peer = p]
  <2>1. k.at \notin HeldSteps
    BY DEF Idle, HeldSteps
  <2>2. call' = [call EXCEPT ![h] = k]
    BY <1>1 DEF LocalCall
  <2> HIDE DEF k
  <2>3. KeepsHeld
    BY <2>1, <2>2, KeepsOne
  <2> QED
    BY <1>1, <2>3, StopSame DEF LocalCall, memory
<1>2. ASSUME NEW c \in Containers, NEW l \in Links, NEW p \in PeerIfs,
             RemoteCall(h, c, l, p)
      PROVE  StopInv'
  <2> DEFINE o == wires[c][l]
             k == [Idle EXCEPT !.c = c, !.l = l, !.peer = p]
             ku == [k EXCEPT !.at = "r_status", !.o = o, !.n = obj[o].gen + 1,
                             !.ifc = obj[o].ifc]
             kc == [k EXCEPT !.at = "r_clean"]
  <2>1. ku.at \notin HeldSteps /\ kc.at \notin HeldSteps
    BY DEF Idle, HeldSteps
  <2>2. \/ /\ o # 0 /\ UpdateWire(o, p) /\ call' = [call EXCEPT ![h] = ku]
        \/ /\ UNCHANGED obj /\ call' = [call EXCEPT ![h] = kc]
    BY <1>2 DEF RemoteCall
  <2>3. KeepsHeld
    <3> HIDE DEF ku, kc
    <3> QED
      BY <2>1, <2>2, KeepsOne
  <2>4. UNCHANGED <<wires, nobj, closed, panic>>
    BY <1>2 DEF RemoteCall
  <2> QED
    BY <2>2, <2>3, <2>4, StopUpdate, StopSame
<1>3. CASE LocalAdd(h) \/ RemoteAdd(h)
  <2>1. /\ call[h].c \in Containers /\ call[h].l \in Links
    BY <1>0, <1>3 DEF LocalAdd, RemoteAdd, CallFine, WireSteps
  <2>2. CASE AddWireInMemNDataStore(h, call[h].c, call[h].l, call[h].ifc, call[h].peer)
    <3> DEFINE k == [call[h] EXCEPT !.at = "go", !.o = nobj + 1, !.n = 1]
    <3>1. call' = [call EXCEPT ![h] = k]
      BY <2>2 DEF AddWireInMemNDataStore, TypeInv, CallsOK
    <3>2. k.at \notin HeldSteps
      BY <1>0 DEF CallType, HeldSteps
    <3> HIDE DEF k
    <3>3. KeepsHeld
      BY <3>1, <3>2, KeepsOne
    <3> QED
      BY <2>1, <2>2, <3>3, StopNew DEF AddWireInMemNDataStore
  <2>3. CASE Return(h) /\ UNCHANGED memory
    BY <2>3, KeepsReturn, StopSame DEF memory
  <2> QED
    BY <1>3, <2>2, <2>3 DEF LocalAdd, RemoteAdd
<1>4. CASE RemoteStore(h)
  <2>1. KeepsHeld
    BY <1>4, KeepsStep DEF RemoteStore, HeldSteps
  <2> QED
    BY <1>4, <2>1, StopSame DEF RemoteStore, memory
<1>5. CASE RemoteClean(h) \/ RemoteClassify(h)
  <2>1. KeepsHeld
    BY <1>5, KeepsStep, KeepsReturn DEF RemoteClean, RemoteClassify, HeldSteps
  <2> QED
    BY <1>5, <2>1, StopSame DEF RemoteClean, RemoteClassify, memory
<1>6. CASE RemoteRemove(h)
  <2>1. KeepsHeld
    BY <1>6, KeepsStep, KeepsReturn DEF RemoteRemove, HeldSteps
  <2> QED
    BY <1>6, <2>1, StopSame DEF RemoteRemove, memory
<1>7. CASE RemoteMake(h)
  <2>1. KeepsHeld
    <3>1. CASE call' = [call EXCEPT ![h].at = "r_add", ![h].ifc = nif + 1]
      <4> DEFINE k == [call[h] EXCEPT !.at = "r_add", !.ifc = nif + 1]
      <4>1. call' = [call EXCEPT ![h] = k]
        BY <3>1 DEF TypeInv, CallsOK
      <4>2. k.at \notin HeldSteps
        BY <1>0 DEF CallType, HeldSteps
      <4> HIDE DEF k
      <4> QED
        BY <4>1, <4>2, KeepsOne
    <3> QED
      BY <1>7, <3>1, KeepsReturn DEF RemoteMake
  <2> QED
    BY <1>7, <2>1, StopSame DEF RemoteMake, memory
<1>8. CASE GoThread(h)
  BY <1>8, KeepsReturn, StopSame DEF GoThread
<1>9. CASE RemoteStatus(h)
  <2> DEFINE k == [call[h] EXCEPT !.at = "r_store", !.peer = obj[call[h].o].peer]
  <2>1. call' = [call EXCEPT ![h] = k]
    BY <1>9 DEF RemoteStatus, TypeInv, CallsOK
  <2>2. k.at \notin HeldSteps
    BY <1>0 DEF CallType, HeldSteps
  <2> HIDE DEF k
  <2>3. KeepsHeld
    BY <2>1, <2>2, KeepsOne
  <2> QED
    BY <1>9, <2>3, StopSame DEF RemoteStatus, memory
<1> QED
  BY <1>1, <1>2, <1>3, <1>4, <1>5, <1>6, <1>7, <1>8, <1>9 DEF Create

\* The DEL of a pod keeps it: the wire that it takes out of the map was filed
\* there once, so from then on it has the wire to itself.
LEMMA StopDelete ==
    ASSUME TypeInv, StopInv, NEW h \in Calls, Delete(h)
    PROVE  StopInv'
<1>0. call[h] \in CallType /\ CallFine(call[h], nobj, nif)
  BY DEF TypeInv, CallsOK
<1>1. ASSUME NEW c \in Containers, DeleteCall(h, c) PROVE StopInv'
  <2> DEFINE k == [Idle EXCEPT !.at = "d_next", !.c = c]
  <2>1. k.at \notin HeldSteps
    BY DEF Idle, HeldSteps
  <2>2. call' = [call EXCEPT ![h] = k]
    BY <1>1 DEF DeleteCall
  <2> HIDE DEF k
  <2>3. KeepsHeld
    BY <2>1, <2>2, KeepsOne
  <2> QED
    BY <1>1, <2>3, StopSame DEF DeleteCall, memory
<1>2. CASE ExtractOneWireByPod(h)
  <2>1. PICK c \in Containers, l \in Links :
          /\ wires[c][l] # 0
          /\ wires' = [wires EXCEPT ![c][l] = 0]
          /\ call' = [call EXCEPT ![h].at = "d_stop", ![h].o = wires[c][l]]
    BY <1>2 DEF ExtractOneWireByPod, PodWire
  <2> DEFINE o == wires[c][l]
  <2>2. /\ call'[h].at = "d_stop" /\ call'[h].o = o
        /\ \A g \in Calls : g # h => call'[g] = call[g]
    BY <1>0, <2>1 DEF TypeInv, CallsOK, CallType
  <2>3. /\ \A d \in Containers, m \in Links :
             wires'[d][m] = IF d = c /\ m = l THEN 0 ELSE wires[d][m]
    BY <2>1 DEF TypeInv, MemoryOK
  <2>4. MapOK'
    BY <1>2, <2>3 DEF ExtractOneWireByPod, StopInv, MapOK
  <2>5. ClosedOK' /\ NoPanic'
    BY <1>2 DEF ExtractOneWireByPod, StopInv, ClosedOK, NoPanic
  <2>6. \A d \in Containers, m \in Links : wires'[d][m] # o
    BY <2>1, <2>3 DEF StopInv, MapOK
  <2>7. \A g \in Calls : call[g].at \in HeldSteps => call[g].o # o
    BY DEF StopInv, HeldOK
  <2>8. \A g \in Calls, d \in Containers, m \in Links :
          call[g].at \in HeldSteps => wires'[d][m] # call[g].o
    <3>1. \A g \in Calls : call[g].at \in HeldSteps => call[g].o # 0
      BY DEF TypeInv, CallsOK, CallFine
    <3> QED
      BY <2>3, <3>1 DEF StopInv, HeldOK
  <2>9. UNCHANGED obj
    BY <1>2 DEF ExtractOneWireByPod
  <2> HIDE DEF o
  <2>10. HeldOK'
    <3>1. \A g \in Calls, d \in Containers, m \in Links :
            call'[g].at \in HeldSteps => wires'[d][m] # call'[g].o
      BY <2>2, <2>6, <2>8
    <3>2. \A g, i \in Calls :
            call'[g].at \in HeldSteps /\ call'[i].at \in HeldSteps
            /\ call'[g].o = call'[i].o => g = i
      BY <2>2, <2>7 DEF StopInv, HeldOK
    <3>3. \A g \in Calls : call'[g].at = "d_close" => obj'[call'[g].o].ready
      BY <2>2, <2>9 DEF StopInv, HeldOK
    <3> QED
      BY <3>1, <3>2, <3>3 DEF HeldOK
  <2> QED
    BY <2>4, <2>5, <2>10 DEF StopInv
<1>3. CASE DelStop(h)
  <2> DEFINE s == IF obj[call[h].o].ready THEN "d_close" ELSE "d_veth"
  <2>1. call' = [call EXCEPT ![h] = [call[h] EXCEPT !.at = s]]
    BY <1>3 DEF DelStop, TypeInv, CallsOK
  <2>2. /\ call'[h].at = s /\ call'[h].o = call[h].o
        /\ \A g \in Calls : g # h => call'[g] = call[g]
    BY <1>0, <2>1 DEF TypeInv, CallsOK, CallType
  <2>3. call[h].at \in HeldSteps
    BY <1>3 DEF DelStop, HeldSteps
  <2>4. UNCHANGED <<wires, obj, nobj, closed, panic>>
    BY <1>3 DEF DelStop, memory
  <2>5. MapOK' /\ ClosedOK' /\ NoPanic'
    BY <2>4 DEF StopInv, MapOK, ClosedOK, NoPanic
  <2>6. HeldOK'
    BY <2>2, <2>3, <2>4 DEF StopInv, HeldOK
  <2> QED
    BY <2>5, <2>6 DEF StopInv
<1>4. CASE DelClose(h)
  <2>1. call[h].at \in HeldSteps /\ call[h].at = "d_close" /\ "d_veth" # "d_close"
    BY <1>4 DEF DelClose, HeldSteps
  <2>2. KeepsHeld
    BY <1>4, <2>1, KeepsStep DEF DelClose
  <2>3. call[h].o \in Objs /\ call[h].o <= nobj /\ obj[call[h].o].ready
    BY <2>1, HeldObj DEF StopInv, HeldOK
  <2>4. ASSUME NEW g \in Calls, call'[g].at = "d_close" PROVE call'[g].o # call[h].o
    <3>1. g # h
      BY <1>0, <1>4, <2>4 DEF DelClose, TypeInv, CallsOK, CallType
    <3>2. call'[g] = call[g]
      BY <1>4, <3>1 DEF DelClose, TypeInv, CallsOK
    <3> QED
      BY <2>1, <2>4, <3>1, <3>2 DEF StopInv, HeldOK
  <2> QED
    BY <1>4, <2>2, <2>3, <2>4, StopClose DEF DelClose
<1>5. CASE DelVeth(h)
  <2>1. KeepsHeld
    BY <1>5, KeepsStep DEF DelVeth, HeldSteps
  <2> QED
    BY <1>5, <2>1, StopSame DEF DelVeth, memory
<1>6. CASE DelUnstore(h)
  <2> DEFINE k == [call[h] EXCEPT !.at = "d_next", !.o = 0]
  <2>1. call' = [call EXCEPT ![h] = k]
    BY <1>6 DEF DelUnstore, TypeInv, CallsOK
  <2>2. k.at \notin HeldSteps
    BY <1>0 DEF CallType, HeldSteps
  <2> HIDE DEF k
  <2>3. KeepsHeld
    BY <2>1, <2>2, KeepsOne
  <2> QED
    BY <1>6, <2>3, StopSame DEF DelUnstore, memory
<1>7. CASE DelByPod(h)
  BY <1>7, KeepsReturn, StopSame DEF DelByPod, memory
<1> QED
  BY <1>1, <1>2, <1>3, <1>4, <1>5, <1>6, <1>7 DEF Delete

\* The peer takes a wire down: it is in the map, so no deletion holds it.
LEMMA StopDown ==
    ASSUME TypeInv, StopInv, NEW c \in Containers, NEW l \in Links,
           GRPCWireDownRemote(c, l)
    PROVE  StopInv'
<1> DEFINE o == wires[c][l]
<1>1. o \in Objs /\ o <= nobj
  BY MapObj DEF GRPCWireDownRemote
<1>2. UNCHANGED <<wires, nobj, call>> /\ obj' = [obj EXCEPT ![o].ready = FALSE]
  BY DEF GRPCWireDownRemote, WireDown
<1>3. KeepsHeld
  BY <1>2 DEF KeepsHeld
<1>4. CASE obj[o].ready
  <2>1. Close(o)
    BY <1>4 DEF GRPCWireDownRemote, WireDown
  <2>2. \A h \in Calls : call'[h].at = "d_close" => call'[h].o # o
    BY <1>2 DEF StopInv, HeldOK, HeldSteps
  <2> QED
    BY <1>1, <1>2, <1>3, <1>4, <2>1, <2>2, StopClose
<1>5. CASE ~obj[o].ready
  <2>1. UNCHANGED <<closed, panic>>
    BY <1>5 DEF GRPCWireDownRemote, WireDown
  <2>2. UNCHANGED obj
    <3>1. obj[o] \in ObjType /\ obj \in [Objs -> ObjType] /\ obj[o].ready = FALSE
      BY <1>1, <1>5 DEF TypeInv, MemoryOK, ObjType
    <3>2. [obj[o] EXCEPT !.ready = FALSE] = obj[o]
      BY <3>1 DEF ObjType
    <3> QED
      BY <1>1, <1>2, <3>1, <3>2
  <2> QED
    BY <1>2, <1>3, <2>1, <2>2, StopSame
<1> QED
  BY <1>4, <1>5

\* A crash leaves nothing to close; ReconGWires makes fresh objects.
LEMMA StopRestart ==
    ASSUME TypeInv, StopInv, Crash \/ Recon
    PROVE  StopInv'
<1>1. CASE Crash
  <2>1. /\ \A c \in Containers, l \in Links : wires'[c][l] = 0
        /\ \A h \in Calls : call'[h].at = "idle"
        /\ closed' = {} /\ panic' = panic
    BY <1>1 DEF Crash, NoWires, Idle
  <2> QED
    BY <2>1 DEF StopInv, MapOK, ClosedOK, HeldOK, HeldSteps, NoPanic
<1>2. CASE Restart \/ Serve
  BY <1>2, StopSame DEF Restart, Serve, memory, KeepsHeld
<1>3. ASSUME NEW r \in todo, ReCreateGWire(r) PROVE StopInv'
  <2>1. r.c \in Containers /\ r.l \in Links
    BY DEF TypeInv, StoreOK, RecType
  <2>2. KeepsHeld
    BY <1>3 DEF ReCreateGWire, KeepsHeld
  <2> QED
    BY <1>3, <2>1, <2>2, StopNew, StopSame DEF ReCreateGWire, memory
<1> QED
  BY <1>1, <1>2, <1>3 DEF Recon

\* Every step keeps StopInv.
LEMMA NextStop == TypeInv /\ StopInv /\ [Next]_vars => StopInv'
<1> SUFFICES ASSUME TypeInv, StopInv, [Next]_vars PROVE StopInv'
  OBVIOUS
<1>1. ASSUME NEW c \in Containers, Pod(c) PROVE StopInv'
  BY <1>1, StopSame DEF Pod, StartPod, RemoveSandbox, memory, KeepsHeld
<1>2. ASSUME NEW o \in Objs, NEW g \in Gens, Forward(o, g) PROVE StopInv'
  BY <1>2, StopSame
  DEF Forward, ThreadWait, ThreadRun, ThreadPacket, ThreadSent, ThreadStop, Thread,
      KeepsHeld
<1>3. CASE UNCHANGED vars
  BY <1>3, StopSame DEF vars, memory, KeepsHeld
<1> QED
  BY <1>1, <1>2, <1>3, StopCreate, StopDelete, StopDown, StopRestart DEF Next

\* The daemon starts without wires.
LEMMA InitStop == Init => StopInv
<1> SUFFICES ASSUME Init PROVE StopInv
  OBVIOUS
<1>1. /\ \A c \in Containers, l \in Links : wires[c][l] = 0
      /\ \A h \in Calls : call[h].at = "idle"
      /\ closed = {} /\ panic = FALSE
  BY DEF Init, NoWires, Idle
<1> QED
  BY <1>1 DEF StopInv, MapOK, ClosedOK, HeldOK, HeldSteps, NoPanic

\* StopInv holds for ever.
LEMMA StopInvAlways == Spec => []StopInv
BY InitType, NextType, InitStop, NextStop, PTL DEF Spec

\* The daemon never closes a stop channel twice. WireDownByUID tests and closes
\* under the lock of the map; RemoveWireAcrosAll does so without it, but only
\* after ExtractOneWireByPod has taken the wire out of the map, which leaves it
\* as the only goroutine that can close the channel.
THEOREM DaemonNeverPanics == Spec => []NoPanic
BY StopInvAlways, PTL DEF StopInv

-----------------------------------------------------------------------------
(* A ready wire has a thread.                                               *)

\* The thread for the channel that o has now is about to be started ...
Starting(o) ==
    \E h \in Calls : call[h].at \in GoSteps /\ call[h].o = o /\ call[h].n = obj[o].gen

\* ... or forwards, and waits on no other channel than that one.
Serving(o) ==
    LET t == thr[o][obj[o].gen] IN
    t.at \in {"new", "send"} \/ (t.at \in {"wait", "run"} /\ t.on = obj[o].gen)

\* Wire o is served, unless it is down or its interface is gone.
Served(o) == o <= nobj /\ obj[o].ready /\ HostIf(o) => Starting(o) \/ Serving(o)

\* This holds of all objects, not only of those in the map.
ServedInv == \A o \in Objs : Served(o)

\* Interfaces that are gone do not come back.
KeepsIfs ==
    \A c \in Containers, l \in Links : inpod'[c][l] \in {0, inpod[c][l], nif + 1}

\* So a step makes no interface of a known object appear.
LEMMA IfsGone ==
    ASSUME TypeInv, KeepsIfs, NEW o \in Objs, o <= nobj, obj'[o].c = obj[o].c,
           obj'[o].l = obj[o].l, obj'[o].ifc = obj[o].ifc, HostIf(o)'
    PROVE  HostIf(o)
<1>1. obj[o].c \in Containers /\ obj[o].l \in Links /\ obj[o].ifc <= nif
  BY DEF TypeInv, MemoryOK, ObjMade
<1>2. obj[o].ifc # nif + 1
  BY <1>1, Counters, GRPCWireAssumption DEF TypeInv, MemoryOK, ObjType
<1> QED
  BY <1>1, <1>2 DEF KeepsIfs, HostIf, Exists

\* A call that is about to start a thread still is.
KeepsStarting ==
    \A h \in Calls : call[h].at \in GoSteps =>
        call'[h].at \in GoSteps /\ call'[h].o = call[h].o /\ call'[h].n = call[h].n

\* One call changes that is not about to start a thread.
LEMMA StartsOne ==
    ASSUME TypeInv, NEW h \in Calls, call[h].at \notin GoSteps,
           \A g \in Calls : g # h => call'[g] = call[g]
    PROVE  KeepsStarting
BY DEF KeepsStarting

\* A step that leaves objects and threads alone keeps ServedInv.
LEMMA ServedSame ==
    ASSUME TypeInv, ServedInv, KeepsIfs, KeepsStarting, UNCHANGED <<obj, nobj, thr>>
    PROVE  ServedInv'
<1> SUFFICES ASSUME NEW o \in Objs PROVE Served(o)'
  BY DEF ServedInv
<1>1. Served(o)
  BY DEF ServedInv
<1>2. ASSUME o <= nobj, HostIf(o)' PROVE HostIf(o)
  BY <1>2, IfsGone
<1>3. Starting(o) => Starting(o)'
  BY DEF Starting, KeepsStarting
<1>4. Serving(o) => Serving(o)'
  BY DEF Serving
<1> QED
  BY <1>1, <1>2, <1>3, <1>4 DEF Served

\* So does one that takes wires down.
LEMMA ServedDown ==
    ASSUME TypeInv, ServedInv, KeepsIfs, KeepsStarting, UNCHANGED <<nobj, thr>>,
           NEW x \in Objs, obj' = [obj EXCEPT ![x].ready = FALSE]
    PROVE  ServedInv'
<1> SUFFICES ASSUME NEW o \in Objs PROVE Served(o)'
  BY DEF ServedInv
<1>1. CASE o = x
  <2>1. obj[x] \in ObjType /\ obj \in [Objs -> ObjType]
    BY DEF TypeInv, MemoryOK
  <2>2. ~obj'[o].ready
    BY <1>1, <2>1 DEF ObjType
  <2> QED
    BY <2>2 DEF Served
<1>2. CASE o # x
  <2>0. obj'[o] = obj[o]
    BY <1>2 DEF TypeInv, MemoryOK
  <2>1. Served(o)
    BY DEF ServedInv
  <2>2. ASSUME o <= nobj, HostIf(o)' PROVE HostIf(o)
    BY <2>0, <2>2, IfsGone
  <2>3. Starting(o) => Starting(o)'
    BY <2>0 DEF Starting, KeepsStarting
  <2>4. Serving(o) => Serving(o)'
    BY <2>0 DEF Serving
  <2> QED
    BY <2>0, <2>1, <2>2, <2>3, <2>4 DEF Served
<1> QED
  BY <1>1, <1>2

\* A call that ends takes no thread with it unless it was about to start one.
LEMMA StartsReturn ==
    ASSUME TypeInv, NEW h \in Calls, Return(h), call[h].at \notin GoSteps
    PROVE  KeepsStarting
BY StartsOne DEF Return, TypeInv, CallsOK

\* A new object comes with a call that starts its thread, or with the thread.
LEMMA ServedNew ==
    ASSUME TypeInv, ServedInv, KeepsIfs, KeepsStarting, NEW c, NEW l, NEW i, NEW p,
           NewWire(c, l, i, p),
           \A o \in Objs : o <= nobj => thr'[o] = thr[o],
           \/ \E h \in Calls : call'[h].at \in GoSteps /\ call'[h].o = nobj'
                                                      /\ call'[h].n = 1
           \/ thr'[nobj'][1].at = "new"
    PROVE  ServedInv'
<1> DEFINE w == [c |-> c, l |-> l, ifc |-> i, peer |-> p, ready |-> TRUE, gen |-> 1]
<1>1. nobj \in Nat /\ nobj' = nobj + 1 /\ nobj' \in Objs
  BY Counters, GRPCWireAssumption DEF NewWire, Objs
<1>2. obj' = [obj EXCEPT ![nobj'] = w]
  BY <1>1 DEF NewWire
<1>3. obj'[nobj'].gen = 1 /\ \A o \in Objs : o # nobj' => obj'[o] = obj[o]
  BY <1>1, <1>2 DEF TypeInv, MemoryOK
<1> HIDE DEF w
<1> SUFFICES ASSUME NEW o \in Objs, o <= nobj' PROVE Served(o)'
  BY DEF ServedInv, Served
<1>4. CASE o = nobj'
  <2>1. Starting(o)' \/ Serving(o)'
    BY <1>3, <1>4 DEF Starting, Serving
  <2> QED
    BY <2>1 DEF Served
<1>5. CASE o # nobj'
  <2>0. o <= nobj /\ obj'[o] = obj[o] /\ thr'[o] = thr[o]
    BY <1>1, <1>3, <1>5 DEF Objs
  <2>1. Served(o)
    BY DEF ServedInv
  <2>2. ASSUME HostIf(o)' PROVE HostIf(o)
    BY <2>0, <2>2, IfsGone
  <2>3. Starting(o) => Starting(o)'
    BY <2>0 DEF Starting, KeepsStarting
  <2>4. Serving(o) => Serving(o)'
    BY <2>0 DEF Serving
  <2> QED
    BY <2>0, <2>1, <2>2, <2>3, <2>4 DEF Served
<1> QED
  BY <1>4, <1>5

\* An update comes with a call that starts the thread for the new channel.
LEMMA ServedUpdate ==
    ASSUME TypeInv, ServedInv, KeepsIfs, KeepsStarting, UNCHANGED <<nobj, thr>>,
           NEW x \in Objs, NEW p, UpdateWire(x, p),
           \E h \in Calls : call'[h].at \in GoSteps /\ call'[h].o = x
                                                    /\ call'[h].n = obj[x].gen + 1
    PROVE  ServedInv'
<1> SUFFICES ASSUME NEW o \in Objs PROVE Served(o)'
  BY DEF ServedInv
<1>1. CASE o = x
  <2>1. obj[x] \in ObjType /\ obj \in [Objs -> ObjType]
    BY DEF TypeInv, MemoryOK
  <2>2. obj'[o].gen = obj[x].gen + 1
    BY <1>1, <2>1 DEF UpdateWire, ObjType
  <2>3. Starting(o)'
    BY <1>1, <2>2 DEF Starting
  <2> QED
    BY <2>3 DEF Served
<1>2. CASE o # x
  <2>0. obj'[o] = obj[o]
    BY <1>2 DEF UpdateWire, TypeInv, MemoryOK
  <2>1. Served(o)
    BY DEF ServedInv
  <2>2. ASSUME o <= nobj, HostIf(o)' PROVE HostIf(o)
    BY <2>0, <2>2, IfsGone
  <2>3. Starting(o) => Starting(o)'
    BY <2>0 DEF Starting, KeepsStarting
  <2>4. Serving(o) => Serving(o)'
    BY <2>0 DEF Serving
  <2> QED
    BY <2>0, <2>1, <2>2, <2>3, <2>4 DEF Served
<1> QED
  BY <1>1, <1>2

\* The calls that create and update wires keep ServedInv.
LEMMA ServedCreate ==
    ASSUME TypeInv, ServedInv, NEW h \in Calls, Create(h)
    PROVE  ServedInv'
<1>0. /\ call[h] \in CallType /\ CallFine(call[h], nobj, nif)
      /\ call \in [Calls -> CallType] /\ thr \in [Objs -> [Gens -> ThrType]]
  BY DEF TypeInv, CallsOK, MemoryOK
<1>i. UNCHANGED inpod => KeepsIfs
  BY DEF KeepsIfs
<1>v. ASSUME NEW c \in Containers, NEW l \in Links, MakeVeth(c, l) PROVE KeepsIfs
  BY <1>v DEF MakeVeth, KeepsIfs, TypeInv, HostOK
<1>1. ASSUME NEW c \in Containers, NEW l \in Links, NEW p \in PeerIfs,
             LocalCall(h, c, l, p)
      PROVE  ServedInv'
  <2>1. KeepsStarting
    BY <1>0, <1>1, StartsOne DEF LocalCall, GoSteps
  <2> QED
    BY <1>1, <1>v, <2>1, ServedSame DEF LocalCall, memory
<1>2. ASSUME NEW c \in Containers, NEW l \in Links, NEW p \in PeerIfs,
             RemoteCall(h, c, l, p)
      PROVE  ServedInv'
  <2>1. KeepsStarting
    BY <1>0, <1>2, StartsOne DEF RemoteCall, GoSteps
  <2>2. UNCHANGED <<nobj, thr>> /\ KeepsIfs
    BY <1>2, <1>i DEF RemoteCall, host
  <2>3. CASE wires[c][l] # 0
    <3>1. wires[c][l] \in Objs
      BY <2>3, MapObj
    <3>2. UpdateWire(wires[c][l], p)
      BY <1>2, <2>3 DEF RemoteCall
    <3>3. /\ call'[h].at = "r_status" /\ call'[h].o = wires[c][l]
          /\ call'[h].n = obj[wires[c][l]].gen + 1
      BY <1>0, <1>2, <2>3 DEF RemoteCall, Idle
    <3> QED
      BY <2>1, <2>2, <3>1, <3>2, <3>3, ServedUpdate DEF GoSteps
  <2>4. CASE wires[c][l] = 0
    BY <1>2, <2>1, <2>2, <2>4, ServedSame DEF RemoteCall
  <2> QED
    BY <2>3, <2>4
<1>3. CASE LocalAdd(h) \/ RemoteAdd(h)
  <2>1. KeepsIfs /\ call[h].at \notin GoSteps
    BY <1>3, <1>i DEF LocalAdd, RemoteAdd, GoSteps, host
  <2>2. CASE AddWireInMemNDataStore(h, call[h].c, call[h].l, call[h].ifc, call[h].peer)
    <3>1. KeepsStarting
      BY <1>0, <2>1, <2>2, StartsOne DEF AddWireInMemNDataStore
    <3>2. /\ call'[h].at = "go" /\ call'[h].o = nobj' /\ call'[h].n = 1
      BY <1>0, <2>2 DEF AddWireInMemNDataStore, NewWire, CallType
    <3>3. UNCHANGED thr
      BY <2>2 DEF AddWireInMemNDataStore
    <3>4. NewWire(call[h].c, call[h].l, call[h].ifc, call[h].peer)
      BY <2>2 DEF AddWireInMemNDataStore
    <3>5. call'[h].at \in GoSteps
      BY <3>2 DEF GoSteps
    <3> QED
      BY <2>1, <3>1, <3>2, <3>3, <3>4, <3>5, ServedNew
  <2>3. CASE Return(h) /\ UNCHANGED memory
    BY <2>1, <2>3, StartsReturn, ServedSame DEF memory
  <2> QED
    BY <1>3, <2>2, <2>3 DEF LocalAdd, RemoteAdd
<1>4. CASE RemoteStatus(h) \/ RemoteStore(h)
  <2>1. KeepsStarting
    BY <1>0, <1>4 DEF RemoteStatus, RemoteStore, KeepsStarting, GoSteps, CallType
  <2> QED
    BY <1>4, <1>i, <2>1, ServedSame DEF RemoteStatus, RemoteStore, memory, host
<1>5. CASE RemoteClean(h) \/ RemoteClassify(h)
  <2>1. KeepsStarting
    BY <1>0, <1>5, StartsOne DEF RemoteClean, RemoteClassify, Return, GoSteps
  <2> QED
    BY <1>5, <1>i, <2>1, ServedSame DEF RemoteClean, RemoteClassify, memory, host
<1>6. CASE RemoteRemove(h)
  <2>1. KeepsStarting
    BY <1>0, <1>6, StartsOne DEF RemoteRemove, Return, GoSteps
  <2>2. KeepsIfs
    BY <1>6 DEF RemoteRemove, KeepsIfs, TypeInv, HostOK
  <2> QED
    BY <1>6, <2>1, <2>2, ServedSame DEF RemoteRemove, memory
<1>7. CASE RemoteMake(h)
  <2>1. KeepsStarting
    BY <1>0, <1>7, StartsOne DEF RemoteMake, Return, GoSteps
  <2>2. call[h].c \in Containers /\ call[h].l \in Links
    BY <1>0, <1>7 DEF RemoteMake, CallFine, WireSteps
  <2>3. KeepsIfs
    BY <1>7, <1>i, <1>v, <2>2 DEF RemoteMake, host
  <2> QED
    BY <1>7, <2>1, <2>3, ServedSame DEF RemoteMake, memory
<1>8. CASE GoThread(h)
  <2> DEFINE x == call[h].o
             n == call[h].n
  <2>1. x \in Objs /\ n \in Gens
    BY <1>0, <1>8, GRPCWireAssumption
    DEF GoThread, CallFine, CallType, GoSteps, Objs, Gens
  <2>2. /\ thr'[x][n].at = "new"
        /\ \A o \in Objs, g \in Gens : ~(o = x /\ g = n) => thr'[o][g] = thr[o][g]
    BY <1>0, <1>8, <2>1 DEF GoThread, ThrType
  <2>3. UNCHANGED <<obj, nobj, inpod>>
    BY <1>8 DEF GoThread, host
  <2>4. \A g \in Calls : g # h => call'[g] = call[g]
    BY <1>0, <1>8 DEF GoThread, Return
  <2> HIDE DEF x, n
  <2> SUFFICES ASSUME NEW o \in Objs, o <= nobj PROVE Served(o)'
    BY <2>3 DEF ServedInv, Served
  <2>5. Served(o) /\ (HostIf(o)' <=> HostIf(o)) /\ obj[o].gen \in Gens
    BY <2>3, MadeGen DEF ServedInv, HostIf, Exists
  <2>6. CASE o = x /\ n = obj[o].gen
    BY <2>2, <2>3, <2>6 DEF Served, Serving
  <2>7. CASE ~(o = x /\ n = obj[o].gen)
    <3>1. Starting(o) => Starting(o)'
      BY <2>3, <2>4, <2>7 DEF Starting, x, n
    <3>2. Serving(o) => Serving(o)'
      BY <2>2, <2>3, <2>5, <2>7 DEF Serving
    <3> QED
      BY <2>3, <2>5, <3>1, <3>2 DEF Served
  <2> QED
    BY <2>6, <2>7
<1> QED
  BY <1>1, <1>2, <1>3, <1>4, <1>5, <1>6, <1>7, <1>8 DEF Create

\* The DEL of a pod keeps it.
LEMMA ServedDelete ==
    ASSUME TypeInv, ServedInv, NEW h \in Calls, Delete(h)
    PROVE  ServedInv'
<1>0. call \in [Calls -> CallType]
  BY DEF TypeInv, CallsOK
<1>1. call[h].at \notin GoSteps
  BY DEF Delete, DeleteCall, ExtractOneWireByPod, DelStop, DelClose, DelVeth,
         DelUnstore, DelByPod, GoSteps
<1>2. \A g \in Calls : g # h => call'[g] = call[g]
  BY <1>0 DEF Delete, DeleteCall, ExtractOneWireByPod, DelStop, DelClose, DelVeth,
              DelUnstore, DelByPod, Return
<1>3. KeepsStarting
  BY <1>1, <1>2, StartsOne
<1>4. CASE DelClose(h)
  <2>1. call[h].o \in Objs
    BY <1>4, HeldObj DEF DelClose, HeldSteps
  <2>2. KeepsIfs
    BY <1>4 DEF DelClose, KeepsIfs, host
  <2> QED
    BY <1>3, <1>4, <2>1, <2>2, ServedDown DEF DelClose
<1>5. CASE DelVeth(h)
  <2>1. KeepsIfs
    BY <1>5 DEF DelVeth, KeepsIfs, TypeInv, HostOK
  <2> QED
    BY <1>3, <1>5, <2>1, ServedSame DEF DelVeth, memory
<1>6. CASE ~DelClose(h) /\ ~DelVeth(h)
  <2>1. UNCHANGED <<obj, nobj, thr, inpod>>
    BY <1>6 DEF Delete, DeleteCall, ExtractOneWireByPod, DelStop, DelUnstore, DelByPod,
                memory, host
  <2>2. KeepsIfs
    BY <2>1 DEF KeepsIfs
  <2> QED
    BY <1>3, <2>1, <2>2, ServedSame
<1> QED
  BY <1>4, <1>5, <1>6

\* Threads keep it: the one that serves a ready wire waits on a channel that is
\* open, and gives up only if the interface is gone.
LEMMA ServedForward ==
    ASSUME TypeInv, StopInv, ServedInv, NEW x \in Objs, NEW n \in Gens, Forward(x, n)
    PROVE  ServedInv'
<1>1. UNCHANGED <<obj, nobj, call, inpod, closed>>
  BY DEF Forward, ThreadWait, ThreadRun, ThreadPacket, ThreadSent, ThreadStop, Thread,
         host
<1>2. thr \in [Objs -> [Gens -> ThrType]]
  BY DEF TypeInv, MemoryOK
<1>3. \A o \in Objs, g \in Gens : ~(o = x /\ g = n) => thr'[o][g] = thr[o][g]
  BY <1>2 DEF Forward, ThreadWait, ThreadRun, ThreadPacket, ThreadSent, ThreadStop,
              Thread
<1> SUFFICES ASSUME NEW o \in Objs, o <= nobj PROVE Served(o)'
  BY <1>1 DEF ServedInv, Served
<1>4. /\ Served(o) /\ (HostIf(o)' <=> HostIf(o)) /\ (Starting(o)' <=> Starting(o))
      /\ obj[o].gen \in Gens
  BY <1>1, MadeGen DEF ServedInv, HostIf, Exists, Starting
<1>5. CASE ~(o = x /\ n = obj[o].gen)
  <2>1. Serving(o) => Serving(o)'
    BY <1>1, <1>3, <1>4, <1>5 DEF Serving
  <2> QED
    BY <1>1, <1>4, <2>1 DEF Served
<1>6. CASE o = x /\ n = obj[o].gen
  <2> DEFINE g == obj[o].gen
  <2>1. \A from, to, on : Thread(x, n, from, to, on)
          => thr'[o][g].at = to /\ thr'[o][g].on = on /\ thr[o][g].at = from
    BY <1>2, <1>6 DEF Thread
  <2>2. CASE ThreadWait(x, n) \/ ThreadPacket(x, n) \/ ThreadSent(x, n)
    <3>1. Serving(o)'
      BY <1>1, <1>6, <2>1, <2>2 DEF Serving, ThreadWait, ThreadPacket, ThreadSent
    <3> QED
      BY <3>1 DEF Served
  <2>3. CASE ThreadRun(x, n)
    <3>1. HostIf(o) => Serving(o)'
      BY <1>1, <1>6, <2>1, <2>3 DEF Serving, ThreadRun
    <3> QED
      BY <1>4, <3>1 DEF Served
  <2>4. CASE ThreadStop(x, n)
    <3>1. <<o, thr[o][g].on>> \in closed /\ thr[o][g].at \in {"wait", "run"}
      BY <1>6, <2>1, <2>4 DEF ThreadStop
    <3>2. obj[o].ready => thr[o][g].on # g
      BY <3>1 DEF StopInv, ClosedOK
    <3>3. obj[o].ready => ~Serving(o)
      BY <3>1, <3>2 DEF Serving
    <3> QED
      BY <1>1, <1>4, <3>3 DEF Served
  <2> QED
    BY <2>2, <2>3, <2>4 DEF Forward
<1> QED
  BY <1>5, <1>6

\* So do a crash, after which there is no wire, and ReconGWires.
LEMMA ServedRestart ==
    ASSUME TypeInv, ServedInv, Crash \/ Recon
    PROVE  ServedInv'
<1>1. CASE Crash
  <2>1. nobj' = 0 /\ \A o \in Objs : ~(o <= 0)
    BY <1>1, GRPCWireAssumption DEF Crash, Objs
  <2> QED
    BY <2>1 DEF ServedInv, Served
<1>2. CASE Restart \/ Serve
  BY <1>2, ServedSame DEF Restart, Serve, memory, host, KeepsIfs, KeepsStarting
<1>3. ASSUME NEW r \in todo, ReCreateGWire(r) PROVE ServedInv'
  <2>1. KeepsIfs /\ KeepsStarting
    BY <1>3 DEF ReCreateGWire, host, KeepsIfs, KeepsStarting
  <2>2. CASE /\ NewWire(r.c, r.l, r.ifc, r.peer)
             /\ thr' = [thr EXCEPT ![nobj + 1][1].at = "new"]
    <3>1. nobj \in Nat /\ nobj' = nobj + 1 /\ nobj' \in Objs /\ 1 \in Gens
      BY <2>2, Counters, GRPCWireAssumption DEF NewWire, Objs, Gens
    <3>2. thr \in [Objs -> [Gens -> ThrType]]
      BY DEF TypeInv, MemoryOK
    <3>3. thr'[nobj'][1].at = "new"
      BY <2>2, <3>1, <3>2 DEF ThrType
    <3>4. \A o \in Objs : o <= nobj => thr'[o] = thr[o]
      <4>1. \A o \in Objs : o <= nobj => o # nobj + 1
        BY <3>1 DEF Objs
      <4> QED
        BY <2>2, <3>2, <4>1
    <3> QED
      BY <2>1, <2>2, <3>3, <3>4, ServedNew
  <2>3. CASE UNCHANGED memory
    BY <2>1, <2>3, ServedSame DEF memory
  <2> QED
    BY <1>3, <2>2, <2>3 DEF ReCreateGWire
<1> QED
  BY <1>1, <1>2, <1>3 DEF Recon

\* Every step keeps ServedInv.
LEMMA NextServed == TypeInv /\ StopInv /\ ServedInv /\ [Next]_vars => ServedInv'
<1> SUFFICES ASSUME TypeInv, StopInv, ServedInv, [Next]_vars PROVE ServedInv'
  OBVIOUS
<1>1. ASSUME NEW c \in Containers, Pod(c) PROVE ServedInv'
  <2>1. KeepsIfs
    BY <1>1 DEF Pod, StartPod, RemoveSandbox, host, KeepsIfs, TypeInv, HostOK
  <2> QED
    BY <1>1, <2>1, ServedSame DEF Pod, StartPod, RemoveSandbox, memory, KeepsStarting
<1>2. ASSUME NEW c \in Containers, NEW l \in Links, GRPCWireDownRemote(c, l)
      PROVE  ServedInv'
  <2>1. wires[c][l] \in Objs
    BY <1>2, MapObj DEF GRPCWireDownRemote
  <2>2. KeepsIfs /\ KeepsStarting
    BY <1>2 DEF GRPCWireDownRemote, host, KeepsIfs, KeepsStarting
  <2> QED
    BY <1>2, <2>1, <2>2, ServedDown DEF GRPCWireDownRemote, WireDown
<1>3. CASE UNCHANGED vars
  BY <1>3, ServedSame DEF vars, memory, host, KeepsIfs, KeepsStarting
<1> QED
  BY <1>1, <1>2, <1>3, ServedCreate, ServedDelete, ServedForward, ServedRestart DEF Next

\* ServedInv holds of the daemon that has just started.
LEMMA InitServed == Init => ServedInv
<1> SUFFICES ASSUME Init, NEW o \in Objs PROVE Served(o)
  BY DEF ServedInv
<1>1. nobj = 0 /\ ~(o <= 0)
  BY GRPCWireAssumption DEF Init, Objs
<1> QED
  BY <1>1 DEF Served

\* ServedInv, with what is known of the stop channels, gives ReadyIsServed.
LEMMA ServedReady == TypeInv /\ StopInv /\ ServedInv => ReadyIsServed
<1> SUFFICES ASSUME TypeInv, StopInv, ServedInv, NEW c \in Containers, NEW l \in Links,
                    wires[c][l] # 0, obj[wires[c][l]].ready, HostIf(wires[c][l])
             PROVE  \E g \in Gens : Active(wires[c][l], g)
  BY DEF ReadyIsServed
<1> DEFINE o == wires[c][l]
<1>1. o \in Objs /\ o <= nobj
  BY MapObj
<1> HIDE DEF o
<1>2. obj[o].gen \in Gens
  BY <1>1, MadeGen
<1>3. Starting(o) \/ Serving(o)
  BY <1>1 DEF ServedInv, Served, o
<1>4. <<o, obj[o].gen>> \notin closed
  BY <1>1 DEF StopInv, ClosedOK, o
<1>5. Active(o, obj[o].gen)
  BY <1>3, <1>4 DEF Starting, Serving, Active, GoSteps
<1> QED
  BY <1>2, <1>5 DEF o

\* A wire that is ready, and whose interface exists, has a thread that forwards
\* what the pod sends, or a call about to start one, after any sequence of
\* updates (which replace the stop channel under the running threads), downs,
\* deletions and restarts.
THEOREM ReadyWiresAreServed == Spec => []ReadyIsServed
<1>1. Init => ServedInv
  BY InitServed
<1>2. Spec => []ServedInv
  BY <1>1, TypeInvAlways, StopInvAlways, NextServed, PTL DEF Spec
<1> QED
  BY <1>2, TypeInvAlways, StopInvAlways, ServedReady, PTL
=============================================================================

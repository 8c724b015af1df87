------------------------------ MODULE GRPCWire ------------------------------
(***************************************************************************)
(* The gRPC wires inside the daemon of one node: the wire map, the wire    *)
(* objects and the threads that hold pointers to them, the stop channels,  *)
(* the records in the K8s data store, and what a restart makes of them.    *)
(* RPC handlers run concurrently; an action is the code between two points *)
(* at which another goroutine can get at shared state, so a section under  *)
(* the lock of the wire map is one action.                                 *)
(***************************************************************************)
EXTENDS Naturals, FiniteSets

CONSTANTS
    Pods,       \* names of the pods that run on this node
    MaxInc,     \* bound: containers per pod, one after the other
    Links,      \* link UIDs
    EndOf,      \* per link: the pod of this node at its one end. The other end
                \* is elsewhere: two pods of one node get a veth and no wire
    PeerIfs,    \* interface ids on the peers' nodes
    Calls,      \* goroutines that serve RPCs
    MaxWires,   \* bound: wire objects in one life of the daemon
    MaxGen,     \* bound: stop channels per wire object
    MaxIfs,     \* bound: host interfaces
    MaxCrashes, \* bound: crashes of the daemon
    Orderly,    \* TRUE: no two calls of the peer for the same wire overlap, and
                \* none overlaps the DEL of the container it is about
    None

Containers == Pods \X (1..MaxInc)
PodOf(c) == c[1]

ASSUME GRPCWireAssumption ==
    /\ MaxInc \in Nat /\ MaxWires \in Nat /\ MaxIfs \in Nat /\ MaxCrashes \in Nat
    /\ MaxGen \in Nat \ {0}
    /\ EndOf \in [Links -> Pods]
    /\ Orderly \in BOOLEAN
    /\ None \notin Containers \cup Links \cup PeerIfs

VARIABLES
    phase,   \* the daemon: "down", "recon" (ReconGWires) or "serving"
    wires,   \* wires[c][l]: the object in the wire map, 0 if there is none
    obj,     \* the wire objects, reached through the map or by a pointer
    nobj,    \* how many of them are allocated
    closed,  \* the stop channels that are closed; <<o, g>> is the g-th of o
    panic,   \* history: a channel was closed twice
    thr,     \* thr[o][g]: the RecvFrmLocalPodThread started with channel g of o
    call,    \* per goroutine: the RPC it serves
    store,   \* the GWireKObj of this node: a set of wire records
    todo,    \* the records ReconGWires has still to go through
    inpod,   \* inpod[c][l]: the host end of the interface in c, 0 if none
    nif,     \* how many host interfaces were ever made
    life,    \* per container: how far its life has gone
    crashes  \* crashes left

memory == <<wires, obj, nobj, closed, panic, thr>>
host   == <<inpod, nif>>
vars   == <<phase, memory, call, store, todo, host, life, crashes>>

-----------------------------------------------------------------------------
Objs == 1..MaxWires
Gens == 1..MaxGen

ObjType == [c : Containers \cup {None}, l : Links \cup {None}, ifc : 0..MaxIfs,
            peer : PeerIfs \cup {None}, ready : BOOLEAN, gen : 0..MaxGen]
NoObj == [c |-> None, l |-> None, ifc |-> 0, peer |-> None, ready |-> FALSE,
          gen |-> 0]

ThreadStates == {"none", "new", "wait", "run", "send"}
ThrType == [at : ThreadStates, on : 0..MaxGen]
NoThr == [at |-> "none", on |-> 0]

\* What CreateWireStatus saves of a wire; whether it is ready is not saved.
RecType == [c : Containers, l : Links, ifc : 0..MaxIfs, peer : PeerIfs]
Rec(c, l, i, p) == [c |-> c, l |-> l, ifc |-> i, peer |-> p]

CallSteps == {"idle", "l_add", "r_clean", "r_classify", "r_remove", "r_make",
              "r_add", "r_status", "r_store", "go", "d_next", "d_stop", "d_close",
              "d_veth", "d_unstore"}
CallType == [at : CallSteps, c : Containers \cup {None}, l : Links \cup {None},
             o : 0..MaxWires, n : 0..MaxGen, ifc : 0..MaxIfs,
             peer : PeerIfs \cup {None}]
Idle == [at |-> "idle", c |-> None, l |-> None, o |-> 0, n |-> 0, ifc |-> 0,
         peer |-> None]

DelSteps == {"d_next", "d_stop", "d_close", "d_veth", "d_unstore"}
RemoteSteps == {"r_clean", "r_classify", "r_remove", "r_make", "r_add", "r_status",
                "r_store", "go"}

Exists(c, l, i) == i # 0 /\ inpod[c][l] = i   \* net.InterfaceByName

\* TypeOK: the state has the shape the code gives it, and every wire in the
\* map, in a call or in a thread is an allocated one.
TypeOK ==
    /\ phase \in {"down", "recon", "serving"}
    /\ wires \in [Containers -> [Links -> 0..nobj]]
    /\ obj \in [Objs -> ObjType]
    /\ nobj \in 0..MaxWires
    /\ closed \subseteq Objs \X Gens
    /\ panic \in BOOLEAN
    /\ thr \in [Objs -> [Gens -> ThrType]]
    /\ call \in [Calls -> CallType]
    /\ \A h \in Calls : call[h].o <= nobj
    /\ store \subseteq RecType
    /\ todo \subseteq RecType
    /\ inpod \in [Containers -> [Links -> 0..nif]]
    /\ nif \in 0..MaxIfs
    /\ life \in [Containers -> {"new", "live", "deleting", "deleted", "gone"}]
    /\ crashes \in 0..MaxCrashes

NoWires   == [c \in Containers |-> [l \in Links |-> 0]]
NoThreads == [o \in Objs |-> [g \in Gens |-> NoThr]]

Init ==
    /\ phase = "serving"
    /\ wires = NoWires /\ obj = [o \in Objs |-> NoObj] /\ nobj = 0
    /\ closed = {} /\ panic = FALSE
    /\ thr = NoThreads
    /\ call = [h \in Calls |-> Idle]
    /\ store = {} /\ todo = {}
    /\ inpod = NoWires /\ nif = 0
    /\ life = [c \in Containers |-> "new"]
    /\ crashes = MaxCrashes

-----------------------------------------------------------------------------
(* Pods, and the plugin process on this node (external).                    *)

StartPod(c) ==
    /\ life[c] = "new"
    /\ \A d \in Containers : d[2] < c[2] /\ PodOf(d) = PodOf(c) => life[d] = "gone"
    /\ life' = [life EXCEPT ![c] = "live"]
    /\ UNCHANGED <<phase, memory, call, store, todo, host, crashes>>

RemoveSandbox(c) ==
    /\ life[c] = "deleted"
    /\ life' = [life EXCEPT ![c] = "gone"]
    /\ inpod' = [inpod EXCEPT ![c] = [l \in Links |-> 0]]
    /\ UNCHANGED <<phase, memory, call, store, todo, nif, crashes>>

HasNs(c) == life[c] \in {"live", "deleting", "deleted"}

\* A new veth pair between the host and container c, for link l.
MakeVeth(c, l) ==
    /\ nif < MaxIfs
    /\ nif' = nif + 1
    /\ inpod' = [inpod EXCEPT ![c][l] = nif + 1]

Return(h) == call' = [call EXCEPT ![h] = Idle]

-----------------------------------------------------------------------------
(* The data store.                                                          *)

\* upsertGRPCWireItems: replace the record of the same wire, drop those of the
\* same pod and link with another namespace.
Upsert(S, r) ==
    {q \in S : ~(q.l = r.l /\ PodOf(q.c) = PodOf(r.c))} \cup {r}

\* deleteGRPCWireStatus: every record with the link id goes.
DropLink(S, l) == {q \in S : q.l # l}

\* deleteGRPCWireStatusByPod.
DropPod(S, p) == {q \in S : PodOf(q.c) # p}

\* IsWireRecordedInDataStore.
Recorded(c, l) == \E r \in store : r.c = c /\ r.l = l

-----------------------------------------------------------------------------
(* Creating a wire.                                                         *)

\* Mutant: the object is not counted, and the next wire overwrites it.
NewWireAliased(c, l, i, p) ==
    /\ nobj < MaxWires
    /\ obj' = [obj EXCEPT ![nobj + 1] =
                 [c |-> c, l |-> l, ifc |-> i, peer |-> p, ready |-> TRUE, gen |-> 1]]
    /\ wires' = [wires EXCEPT ![c][l] = nobj + 1]
    /\ UNCHANGED nobj

\* CreateGWire with a fresh stop channel, put into the map.
NewWire(c, l, i, p) ==
    /\ nobj < MaxWires
    /\ nobj' = nobj + 1
    /\ obj' = [obj EXCEPT ![nobj + 1] =
                 [c |-> c, l |-> l, ifc |-> i, peer |-> p, ready |-> TRUE, gen |-> 1]]
    /\ wires' = [wires EXCEPT ![c][l] = nobj + 1]

\* AddWireInMemNDataStore: map and store under the lock; a thread follows.
AddWireInMemNDataStore(h, c, l, i, p) ==
    /\ NewWire(c, l, i, p)
    /\ store' = Upsert(store, Rec(c, l, i, p))
    /\ call' = [call EXCEPT ![h].at = "go", ![h].o = nobj + 1, ![h].n = 1]
    /\ UNCHANGED <<closed, panic, thr>>

\* The plugin of container c found no wire (GRPCWireExists) and made the veth
\* for it; it calls AddGRPCWireLocal, with the interface of the peer. One
\* plugin serves the container, one link after the other.
LocalCall(h, c, l, p) ==
    /\ phase = "serving" /\ call[h].at = "idle"
    /\ life[c] = "live" /\ EndOf[l] = PodOf(c)
    /\ \A g \in Calls : ~(call[g].at = "l_add" /\ call[g].c = c)
    /\ wires[c][l] = 0 /\ inpod[c][l] = 0
    /\ MakeVeth(c, l)
    /\ call' = [call EXCEPT ![h] = [Idle EXCEPT !.at = "l_add", !.c = c, !.l = l,
                                               !.ifc = nif + 1, !.peer = p]]
    /\ UNCHANGED <<phase, memory, store, todo, life, crashes>>

\* CreateGRPCWireLocal fails if the interface has vanished before it was looked
\* up; it may also vanish between that and the entry into the map.
LocalAdd(h) ==
    /\ call[h].at = "l_add"
    /\ LET k == call[h] IN
         \/ AddWireInMemNDataStore(h, k.c, k.l, k.ifc, k.peer)
         \/ ~Exists(k.c, k.l, k.ifc) /\ Return(h) /\ UNCHANGED <<memory, store>>
    /\ UNCHANGED <<phase, todo, host, life, crashes>>

-----------------------------------------------------------------------------
(* AddGRPCWireRemote: the peer creates or updates the wire of container c.  *)

\* The calls of the peer for this wire do not overlap.
InOrder(c, l) ==
    /\ life[c] = "live"
    /\ \A h \in Calls : ~(call[h].at \in RemoteSteps /\ call[h].c = c /\ call[h].l = l)

\* UpdateWireByUID: a new stop channel replaces the old one, closed or not.
UpdateWire(o, p) ==
    /\ obj[o].gen < MaxGen
    /\ obj' = [obj EXCEPT ![o].gen = @ + 1, ![o].peer = p, ![o].ready = TRUE]

RemoteCall(h, c, l, p) ==
    /\ phase = "serving" /\ call[h].at = "idle"
    /\ life[c] # "new" /\ EndOf[l] = PodOf(c)
    /\ Orderly => InOrder(c, l)
    /\ LET o == wires[c][l]
           k == [Idle EXCEPT !.c = c, !.l = l, !.peer = p] IN
         \/ /\ o # 0
            /\ UpdateWire(o, p)
            /\ call' = [call EXCEPT ![h] =
                          [k EXCEPT !.at = "r_status", !.o = o, !.n = obj[o].gen + 1,
                                    !.ifc = obj[o].ifc]]
         \/ /\ o = 0
            /\ call' = [call EXCEPT ![h] = [k EXCEPT !.at = "r_clean"]]
            /\ UNCHANGED obj
    /\ UNCHANGED <<phase, wires, nobj, closed, panic, thr, store, todo, host, life,
                   crashes>>

\* CreateWireStatus reads the updated wire outside the lock ...
RemoteStatus(h) ==
    /\ call[h].at = "r_status"
    /\ call' = [call EXCEPT ![h].at = "r_store", ![h].peer = obj[call[h].o].peer]
    /\ UNCHANGED <<phase, memory, store, todo, host, life, crashes>>

\* Mutant: an update is not persisted.
RemoteStoreForgotten(h) ==
    /\ call[h].at = "r_store"
    /\ call' = [call EXCEPT ![h].at = "go"]
    /\ UNCHANGED <<phase, memory, store, todo, host, life, crashes>>

\* ... and what it read is written to the store later.
RemoteStore(h) ==
    /\ call[h].at = "r_store"
    /\ LET k == call[h] IN store' = Upsert(store, Rec(k.c, k.l, k.ifc, k.peer))
    /\ call' = [call EXCEPT ![h].at = "go"]
    /\ UNCHANGED <<phase, memory, todo, host, life, crashes>>

\* ensureNoStaleRemoteEnd: nothing to do unless an interface is in the way.
RemoteClean(h) ==
    /\ call[h].at = "r_clean"
    /\ LET taken == inpod[call[h].c][call[h].l] # 0 IN
         call' = [call EXCEPT ![h].at = IF taken THEN "r_classify" ELSE "r_make"]
    /\ UNCHANGED <<phase, memory, store, todo, host, life, crashes>>

\* That is taken for a remnant unless its wire is in the map or on record ...
RemoteClassify(h) ==
    /\ call[h].at = "r_classify"
    /\ LET c == call[h].c
           l == call[h].l
           keep == wires[c][l] # 0 \/ Recorded(c, l) IN
         \/ keep /\ Return(h)
         \/ ~keep /\ call' = [call EXCEPT ![h].at = "r_remove"]
    /\ UNCHANGED <<phase, memory, store, todo, host, life, crashes>>

\* ... and removed, whatever it has become in the meantime.
RemoteRemove(h) ==
    /\ call[h].at = "r_remove"
    /\ LET c == call[h].c
           l == call[h].l IN
         \/ /\ inpod[c][l] # 0
            /\ inpod' = [inpod EXCEPT ![c][l] = 0]
            /\ call' = [call EXCEPT ![h].at = "r_make"]
         \/ /\ inpod[c][l] = 0
            /\ Return(h)
            /\ UNCHANGED inpod
    /\ UNCHANGED <<phase, memory, store, todo, nif, life, crashes>>

RemoteMake(h) ==
    /\ call[h].at = "r_make"
    /\ LET c == call[h].c
           l == call[h].l IN
         \/ /\ HasNs(c) /\ inpod[c][l] = 0
            /\ MakeVeth(c, l)
            /\ call' = [call EXCEPT ![h].at = "r_add", ![h].ifc = nif + 1]
         \/ /\ ~(HasNs(c) /\ inpod[c][l] = 0)
            /\ Return(h)
            /\ UNCHANGED host
    /\ UNCHANGED <<phase, memory, store, todo, life, crashes>>

RemoteAdd(h) ==
    /\ call[h].at = "r_add"
    /\ LET k == call[h] IN
         \/ AddWireInMemNDataStore(h, k.c, k.l, k.ifc, k.peer)
         \/ ~Exists(k.c, k.l, k.ifc) /\ Return(h) /\ UNCHANGED <<memory, store>>
    /\ UNCHANGED <<phase, todo, host, life, crashes>>

\* Mutant: an update does not start a thread, the wire having one.
GoThreadOnce(h) ==
    /\ call[h].at = "go"
    /\ thr' = IF call[h].n = 1 THEN [thr EXCEPT ![call[h].o][call[h].n].at = "new"]
              ELSE thr
    /\ Return(h)
    /\ UNCHANGED <<phase, wires, obj, nobj, closed, panic, store, todo, host, life,
                   crashes>>

\* The last step of each of these calls: the thread is started.
GoThread(h) ==
    /\ call[h].at = "go"
    /\ thr' = [thr EXCEPT ![call[h].o][call[h].n].at = "new"]
    /\ Return(h)
    /\ UNCHANGED <<phase, wires, obj, nobj, closed, panic, store, todo, host, life,
                   crashes>>

-----------------------------------------------------------------------------
(* Taking a wire down, and deleting the wires of a pod.                     *)

\* close(wire.StopC): panics if the channel is closed already.
Close(o) ==
    /\ panic' = (panic \/ <<o, obj[o].gen>> \in closed)
    /\ closed' = closed \cup {<<o, obj[o].gen>>}

\* WireDownByUID, under the lock.
WireDown(o) ==
    /\ IF obj[o].ready THEN Close(o) ELSE UNCHANGED <<panic, closed>>
    /\ obj' = [obj EXCEPT ![o].ready = FALSE]

GRPCWireDownRemote(c, l) ==
    /\ phase = "serving"
    /\ wires[c][l] # 0
    /\ WireDown(wires[c][l])
    /\ UNCHANGED <<phase, wires, nobj, thr, call, store, todo, host, life, crashes>>

\* The DEL of container c, which follows its ADD, calls RemGRPCWire; again if
\* the daemon crashed.
DeleteCall(h, c) ==
    /\ phase = "serving" /\ call[h].at = "idle"
    /\ life[c] \in {"live", "deleting"}
    /\ \A g \in Calls : ~(call[g].at \in DelSteps \cup {"l_add"} /\ call[g].c = c)
    /\ Orderly => \A g \in Calls : call[g].c # c
    /\ life' = [life EXCEPT ![c] = "deleting"]
    /\ call' = [call EXCEPT ![h] = [Idle EXCEPT !.at = "d_next", !.c = c]]
    /\ UNCHANGED <<phase, memory, store, todo, host, crashes>>

PodWire(p, c, l) == PodOf(c) = p /\ wires[c][l] # 0

\* Mutant: the extracted wire stays in the map.
ExtractOneWireByPodCopy(h) ==
    /\ call[h].at = "d_next"
    /\ \E c \in Containers, l \in Links :
         /\ PodWire(PodOf(call[h].c), c, l)
         /\ call' = [call EXCEPT ![h].at = "d_stop", ![h].o = wires[c][l]]
    /\ UNCHANGED <<phase, memory, store, todo, host, life, crashes>>

\* ExtractOneWireByPod, under the lock: from here on only this goroutine can
\* reach the wire.
ExtractOneWireByPod(h) ==
    /\ call[h].at = "d_next"
    /\ \E c \in Containers, l \in Links :
         /\ PodWire(PodOf(call[h].c), c, l)
         /\ wires' = [wires EXCEPT ![c][l] = 0]
         /\ call' = [call EXCEPT ![h].at = "d_stop", ![h].o = wires[c][l]]
    /\ UNCHANGED <<phase, obj, nobj, closed, panic, thr, store, todo, host, life,
                   crashes>>

\* RemoveWireAcrosAll: IsReady is read, then the channel closed, without lock.
DelStop(h) ==
    /\ call[h].at = "d_stop"
    /\ call' = [call EXCEPT ![h].at =
                  IF obj[call[h].o].ready THEN "d_close" ELSE "d_veth"]
    /\ UNCHANGED <<phase, memory, store, todo, host, life, crashes>>

DelClose(h) ==
    /\ call[h].at = "d_close"
    /\ Close(call[h].o)
    /\ obj' = [obj EXCEPT ![call[h].o].ready = FALSE]
    /\ call' = [call EXCEPT ![h].at = "d_veth"]
    /\ UNCHANGED <<phase, wires, nobj, thr, store, todo, host, life, crashes>>

\* The host interface goes, if it is still there, and then the record.
DelVeth(h) ==
    /\ call[h].at = "d_veth"
    /\ LET w == obj[call[h].o] IN
         inpod' = IF Exists(w.c, w.l, w.ifc)
                  THEN [inpod EXCEPT ![w.c][w.l] = 0] ELSE inpod
    /\ call' = [call EXCEPT ![h].at = "d_unstore"]
    /\ UNCHANGED <<phase, memory, store, todo, nif, life, crashes>>

DelUnstore(h) ==
    /\ call[h].at = "d_unstore"
    /\ store' = DropLink(store, obj[call[h].o].l)
    /\ call' = [call EXCEPT ![h].at = "d_next", ![h].o = 0]
    /\ UNCHANGED <<phase, memory, todo, host, life, crashes>>

\* No wire of the pod is left: the records of the pod go as well.
DelByPod(h) ==
    /\ call[h].at = "d_next"
    /\ \A c \in Containers, l \in Links : ~PodWire(PodOf(call[h].c), c, l)
    /\ store' = DropPod(store, PodOf(call[h].c))
    /\ life' = [life EXCEPT ![call[h].c] = "deleted"]
    /\ Return(h)
    /\ UNCHANGED <<phase, memory, todo, host, crashes>>

-----------------------------------------------------------------------------
(* RecvFrmLocalPodThread, the g-th thread on wire object o.                 *)

Thread(o, g, from, to, on) ==
    /\ thr[o][g].at = from
    /\ thr' = [thr EXCEPT ![o][g] = [at |-> to, on |-> on]]
    /\ UNCHANGED <<phase, wires, obj, nobj, closed, panic, call, store, todo, host,
                   life, crashes>>

HostIf(o) == Exists(obj[o].c, obj[o].l, obj[o].ifc)

\* waitForValidPeerNodeIP is given the channel the wire has at that moment;
ThreadWait(o, g) == Thread(o, g, "new", "wait", obj[o].gen)

\* the peer's node is known; unless the interface is gone the loop is entered,
\* which waits for a packet or for the channel the wire has now;
ThreadRun(o, g) ==
    \/ HostIf(o)  /\ Thread(o, g, "wait", "run", obj[o].gen)
    \/ ~HostIf(o) /\ Thread(o, g, "wait", "none", 0)

\* a packet came and is sent to the peer; then the loop starts over.
ThreadPacket(o, g) == HostIf(o) /\ Thread(o, g, "run", "send", 0)
ThreadSent(o, g) == Thread(o, g, "send", "run", obj[o].gen)

\* The channel it waits on is closed.
ThreadStop(o, g) ==
    /\ <<o, thr[o][g].on>> \in closed
    /\ \E at \in {"wait", "run"} : Thread(o, g, at, "none", 0)

-----------------------------------------------------------------------------
(* Crash and restart.                                                       *)

\* The daemon dies, with the calls it was serving; the host keeps interfaces.
Crash ==
    /\ phase # "down"
    /\ crashes > 0
    /\ crashes' = crashes - 1
    /\ phase' = "down"
    /\ wires' = NoWires /\ obj' = [o \in Objs |-> NoObj] /\ nobj' = 0
    /\ closed' = {} /\ thr' = NoThreads
    /\ call' = [h \in Calls |-> Idle]
    /\ todo' = {}
    /\ UNCHANGED <<panic, store, host, life>>

\* ReconGWires reads the records, before the daemon serves any call.
Restart ==
    /\ phase = "down"
    /\ phase' = "recon"
    /\ todo' = store
    /\ UNCHANGED <<memory, call, store, host, life, crashes>>

\* reCreateGWire: the wire comes back, ready, with a thread; if its interface
\* is gone, the records with its link id are pruned. (The map was empty and no
\* wire has two records, so the test for a wire that is in the map is idle.)
ReCreateGWire(r) ==
    /\ phase = "recon" /\ r \in todo
    /\ todo' = todo \ {r}
    /\ \/ /\ Exists(r.c, r.l, r.ifc)
          /\ NewWire(r.c, r.l, r.ifc, r.peer)
          /\ thr' = [thr EXCEPT ![nobj + 1][1].at = "new"]
          /\ UNCHANGED <<closed, panic, store>>
       \/ /\ ~Exists(r.c, r.l, r.ifc)
          /\ store' = DropLink(store, r.l)
          /\ UNCHANGED memory
    /\ UNCHANGED <<phase, call, host, life, crashes>>

Serve ==
    /\ phase = "recon" /\ todo = {}
    /\ phase' = "serving"
    /\ UNCHANGED <<memory, call, store, todo, host, life, crashes>>

-----------------------------------------------------------------------------
Pod(c) == StartPod(c) \/ RemoveSandbox(c)

Create(h) ==
    \/ \E c \in Containers, l \in Links, p \in PeerIfs :
          LocalCall(h, c, l, p) \/ RemoteCall(h, c, l, p)
    \/ LocalAdd(h) \/ RemoteStatus(h) \/ RemoteStore(h) \/ RemoteClean(h)
    \/ RemoteClassify(h) \/ RemoteRemove(h) \/ RemoteMake(h) \/ RemoteAdd(h)
    \/ GoThread(h)

Delete(h) ==
    \/ \E c \in Containers : DeleteCall(h, c)
    \/ ExtractOneWireByPod(h) \/ DelStop(h) \/ DelClose(h) \/ DelVeth(h)
    \/ DelUnstore(h) \/ DelByPod(h)

Forward(o, g) ==
    \/ ThreadWait(o, g) \/ ThreadRun(o, g) \/ ThreadPacket(o, g)
    \/ ThreadSent(o, g) \/ ThreadStop(o, g)

Recon == Restart \/ (\E r \in todo : ReCreateGWire(r)) \/ Serve

Next ==
    \/ \E c \in Containers : Pod(c)
    \/ \E h \in Calls : Create(h) \/ Delete(h)
    \/ \E c \in Containers, l \in Links : GRPCWireDownRemote(c, l)
    \/ \E o \in Objs, g \in Gens : Forward(o, g)
    \/ Crash \/ Recon

Spec == Init /\ [][Next]_vars

-----------------------------------------------------------------------------
(* Safety.                                                                  *)

\* NoPanic: no stop channel is closed twice, which would kill the daemon and
\* every wire of the node. A wire may be taken down by its peer and deleted by
\* its pod at the same time, and RemoveWireAcrosAll tests and closes without
\* the lock.
NoPanic == ~panic

\* Thread g of o is about to be started, or runs and has not been told to stop.
Active(o, g) ==
    \/ \E h \in Calls : call[h].at \in {"r_status", "r_store", "go"}
                         /\ call[h].o = o /\ call[h].n = g
    \/ thr[o][g].at \in {"new", "send"}
    \/ thr[o][g].at \in {"wait", "run"} /\ <<o, thr[o][g].on>> \notin closed

\* ReadyIsServed: a wire that is ready, and whose interface exists, has a
\* thread that forwards what the pod sends, or will have: no sequence of
\* updates, downs and restarts leaves it ready and mute.
ReadyIsServed ==
    \A c \in Containers, l \in Links :
        LET o == wires[c][l] IN
        o # 0 /\ obj[o].ready /\ HostIf(o) => \E g \in Gens : Active(o, g)

\* No goroutine is at work on wire (c, l) or on c's deletion.
Quiet(c, l) ==
    /\ phase = "serving" /\ life[c] = "live"
    /\ \A h \in Calls : call[h].c = c => call[h].l \in Links \ {l}

\* RecordsCover: the data store is "the source of truth that ReconGWires
\* replays": a wire that works is on record, with the peer interface it has
\* now, so that a crash does not lose or misdirect it.
RecordsCover ==
    \A c \in Containers, l \in Links :
        LET o == wires[c][l] IN
        o # 0 /\ HostIf(o) /\ Quiet(c, l)
            => Rec(c, l, obj[o].ifc, obj[o].peer) \in store

-----------------------------------------------------------------------------
(* What comments of the code say; TLC refutes each one.                     *)

\* OneForwarder: StopC is the channel "to send stop signal to the receive
\* thread": a wire has one thread that receives from its pod. With two of them
\* every frame is sent to the peer twice.
OneForwarder ==
    \A o \in Objs : \A g, i \in Gens :
        thr[o][g].at = "run" /\ thr[o][i].at = "run"
        /\ {<<o, thr[o][g].on>>, <<o, thr[o][i].on>>} \cap closed = {}
            => g = i

=============================================================================

------------------------------- MODULE Plugin -------------------------------
(***************************************************************************)
(* The CNI plugin: one process per ADD or DEL that the kubelet asks for,   *)
(* talking to the meshnet daemons and, through them, to the Topology       *)
(* resources.  pc[c] is the next step of the process that serves container *)
(* c; every action is the code between two points at which another process *)
(* can run: one RPC, one update of a resource, or one change of a network  *)
(* namespace.  The wire map of the gRPC daemons appears as the plugin sees *)
(* it; its inside (threads, persistence, restarts) is GRPCWire's subject.  *)
(***************************************************************************)
EXTENDS Topology

CONSTANTS
    LinkType,   \* inter-node link type: "GRPC" or "VXLAN"
    MaxTicks,   \* skipStatusRetryCount: polls before the waiting pod gives up
    MaxDups,    \* bound: repeated DELs of a container that is already gone
    MaxFaults,  \* bound: failures injected in a behaviour
    Faults,     \* which failures happen: "api" (a daemon's call to the API
                \* server fails), "rpc" (a daemon-to-daemon call is lost)
    StaleNodes, \* TRUE: a daemon's cached node list may miss nodes that joined
                \* the cluster after the list was read; FALSE: it is complete
    Overlap     \* TRUE: a pod's next sandbox may start while the DEL of the
                \* previous one is still running (forced deletion)

ASSUME PluginAssumption ==
    /\ LinkType \in {"GRPC", "VXLAN"}
    /\ MaxTicks \in Nat \ {0} /\ MaxDups \in Nat /\ MaxFaults \in Nat
    /\ Faults \subseteq {"api", "rpc"}
    /\ StaleNodes \in BOOLEAN /\ Overlap \in BOOLEAN

VARIABLES
    status,   \* the status of every Topology resource
    knows,    \* per node: the node addresses its daemon has cached
    node,     \* per container: the node it was placed on
    netns,    \* the containers whose network namespace exists
    intf,     \* intf[c][l]: the interface for link l inside c's namespace
    wire,     \* wire[c][l]: the entry for (c, l) in the wire map of c's node
    vxlinks,  \* per node and link: the VXLAN endpoint the daemon registered
    pc, idx,  \* the next step of c's process, the link its loop is at
    loc,      \* the variables local to the body of that loop
    out,      \* history: what the ADD of c decided for each of its links
    budget    \* repeated DELs and faults left

k8s   == <<status, knows>>
nodes == <<node, netns, intf, wire, vxlinks>>
procs == <<pc, idx, loc, out>>
vars  == <<k8s, nodes, procs, budget>>

-----------------------------------------------------------------------------
(* Interfaces.  "own" and "peer" are in-pod ends of a gRPC wire, made by    *)
(* the pod's own plugin or by the daemon on the peer's request; "half" is a *)
(* veth end whose other end has not reached its namespace.                  *)
Kinds == {"none", "half", "veth", "own", "peer", "vx", "macvlan"}
IntfType == [k : Kinds, to : Containers \cup Nodes \cup {None}]

NoIf == [k |-> "none", to |-> None]
If(kind, x) == [k |-> kind, to |-> x]

Exists(c, l) == intf[c][l].k # "none"

\* RemoveVethLink: deleting one end of a veth pair deletes the other end too.
Unplug(I, c, l) ==
    [x \in Containers |-> [m \in Links |->
        IF m = l /\ (x = c \/ I[x][m].to = c) THEN NoIf ELSE I[x][m]]]

\* The kernel destroys a namespace's interfaces and the peers of its veths.
DropNs(I, c) ==
    [x \in Containers |-> [m \in Links |->
        IF x = c \/ I[x][m].to = c THEN NoIf ELSE I[x][m]]]

WireType == [st : {"none", "ready", "down"}, mine : Kinds,
             to : Containers \cup {None}, toIf : Kinds,
             toNode : Nodes \cup {None}]

NoWire == [st |-> "none", mine |-> "none", to |-> None, toIf |-> "none",
           toNode |-> None]

\* CreateGWire: a ready wire from interface kind k to interface kind rk of d.
GWire(k, d, rk) == [st |-> "ready", mine |-> k, to |-> d, toIf |-> rk,
                    toNode |-> node[d]]

VxType == [ns : Containers \cup {None}, peerNode : Nodes \cup {None}]
NoVx == [ns |-> None, peerNode |-> None]

-----------------------------------------------------------------------------
AddSteps == {"add_alive", "add_link", "add_skip",
             "veth_mine", "veth_peer", "veth_rm", "veth_skipped", "veth_make",
             "veth_join",
             "grpc_skipped", "grpc_wait", "grpc_poll", "grpc_exists",
             "grpc_veth", "grpc_remote", "grpc_local",
             "vx_clean", "vx_make", "vx_register", "vx_update"}
DelSteps == {"del_get", "del_wires", "del_clear", "del_link", "del_down",
             "del_rm", "del_skip_peer", "del_skip_this", "del_done",
             "del_failed"}
Steps == AddSteps \cup DelSteps \cup {"new", "up", "add_failed", "gone"}

\* What an ADD decides for a link: nothing yet, the peer is not alive and is
\* skipped, it is left to the peer, this process creates it, it is there
\* already, or waiting for the peer was given up.
Outcomes == {"none", "skip", "defer", "made", "exists", "gaveup"}

NoOutcome == [l \in Links |-> "none"]

Cur(c)  == PodLinks[PodOf(c)][idx[c]]
Link(c) == Cur(c).link
Peer(c) == Cur(c).peer

At(c, step) == pc[c] = step

\* Locals of the loop body: the answer to the Get of the peer (None: it is not
\* alive), iExist, the iteration of the gRPC waiting loop, and the interface
\* that AddGRPCWireRemote answered with.
LocType == [peer : Containers \cup {None}, exist : BOOLEAN,
            ticks : 0..MaxTicks, got : Kinds]
FreshLoc == [peer |-> None, exist |-> FALSE, ticks |-> 0, got |-> "none"]

\* The process goes on with another step of the same loop body, having set its
\* locals to r.
GotoWith(c, step, r) ==
    /\ pc' = [pc EXCEPT ![c] = step]
    /\ loc' = [loc EXCEPT ![c] = r]
    /\ UNCHANGED <<idx, out>>
Goto(c, step) == GotoWith(c, step, loc[c])

\* It ends (or begins), and has no locals any more (yet).
Leave(c, step) == GotoWith(c, step, FreshLoc)
Fail(c) == Leave(c, "add_failed")

\* `for _, link := range localPod.Links`: the loop body for link i or its end.
LoopAt(c, i, body, end) ==
    /\ idx' = [idx EXCEPT ![c] = i]
    /\ loc' = [loc EXCEPT ![c] = FreshLoc]
    /\ pc' = [pc EXCEPT ![c] =
                 IF i > Len(PodLinks[PodOf(c)]) THEN end ELSE body]

\* ADD has dealt with the current link: note how, go on with the next.
Decide(c, how) ==
    /\ out' = [out EXCEPT ![c][Link(c)] = how]
    /\ LoopAt(c, idx[c] + 1, "add_link", "up")

\* TypeOK: the state has the shape the code gives it; the iteration of the
\* waiting loop of CreatGRPCChan stays within its count, and every list of
\* skipped peers holds pairs of a peer and a link.
TypeOK ==
    /\ status \in [Pods -> StatusType]
    /\ knows \in [Nodes -> SUBSET Nodes]
    /\ node \in [Containers -> Nodes \cup {None}]
    /\ netns \subseteq Containers
    /\ intf \in [Containers -> [Links -> IntfType]]
    /\ wire \in [Containers -> [Links -> WireType]]
    /\ vxlinks \in [Nodes -> [Links -> VxType]]
    /\ pc \in [Containers -> Steps]
    /\ idx \in [Containers -> Nat]
    /\ loc \in [Containers -> LocType]
    /\ out \in [Containers -> [Links -> Outcomes]]
    /\ budget \in [dups : 0..MaxDups, faults : 0..MaxFaults]

Init ==
    /\ status = [p \in Pods |-> FreshStatus]
    /\ knows \in [Nodes -> SUBSET Nodes]
    /\ \A n, m \in Nodes : n \in knows[m] \/ m \in knows[n]
    /\ StaleNodes \/ \A n \in Nodes : knows[n] = Nodes
    /\ node = [c \in Containers |-> None]
    /\ netns = {}
    /\ intf = [c \in Containers |-> [l \in Links |-> NoIf]]
    /\ wire = [c \in Containers |-> [l \in Links |-> NoWire]]
    /\ vxlinks = [n \in Nodes |-> [l \in Links |-> NoVx]]
    /\ pc = [c \in Containers |-> "new"]
    /\ idx = [c \in Containers |-> 0]
    /\ loc = [c \in Containers |-> FreshLoc]
    /\ out = [c \in Containers |-> NoOutcome]
    /\ budget = [dups |-> MaxDups, faults |-> MaxFaults]

-----------------------------------------------------------------------------
(* The kubelet and the container runtime (external).                        *)

\* A pod gets a sandbox, hence a namespace, on some node; ADD starts. The
\* sandboxes it had before are gone, or on their way out (Overlap).
StartPod(c, n) ==
    /\ At(c, "new")
    /\ \A d \in Containers : PodOf(d) = PodOf(c) /\ d[2] < c[2] =>
         \/ At(d, "gone")
         \/ Overlap /\ pc[d] \in DelSteps
    /\ node' = [node EXCEPT ![c] = n]
    /\ netns' = netns \cup {c}
    /\ Goto(c, "add_alive")
    /\ UNCHANGED <<k8s, intf, wire, vxlinks, budget>>

\* The pod is deleted, or its ADD failed and the sandbox is torn down, or a
\* DEL that failed is tried again.
StartDel(c) ==
    /\ pc[c] \in {"up", "add_failed", "del_failed"}
    /\ Leave(c, "del_get")
    /\ UNCHANGED <<k8s, nodes, budget>>

\* A sandbox that is already gone is torn down once more.
RepeatDel(c) ==
    /\ At(c, "gone")
    /\ budget.dups > 0
    /\ budget' = [budget EXCEPT !.dups = @ - 1]
    /\ Leave(c, "del_get")
    /\ UNCHANGED <<k8s, nodes>>

\* DEL succeeded: the runtime destroys the namespace.
RemoveSandbox(c) ==
    /\ At(c, "del_done")
    /\ netns' = netns \ {c}
    /\ intf' = DropNs(intf, c)
    /\ pc' = [pc EXCEPT ![c] = "gone"]
    /\ idx' = [idx EXCEPT ![c] = 0]
    /\ loc' = [loc EXCEPT ![c] = FreshLoc]
    /\ out' = [out EXCEPT ![c] = NoOutcome]
    /\ UNCHANGED <<k8s, node, wire, vxlinks, budget>>

\* The daemon's cached node list expires and is read again.
RefreshNodeIPs(n) ==
    /\ knows[n] # Nodes
    /\ knows' = [knows EXCEPT ![n] = Nodes]
    /\ UNCHANGED <<status, nodes, procs, budget>>

-----------------------------------------------------------------------------
(* cmdAdd.                                                                  *)

\* Mutant: the pod is published without its srcIP.
AddSetAliveNoSrc(c) ==
    /\ At(c, "add_alive")
    /\ status' = SetAlive(status, PodOf(c), None, c)
    /\ LoopAt(c, 1, "add_link", "up")
    /\ UNCHANGED <<out, knows, nodes, budget>>

\* Get of the own resource, whose srcIP, netNs and containerId the plugin
\* overwrites, then SetAlive: from here on the peers find this container.
AddSetAlive(c) ==
    /\ At(c, "add_alive")
    /\ status' = SetAlive(status, PodOf(c), node[c], c)
    /\ LoopAt(c, 1, "add_link", "up")
    /\ UNCHANGED <<out, knows, nodes, budget>>

\* A link to localhost is a macvlan interface, in a namespace that is new.
AddMacvlan(c) ==
    /\ At(c, "add_link") /\ Peer(c) = Localhost
    /\ intf' = [intf EXCEPT ![c][Link(c)] = If("macvlan", None)]
    /\ Decide(c, "made")
    /\ UNCHANGED <<k8s, node, netns, wire, vxlinks, budget>>

\* Get of the peer: dead, on the same host, or on another host.
AddGetPeer(c) ==
    /\ At(c, "add_link") /\ Peer(c) # Localhost
    /\ LET d == Get(status, Peer(c), knows[node[c]]) IN
         GotoWith(c, IF d = None THEN "add_skip"
                     ELSE IF node[d] = node[c] THEN "veth_mine"
                     ELSE IF LinkType = "GRPC" THEN "grpc_skipped"
                     ELSE "vx_clean",
                  [loc[c] EXCEPT !.peer = d])
    /\ UNCHANGED <<k8s, nodes, budget>>

\* Mutant: the skip is decided but not recorded.
AddSkipUnrecorded(c) ==
    /\ At(c, "add_skip")
    /\ Decide(c, "skip")
    /\ UNCHANGED <<k8s, nodes, budget>>

AddSkip(c) ==
    /\ At(c, "add_skip")
    /\ status' = Skip(status, PodOf(c), Peer(c), Link(c))
    /\ Decide(c, "skip")
    /\ UNCHANGED <<knows, nodes, budget>>

-----------------------------------------------------------------------------
(* cmdAdd, peer alive on the same host: a veth pair between the two pods.   *)

\* Mutant: both ends think they go first.
HigherPrioBoth(c) == PodOf(c) # Peer(c)

\* Mutant: none does.
HigherPrioNone(c) == FALSE

HigherPrio(c) == PodOf(c) > Peer(c)

VethExistMine(c) ==
    /\ At(c, "veth_mine")
    /\ GotoWith(c, "veth_peer", [loc[c] EXCEPT !.exist = Exists(c, Link(c))])
    /\ UNCHANGED <<k8s, nodes, budget>>

VethExistPeer(c) ==
    /\ At(c, "veth_peer")
    /\ LET i == loc[c].exist
           p == Exists(loc[c].peer, Link(c)) IN
         \/ i /\ p /\ Decide(c, "exists")
         \/ ~i /\ ~p /\ Goto(c, "veth_skipped")
         \/ (i # p) /\ Goto(c, "veth_rm")
    /\ UNCHANGED <<k8s, nodes, budget>>

\* Only one of the two ends exists: remove that one, then make the pair.
VethRemove(c) ==
    /\ At(c, "veth_rm")
    /\ LET e == IF loc[c].exist THEN c ELSE loc[c].peer IN
         IF Exists(e, Link(c))
         THEN intf' = Unplug(intf, e, Link(c)) /\ Goto(c, "veth_make")
         ELSE UNCHANGED intf /\ Fail(c)
    /\ UNCHANGED <<k8s, node, netns, wire, vxlinks, budget>>

\* Neither end exists: create the pair if the peer has skipped us or we have
\* the greater name, leave it to the peer otherwise.
VethIsSkipped(c) ==
    /\ At(c, "veth_skipped")
    /\ IF IsSkipped(status, PodOf(c), Peer(c), Link(c)) \/ HigherPrio(c)
       THEN Goto(c, "veth_make")
       ELSE Decide(c, "defer")
    /\ UNCHANGED <<k8s, nodes, budget>>

\* MakeVeth, first half: the pair is created and one end gets its name in our
\* namespace. If the name is taken ADD fails.
VethMake(c) ==
    /\ At(c, "veth_make")
    /\ IF Exists(c, Link(c))
       THEN UNCHANGED intf /\ Fail(c)
       ELSE /\ intf' = [intf EXCEPT ![c][Link(c)] = If("half", None)]
            /\ Goto(c, "veth_join")
    /\ UNCHANGED <<k8s, node, netns, wire, vxlinks, budget>>

\* MakeVeth, second half: the other end moves to the peer's namespace. If that
\* is gone, cleanupLink deletes the pair; if the name is taken there, the end
\* is already in the peer's namespace, where cleanupLink does not find it, and
\* our end stays behind; if our end was removed meanwhile, so was the other.
VethJoin(c) ==
    /\ At(c, "veth_join")
    /\ LET l == Link(c)
           d == loc[c].peer
           mine == intf[c][l].k = "half" IN
         \/ /\ mine /\ d \in netns /\ ~Exists(d, l)
            /\ intf' = [intf EXCEPT ![c][l] = If("veth", d),
                                    ![d][l] = If("veth", c)]
            /\ Decide(c, "made")
         \/ /\ mine /\ d \notin netns
            /\ intf' = Unplug(intf, c, l)
            /\ Fail(c)
         \/ /\ ~mine \/ (d \in netns /\ Exists(d, l))
            /\ UNCHANGED intf
            /\ Fail(c)
    /\ UNCHANGED <<k8s, node, netns, wire, vxlinks, budget>>

-----------------------------------------------------------------------------
(* CreatGRPCChan: peer alive on another host, gRPC wires.                   *)

HasWire(c) == wire[c][Link(c)].st # "none"     \* GRPCWireExists

GrpcIsSkipped(c) ==
    /\ At(c, "grpc_skipped")
    /\ IF IsSkipped(status, PodOf(c), Peer(c), Link(c)) \/ HigherPrio(c)
       THEN Goto(c, "grpc_exists")
       ELSE GotoWith(c, "grpc_wait", [loc[c] EXCEPT !.ticks = 1])
    /\ UNCHANGED <<k8s, nodes, budget>>

\* One tick of the waiting loop: has the peer made the wire ...
GrpcWait(c) ==
    /\ At(c, "grpc_wait")
    /\ \/ HasWire(c) /\ Decide(c, "exists")
       \/ ~HasWire(c) /\ Goto(c, "grpc_poll")
    /\ UNCHANGED <<k8s, nodes, budget>>

\* Mutants: the loop runs once too often, or for ever.
GrpcPollOnceMore(c) ==
    /\ At(c, "grpc_poll")
    /\ LET skipped == IsSkipped(status, PodOf(c), Peer(c), Link(c)) IN
         \/ skipped /\ Goto(c, "grpc_exists")
         \/ ~skipped /\ loc[c].ticks > MaxTicks /\ Decide(c, "gaveup")
         \/ /\ ~skipped /\ loc[c].ticks <= MaxTicks
            /\ GotoWith(c, "grpc_wait", [loc[c] EXCEPT !.ticks = @ + 1])
    /\ UNCHANGED <<k8s, nodes, budget>>

GrpcPollForever(c) ==
    /\ At(c, "grpc_poll")
    /\ Goto(c, IF IsSkipped(status, PodOf(c), Peer(c), Link(c))
               THEN "grpc_exists" ELSE "grpc_wait")
    /\ UNCHANGED <<k8s, nodes, budget>>

\* ... or has it skipped us by now?
GrpcPoll(c) ==
    /\ At(c, "grpc_poll")
    /\ LET skipped == IsSkipped(status, PodOf(c), Peer(c), Link(c)) IN
         \/ skipped /\ Goto(c, "grpc_exists")
         \/ ~skipped /\ loc[c].ticks = MaxTicks /\ Decide(c, "gaveup")
         \/ /\ ~skipped /\ loc[c].ticks < MaxTicks
            /\ GotoWith(c, "grpc_wait", [loc[c] EXCEPT !.ticks = @ + 1])
    /\ UNCHANGED <<k8s, nodes, budget>>

GrpcExists(c) ==
    /\ At(c, "grpc_exists")
    /\ \/ HasWire(c) /\ Decide(c, "exists")
       \/ ~HasWire(c) /\ Goto(c, "grpc_veth")
    /\ UNCHANGED <<k8s, nodes, budget>>

\* GenerateNodeInterfaceName and MakeVeth: the local end and its host side.
GrpcVeth(c) ==
    /\ At(c, "grpc_veth")
    /\ IF Exists(c, Link(c))
       THEN UNCHANGED intf /\ Fail(c)
       ELSE /\ intf' = [intf EXCEPT ![c][Link(c)] = If("own", None)]
            /\ Goto(c, "grpc_remote")
    /\ UNCHANGED <<k8s, node, netns, wire, vxlinks, budget>>

\* AddGRPCWireRemote at the peer's daemon, for peer container d. A wire that
\* exists is updated (its peer node address is not); otherwise an interface in
\* the way is removed if it is a veth, and interface and wire are made.
RemoteUpdates(d, l) == wire[d][l].st # "none"
RemoteCreates(d, l) == /\ wire[d][l].st = "none"
                       /\ d \in netns
                       /\ intf[d][l].k \notin {"vx", "macvlan"}

\* Mutant: the update does not change the peer interface of the wire.
AddGRPCWireRemoteStale(c, d, l) ==
    \/ /\ RemoteUpdates(d, l)
       /\ wire' = [wire EXCEPT ![d][l].st = "ready"]
       /\ UNCHANGED intf
    \/ /\ RemoteCreates(d, l)
       /\ intf' = [Unplug(intf, d, l) EXCEPT ![d][l] = If("peer", None)]
       /\ wire' = [wire EXCEPT ![d][l] = GWire("peer", c, "own")]

AddGRPCWireRemote(c, d, l) ==
    \/ /\ RemoteUpdates(d, l)
       /\ wire' = [wire EXCEPT ![d][l].st = "ready", ![d][l].to = c,
                               ![d][l].toIf = "own"]
       /\ UNCHANGED intf
    \/ /\ RemoteCreates(d, l)
       /\ intf' = [Unplug(intf, d, l) EXCEPT ![d][l] = If("peer", None)]
       /\ wire' = [wire EXCEPT ![d][l] = GWire("peer", c, "own")]

\* The call itself. It is not made if the host side of our interface was found
\* to have vanished, and fails if the remote end cannot be created.
GrpcRemote(c) ==
    /\ At(c, "grpc_remote")
    /\ LET l == Link(c)
           d == loc[c].peer IN
         \/ /\ AddGRPCWireRemote(c, d, l)
            /\ GotoWith(c, "grpc_local",
                        [loc[c] EXCEPT !.got = wire'[d][l].mine])
         \/ /\ \/ ~RemoteUpdates(d, l) /\ ~RemoteCreates(d, l)
               \/ intf[c][l].k # "own"
            /\ Fail(c)
            /\ UNCHANGED <<intf, wire>>
    /\ UNCHANGED <<k8s, node, netns, vxlinks, budget>>

\* AddGRPCWireLocal: fails if the host side of our interface has vanished.
GrpcLocal(c) ==
    /\ At(c, "grpc_local")
    /\ LET l == Link(c) IN
         \/ /\ intf[c][l].k = "own"
            /\ wire' = [wire EXCEPT ![c][l] = GWire("own", loc[c].peer, loc[c].got)]
            /\ Decide(c, "made")
         \/ /\ intf[c][l].k # "own"
            /\ Fail(c)
            /\ UNCHANGED wire
    /\ UNCHANGED <<k8s, node, netns, intf, vxlinks, budget>>

-----------------------------------------------------------------------------
(* cmdAdd, peer alive on another host, VXLAN.                               *)

VxClean(c) ==
    /\ At(c, "vx_clean")
    /\ intf' = Unplug(intf, c, Link(c))
    /\ Goto(c, "vx_make")
    /\ UNCHANGED <<k8s, node, netns, wire, vxlinks, budget>>

VxMake(c) ==
    /\ At(c, "vx_make")
    /\ IF Exists(c, Link(c))
       THEN UNCHANGED intf /\ Fail(c)
       ELSE /\ intf' = [intf EXCEPT ![c][Link(c)] = If("vx", node[loc[c].peer])]
            /\ Goto(c, "vx_register")
    /\ UNCHANGED <<k8s, node, netns, wire, vxlinks, budget>>

VxEndpoint(c, n) == [ns |-> c, peerNode |-> n]

VxRegister(c) ==
    /\ At(c, "vx_register")
    /\ vxlinks' = [vxlinks EXCEPT ![node[c]][Link(c)] =
                                      VxEndpoint(c, node[loc[c].peer])]
    /\ Goto(c, "vx_update")
    /\ UNCHANGED <<k8s, node, netns, intf, wire, budget>>

\* Mutant: the peer's daemon does not register the endpoint.
RemoteUpdateUnregistered(c, d, l) ==
    /\ d \in netns
    /\ intf' = IF intf[d][l] = If("vx", node[c]) THEN intf
               ELSE [Unplug(intf, d, l) EXCEPT ![d][l] = If("vx", node[c])]
    /\ UNCHANGED vxlinks

\* Update at the peer's daemon: CreateOrUpdate leaves a VXLAN interface with
\* our address alone and replaces anything else, then registers the endpoint.
RemoteUpdate(c, d, l) ==
    /\ d \in netns
    /\ intf' = IF intf[d][l] = If("vx", node[c]) THEN intf
               ELSE [Unplug(intf, d, l) EXCEPT ![d][l] = If("vx", node[c])]
    /\ vxlinks' = [vxlinks EXCEPT ![node[d]][l] = VxEndpoint(d, node[c])]

VxUpdate(c) ==
    /\ At(c, "vx_update")
    /\ \/ RemoteUpdate(c, loc[c].peer, Link(c)) /\ Decide(c, "made")
       \/ loc[c].peer \notin netns /\ Fail(c) /\ UNCHANGED <<intf, vxlinks>>
    /\ UNCHANGED <<k8s, node, netns, wire, budget>>

-----------------------------------------------------------------------------
(* cmdDel.                                                                  *)

\* Mutant: the container id is not compared.
DelGetUnchecked(c) ==
    /\ At(c, "del_get")
    /\ Goto(c, "del_wires")
    /\ UNCHANGED <<k8s, nodes, budget>>

\* Get of the own resource: a DEL for another container than the one the
\* resource names is a duplicate and succeeds at once.
DelGet(c) ==
    /\ At(c, "del_get")
    /\ Goto(c, IF status[PodOf(c)].ns = c THEN "del_wires" ELSE "del_done")
    /\ UNCHANGED <<k8s, nodes, budget>>

\* RemGRPCWire: the daemon of c's node drops the wires of the POD, whatever
\* container they belong to, with their host interfaces.
PodWire(p, n, x, m) == PodOf(x) = p /\ node[x] = n /\ wire[x][m].st # "none"

DropPodWires(c) ==
    LET mine(x, m) == PodWire(PodOf(c), node[c], x, m) IN
      /\ wire' = [x \in Containers |-> [m \in Links |->
                    IF mine(x, m) THEN NoWire ELSE wire[x][m]]]
      /\ intf' = [x \in Containers |-> [m \in Links |->
                    IF mine(x, m) /\ intf[x][m].k = wire[x][m].mine
                    THEN NoIf ELSE intf[x][m]]]

DelWires(c) ==
    /\ At(c, "del_wires")
    /\ DropPodWires(c)
    /\ Goto(c, "del_clear")
    /\ UNCHANGED <<k8s, node, netns, vxlinks, budget>>

\* Mutant: the resource is not cleared.
DelClearForgotten(c) ==
    /\ At(c, "del_clear")
    /\ LoopAt(c, 1, "del_link", "del_done")
    /\ UNCHANGED <<out, k8s, nodes, budget>>

\* SetAlive with empty values marks the pod dead and forgets the container.
DelClear(c) ==
    /\ At(c, "del_clear")
    /\ status' = SetAlive(status, PodOf(c), None, None)
    /\ LoopAt(c, 1, "del_link", "del_done")
    /\ UNCHANGED <<out, knows, nodes, budget>>

\* Get of the peer. Its error is dropped: without an answer, as for the peer
\* of a macvlan link, the nil pointer is dereferenced and the process dies.
DelGetPeer(c) ==
    /\ At(c, "del_link")
    /\ \/ /\ Peer(c) = Localhost
          /\ Leave(c, "del_failed")
       \/ /\ Peer(c) # Localhost
          /\ LET d == Get(status, Peer(c), knows[node[c]]) IN
               GotoWith(c, IF d # None /\ node[d] = node[c]
                           THEN "del_rm" ELSE "del_down",
                        [loc[c] EXCEPT !.peer = d])
    /\ UNCHANGED <<k8s, nodes, budget>>

\* The wire of the peer stops forwarding; it is found for a living peer only.
MakeGRPCChanDown(d, l) ==
    IF d # None /\ wire[d][l].st # "none"
    THEN [wire EXCEPT ![d][l].st = "down"] ELSE wire

\* The peer is on another host, or not alive (its address is then empty): its
\* wire goes down, or the own daemon's VXLAN endpoint is unregistered.
DelDown(c) ==
    /\ At(c, "del_down")
    /\ IF LinkType = "GRPC"
       THEN /\ wire' = MakeGRPCChanDown(loc[c].peer, Link(c))
            /\ UNCHANGED vxlinks
       ELSE /\ vxlinks' = [vxlinks EXCEPT ![node[c]][Link(c)] = NoVx]
            /\ UNCHANGED wire
    /\ Goto(c, "del_rm")
    /\ UNCHANGED <<k8s, node, netns, intf, budget>>

\* RemoveVethLink; that the interface is not there is only logged.
DelRemove(c) ==
    /\ At(c, "del_rm")
    /\ intf' = Unplug(intf, c, Link(c))
    /\ Goto(c, "del_skip_peer")
    /\ UNCHANGED <<k8s, node, netns, wire, vxlinks, budget>>

DelSkipPeer(c) ==
    /\ At(c, "del_skip_peer")
    /\ status' = SkipReversePeer(status, PodOf(c), Peer(c), Link(c))
    /\ Goto(c, "del_skip_this")
    /\ UNCHANGED <<knows, nodes, budget>>

DelSkipThis(c) ==
    /\ At(c, "del_skip_this")
    /\ status' = SkipReverseThis(status, PodOf(c), Peer(c), Link(c))
    /\ LoopAt(c, idx[c] + 1, "del_link", "del_done")
    /\ UNCHANGED <<out, knows, nodes, budget>>

-----------------------------------------------------------------------------
(* Failures the code handles, each an alternative of the step it strikes.   *)

UseFault(kind) ==
    /\ kind \in Faults
    /\ budget.faults > 0
    /\ budget' = [budget EXCEPT !.faults = @ - 1]

\* The steps of ADD that fail with the RPC of their own daemon.
ApiAddSteps == {"add_alive", "add_skip", "veth_skipped", "grpc_skipped",
                "grpc_poll"}

AddApiFault(c) ==
    /\ pc[c] \in ApiAddSteps \/ (At(c, "add_link") /\ Peer(c) # Localhost)
    /\ UseFault("api")
    /\ Fail(c)
    /\ UNCHANGED <<k8s, nodes>>

\* DEL: an unanswered Get of the own resource is taken for "not in topology",
\* i.e. success; an unanswered Get of the peer kills the process; the other
\* calls make DEL fail, RemGRPCWire only after the wires are gone, when their
\* records cannot be removed.
DelApiFault(c) ==
    /\ pc[c] \in {"del_get", "del_wires", "del_clear", "del_link",
                  "del_skip_peer", "del_skip_this"}
    /\ UseFault("api")
    /\ IF At(c, "del_wires") THEN DropPodWires(c) ELSE UNCHANGED <<wire, intf>>
    /\ Leave(c, IF At(c, "del_get") THEN "del_done" ELSE "del_failed")
    /\ UNCHANGED <<k8s, node, netns, vxlinks>>

\* A call to the peer's daemon is lost, before or after it took effect. ADD
\* fails; DEL logs it and goes on.
RpcFault(c) ==
    /\ UseFault("rpc")
    /\ \/ /\ At(c, "grpc_remote")
          /\ AddGRPCWireRemote(c, loc[c].peer, Link(c)) \/ UNCHANGED <<intf, wire>>
          /\ UNCHANGED vxlinks
          /\ Fail(c)
       \/ /\ At(c, "vx_update")
          /\ RemoteUpdate(c, loc[c].peer, Link(c)) \/ UNCHANGED <<intf, vxlinks>>
          /\ UNCHANGED wire
          /\ Fail(c)
       \/ /\ At(c, "del_down") /\ LinkType = "GRPC"
          /\ UNCHANGED <<intf, wire, vxlinks>>
          /\ Goto(c, "del_rm")
    /\ UNCHANGED <<k8s, node, netns>>

-----------------------------------------------------------------------------
Add(c) ==
    \/ AddSetAlive(c) \/ AddMacvlan(c) \/ AddGetPeer(c) \/ AddSkip(c)
    \/ VethExistMine(c) \/ VethExistPeer(c) \/ VethRemove(c)
    \/ VethIsSkipped(c) \/ VethMake(c) \/ VethJoin(c)
    \/ GrpcIsSkipped(c) \/ GrpcWait(c) \/ GrpcPoll(c) \/ GrpcExists(c)
    \/ GrpcVeth(c) \/ GrpcRemote(c) \/ GrpcLocal(c)
    \/ VxClean(c) \/ VxMake(c) \/ VxRegister(c) \/ VxUpdate(c)

Del(c) ==
    \/ DelGet(c) \/ DelWires(c) \/ DelClear(c) \/ DelGetPeer(c) \/ DelDown(c)
    \/ DelRemove(c) \/ DelSkipPeer(c) \/ DelSkipThis(c)

Kubelet(c) ==
    \/ \E n \in Nodes : StartPod(c, n)
    \/ StartDel(c) \/ RepeatDel(c) \/ RemoveSandbox(c)

Fault(c) == AddApiFault(c) \/ DelApiFault(c) \/ RpcFault(c)

Next ==
    \/ \E c \in Containers : Add(c) \/ Del(c) \/ Kubelet(c) \/ Fault(c)
    \/ \E n \in Nodes : RefreshNodeIPs(n)

Spec == Init /\ [][Next]_vars

-----------------------------------------------------------------------------
(* What the properties are about.                                           *)

\* c is the container its pod's resource names.
Current(c) == status[PodOf(c)].ns = c

\* c and d are containers of the two pods of link l.
Ends(c, d, l) ==
    \E i \in 1..Len(PodLinks[PodOf(c)]) :
        PodLinks[PodOf(c)][i] = [link |-> l, peer |-> PodOf(d)]

\* Both pods of link l are up.
Settled(c, d, l) ==
    /\ At(c, "up") /\ At(d, "up")
    /\ Current(c) /\ Current(d)
    /\ Ends(c, d, l)

SameHost(c, d) == node[c] = node[d]

\* What c sends into link l comes out at d: over the veth, over a wire whose
\* peer address and peer interface are d's, or over the VXLAN tunnel.
Reaches(c, d, l) ==
    \/ intf[c][l] = If("veth", d)
    \/ /\ wire[c][l].st = "ready" /\ wire[c][l].to = d
       /\ wire[c][l].mine = intf[c][l].k
       /\ wire[c][l].toIf = intf[d][l].k
       /\ wire[c][l].toNode = node[d]
    \/ intf[c][l] = If("vx", node[d])

Wired(c, d, l) == Reaches(c, d, l) /\ Reaches(d, c, l)

\* c leaves link l to its peer, having found no peer alive.
Skips(c, l) ==
    \/ out[c][l] = "skip"
    \/ At(c, "add_skip") /\ Link(c) = l

\* c is making link l towards container d over gRPC.
Creates(c, d, l) ==
    /\ pc[c] \in {"grpc_veth", "grpc_remote", "grpc_local"}
    /\ Link(c) = l /\ loc[c].peer = d

\* Pod p has no container, neither one coming up nor one being torn down.
Away(p) == \A x \in Containers : PodOf(x) = p => pc[x] \in {"new", "gone"}

-----------------------------------------------------------------------------
(* Safety.                                                                  *)

\* NotBothSkip: of two pods that are both alive, at most one has found the
\* other one dead and leaves the link to it. cmdAdd publishes itself
\* (SetAlive) before it looks at the peer (Get), so the second to publish
\* cannot miss the first.
NotBothSkip ==
    \A c, d \in Containers : \A l \in Links :
        Ends(c, d, l) /\ Current(c) /\ Current(d)
            => ~(Skips(c, l) /\ Skips(d, l))

\* LostOnlyBySkipRace: two pods that are up on the same host have their veth
\* pair, whatever restarts went before, but for one schedule: the pod with the
\* greater name looked for its peer too early and skipped it, and the peer
\* looked for the skip mark too early and left the pair to it.
LostOnlyBySkipRace ==
    \A c, d \in Containers : \A l \in Links :
        Settled(c, d, l) /\ SameHost(c, d) /\ PodOf(c) > PodOf(d) =>
            \/ Wired(c, d, l)
            \/ out[c][l] = "skip" /\ out[d][l] = "defer"

\* LostOnlyByGivingUp: two pods that are up on different hosts have a wire
\* that works in both directions, but for the same schedule if in addition
\* the peer's whole waiting loop in CreatGRPCChan passes before the skip mark
\* is written.
LostOnlyByGivingUp ==
    \A c, d \in Containers : \A l \in Links :
        Settled(c, d, l) /\ ~SameHost(c, d) /\ PodOf(c) > PodOf(d) =>
            \/ Wired(c, d, l)
            \/ out[c][l] = "skip" /\ out[d][l] = "gaveup"

\* LostOnlyBySkipping: also while nodes join and daemons do not know them all
\* yet, and under failures, two pods that are up lack their link only if one of
\* them took the other for dead and skipped it; waiting, deferring and failing
\* calls alone never lose one.
LostOnlyBySkipping ==
    \A c, d \in Containers : \A l \in Links :
        Settled(c, d, l) =>
            Wired(c, d, l) \/ out[c][l] = "skip" \/ out[d][l] = "skip"

\* OneCreator: in CreatGRPCChan, of two pods that see each other only one
\* creates the wire: the one that was skipped or, if none was, the one with
\* the greater name.
OneCreator ==
    \A c, d \in Containers : \A l \in Links :
        ~(Creates(c, d, l) /\ Creates(d, c, l))

\* VxlanUp: two pods that are up on different hosts have VXLAN interfaces that
\* point at each other, and both daemons have registered them (carrier
\* propagation works from that registry), although both ADDs may rebuild both
\* ends concurrently.
VxlanUp ==
    \A c, d \in Containers : \A l \in Links :
        Settled(c, d, l) /\ ~SameHost(c, d) =>
            /\ Wired(c, d, l)
            /\ vxlinks[node[c]][l] = VxEndpoint(c, node[d])

\* GonePeerIsSkipped: while a pod is away, each of its peers that is up has it
\* on its skip list, so that it will create the link when it returns: either
\* the peer skipped it, or its own DEL (SkipReverse) put it there.
GonePeerIsSkipped ==
    \A d \in Containers : \A i \in 1..Len(PodLinks[PodOf(d)]) :
        LET e == PodLinks[PodOf(d)][i] IN
        e.peer # Localhost /\ At(d, "up") /\ Current(d) /\ Away(e.peer)
            => <<e.peer, e.link>> \in status[PodOf(d)].skipped

\* GoneIsDead: the resource of a pod does not name a container that has been
\* torn down; a peer that read it would plumb into a dead namespace.
GoneIsDead ==
    \A c \in Containers : At(c, "gone") => ~Current(c)

\* DelSparesOthers: a container is marked dead by its own DEL only, never by
\* the DEL of an earlier container of the pod, be it late or repeated.
DelSparesOthers ==
    [][\A c \in Containers :
          Current(c) /\ status'[PodOf(c)].ns = None => At(c, "del_clear")]_vars

\* The abstract specification, with the containers the resources name and the
\* links their ADDs have skipped.
Meets(p, q, l) ==
    \E i \in 1..Len(PodLinks[p]) : PodLinks[p][i] = [link |-> l, peer |-> q]

Abstract == INSTANCE Rendezvous
    WITH present <- [p \in Pods |-> status[p].ns],
         left <- {x \in Containers \X Links : Skips(x[1], x[2])}

\* IsRendezvous: ADD and DEL, with all their RPCs, waiting and failures,
\* implement the rendezvous: a container announces itself before it decides
\* anything, and leaves a link to its peer only at a moment when that peer has
\* not announced itself.
IsRendezvous == Abstract!Spec

\* AddEnds: every ADD comes to an end, although a pod may have to wait for a
\* peer that waits for its own peer.
AddEnds ==
    \A c \in Containers :
        At(c, "add_alive") ~> pc[c] \in {"up", "add_failed"}

-----------------------------------------------------------------------------
(* What comments of the code say; TLC refutes each one.                     *)

\* DeferredIsConnected: "we do nothing, since the pod with a higher IP is
\* supposed to connect veth pair": a link left to the peer is made by it.
DeferredIsConnected ==
    \A c, d \in Containers : \A l \in Links :
        Settled(c, d, l) /\ out[c][l] = "defer" => Wired(c, d, l)

\* WireFollowsPeer: when a pod is recreated on another node, the update of its
\* peer's wire makes that wire lead to the new node.
WireFollowsPeer ==
    \A c \in Containers : \A l \in Links :
        wire[c][l].st = "ready" => wire[c][l].toNode = node[wire[c][l].to]

=============================================================================

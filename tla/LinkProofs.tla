----------------------------- MODULE LinkProofs -----------------------------
(***************************************************************************)
(* The links that successful ADDs leave behind: veth pairs between pods on *)
(* one node; gRPC wires, or VXLAN interfaces and registry entries, between *)
(* pods on two.                                                            *)
(*                                                                         *)
(* Of two announced pods on one node, whoever is done with the link left   *)
(* the pair behind, unless it left the link to the other one: because it   *)
(* found it dead, because the other one has the greater name, or because   *)
(* it dealt with a container that the other one has replaced.  In the      *)
(* first and the last case it has the other one on its skip list, so that  *)
(* this one makes the pair if it looks at the list late enough.            *)
(*                                                                         *)
(* Of two announced pods on different nodes each rebuilds both ends of a   *)
(* VXLAN link, its own first and the peer's last, unless it is one of      *)
(* those that do nothing: the pod that looked before the peer had          *)
(* announced itself, or that found a container of the peer which is gone   *)
(* by now.  Then the peer looks later and rebuilds both.  So it suffices   *)
(* that whoever writes the ends of a link leaves the peer's end as the     *)
(* peer wants it.                                                          *)
(*                                                                         *)
(* While every pod has its first sandbox, links are lost by skipping only, *)
(* under every failure of the model: veth pairs, gRPC wires and VXLAN      *)
(* links alike.                                                            *)
(***************************************************************************)
EXTENDS MarkProofs

\* A link uid belongs to one pair of pods.
LinksApart ==
    \A p, q \in Pods : \A i \in 1..Len(PodLinks[p]), j \in 1..Len(PodLinks[q]) :
        PodLinks[p][i].link = PodLinks[q][j].link
            => q = p \/ q = PodLinks[p][i].peer

\* The setting of this module.
Cluster == LinksApart /\ ~StaleNodes /\ ~Overlap /\ "api" \notin Faults
VxlanCluster == LinkType = "VXLAN" /\ Cluster

Step(c) == Add(c) \/ Del(c) \/ Kubelet(c) \/ Fault(c)

-----------------------------------------------------------------------------
(* Peers.                                                                   *)

VethSteps == {"veth_mine", "veth_peer", "veth_rm", "veth_skipped", "veth_make",
              "veth_join"}
GrpcSteps == {"grpc_skipped", "grpc_wait", "grpc_poll", "grpc_exists", "grpc_veth",
              "grpc_remote", "grpc_local"}
VxSteps == {"vx_clean", "vx_make", "vx_register", "vx_update"}

\* Whoever deals with a living peer found a container of the right pod that had
\* been announced, and knows whether it is on the same node.
FoundBy(c) ==
    pc[c] \in PeerSteps =>
        /\ PodOf(loc[c].peer) = Peer(c)
        /\ pc[loc[c].peer] \notin {"new", "add_alive"}
        /\ pc[c] \in VethSteps <=> node[loc[c].peer] = node[c]

PeersInv == \A c \in Containers : FoundBy(c)

\* A step touches no other process.
LEMMA StepAlone ==
    ASSUME TypeInv, NEW c \in Containers, Step(c)
    PROVE  Alone(c)
<1>1. CASE Kubelet(c) \/ Fault(c)
  BY <1>1 DEF Kubelet, StartPod, StartDel, RepeatDel, RemoveSandbox, Fault,
              AddApiFault, DelApiFault, RpcFault, Fail, Leave, Goto, GotoWith,
              TypeInv, ProcsOK, Alone
<1> QED
  BY <1>1, AddAlone, DelAlone DEF Step

\* Nobody gets back to where the ADD begins.
LEMMA NeverNewAgain ==
    ASSUME TypeInv, NEW c \in Containers, Step(c), NEW d \in Containers
    PROVE  /\ pc[d] \notin {"new", "add_alive"} => pc'[d] \notin {"new", "add_alive"}
           /\ pc'[d] = "new" => pc[d] = "new"
<1>1. CASE d # c
  BY <1>1, StepAlone DEF Alone
<1>2. CASE d = c
  <2>1. CASE Add(c)
    <3>1. CASE AddSetAlive(c)
      BY <1>2, <3>1 DEF AddSetAlive, LoopAt, TypeInv, ProcsOK
    <3> QED
      BY <1>2, <2>1, <3>1, AddMoves DEF AddSteps, TypeInv, ProcsOK
  <2>2. CASE Del(c)
    BY <1>2, <2>2, DelMoves DEF DelSteps
  <2>3. CASE Kubelet(c) \/ Fault(c)
    BY <1>2, <2>3
    DEF Kubelet, StartPod, StartDel, RepeatDel, RemoveSandbox, Fault, At,
        AddApiFault, DelApiFault, RpcFault, Fail, Leave, Goto, GotoWith, TypeInv, ProcsOK
  <2> QED
    BY <2>1, <2>2, <2>3 DEF Step
<1> QED
  BY <1>1, <1>2

\* A container that has been started stays on its node.
LEMMA NodeKept ==
    ASSUME TypeInv, NEW c \in Containers, Step(c),
           NEW d \in Containers, pc[d] # "new"
    PROVE  node'[d] = node[d]
<1>1. CASE Kubelet(c)
  BY <1>1 DEF Kubelet, StartPod, StartDel, RepeatDel, RemoveSandbox, At, nodes,
              TypeInv, NodesOK
<1>2. CASE Del(c) \/ Fault(c)
  BY <1>2 DEF Del, DelGet, DelWires, DelClear, DelGetPeer, DelDown, DelRemove,
              DelSkipPeer, DelSkipThis, Fault, AddApiFault, DelApiFault, RpcFault,
              nodes
<1>3. CASE Add(c)
  <2>1. CASE AddSetAlive(c) \/ AddMacvlan(c) \/ AddGetPeer(c) \/ AddSkip(c)
    BY <2>1 DEF AddSetAlive, AddMacvlan, AddGetPeer, AddSkip, nodes
  <2> QED
    BY <1>3, <2>1, PeerTurns
<1> QED
  BY <1>1, <1>2, <1>3 DEF Step

\* Steps that keep the process with the peer it has found, if with any.
Stays(c) ==
    pc'[c] \in PeerSteps =>
        /\ pc[c] \in PeerSteps
        /\ pc[c] \in VethSteps <=> pc'[c] \in VethSteps
        /\ pc[c] \in VxSteps <=> pc'[c] \in VxSteps
        /\ loc'[c].peer = loc[c].peer /\ idx'[c] = idx[c]

LEMMA StaysKeeps ==
    ASSUME TypeInv, PeersInv, NEW c \in Containers, Step(c), Stays(c),
           NEW d \in Containers
    PROVE  FoundBy(d)'
<1> SUFFICES ASSUME pc'[d] \in PeerSteps PROVE FoundBy(d)'
  BY DEF FoundBy
<1>1. /\ pc[d] \in PeerSteps
      /\ pc[d] \in VethSteps <=> pc'[d] \in VethSteps
      /\ loc'[d].peer = loc[d].peer /\ idx'[d] = idx[d]
  BY StepAlone DEF Stays, Alone
<1> DEFINE e == loc[d].peer
<1>2. /\ e \in Containers /\ PodOf(e) = Peer(d) /\ pc[e] \notin {"new", "add_alive"}
      /\ pc[d] \in VethSteps <=> node[e] = node[d]
  BY <1>1 DEF PeersInv, FoundBy, TypeInv, ProcsOK, HasPeer
<1>3. node'[e] = node[e] /\ node'[d] = node[d]
  BY <1>1, <1>2, NodeKept DEF PeerSteps
<1>4. pc'[e] \notin {"new", "add_alive"}
  BY <1>2, NeverNewAgain
<1> QED
  BY <1>1, <1>2, <1>3, <1>4 DEF FoundBy, Peer, Cur

\* Whoever has not got to SetAlive is not announced.
NotYetAlive == \A c \in Containers : pc[c] \in {"new", "add_alive"} => ~Current(c)

LEMMA NotYetInit == Init => NotYetAlive
BY PodOfContainer, NoneAssumption DEF Init, NotYetAlive, Current, FreshStatus

LEMMA NotYetStep ==
    ASSUME TypeInv, NotYetAlive, [Next]_vars
    PROVE  NotYetAlive'
<1>1. ASSUME NEW x \in Containers, Step(x) PROVE NotYetAlive'
  <2> SUFFICES ASSUME NEW c \in Containers, pc'[c] \in {"new", "add_alive"}, Current(c)'
               PROVE  FALSE
    BY DEF NotYetAlive
  <2>1. ~Current(c) /\ PodOf(c) \in Pods /\ c # None
    BY <1>1, NeverNewAgain, PodOfContainer, NoneAssumption DEF NotYetAlive
  <2>2. ~StatusQuiet
    BY <2>1 DEF StatusQuiet, Current
  <2>3. AddSetAlive(x)
    <3>1. UNCHANGED status => StatusQuiet
      BY StatusUnchanged
    <3> QED
      BY <1>1, <2>2, <3>1, AddQuiet, DelQuiet, OthersQuiet
      DEF Step, Kubelet, StartPod, AddGetPeer, k8s
  <2>4. pc'[x] \in {"add_link", "up"}
    BY <2>3 DEF AddSetAlive, LoopAt, TypeInv, ProcsOK
  <2>5. status'[PodOf(c)].ns \in {x, status[PodOf(c)].ns}
    BY <2>1, <2>3 DEF AddSetAlive, SetAlive, TypeInv, K8sOK, StatusType
  <2> QED
    BY <2>1, <2>4, <2>5 DEF Current
<1>2. CASE UNCHANGED <<status, pc>>
  BY <1>2 DEF NotYetAlive, Current
<1> QED
  BY <1>1, <1>2 DEF Next, RefreshNodeIPs, vars, k8s, procs, Step

\* The step by which a process comes to deal with a peer.
LEMMA GetPeerFinds ==
    ASSUME TypeInv, HereInv, NotYetAlive, PeersInv, NEW c \in Containers, AddGetPeer(c)
    PROVE  FoundBy(c)'
<1> DEFINE e == Get(status, Peer(c), knows[node[c]])
           far == IF LinkType = "GRPC" THEN "grpc_skipped" ELSE "vx_clean"
<1> SUFFICES ASSUME pc'[c] \in PeerSteps PROVE FoundBy(c)'
  BY DEF FoundBy
<1>1. /\ pc[c] = "add_link" /\ UNCHANGED <<node, idx>>
      /\ loc'[c] = [loc[c] EXCEPT !.peer = e]
      /\ pc' = [pc EXCEPT ![c] = IF e = None THEN "add_skip"
                                 ELSE IF node[e] = node[c] THEN "veth_mine"
                                 ELSE far]
  BY DEF AddGetPeer, At, GotoWith, nodes, TypeInv, ProcsOK
<1>2. e # None /\ Peer(c) \in Pods
  <2>1. Peer(c) \in Pods
    BY <1>1, CurrentLink DEF AddGetPeer, TypeInv, LoopSteps
  <2> QED
    BY <1>1, <2>1 DEF PeerSteps, TypeInv, ProcsOK
<1>3. e \in Containers /\ PodOf(e) = Peer(c) /\ Current(e)
  BY <1>2, FoundPeer DEF HereInv
<1>4. pc[e] \notin {"new", "add_alive"}
  BY <1>3 DEF NotYetAlive
<1>5. pc'[c] = IF node[e] = node[c] THEN "veth_mine" ELSE far
  BY <1>1, <1>2 DEF TypeInv, ProcsOK
<1>6. pc'[e] \notin {"new", "add_alive"}
  BY <1>1, <1>3, <1>4, <1>5 DEF TypeInv, ProcsOK
<1>7. loc'[c].peer = e
  BY <1>1 DEF TypeInv, ProcsOK, LocType
<1>8. pc'[c] \in VethSteps <=> node'[e] = node'[c]
  BY <1>1, <1>5 DEF VethSteps
<1>9. PodOf(e) = Peer(c)'
  BY <1>1, <1>3 DEF Peer, Cur
<1> QED
  BY <1>6, <1>7, <1>8, <1>9 DEF FoundBy

\* A process deals with its peer over a veth pair, over gRPC or over VXLAN, and
\* goes on as it began.
LEMMA SideKept ==
    ASSUME TypeInv, NEW c \in Containers, Add(c), pc[c] \in PeerSteps,
           pc'[c] \in PeerSteps
    PROVE  /\ pc[c] \in VethSteps <=> pc'[c] \in VethSteps
           /\ pc[c] \in VxSteps <=> pc'[c] \in VxSteps
<1>1. CASE \/ VethExistMine(c) \/ VethExistPeer(c) \/ VethRemove(c)
           \/ VethIsSkipped(c) \/ VethMake(c) \/ VethJoin(c)
  <2>1. pc[c] \in VethSteps
    BY <1>1 DEF VethExistMine, VethExistPeer, VethRemove, VethIsSkipped, VethMake,
                VethJoin, At, VethSteps
  <2>2. pc'[c] \in VethSteps \cup {"add_link", "up", "add_failed"}
    BY <1>1 DEF VethExistMine, VethExistPeer, VethRemove, VethIsSkipped, VethMake,
                VethJoin, Goto, GotoWith, Decide, LoopAt, Fail, Leave, TypeInv, ProcsOK,
                VethSteps
  <2> QED
    BY <2>1, <2>2 DEF VethSteps, VxSteps, PeerSteps
<1>2. CASE VxClean(c) \/ VxMake(c) \/ VxRegister(c) \/ VxUpdate(c)
  <2>1. pc[c] \in VxSteps
    BY <1>2 DEF VxClean, VxMake, VxRegister, VxUpdate, At, VxSteps
  <2>2. pc'[c] \in VxSteps \cup {"add_link", "up", "add_failed"}
    BY <1>2 DEF VxClean, VxMake, VxRegister, VxUpdate, Goto, GotoWith, Decide, LoopAt,
                Fail, Leave, TypeInv, ProcsOK, VxSteps
  <2> QED
    BY <2>1, <2>2 DEF VethSteps, VxSteps, PeerSteps
<1>3. CASE \/ GrpcIsSkipped(c) \/ GrpcWait(c) \/ GrpcPoll(c) \/ GrpcExists(c)
           \/ GrpcVeth(c) \/ GrpcRemote(c) \/ GrpcLocal(c)
  <2>1. pc[c] \in GrpcSteps
    BY <1>3 DEF GrpcIsSkipped, GrpcWait, GrpcPoll, GrpcExists, GrpcVeth, GrpcRemote,
                GrpcLocal, At, GrpcSteps
  <2>2. pc'[c] \in GrpcSteps \cup {"add_link", "up", "add_failed"}
    BY <1>3 DEF GrpcIsSkipped, GrpcWait, GrpcPoll, GrpcExists, GrpcVeth, GrpcRemote,
                GrpcLocal, Goto, GotoWith, Decide, LoopAt, Fail, Leave, TypeInv, ProcsOK,
                GrpcSteps
  <2> QED
    BY <2>1, <2>2 DEF VethSteps, VxSteps, GrpcSteps, PeerSteps
<1> QED
  BY <1>1, <1>2, <1>3 DEF Add, AddSetAlive, AddMacvlan, AddGetPeer, AddSkip, At, PeerSteps

\* All steps but the look at the peer stay with the peer.
LEMMA OthersStay ==
    ASSUME TypeInv, NEW c \in Containers, Step(c), ~AddGetPeer(c)
    PROVE  Stays(c)
<1>1. CASE AddSetAlive(c) \/ AddMacvlan(c) \/ AddSkip(c)
  BY <1>1 DEF AddSetAlive, AddMacvlan, AddSkip, Decide, LoopAt, TypeInv, ProcsOK,
              Stays, PeerSteps
<1>2. CASE Add(c) /\ ~AddSetAlive(c) /\ ~AddMacvlan(c) /\ ~AddSkip(c)
  <2>1. pc[c] \in PeerSteps /\ Turns(c)
    BY <1>2, PeerTurns
  <2>2. ASSUME NEW s \in PeerSteps, NEW r \in LocType, GotoWith(c, s, r),
               r.peer = loc[c].peer
        PROVE  loc'[c].peer = loc[c].peer /\ idx'[c] = idx[c]
    BY <2>2 DEF GotoWith, TypeInv, ProcsOK
  <2>3. ASSUME \/ \E how \in Outcomes \ {"none", "skip"} : Decide(c, how)
               \/ Fail(c)
        PROVE  pc'[c] \notin PeerSteps
    BY <2>3 DEF Decide, LoopAt, Fail, Leave, GotoWith, TypeInv, ProcsOK, PeerSteps
  <2> QED
    BY <1>2, <2>1, <2>2, <2>3, SideKept DEF Turns, Stays
<1>3. CASE Del(c)
  BY <1>3, DelMoves DEF Stays, PeerSteps, DelSteps
<1>4. CASE Kubelet(c) \/ Fault(c)
  BY <1>4 DEF Kubelet, StartPod, StartDel, RepeatDel, RemoveSandbox, Fault, AddApiFault,
     DelApiFault, RpcFault, Fail, Leave, Goto, GotoWith, TypeInv, ProcsOK, Stays, PeerSteps
<1> QED
  BY <1>1, <1>2, <1>3, <1>4 DEF Step

LEMMA PeersStep ==
    ASSUME TypeInv, HereInv, NotYetAlive, PeersInv, [Next]_vars
    PROVE  PeersInv'
<1>1. ASSUME NEW c \in Containers, Step(c) PROVE PeersInv'
  <2>1. ASSUME AddGetPeer(c) PROVE \A d \in Containers : FoundBy(d)'
    <3> SUFFICES ASSUME NEW d \in Containers \ {c}, pc'[d] \in PeerSteps PROVE FoundBy(d)'
      BY <2>1, GetPeerFinds DEF FoundBy
    <3>1. /\ pc'[d] = pc[d] /\ loc'[d] = loc[d] /\ idx'[d] = idx[d]
      BY <1>1, StepAlone DEF Alone
    <3>2. loc[d].peer \in Containers
      BY <3>1 DEF TypeInv, ProcsOK, HasPeer
    <3>3. UNCHANGED node /\ pc'[loc[d].peer] \notin {"new", "add_alive"}
      BY <1>1, <2>1, <3>1, <3>2, NeverNewAgain DEF AddGetPeer, nodes, PeersInv, FoundBy
    <3> QED
      BY <3>1, <3>3 DEF PeersInv, FoundBy, Peer, Cur
  <2> QED
    BY <1>1, <2>1, OthersStay, StaysKeeps DEF PeersInv
<1>2. CASE UNCHANGED <<node, procs>>
  BY <1>2 DEF procs, PeersInv, FoundBy, Peer, Cur
<1> QED
  BY <1>1, <1>2 DEF Next, RefreshNodeIPs, vars, nodes, Step

LEMMA LifeNotYet == LifeInv => NotYetAlive
BY DEF LifeInv, DeadIsDead, DeadSteps, NotYetAlive

LEMMA PeersInit == Init => PeersInv
BY DEF Init, PeersInv, FoundBy, PeerSteps

-----------------------------------------------------------------------------
(* Namespaces.                                                              *)

\* A namespace that does not exist has no interfaces; an ADD has a namespace,
\* and the predecessors of a container that was started have none.
NsOf(c) ==
    /\ c \notin netns => \A l \in Links : intf[c][l] = NoIf
    /\ pc[c] \in AddSteps \cup {"up"} => c \in netns
    /\ pc[c] \in {"new", "gone"} => c \notin netns
    /\ \A x \in Containers : Earlier(x, c) /\ pc[c] # "new" => x \notin netns

NsInv == \A c \in Containers : NsOf(c)

\* Sandboxes are made and removed by the runtime only.
LEMMA NetnsMoves ==
    ASSUME TypeInv, NEW c \in Containers, Step(c)
    PROVE  \/ \E n \in Nodes : StartPod(c, n)
           \/ RemoveSandbox(c)
           \/ /\ UNCHANGED netns /\ pc[c] # "new"
              /\ pc'[c] \notin {"new", "add_alive", "gone"}
              /\ pc'[c] \in AddSteps \cup {"up"} => pc[c] \in AddSteps
<1>1. CASE AddSetAlive(c)
  BY <1>1 DEF AddSetAlive, At, LoopAt, nodes, TypeInv, ProcsOK, AddSteps
<1>2. CASE Add(c) /\ ~AddSetAlive(c)
  <2>1. UNCHANGED netns
    BY <1>2
    DEF Add, AddMacvlan, AddGetPeer, AddSkip, VethExistMine, VethExistPeer, VethRemove,
        VethIsSkipped, VethMake, VethJoin, GrpcIsSkipped, GrpcWait, GrpcPoll, GrpcExists,
        GrpcVeth, GrpcRemote, GrpcLocal, VxClean, VxMake, VxRegister, VxUpdate, nodes
  <2> QED
    BY <1>2, <2>1, AddMoves DEF AddSteps, TypeInv, ProcsOK
<1>3. CASE Del(c)
  <2>1. UNCHANGED netns /\ pc[c] # "new"
    BY <1>3 DEF Del, DelGet, DelWires, DelClear, DelGetPeer, DelDown, DelRemove,
                DelSkipPeer, DelSkipThis, At, nodes
  <2> QED
    BY <1>3, <2>1, DelMoves DEF AddSteps, DelSteps
<1>4. CASE StartDel(c) \/ RepeatDel(c)
  BY <1>4 DEF StartDel, RepeatDel, At, Leave, GotoWith, nodes, TypeInv, ProcsOK, AddSteps
<1>5. CASE Fault(c)
  BY <1>5 DEF Fault, AddApiFault, DelApiFault, RpcFault, ApiAddSteps, At, Fail, Leave,
              Goto, GotoWith, nodes, TypeInv, ProcsOK, AddSteps
<1> QED
  BY <1>1, <1>2, <1>3, <1>4, <1>5 DEF Step, Kubelet

\* The daemon of the peer puts an interface into the peer's namespace only.
LEMMA RemoteInNs ==
    ASSUME TypeInv, NEW x \in Containers, NEW e \in Containers, NEW m \in Links,
           \/ AddGRPCWireRemote(x, e, m)
           \/ RemoteUpdate(x, e, m)
           \/ UNCHANGED intf,
           NEW y \in Containers, NEW l \in Links
    PROVE  \/ intf'[y][l] \in {intf[y][l], NoIf}
           \/ y = e /\ l = m /\ y \in netns
<1> DEFINE U == Unplug(intf, e, m)
<1>1. /\ U[y][l] \in {intf[y][l], NoIf} /\ DOMAIN U = Containers
      /\ \A z \in Containers : DOMAIN U[z] = Links
  BY DEF Unplug
<1>2. \/ intf' = intf
      \/ e \in netns /\ \E v : intf' = [U EXCEPT ![e][m] = v]
  BY DEF AddGRPCWireRemote, RemoteCreates, RemoteUpdate
<1> HIDE DEF U
<1> QED
  BY <1>1, <1>2

\* An interface appears only where a process puts it: at its own end of the link
\* it is at, or in the namespace of its peer.
LEMMA IntfGrows ==
    ASSUME TypeInv, NEW x \in Containers, Step(x), NEW y \in Containers, NEW l \in Links
    PROVE  \/ intf'[y][l] \in {intf[y][l], NoIf}
           \/ /\ pc[x] \in InAddLoop /\ Link(x) = l
              /\ \/ y = x
                 \/ /\ pc[x] \in {"veth_join", "grpc_remote", "vx_update"}
                    /\ y = loc[x].peer /\ y \in netns
<1>1. ASSUME NEW e \in Containers, NEW m \in Links
      PROVE  Unplug(intf, e, m)[y][l] \in {intf[y][l], NoIf}
  BY <1>1 DEF Unplug
<1>2. /\ pc[x] \in LoopSteps => Link(x) \in Links
      /\ pc[x] \in PeerSteps => loc[x].peer \in Containers
  BY CurrentLink DEF TypeInv, ProcsOK, HasPeer
<1>3. CASE UNCHANGED intf
  BY <1>3
<1>4. CASE Add(x)
  <2>1. CASE AddMacvlan(x) \/ VethMake(x) \/ GrpcVeth(x) \/ VxMake(x)
    <3>1. pc[x] \in InAddLoop
      BY <2>1 DEF AddMacvlan, VethMake, GrpcVeth, VxMake, At, InAddLoop, AddSteps
    <3>2. (y = x /\ Link(x) = l) \/ intf'[y][l] = intf[y][l]
      BY <2>1 DEF AddMacvlan, VethMake, GrpcVeth, VxMake, TypeInv, NodesOK
    <3> QED
      BY <3>1, <3>2
  <2>2. CASE VethRemove(x) \/ VxClean(x)
    <3>1. Link(x) \in Links /\ loc[x].peer \in Containers
      BY <1>2, <2>2 DEF VethRemove, VxClean, At, LoopSteps, PeerSteps
    <3> QED
      BY <1>1, <2>2, <3>1 DEF VethRemove, VxClean
  <2>3. CASE VethJoin(x)
    <3>1. /\ Link(x) \in Links /\ loc[x].peer \in Containers
          /\ pc[x] = "veth_join" /\ pc[x] \in InAddLoop
      BY <1>2, <2>3 DEF VethJoin, At, LoopSteps, PeerSteps, InAddLoop, AddSteps
    <3>2. \/ intf' = intf \/ intf' = Unplug(intf, x, Link(x))
          \/ /\ loc[x].peer \in netns
             /\ intf' = [intf EXCEPT ![x][Link(x)] = If("veth", loc[x].peer),
                                     ![loc[x].peer][Link(x)] = If("veth", x)]
      BY <2>3 DEF VethJoin
    <3>3. ASSUME loc[x].peer \in netns,
                 intf' = [intf EXCEPT ![x][Link(x)] = If("veth", loc[x].peer),
                                      ![loc[x].peer][Link(x)] = If("veth", x)]
          PROVE  \/ intf'[y][l] = intf[y][l]
                 \/ Link(x) = l /\ (y = x \/ y = loc[x].peer)
      BY <3>1, <3>3 DEF TypeInv, NodesOK
    <3> QED
      BY <1>1, <3>1, <3>2, <3>3
  <2>4. CASE GrpcRemote(x) \/ VxUpdate(x)
    <3>1. /\ Link(x) \in Links /\ loc[x].peer \in Containers
          /\ pc[x] \in {"grpc_remote", "vx_update"} /\ pc[x] \in InAddLoop
      BY <1>2, <2>4 DEF GrpcRemote, VxUpdate, At, LoopSteps, PeerSteps, InAddLoop, AddSteps
    <3>2. \/ AddGRPCWireRemote(x, loc[x].peer, Link(x))
          \/ RemoteUpdate(x, loc[x].peer, Link(x))
          \/ UNCHANGED intf
      BY <2>4 DEF GrpcRemote, VxUpdate
    <3> QED
      BY <3>1, <3>2, RemoteInNs
  <2> QED
    BY <1>3, <1>4, <2>1, <2>2, <2>3, <2>4
    DEF Add, AddSetAlive, AddGetPeer, AddSkip, VethExistMine, VethExistPeer,
        VethIsSkipped, GrpcIsSkipped, GrpcWait, GrpcPoll, GrpcExists, GrpcLocal,
        VxRegister, nodes
<1>5. CASE Del(x)
  <2>1. CASE DelWires(x)
    BY <2>1 DEF DelWires, DropPodWires
  <2>2. CASE DelRemove(x)
    <3>1. Link(x) \in Links
      BY <1>2, <2>2 DEF DelRemove, At, LoopSteps
    <3> QED
      BY <1>1, <2>2, <3>1 DEF DelRemove
  <2> QED
    BY <1>3, <1>5, <2>1, <2>2 DEF Del, DelGet, DelClear, DelGetPeer, DelDown,
                                  DelSkipPeer, DelSkipThis, nodes
<1>6. CASE Kubelet(x)
  BY <1>6 DEF Kubelet, StartPod, StartDel, RepeatDel, RemoveSandbox, DropNs, nodes
<1>7. CASE Fault(x)
  <2>1. CASE RpcFault(x) /\ pc[x] \in {"grpc_remote", "vx_update"}
    <3>1. /\ Link(x) \in Links /\ loc[x].peer \in Containers /\ pc[x] \in InAddLoop
      BY <1>2, <2>1 DEF LoopSteps, PeerSteps, InAddLoop, AddSteps
    <3>2. \/ AddGRPCWireRemote(x, loc[x].peer, Link(x))
          \/ RemoteUpdate(x, loc[x].peer, Link(x))
          \/ UNCHANGED intf
      BY <2>1 DEF RpcFault, At
    <3> QED
      BY <2>1, <3>1, <3>2, RemoteInNs
  <2>2. CASE DelApiFault(x)
    BY <2>2 DEF DelApiFault, DropPodWires
  <2> QED
    BY <1>3, <1>7, <2>1, <2>2 DEF Fault, AddApiFault, RpcFault, At, nodes
<1> QED
  BY <1>4, <1>5, <1>6, <1>7 DEF Step

\* Nobody puts an interface into a namespace that does not exist.
LEMMA NoIfKept ==
    ASSUME TypeInv, NsInv, NEW x \in Containers, Step(x),
           NEW y \in Containers, NEW l \in Links, y \notin netns
    PROVE  intf'[y][l] = NoIf
<1>1. intf[y][l] = NoIf
  BY DEF NsInv, NsOf
<1>2. pc[x] \in InAddLoop => x # y
  BY DEF NsInv, NsOf, InAddLoop
<1> QED
  BY <1>1, <1>2, IntfGrows

LEMMA NsStep ==
    ASSUME ~Overlap, TypeInv, LifeInv, NsInv, [Next]_vars
    PROVE  NsInv'
<1>1. ASSUME NEW c \in Containers, Step(c) PROVE NsInv'
  <2>1. \A d \in Containers \ {c} : pc'[d] = pc[d]
    BY <1>1, StepAlone DEF Alone
  <2>2. ASSUME NEW y \in Containers, NEW l \in Links, y \notin netns'
        PROVE  intf'[y][l] = NoIf
    <3>1. CASE y \notin netns
      BY <1>1, <3>1, NoIfKept
    <3>2. CASE y \in netns
      <4>1. RemoveSandbox(c) /\ y = c
        BY <1>1, <2>2, <3>2, NetnsMoves DEF RemoveSandbox, StartPod
      <4> QED
        BY <4>1 DEF RemoveSandbox, DropNs
    <3> QED
      BY <3>1, <3>2
  <2>3. CASE \E n \in Nodes : StartPod(c, n)
    <3>1. /\ pc[c] = "new" /\ pc'[c] = "add_alive" /\ netns' = netns \cup {c}
          /\ \A x \in Containers : Earlier(x, c) => pc[x] = "gone"
      BY <2>3 DEF StartPod, At, Goto, GotoWith, TypeInv, ProcsOK, Earlier
    <3>2. ASSUME NEW d \in Containers, NEW x \in Containers, Earlier(x, d), pc'[d] # "new"
          PROVE  x \notin netns'
      <4>1. CASE d = c
        <5>1. x # c
          BY <3>2, <4>1 DEF Earlier, Containers
        <5> QED
          BY <3>1, <3>2, <4>1, <5>1 DEF NsInv, NsOf
      <4>2. CASE d # c
        <5>1. pc[d] # "new" /\ x \notin netns
          BY <2>1, <3>2, <4>2 DEF NsInv, NsOf
        <5>2. x # c
          BY <3>1, <3>2, <5>1 DEF LifeInv, PredecessorsOver, OverSteps
        <5> QED
          BY <3>1, <5>1, <5>2
      <4> QED
        BY <4>1, <4>2
    <3>3. \A d \in Containers : /\ pc'[d] \in AddSteps \cup {"up"} => d \in netns'
                                /\ pc'[d] \in {"new", "gone"} => d \notin netns'
      BY <2>1, <3>1 DEF NsInv, NsOf
    <3> QED
      BY <2>2, <3>2, <3>3 DEF NsInv, NsOf
  <2>4. CASE RemoveSandbox(c)
    <3>1. pc[c] = "del_done" /\ pc'[c] = "gone" /\ netns' = netns \ {c}
      BY <2>4 DEF RemoveSandbox, At, TypeInv, ProcsOK
    <3> QED
      BY <2>1, <2>2, <3>1 DEF NsInv, NsOf, AddSteps
  <2>5. CASE /\ UNCHANGED netns /\ pc[c] # "new"
             /\ pc'[c] \notin {"new", "add_alive", "gone"}
             /\ pc'[c] \in AddSteps \cup {"up"} => pc[c] \in AddSteps
    BY <2>1, <2>2, <2>5 DEF NsInv, NsOf
  <2> QED
    BY <1>1, <2>3, <2>4, <2>5, NetnsMoves
<1>2. CASE UNCHANGED <<netns, intf, pc>>
  BY <1>2 DEF NsInv, NsOf
<1> QED
  BY <1>1, <1>2 DEF Next, RefreshNodeIPs, vars, nodes, procs, Step

LEMMA NsInit == Init => NsInv
BY DEF Init, NsInv, NsOf, AddSteps

-----------------------------------------------------------------------------
(* Announced pairs.                                                         *)

Announced(c, d, l) == Ends(c, d, l) /\ Current(c) /\ Current(d)

\* Of all processes at most those of an announced pair are at their link.
LEMMA OnlyTwo ==
    ASSUME LinksApart, TypeInv, LifeInv, NEW c \in Containers, NEW d \in Containers,
           NEW l \in Links, Announced(c, d, l), NEW x \in Containers,
           pc[x] \in LoopSteps, Link(x) = l
    PROVE  x \in {c, d} /\ pc[x] \notin DeadSteps
<1>1. PICK i \in 1..Len(PodLinks[PodOf(c)]) :
        PodLinks[PodOf(c)][i] = [link |-> l, peer |-> PodOf(d)]
  BY DEF Announced, Ends
<1>2. idx[x] \in 1..Len(PodLinks[PodOf(x)]) /\ PodLinks[PodOf(x)][idx[x]].link = l
  BY DEF TypeInv, ProcsOK, InLoop, Link, Cur
<1>3. PodOf(x) \in {PodOf(c), PodOf(d)}
  BY <1>1, <1>2, PodOfContainer DEF LinksApart
<1>4. ASSUME NEW y \in {c, d}, PodOf(x) = PodOf(y) PROVE x = y
  <2>1. Current(y) /\ pc[y] # "new" /\ y \in Containers
    BY <1>4 DEF Announced, LifeInv, DeadIsDead, DeadSteps
  <2>2. pc[x] # "new" /\ pc[x] \notin OverSteps
    BY DEF LoopSteps, PeerSteps, OverSteps
  <2> QED
    BY <1>4, <2>1, <2>2, SamePod DEF LifeInv, PredecessorsOver
<1>5. x \in {c, d}
  BY <1>3, <1>4
<1> QED
  BY <1>5 DEF Announced, LifeInv, DeadIsDead

\* An announced container's peer that has been announced earlier is gone.
LEMMA StalePeer ==
    ASSUME LifeInv, NsInv, NEW d \in Containers, Current(d),
           NEW e \in Containers, PodOf(e) = PodOf(d), e # d,
           pc[e] # "new"
    PROVE  e \notin netns
<1>1. pc[d] # "new"
  BY DEF LifeInv, DeadIsDead, DeadSteps
<1>2. Earlier(e, d)
  BY SamePod DEF LifeInv, PredecessorsOver
<1> QED
  BY <1>1, <1>2 DEF NsInv, NsOf

\* So whoever of an announced pair finds its peer in its namespace has the right
\* one.
LEMMA RightNs ==
    ASSUME TypeInv, LifeInv, PeersInv, NsInv, NEW c \in Containers,
           NEW d \in Containers, NEW l \in Links, Announced(c, d, l),
           pc[c] \in PeerSteps, Link(c) = l, loc[c].peer \in netns
    PROVE  loc[c].peer = d
<1>1. /\ loc[c].peer \in Containers /\ PodOf(loc[c].peer) = Peer(c)
      /\ pc[loc[c].peer] # "new"
  BY DEF TypeInv, ProcsOK, HasPeer, PeersInv, FoundBy
<1>2. Peer(c) = PodOf(d)
  BY PeerOfLink DEF Announced, TypeInv, LoopSteps
<1> QED
  BY <1>1, <1>2, StalePeer DEF Announced

\* The Get of an announced pair finds the other one.
LEMMA GetFinds ==
    ASSUME TypeInv, SkipInv, NEW c \in Containers,
           NEW d \in Containers, NEW l \in Links, Announced(c, d, l), AddGetPeer(c),
           Link(c) = l
    PROVE  Get(status, Peer(c), knows[node[c]]) = d /\ d # None
<1>1. pc[c] = "add_link" /\ pc[c] \in LoopSteps
  BY DEF AddGetPeer, At, LoopSteps
<1>2. Peer(c) = PodOf(d)
  BY <1>1, PeerOfLink DEF Announced, TypeInv
<1>3. Get(status, Peer(c), knows[node[c]]) # None
  BY <1>1, NoPeerAlive DEF Announced
<1> QED
  BY <1>2, <1>3 DEF Get, Announced, Current

\* Who is announced after a step was so before it, but for SetAlive; and whoever
\* is announced stays on its node.
LEMMA LiveBefore ==
    ASSUME TypeInv, LifeInv, NEW x \in Containers, Step(x),
           NEW c \in Containers, Current(c)', ~(x = c /\ AddSetAlive(c))
    PROVE  Current(c) /\ node'[c] = node[c]
<1>1. PodOf(c) \in Pods /\ PodOf(x) \in Pods /\ c # None
  BY PodOfContainer, NoneAssumption
<1>2. Current(c)
  <2>1. CASE AddSetAlive(x)
    <3>1. /\ status'[PodOf(x)].ns = x
          /\ PodOf(c) # PodOf(x) => status'[PodOf(c)] = status[PodOf(c)]
      BY <1>1, <2>1 DEF AddSetAlive, SetAlive, TypeInv, K8sOK, StatusType
    <3> QED
      BY <2>1, <3>1 DEF Current
  <2>2. CASE DelClear(x)
    <3>1. /\ status'[PodOf(x)].ns = None
          /\ PodOf(c) # PodOf(x) => status'[PodOf(c)] = status[PodOf(c)]
      BY <1>1, <2>2 DEF DelClear, SetAlive, TypeInv, K8sOK, StatusType
    <3> QED
      BY <1>1, <3>1 DEF Current
  <2>3. CASE ~AddSetAlive(x) /\ ~DelClear(x)
    <3>1. status'[PodOf(c)].ns = status[PodOf(c)].ns
      <4>1. CASE Kubelet(x) \/ Fault(x)
        BY <4>1 DEF Kubelet, StartPod, StartDel, RepeatDel, RemoveSandbox, Fault,
                    AddApiFault, DelApiFault, RpcFault, k8s
      <4> QED
        BY <1>1, <2>3, <4>1, AddSparesAlive, DelLife DEF Step
    <3> QED
      BY <3>1 DEF Current
  <2> QED
    BY <2>1, <2>2, <2>3
<1>3. pc[c] # "new"
  BY <1>2 DEF LifeInv, DeadIsDead, DeadSteps
<1> QED
  BY <1>2, <1>3, NodeKept

-----------------------------------------------------------------------------
(* Veth pairs.                                                              *)

\* A veth end and its other end point at each other, across a link.
Symmetric(I) ==
    \A c \in Containers : \A l \in Links :
        /\ I[c][l].k = "veth" <=> I[c][l].to \in Containers
        /\ I[c][l].to \in Containers =>
             Ends(c, I[c][l].to, l) /\ I[I[c][l].to][l] = If("veth", c)

Interfaces == [Containers -> [Links -> IntfType]]

LEMMA UnplugSymmetric ==
    ASSUME NEW I \in Interfaces, Symmetric(I), NEW e \in Containers, NEW m \in Links
    PROVE  Symmetric(Unplug(I, e, m))
<1> DEFINE U == Unplug(I, e, m)
<1>1. \A c \in Containers : \A l \in Links :
        U[c][l] = IF l = m /\ (c = e \/ I[c][l].to = e) THEN NoIf ELSE I[c][l]
  BY DEF Unplug
<1> HIDE DEF U
<1> SUFFICES ASSUME NEW c \in Containers, NEW l \in Links
             PROVE  /\ U[c][l].k = "veth" <=> U[c][l].to \in Containers
                    /\ U[c][l].to \in Containers =>
                         Ends(c, U[c][l].to, l) /\ U[U[c][l].to][l] = If("veth", c)
  BY DEF U, Symmetric
<1>2. CASE U[c][l] = NoIf
  BY <1>2, NoneAssumption DEF NoIf
<1>3. CASE U[c][l] # NoIf
  <2>1. U[c][l] = I[c][l] /\ ~(l = m /\ (c = e \/ I[c][l].to = e))
    BY <1>1, <1>3
  <2>2. ASSUME I[c][l].to \in Containers PROVE U[I[c][l].to][l] = If("veth", c)
    <3>1. I[I[c][l].to][l] = If("veth", c)
      BY <2>2 DEF Symmetric
    <3>2. I[I[c][l].to][l].to = c
      BY <3>1 DEF If
    <3> QED
      BY <1>1, <2>1, <2>2, <3>1, <3>2
  <2> QED
    BY <2>1, <2>2 DEF Symmetric
<1> QED
  BY <1>2, <1>3

LEMMA DropSymmetric ==
    ASSUME NEW I \in Interfaces, Symmetric(I), NEW e \in Containers
    PROVE  Symmetric(DropNs(I, e))
<1> DEFINE U == DropNs(I, e)
<1>1. \A c \in Containers : \A l \in Links :
        U[c][l] = IF c = e \/ I[c][l].to = e THEN NoIf ELSE I[c][l]
  BY DEF DropNs
<1> HIDE DEF U
<1> SUFFICES ASSUME NEW c \in Containers, NEW l \in Links
             PROVE  /\ U[c][l].k = "veth" <=> U[c][l].to \in Containers
                    /\ U[c][l].to \in Containers =>
                         Ends(c, U[c][l].to, l) /\ U[U[c][l].to][l] = If("veth", c)
  BY DEF U, Symmetric
<1>2. CASE U[c][l] = NoIf
  BY <1>2, NoneAssumption DEF NoIf
<1>3. CASE U[c][l] # NoIf
  <2>1. U[c][l] = I[c][l] /\ c # e /\ I[c][l].to # e
    BY <1>1, <1>3
  <2>2. ASSUME I[c][l].to \in Containers PROVE U[I[c][l].to][l] = If("veth", c)
    <3>1. I[I[c][l].to][l] = If("veth", c)
      BY <2>2 DEF Symmetric
    <3>2. I[I[c][l].to][l].to = c
      BY <3>1 DEF If
    <3> QED
      BY <1>1, <2>1, <2>2, <3>1, <3>2
  <2> QED
    BY <2>1, <2>2 DEF Symmetric
<1> QED
  BY <1>2, <1>3

\* Putting an interface of another kind where no veth end is.
LEMMA PutSymmetric ==
    ASSUME NEW I \in Interfaces, Symmetric(I), NEW e \in Containers, NEW m \in Links,
           NEW v \in IntfType, v.k # "veth", v.to \notin Containers,
           I[e][m].to \notin Containers
    PROVE  Symmetric([I EXCEPT ![e][m] = v])
<1> DEFINE U == [I EXCEPT ![e][m] = v]
<1>1. \A c \in Containers : \A l \in Links :
        U[c][l] = IF l = m /\ c = e THEN v ELSE I[c][l]
  BY DEF Interfaces
<1> HIDE DEF U
<1> SUFFICES ASSUME NEW c \in Containers, NEW l \in Links
             PROVE  /\ U[c][l].k = "veth" <=> U[c][l].to \in Containers
                    /\ U[c][l].to \in Containers =>
                         Ends(c, U[c][l].to, l) /\ U[U[c][l].to][l] = If("veth", c)
  BY DEF U, Symmetric
<1>2. CASE l = m /\ c = e
  BY <1>1, <1>2
<1>3. CASE ~(l = m /\ c = e)
  <2>1. U[c][l] = I[c][l]
    BY <1>1, <1>3
  <2>2. ASSUME I[c][l].to \in Containers PROVE U[I[c][l].to][l] = If("veth", c)
    <3>1. I[I[c][l].to][l] = If("veth", c)
      BY <2>2 DEF Symmetric
    <3>2. I[I[c][l].to][l].to = c
      BY <3>1 DEF If
    <3> QED
      BY <1>1, <2>1, <2>2, <3>1, <3>2
  <2> QED
    BY <2>1, <2>2 DEF Symmetric
<1> QED
  BY <1>2, <1>3

LEMMA JoinSymmetric ==
    ASSUME NEW I \in Interfaces, Symmetric(I), NEW c \in Containers, NEW d \in Containers,
           NEW m \in Links, Ends(c, d, m), I[c][m].k = "half", I[d][m].k = "none"
    PROVE  Symmetric([I EXCEPT ![c][m] = If("veth", d), ![d][m] = If("veth", c)])
<1> DEFINE U == [I EXCEPT ![c][m] = If("veth", d), ![d][m] = If("veth", c)]
<1>1. c # d
  OBVIOUS
<1>2. \A z \in Containers : \A l \in Links :
        U[z][l] = IF l = m /\ z = c THEN If("veth", d)
                  ELSE IF l = m /\ z = d THEN If("veth", c)
                  ELSE I[z][l]
  BY <1>1 DEF Interfaces
<1>3. Ends(d, c, m)
  BY EndsSymmetric
<1> HIDE DEF U
<1> SUFFICES ASSUME NEW z \in Containers, NEW l \in Links
             PROVE  /\ U[z][l].k = "veth" <=> U[z][l].to \in Containers
                    /\ U[z][l].to \in Containers =>
                         Ends(z, U[z][l].to, l) /\ U[U[z][l].to][l] = If("veth", z)
  BY DEF U, Symmetric
<1>4. CASE l = m /\ z \in {c, d}
  BY <1>1, <1>2, <1>3, <1>4 DEF If
<1>5. CASE ~(l = m /\ z \in {c, d})
  <2>1. U[z][l] = I[z][l]
    BY <1>2, <1>5
  <2>2. ASSUME I[z][l].to \in Containers PROVE U[I[z][l].to][l] = If("veth", z)
    <3>1. I[I[z][l].to][l] = If("veth", z)
      BY <2>2 DEF Symmetric
    <3>2. ~(l = m /\ I[z][l].to \in {c, d})
      BY <3>1 DEF If
    <3> QED
      BY <1>2, <2>2, <3>1, <3>2
  <2> QED
    BY <2>1, <2>2 DEF Symmetric
<1> QED
  BY <1>4, <1>5

\* Ends of wires are never ends of veth pairs between pods.
WireEnds == \A c \in Containers : \A l \in Links :
                wire[c][l].st # "none" => wire[c][l].mine \in {"own", "peer"}

PairsInv == Symmetric(intf) /\ WireEnds

\* Removing wires removes no end of a veth pair.
LEMMA WiresSymmetric ==
    ASSUME TypeInv, PairsInv, NEW x \in Containers, DropPodWires(x)
    PROVE  PairsInv'
<1>1. ASSUME NEW c \in Containers, NEW l \in Links
      PROVE  \/ intf'[c][l] = intf[c][l]
             \/ intf'[c][l] = NoIf /\ intf[c][l].k # "veth"
  BY <1>1 DEF DropPodWires, PodWire, PairsInv, WireEnds
<1>2. WireEnds'
  BY DEF DropPodWires, PairsInv, WireEnds, NoWire
<1>3. Symmetric(intf')
  <2> SUFFICES ASSUME NEW c \in Containers, NEW l \in Links
               PROVE  /\ intf'[c][l].k = "veth" <=> intf'[c][l].to \in Containers
                      /\ intf'[c][l].to \in Containers =>
                           /\ Ends(c, intf'[c][l].to, l)
                           /\ intf'[intf'[c][l].to][l] = If("veth", c)
    BY DEF Symmetric
  <2>1. CASE intf'[c][l] = NoIf
    BY <2>1, NoneAssumption DEF NoIf
  <2>2. CASE intf'[c][l] # NoIf
    <3>1. intf'[c][l] = intf[c][l]
      BY <1>1, <2>2
    <3>2. ASSUME intf[c][l].to \in Containers
          PROVE  intf'[intf[c][l].to][l] = intf[intf[c][l].to][l]
      <4>1. intf[intf[c][l].to][l] = If("veth", c)
        BY <3>2 DEF PairsInv, Symmetric
      <4>2. intf[intf[c][l].to][l].k = "veth"
        BY <4>1 DEF If
      <4> QED
        BY <1>1, <3>2, <4>2
    <3> QED
      BY <3>1, <3>2 DEF PairsInv, Symmetric
  <2> QED
    BY <2>1, <2>2
<1>4. Symmetric(intf)'
  BY <1>3 DEF Symmetric, Ends
<1> QED
  BY <1>2, <1>4 DEF PairsInv

\* Replacing the interface of the peer by one of another kind.
LEMMA RemoteSymmetric ==
    ASSUME TypeInv, PairsInv, NEW x \in Containers, NEW e \in Containers, NEW m \in Links,
           \/ AddGRPCWireRemote(x, e, m)
           \/ RemoteUpdate(x, e, m)
           \/ UNCHANGED intf
    PROVE  Symmetric(intf)'
<1> DEFINE U == Unplug(intf, e, m)
<1>1. U \in Interfaces /\ Symmetric(U) /\ U[e][m] = NoIf
  <2>1. intf \in Interfaces /\ Symmetric(intf)
    BY DEF PairsInv, TypeInv, NodesOK, Interfaces
  <2>2. U[e][m] = NoIf
    BY DEF Unplug
  <2> QED
    BY <2>1, <2>2, UnplugTyped, UnplugSymmetric DEF Interfaces
<1>2. /\ If("peer", None) \in IntfType /\ If("vx", node[x]) \in IntfType
      /\ If("peer", None).k # "veth" /\ If("peer", None).to \notin Containers
      /\ If("vx", node[x]).k # "veth" /\ If("vx", node[x]).to \notin Containers
  BY IfTyped, NoneAssumption DEF TypeInv, NodesOK, If, Kinds
<1>3. \/ intf' = intf
      \/ intf' = [U EXCEPT ![e][m] = If("peer", None)]
      \/ intf' = [U EXCEPT ![e][m] = If("vx", node[x])]
  BY DEF AddGRPCWireRemote, RemoteUpdate
<1>4. U[e][m].to \notin Containers
  BY <1>1, NoneAssumption DEF NoIf
<1> HIDE DEF U
<1>5. ASSUME NEW v \in IntfType, v.k # "veth", v.to \notin Containers
      PROVE  Symmetric([U EXCEPT ![e][m] = v])
  BY <1>1, <1>4, <1>5, PutSymmetric
<1>6. Symmetric(intf')
  BY <1>2, <1>3, <1>5 DEF PairsInv
<1> QED
  BY <1>6 DEF Symmetric, Ends

LEMMA PutOwnSymmetric ==
    ASSUME TypeInv, PairsInv, NEW x \in Containers, NEW m \in Links,
           intf[x][m].to \notin Containers,
           NEW v \in IntfType, v.k # "veth", v.to \notin Containers,
           intf' = [intf EXCEPT ![x][m] = v]
    PROVE  Symmetric(intf)'
<1>1. intf \in Interfaces /\ Symmetric(intf)
  BY DEF PairsInv, TypeInv, NodesOK, Interfaces
<1>2. Symmetric(intf')
  BY <1>1, PutSymmetric
<1> QED
  BY <1>2 DEF Symmetric, Ends

LEMMA UnplugOwnSymmetric ==
    ASSUME TypeInv, PairsInv, NEW x \in Containers, NEW m \in Links,
           intf' = Unplug(intf, x, m) \/ intf' = DropNs(intf, x) \/ intf' = intf
    PROVE  Symmetric(intf)'
<1>1. intf \in Interfaces /\ Symmetric(intf)
  BY DEF PairsInv, TypeInv, NodesOK, Interfaces
<1>2. Symmetric(intf')
  BY <1>1, UnplugSymmetric, DropSymmetric
<1> QED
  BY <1>2 DEF Symmetric, Ends

\* The peer that a process has found is at the other end of its link.
LEMMA FoundEnds ==
    ASSUME TypeInv, PeersInv, NEW x \in Containers, pc[x] \in PeerSteps
    PROVE  Ends(x, loc[x].peer, Link(x))
<1>1. /\ idx[x] \in 1..Len(PodLinks[PodOf(x)]) /\ Cur(x) \in LinkRec
      /\ PodOf(loc[x].peer) = Peer(x)
  BY CurrentLink DEF TypeInv, ProcsOK, InLoop, LoopSteps, PeersInv, FoundBy
<1>2. Cur(x) = [link |-> Link(x), peer |-> Peer(x)]
  BY <1>1 DEF LinkRec, Link, Peer
<1> QED
  BY <1>1, <1>2 DEF Ends, Cur

LEMMA AddPairs ==
    ASSUME TypeInv, PeersInv, PairsInv, NEW x \in Containers, Add(x)
    PROVE  Symmetric(intf)'
<1> DEFINE l == Link(x)
           e == loc[x].peer
<1>1. /\ pc[x] \in LoopSteps => l \in Links
      /\ pc[x] \in PeerSteps => e \in Containers
  BY CurrentLink DEF TypeInv, ProcsOK, HasPeer
<1>2. ASSUME NEW c \in Containers, NEW m \in Links, ~Exists(c, m)
      PROVE  intf[c][m].to \notin Containers
  BY <1>2 DEF Exists, PairsInv, Symmetric
<1>3. CASE UNCHANGED intf
  BY <1>3 DEF PairsInv, Symmetric, Ends
<1>4. CASE AddMacvlan(x)
  <2>1. pc[x] \in LoopSteps /\ l \in Links
    BY <1>1, <1>4 DEF AddMacvlan, At, LoopSteps
  <2>2. intf[x][l].to \notin Containers
    <3> SUFFICES ASSUME intf[x][l].to \in Containers PROVE FALSE
      OBVIOUS
    <3>1. Ends(x, intf[x][l].to, l)
      BY <2>1 DEF PairsInv, Symmetric
    <3>2. Peer(x) = PodOf(intf[x][l].to)
      BY <2>1, <3>1, PeerOfLink DEF TypeInv
    <3> QED
      BY <1>4, <3>2, PodOfContainer, NoneAssumption DEF AddMacvlan
  <2>3. If("macvlan", None) \in IntfType
    BY IfTyped DEF Kinds
  <2> QED
    BY <1>4, <2>1, <2>2, <2>3, PutOwnSymmetric, NoneAssumption DEF AddMacvlan, If
<1>5. CASE (VethMake(x) \/ GrpcVeth(x) \/ VxMake(x)) /\ ~UNCHANGED intf
  <2>1. pc[x] \in LoopSteps /\ pc[x] \in PeerSteps /\ l \in Links
    BY <1>1, <1>5 DEF VethMake, GrpcVeth, VxMake, At, LoopSteps, PeerSteps
  <2>2. /\ ~Exists(x, l)
        /\ \E v \in {If("half", None), If("own", None), If("vx", node[e])} :
             intf' = [intf EXCEPT ![x][l] = v]
    BY <1>5 DEF VethMake, GrpcVeth, VxMake
  <2>3. \A v \in {If("half", None), If("own", None), If("vx", node[e])} :
          v \in IntfType /\ v.k # "veth" /\ v.to \notin Containers
    <3>1. node[e] \in Nodes \cup {None}
      BY <1>1, <2>1 DEF TypeInv, NodesOK
    <3>2. \A v \in {If("half", None), If("own", None), If("vx", node[e])} :
            v.k # "veth" /\ v.to \notin Containers
      BY <3>1, NoneAssumption DEF If
    <3> QED
      BY <3>1, <3>2, IfTyped DEF Kinds
  <2> QED
    BY <1>2, <2>1, <2>2, <2>3, PutOwnSymmetric
<1>6. CASE VethRemove(x) \/ VxClean(x)
  <2>1. l \in Links /\ e \in Containers
    BY <1>1, <1>6 DEF VethRemove, VxClean, At, LoopSteps, PeerSteps
  <2> QED
    BY <1>6, <2>1, UnplugOwnSymmetric DEF VethRemove, VxClean
<1>7. CASE VethJoin(x)
  <2>1. pc[x] \in PeerSteps /\ l \in Links /\ e \in Containers
    BY <1>1, <1>7 DEF VethJoin, At, LoopSteps, PeerSteps
  <2>2. Ends(x, e, l)
    BY <2>1, FoundEnds
  <2>3. ASSUME intf[x][l].k = "half", ~Exists(e, l),
               intf' = [intf EXCEPT ![x][l] = If("veth", e), ![e][l] = If("veth", x)]
        PROVE  Symmetric(intf)'
    <3>1. intf \in Interfaces /\ Symmetric(intf) /\ intf[e][l].k = "none"
      BY <2>3 DEF PairsInv, TypeInv, NodesOK, Interfaces, Exists
    <3>2. Symmetric(intf')
      BY <2>1, <2>2, <2>3, <3>1, JoinSymmetric
    <3> QED
      BY <3>2 DEF Symmetric, Ends
  <2> QED
    BY <1>3, <1>7, <2>1, <2>3, UnplugOwnSymmetric DEF VethJoin
<1>8. CASE GrpcRemote(x) \/ VxUpdate(x)
  <2>1. l \in Links /\ e \in Containers
    BY <1>1, <1>8 DEF GrpcRemote, VxUpdate, At, LoopSteps, PeerSteps
  <2> QED
    BY <1>8, <2>1, RemoteSymmetric DEF GrpcRemote, VxUpdate
<1> QED
  BY <1>3, <1>4, <1>5, <1>6, <1>7, <1>8
  DEF Add, AddSetAlive, AddGetPeer, AddSkip, VethExistMine, VethExistPeer, VethIsSkipped,
      GrpcIsSkipped, GrpcWait, GrpcPoll, GrpcExists, GrpcLocal, VxRegister, nodes

\* The wires a step makes end in interfaces that its daemon made.
LEMMA AddWireEnds ==
    ASSUME TypeInv, PairsInv, NEW x \in Containers, Add(x) \/ RpcFault(x)
    PROVE  WireEnds'
<1>1. CASE UNCHANGED wire
  BY <1>1 DEF PairsInv, WireEnds
<1>2. ASSUME AddGRPCWireRemote(x, loc[x].peer, Link(x)) PROVE WireEnds'
  <2> SUFFICES ASSUME NEW c \in Containers, NEW l \in Links
               PROVE  \/ wire'[c][l].mine \in {"own", "peer"}
                      \/ wire'[c][l] = wire[c][l]
    BY DEF PairsInv, WireEnds
  <2>1. /\ wire[c][l] \in WireType
        /\ wire[c][l].st # "none" => wire[c][l].mine \in {"own", "peer"}
    BY DEF TypeInv, NodesOK, PairsInv, WireEnds
  <2> DEFINE e == loc[x].peer
             m == Link(x)
  <2>2. CASE /\ RemoteUpdates(e, m)
             /\ wire' = [wire EXCEPT ![e][m].st = "ready", ![e][m].to = x,
                                     ![e][m].toIf = "own"]
    <3>1. CASE c = e /\ l = m
      <4>1. wire'[c][l] = [wire[c][l] EXCEPT !.st = "ready", !.to = x, !.toIf = "own"]
        BY <2>2, <3>1 DEF TypeInv, NodesOK
      <4>2. wire'[c][l].mine = wire[c][l].mine
        BY <2>1, <4>1 DEF WireType
      <4>3. wire[c][l].st # "none"
        BY <2>2, <3>1 DEF RemoteUpdates
      <4> QED
        BY <2>1, <4>2, <4>3
    <3>2. CASE ~(c = e /\ l = m)
      BY <2>2, <3>2 DEF TypeInv, NodesOK
    <3> QED
      BY <3>1, <3>2
  <2>3. CASE wire' = [wire EXCEPT ![e][m] = GWire("peer", x, "own")]
    BY <2>3 DEF GWire, TypeInv, NodesOK
  <2> QED
    BY <1>2, <2>2, <2>3 DEF AddGRPCWireRemote
<1>3. CASE GrpcRemote(x) \/ RpcFault(x)
  BY <1>1, <1>2, <1>3 DEF GrpcRemote, RpcFault
<1>4. CASE GrpcLocal(x)
  <2>1. CASE wire' = [wire EXCEPT ![x][Link(x)] = GWire("own", loc[x].peer, loc[x].got)]
    BY <2>1 DEF GWire, PairsInv, WireEnds, TypeInv, NodesOK
  <2> QED
    BY <1>1, <1>4, <2>1 DEF GrpcLocal
<1> QED
  BY <1>1, <1>3, <1>4
  DEF Add, AddSetAlive, AddMacvlan, AddGetPeer, AddSkip, VethExistMine, VethExistPeer,
      VethRemove, VethIsSkipped, VethMake, VethJoin, GrpcIsSkipped, GrpcWait, GrpcPoll,
      GrpcExists, GrpcVeth, VxClean, VxMake, VxRegister, VxUpdate, nodes

LEMMA PairsStep ==
    ASSUME TypeInv, PeersInv, PairsInv, [Next]_vars
    PROVE  PairsInv'
<1>1. ASSUME UNCHANGED <<intf, wire>> PROVE PairsInv'
  BY <1>1 DEF PairsInv, Symmetric, Ends, WireEnds
<1>2. ASSUME NEW x \in Containers, Add(x) PROVE PairsInv'
  BY <1>2, AddPairs, AddWireEnds DEF PairsInv
<1>3. ASSUME NEW x \in Containers, Del(x) PROVE PairsInv'
  <2>1. CASE DelWires(x)
    BY <2>1, WiresSymmetric DEF DelWires
  <2>2. CASE DelRemove(x)
    <3>1. Link(x) \in Links /\ UNCHANGED wire
      BY <2>2, CurrentLink DEF DelRemove, At, LoopSteps, TypeInv
    <3> QED
      BY <2>2, <3>1, UnplugOwnSymmetric DEF DelRemove, PairsInv, WireEnds
  <2>3. CASE DelDown(x)
    <3>1. UNCHANGED intf
      BY <2>3 DEF DelDown
    <3>2. Symmetric(intf)'
      BY <3>1 DEF PairsInv, Symmetric, Ends
    <3>3. ASSUME NEW c \in Containers, NEW l \in Links, wire'[c][l].st # "none"
          PROVE  wire'[c][l].mine \in {"own", "peer"}
      <4>1. /\ wire[c][l] \in WireType
            /\ wire[c][l].st # "none" => wire[c][l].mine \in {"own", "peer"}
        BY DEF TypeInv, NodesOK, PairsInv, WireEnds
      <4>2. CASE wire' = wire
        BY <3>3, <4>1, <4>2
      <4>3. CASE /\ wire' = [wire EXCEPT ![loc[x].peer][Link(x)].st = "down"]
                 /\ wire[loc[x].peer][Link(x)].st # "none"
        <5>1. CASE c = loc[x].peer /\ l = Link(x)
          <6>1. wire'[c][l] = [wire[c][l] EXCEPT !.st = "down"]
            BY <4>3, <5>1 DEF TypeInv, NodesOK
          <6>2. wire'[c][l].mine = wire[c][l].mine
            BY <4>1, <6>1 DEF WireType
          <6> QED
            BY <4>1, <4>3, <5>1, <6>2
        <5>2. CASE ~(c = loc[x].peer /\ l = Link(x))
          <6>1. wire'[c][l] = wire[c][l]
            BY <4>3, <5>2 DEF TypeInv, NodesOK
          <6> QED
            BY <3>3, <4>1, <6>1
        <5> QED
          BY <5>1, <5>2
      <4> QED
        BY <2>3, <4>2, <4>3 DEF DelDown, MakeGRPCChanDown
    <3> QED
      BY <3>2, <3>3 DEF PairsInv, WireEnds
  <2> QED
    BY <1>1, <1>3, <2>1, <2>2, <2>3
    DEF Del, DelGet, DelClear, DelGetPeer, DelSkipPeer, DelSkipThis, nodes
<1>4. ASSUME NEW x \in Containers, Kubelet(x) PROVE PairsInv'
  <2>1. CASE RemoveSandbox(x)
    <3>1. UNCHANGED wire
      BY <2>1 DEF RemoveSandbox
    <3>2. intf \in Interfaces /\ Symmetric(intf)
      BY DEF PairsInv, TypeInv, NodesOK, Interfaces
    <3>3. Symmetric(intf')
      BY <2>1, <3>2, DropSymmetric DEF RemoveSandbox
    <3> QED
      BY <3>1, <3>3 DEF PairsInv, WireEnds, Symmetric, Ends
  <2> QED
    BY <1>1, <1>4, <2>1 DEF Kubelet, StartPod, StartDel, RepeatDel, nodes
<1>5. ASSUME NEW x \in Containers, Fault(x) PROVE PairsInv'
  <2>1. CASE RpcFault(x) /\ pc[x] \in {"grpc_remote", "vx_update"}
    <3>1. Link(x) \in Links /\ loc[x].peer \in Containers
      BY <2>1, CurrentLink DEF LoopSteps, PeerSteps, TypeInv, ProcsOK, HasPeer
    <3> QED
      BY <2>1, <3>1, RemoteSymmetric, AddWireEnds DEF RpcFault, At, PairsInv
  <2>2. CASE DelApiFault(x)
    BY <1>1, <2>2, WiresSymmetric DEF DelApiFault
  <2> QED
    BY <1>1, <1>5, <2>1, <2>2 DEF Fault, AddApiFault, RpcFault, At, nodes
<1> QED
  BY <1>1, <1>2, <1>3, <1>4, <1>5 DEF Next, RefreshNodeIPs, vars, nodes

LEMMA PairsInit == Init => PairsInv
BY NoneAssumption DEF Init, PairsInv, Symmetric, WireEnds, NoIf, NoWire

\* A veth end waits for its other end only while the process that made it is
\* about to join them; a container has no interfaces before it is announced.
HalfOf(c, l) ==
    intf[c][l].k = "half" =>
        (pc[c] = "veth_join" /\ Link(c) = l) \/ pc[c] \notin Published
BareOf(c, l) == pc[c] \in {"new", "add_alive"} => intf[c][l] = NoIf

HalvesInv == \A c \in Containers : \A l \in Links : HalfOf(c, l) /\ BareOf(c, l)

\* ADD comes to its loop by SetAlive only.
LEMMA PublishedBefore ==
    ASSUME TypeInv, NEW x \in Containers, Step(x), pc'[x] \in Published
    PROVE  AddSetAlive(x) \/ (Add(x) /\ pc[x] \in InAddLoop)
<1>1. CASE Add(x)
  BY <1>1, AddMoves DEF InAddLoop
<1>2. CASE Del(x)
  BY <1>2, DelMoves DEF Published, AddSteps, DelSteps
<1>3. CASE Kubelet(x) \/ Fault(x)
  BY <1>3
  DEF Kubelet, StartPod, StartDel, RepeatDel, RemoveSandbox, Fault, AddApiFault,
      DelApiFault, RpcFault, Fail, Leave, Goto, GotoWith, TypeInv, ProcsOK, Published,
      AddSteps
<1> QED
  BY <1>1, <1>2, <1>3 DEF Step

LEMMA HalfGrows ==
    ASSUME TypeInv, NEW x \in Containers, Step(x), NEW y \in Containers, NEW l \in Links,
           intf'[y][l].k = "half"
    PROVE  \/ intf'[y][l] = intf[y][l]
           \/ y = x /\ Link(x) = l /\ pc'[x] = "veth_join" /\ idx'[x] = idx[x]
<1> SUFFICES ASSUME intf'[y][l] # intf[y][l]
             PROVE  y = x /\ Link(x) = l /\ pc'[x] = "veth_join" /\ idx'[x] = idx[x]
  OBVIOUS
<1>1. intf'[y][l] # NoIf
  BY DEF NoIf
<1>2. /\ pc[x] \in InAddLoop /\ Link(x) = l
      /\ \/ y = x
         \/ /\ pc[x] \in {"veth_join", "grpc_remote", "vx_update"}
            /\ y = loc[x].peer /\ y \in netns
  BY <1>1, IntfGrows, Zenon
<1>3. CASE VethMake(x)
  BY <1>2, <1>3 DEF VethMake, At, Goto, GotoWith, Fail, Leave, TypeInv, ProcsOK
<1>4. CASE AddMacvlan(x) \/ GrpcVeth(x) \/ VxMake(x)
  <2>1. \/ intf' = intf
        \/ \E v \in {If("macvlan", None), If("own", None), If("vx", node[loc[x].peer])} :
             intf' = [intf EXCEPT ![x][l] = v]
    BY <1>2, <1>4 DEF AddMacvlan, GrpcVeth, VxMake
  <2>2. \A v \in {If("macvlan", None), If("own", None), If("vx", node[loc[x].peer])} :
          v.k # "half"
    BY DEF If
  <2> QED
    BY <2>1, <2>2 DEF TypeInv, NodesOK
<1>5. CASE VethJoin(x)
  <2>1. \/ intf' = intf \/ intf' = Unplug(intf, x, l)
        \/ intf' = [intf EXCEPT ![x][l] = If("veth", loc[x].peer),
                                ![loc[x].peer][l] = If("veth", x)]
    BY <1>2, <1>5 DEF VethJoin
  <2>2. Unplug(intf, x, l)[y][l] \in {NoIf, intf[y][l]}
    BY DEF Unplug
  <2>3. If("veth", loc[x].peer).k # "half" /\ If("veth", x).k # "half"
    BY DEF If
  <2>4. CASE intf' = [intf EXCEPT ![x][l] = If("veth", loc[x].peer),
                                  ![loc[x].peer][l] = If("veth", x)]
    BY <2>3, <2>4 DEF TypeInv, NodesOK
  <2> QED
    BY <1>1, <2>1, <2>2, <2>4
<1>6. CASE VethRemove(x) \/ VxClean(x)
  <2>1. ASSUME NEW e PROVE Unplug(intf, e, l)[y][l] \in {NoIf, intf[y][l]}
    BY DEF Unplug
  <2> QED
    BY <1>1, <1>2, <1>6, <2>1 DEF VethRemove, VxClean
<1>7. ASSUME NEW e,
             AddGRPCWireRemote(x, e, l) \/ RemoteUpdate(x, e, l) \/ UNCHANGED intf
      PROVE  FALSE
  <2> DEFINE U == Unplug(intf, e, l)
  <2>1. /\ U[y][l] \in {NoIf, intf[y][l]} /\ DOMAIN U = Containers
        /\ \A z \in Containers : DOMAIN U[z] = Links
    BY DEF Unplug
  <2>2. intf' = intf \/ \E v : intf' = [U EXCEPT ![e][l] = v] /\ v.k # "half"
    BY <1>7 DEF AddGRPCWireRemote, RemoteUpdate, If
  <2> HIDE DEF U
  <2> QED
    BY <1>1, <2>1, <2>2
<1>8. CASE GrpcRemote(x) \/ VxUpdate(x) \/ RpcFault(x)
  BY <1>2, <1>7, <1>8 DEF GrpcRemote, VxUpdate, RpcFault
<1>9. CASE Add(x)
  BY <1>3, <1>4, <1>5, <1>6, <1>8, <1>9
  DEF Add, AddSetAlive, AddGetPeer, AddSkip, VethExistMine, VethExistPeer, VethIsSkipped,
      GrpcIsSkipped, GrpcWait, GrpcPoll, GrpcExists, GrpcLocal, VxRegister, nodes
<1>10. ~Del(x) /\ ~Kubelet(x) /\ ~DelApiFault(x)
  BY <1>2 DEF Del, DelGet, DelWires, DelClear, DelGetPeer, DelDown, DelRemove, DelSkipPeer,
     DelSkipThis, Kubelet, StartPod, StartDel, RepeatDel, RemoveSandbox, DelApiFault, At,
     InAddLoop, AddSteps
<1> QED
  BY <1>8, <1>9, <1>10 DEF Step, Fault, AddApiFault, nodes

LEMMA HalvesStep ==
    ASSUME TypeInv, PeersInv, HalvesInv, [Next]_vars
    PROVE  HalvesInv'
<1>1. ASSUME NEW x \in Containers, Step(x) PROVE HalvesInv'
  <2> SUFFICES ASSUME NEW y \in Containers, NEW l \in Links
               PROVE  HalfOf(y, l)' /\ BareOf(y, l)'
    BY DEF HalvesInv
  <2>1. Alone(x) /\ HalfOf(y, l) /\ BareOf(y, l)
    BY <1>1, StepAlone DEF HalvesInv
  <2>2. ASSUME pc'[y] \in {"new", "add_alive"} PROVE intf'[y][l] = NoIf
    <3>1. pc[y] \in {"new", "add_alive"} /\ intf[y][l] = NoIf
      BY <1>1, <2>1, <2>2, NeverNewAgain DEF BareOf
    <3>2. ~(pc[x] \in InAddLoop /\ y = x)
      BY <3>1 DEF InAddLoop, AddSteps
    <3>3. ~(pc[x] \in {"veth_join", "grpc_remote", "vx_update"} /\ y = loc[x].peer)
      BY <3>1 DEF PeersInv, FoundBy, PeerSteps
    <3> QED
      BY <1>1, <3>1, <3>2, <3>3, IntfGrows
  <2>3. ASSUME intf'[y][l].k = "half", pc'[y] \in Published
        PROVE  pc'[y] = "veth_join" /\ PodLinks[PodOf(y)][idx'[y]].link = l
    <3>1. CASE y = x /\ Link(x) = l /\ pc'[x] = "veth_join" /\ idx'[x] = idx[x]
      BY <3>1 DEF Link, Cur
    <3>2. CASE intf'[y][l] = intf[y][l] /\ y # x
      BY <2>1, <2>3, <3>2 DEF Alone, HalfOf, Link, Cur
    <3>3. CASE intf'[y][l] = intf[y][l] /\ y = x
      <4>1. AddSetAlive(x) \/ (Add(x) /\ pc[x] \in InAddLoop)
        BY <1>1, <2>3, <3>3, PublishedBefore
      <4>2. ~AddSetAlive(x)
        BY <2>1, <2>3, <3>3 DEF AddSetAlive, At, BareOf, NoIf
      <4>3. pc[x] = "veth_join" /\ Link(x) = l
        BY <2>1, <2>3, <3>3, <4>1, <4>2 DEF HalfOf, Published, InAddLoop
      <4>4. VethJoin(x)
        BY <4>1, <4>3
        DEF Add, AddSetAlive, AddMacvlan, AddGetPeer, AddSkip, VethExistMine, VethExistPeer,
            VethRemove, VethIsSkipped, VethMake, GrpcIsSkipped, GrpcWait, GrpcPoll,
            GrpcExists, GrpcVeth, GrpcRemote, GrpcLocal, VxClean, VxMake, VxRegister,
            VxUpdate, At
      <4>5. ~Fail(x)
        BY <2>3, <3>3
        DEF Fail, Leave, GotoWith, TypeInv, ProcsOK, Published, AddSteps
      <4>6. ~Exists(loc[x].peer, l) /\ intf[x][l].k = "half"
            /\ intf' = [intf EXCEPT ![x][l] = If("veth", loc[x].peer),
                                    ![loc[x].peer][l] = If("veth", x)]
        BY <4>3, <4>4, <4>5 DEF VethJoin
      <4>7. intf'[x][l].k = "veth"
        BY <4>6 DEF Exists, If, TypeInv, NodesOK
      <4> QED
        BY <2>3, <3>3, <4>7
    <3> QED
      BY <1>1, <2>3, <3>1, <3>2, <3>3, HalfGrows
  <2> QED
    BY <2>2, <2>3 DEF HalfOf, BareOf, Link, Cur
<1>2. CASE UNCHANGED <<intf, procs>>
  BY <1>2 DEF procs, HalvesInv, HalfOf, BareOf, Link, Cur
<1> QED
  BY <1>1, <1>2 DEF Next, RefreshNodeIPs, vars, nodes, Step

LEMMA HalvesInit == Init => HalvesInv
BY DEF Init, HalvesInv, HalfOf, BareOf, NoIf

-----------------------------------------------------------------------------
(* Where an ADD stands with respect to one link.                            *)

\* The loop is past link l.
Behind(c, l) ==
    \E i \in 1..Len(PodLinks[PodOf(c)]) : PodLinks[PodOf(c)][i].link = l /\ i < idx[c]

\* The step at which the ADD of c is with link l; or it is done with the link, or
\* the link is ahead of it, or no ADD of c is under way or has succeeded.
Where(c, l) ==
    IF pc[c] \in InAddLoop /\ Link(c) = l THEN pc[c]
    ELSE IF pc[c] = "up" \/ (pc[c] \in InAddLoop /\ Behind(c, l)) THEN "done"
    ELSE IF pc[c] \in InAddLoop THEN "ahead"
    ELSE "out"

Apart == {"ahead", "done", "out"}

LEMMA AddLoopSteps == InAddLoop = PeerSteps \cup {"add_link", "add_skip"}
BY DEF InAddLoop, AddSteps, PeerSteps

LEMMA WhereAt ==
    ASSUME NEW c, NEW l
    PROVE  /\ Where(c, l) \notin Apart <=> pc[c] \in InAddLoop /\ Link(c) = l
           /\ Where(c, l) \notin Apart => Where(c, l) = pc[c]
           /\ Where(c, l) = "out" <=> pc[c] \notin Published
BY DEF Where, Apart, InAddLoop, AddSteps, Published

LEMMA WhereKept ==
    ASSUME NEW c, pc'[c] = pc[c], idx'[c] = idx[c], NEW l
    PROVE  Where(c, l)' = Where(c, l)
BY DEF Where, Behind, Link, Cur

LEMMA WhereGoto ==
    ASSUME TypeInv, NEW c \in Containers, pc[c] \in InAddLoop, NEW s \in InAddLoop, NEW r,
           GotoWith(c, s, r), NEW l
    PROVE  Where(c, l)' = IF Link(c) = l THEN s ELSE Where(c, l)
<1>1. pc'[c] = s /\ idx'[c] = idx[c]
  BY DEF GotoWith, TypeInv, ProcsOK
<1>2. pc[c] # "up" /\ s # "up"
  BY DEF InAddLoop, AddSteps
<1> QED
  BY <1>1, <1>2 DEF Where, Behind, Link, Cur

LEMMA WhereOut ==
    ASSUME NEW c, pc'[c] \notin Published, NEW l
    PROVE  Where(c, l)' = "out"
BY DEF Where, Published, InAddLoop

LEMMA WhereDecide ==
    ASSUME TypeInv, NEW c \in Containers, pc[c] \in InAddLoop, NEW how, Decide(c, how),
           NEW d \in Containers, NEW l \in Links, Ends(c, d, l)
    PROVE  \/ Where(c, l)' = "done" /\ (Link(c) = l \/ Where(c, l) = "done")
           \/ /\ Link(c) # l /\ Where(c, l) = "ahead"
              /\ Where(c, l)' \in {"ahead", "add_link"}
<1>1. PICK i \in 1..Len(PodLinks[PodOf(c)]) :
        PodLinks[PodOf(c)][i] = [link |-> l, peer |-> PodOf(d)]
  BY DEF Ends
<1>2. /\ idx[c] \in 1..Len(PodLinks[PodOf(c)])
      /\ PodLinks[PodOf(c)] \in Seq(LinkRec) /\ PodOf(c) \in Pods
  BY PodOfContainer, PodLinksAssumption, AddLoopSteps
  DEF TypeInv, ProcsOK, InLoop, LoopSteps
<1>3. Len(PodLinks[PodOf(c)]) \in Nat
  BY <1>2
<1>4. /\ idx'[c] = idx[c] + 1
      /\ pc'[c] = IF idx[c] + 1 > Len(PodLinks[PodOf(c)]) THEN "up" ELSE "add_link"
  BY DEF Decide, LoopAt, TypeInv, ProcsOK
<1>5. /\ "up" \notin InAddLoop /\ "add_link" \in InAddLoop /\ pc[c] # "up"
  BY DEF InAddLoop, AddSteps
<1>6. \A j \in 1..Len(PodLinks[PodOf(c)]) : PodLinks[PodOf(c)][j].link = l <=> j = i
  BY <1>1, <1>2, LinkOnce
<1>7. Link(c) = l <=> i = idx[c]
  BY <1>2, <1>6 DEF Link, Cur
<1>8. Behind(c, l) <=> i < idx[c]
  BY <1>6 DEF Behind
<1>9. Behind(c, l)' <=> i < idx[c] + 1
  BY <1>4, <1>6 DEF Behind
<1>10. pc'[c] = "add_link" => (Link(c)' = l <=> i = idx[c] + 1)
  <2>1. pc'[c] = "add_link" => idx[c] + 1 \in 1..Len(PodLinks[PodOf(c)])
    BY <1>2, <1>3, <1>4
  <2> QED
    BY <1>4, <1>6, <2>1 DEF Link, Cur
<1>11. CASE i < idx[c] + 1
  <2>1. Where(c, l)' = "done"
    BY <1>2, <1>4, <1>5, <1>9, <1>10, <1>11 DEF Where
  <2>2. i = idx[c] \/ i < idx[c]
    BY <1>2, <1>11
  <2>3. Link(c) = l \/ Where(c, l) = "done"
    BY <1>5, <1>7, <1>8, <2>2 DEF Where
  <2> QED
    BY <2>1, <2>3
<1>12. CASE ~(i < idx[c] + 1)
  <2>1. i # idx[c] /\ ~(i < idx[c]) /\ pc'[c] = "add_link"
    BY <1>2, <1>3, <1>4, <1>12
  <2>2. Link(c) # l /\ Where(c, l) = "ahead"
    BY <1>5, <1>7, <1>8, <2>1 DEF Where
  <2>3. Where(c, l)' \in {"ahead", "add_link"}
    BY <1>5, <1>9, <1>12, <2>1 DEF Where
  <2> QED
    BY <2>2, <2>3
<1> QED
  BY <1>11, <1>12

LEMMA WhereAlive ==
    ASSUME TypeInv, NEW c \in Containers, AddSetAlive(c),
           NEW d \in Containers, NEW l \in Links, Ends(c, d, l)
    PROVE  Where(c, l)' \in {"ahead", "add_link"}
<1>1. PICK i \in 1..Len(PodLinks[PodOf(c)]) :
        PodLinks[PodOf(c)][i] = [link |-> l, peer |-> PodOf(d)]
  BY DEF Ends
<1>2. PodLinks[PodOf(c)] \in Seq(LinkRec)
  BY PodOfContainer, PodLinksAssumption
<1>3. Len(PodLinks[PodOf(c)]) \in Nat
  BY <1>2
<1>4. /\ idx'[c] = 1
      /\ pc'[c] = IF 1 > Len(PodLinks[PodOf(c)]) THEN "up" ELSE "add_link"
  BY DEF AddSetAlive, LoopAt, TypeInv, ProcsOK
<1>5. pc'[c] = "add_link" /\ "add_link" \in InAddLoop
  BY <1>3, <1>4 DEF InAddLoop, AddSteps
<1>6. ~Behind(c, l)'
  BY <1>3, <1>4 DEF Behind
<1> QED
  BY <1>5, <1>6 DEF Where

\* A step of a process that is not at the link.
LEMMA WhereElse ==
    ASSUME TypeInv, NEW c \in Containers, Step(c), ~AddSetAlive(c),
           NEW d \in Containers, NEW l \in Links, Ends(c, d, l), Where(c, l) \in Apart
    PROVE  \/ Where(c, l)' = "out"
           \/ /\ Add(c) /\ pc[c] \in InAddLoop /\ Link(c) # l
              /\ \/ Where(c, l)' = Where(c, l)
                 \/ Where(c, l) = "ahead" /\ Where(c, l)' = "add_link"
<1> SUFFICES ASSUME pc'[c] \in Published
             PROVE  /\ Add(c) /\ pc[c] \in InAddLoop /\ Link(c) # l
                    /\ \/ Where(c, l)' = Where(c, l)
                       \/ Where(c, l) = "ahead" /\ Where(c, l)' = "add_link"
  BY WhereOut
<1>1. Add(c) /\ pc[c] \in InAddLoop
  BY PublishedBefore
<1>2. Link(c) # l
  BY <1>1, WhereAt
<1>3. ASSUME NEW how, Decide(c, how)
      PROVE  \/ Where(c, l)' = Where(c, l)
             \/ Where(c, l) = "ahead" /\ Where(c, l)' = "add_link"
  BY <1>1, <1>2, <1>3, WhereDecide
<1>4. ASSUME NEW s \in InAddLoop, NEW r, GotoWith(c, s, r)
      PROVE  Where(c, l)' = Where(c, l)
  BY <1>1, <1>2, <1>4, WhereGoto
<1>5. ~Fail(c)
  BY DEF Fail, Leave, GotoWith, TypeInv, ProcsOK, Published, AddSteps
<1>6. CASE AddMacvlan(c) \/ AddSkip(c)
  BY <1>1, <1>2, <1>3, <1>6 DEF AddMacvlan, AddSkip
<1>7. CASE AddGetPeer(c)
  <2>1. \E s \in {"add_skip", "veth_mine", "grpc_skipped", "vx_clean"} : \E r :
          GotoWith(c, s, r)
    BY <1>7 DEF AddGetPeer
  <2>2. {"add_skip", "veth_mine", "grpc_skipped", "vx_clean"} \subseteq InAddLoop
    BY DEF InAddLoop, AddSteps
  <2> QED
    BY <1>1, <1>2, <1>4, <2>1, <2>2
<1>8. CASE ~AddMacvlan(c) /\ ~AddGetPeer(c) /\ ~AddSkip(c)
  <2>1. Turns(c)
    BY <1>1, <1>8, PeerTurns
  <2> QED
    BY <1>1, <1>2, <1>3, <1>4, <1>5, <2>1, AddLoopSteps DEF Turns
<1> QED
  BY <1>6, <1>7, <1>8

-----------------------------------------------------------------------------
(* Two announced pods on one node.                                          *)

Near(c, d, l) == Announced(c, d, l) /\ node[c] = node[d] /\ PodOf(c) # PodOf(d)

\* The veth pair of the link; an interface that some other link left behind.
Joined(c, d, l) == intf[c][l] = If("veth", d) /\ intf[d][l] = If("veth", c)
Leftover(c, l) == intf[c][l].k \notin {"none", "half", "veth"}

\* c deals with an earlier container of the peer's pod, not with d.
Astray(c, d, l) == Where(c, l) \in PeerSteps /\ loc[c].peer # d

\* c has something from before d announced itself: that container, an interface,
\* or the answer that the peer is dead.
Stale(c, d, l) == Astray(c, d, l) \/ Leftover(c, l) \/ Where(c, l) = "add_skip"

Mark(c, d, l) == <<PodOf(d), l>> \in status[PodOf(c)].skipped

\* The steps before a process has decided what to do with the link, and those in
\* which it may remove interfaces to make the link anew.
LookSteps == {"ahead", "add_link", "veth_mine", "veth_peer", "veth_skipped"}
RemakeSteps == {"veth_make", "veth_join", "out"} \cup VxSteps

LEMMA NearApart ==
    ASSUME NEW c \in Containers, NEW d \in Containers, NEW l \in Links, Near(c, d, l)
    PROVE  Near(d, c, l) /\ c # d
BY EndsSymmetric DEF Near, Announced

\* The end of a veth pair at one of the two is the pair of the link.
LEMMA VethJoins ==
    ASSUME TypeInv, LifeInv, NsInv, PairsInv, HalvesInv,
           NEW c \in Containers, NEW d \in Containers, NEW l \in Links, Near(c, d, l),
           intf[c][l].k = "veth"
    PROVE  Joined(c, d, l)
<1> DEFINE e == intf[c][l].to
<1>1. e \in Containers /\ Ends(c, e, l) /\ intf[e][l] = If("veth", c)
  BY DEF PairsInv, Symmetric
<1>2. PodOf(e) = PodOf(d)
  <2>1. PICK i \in 1..Len(PodLinks[PodOf(c)]) :
          PodLinks[PodOf(c)][i] = [link |-> l, peer |-> PodOf(d)]
    BY DEF Near, Announced, Ends
  <2>2. PICK j \in 1..Len(PodLinks[PodOf(c)]) :
          PodLinks[PodOf(c)][j] = [link |-> l, peer |-> PodOf(e)]
    BY <1>1 DEF Ends
  <2>3. i = j
    BY <2>1, <2>2, PodOfContainer, LinkOnce
  <2> QED
    BY <2>1, <2>2, <2>3
<1>3. intf[e][l] # NoIf
  BY <1>1 DEF If, NoIf
<1>4. e \in netns /\ pc[e] # "new"
  BY <1>1, <1>3 DEF NsInv, NsOf, HalvesInv, BareOf
<1>5. e = d
  BY <1>1, <1>2, <1>4, StalePeer DEF Near, Announced
<1>6. intf[c][l] = If("veth", e)
  BY DEF TypeInv, NodesOK, IntfType, If
<1> QED
  BY <1>1, <1>5, <1>6 DEF Joined

\* What is known of one of the two.
LEMMA NearFacts ==
    ASSUME TypeInv, LifeInv, PeersInv, NsInv, PairsInv, HalvesInv,
           NEW c \in Containers, NEW d \in Containers, NEW l \in Links, Near(c, d, l)
    PROVE  /\ Where(c, l) \in PeerSteps \ VethSteps => Astray(c, d, l)
           /\ Exists(c, l) => \/ Joined(c, d, l) \/ Leftover(c, l)
                              \/ Where(c, l) \in {"veth_join", "out"}
           /\ Astray(c, d, l) => loc[c].peer \notin netns
           /\ loc[c].peer \in Containers /\ Exists(loc[c].peer, l)
                => loc[c].peer \in netns
<1>1. Where(c, l) \in PeerSteps =>
        pc[c] \in PeerSteps /\ Where(c, l) = pc[c] /\ Link(c) = l
  BY WhereAt DEF Apart, PeerSteps
<1>2. ASSUME Where(c, l) \in PeerSteps \ VethSteps PROVE loc[c].peer # d
  BY <1>1, <1>2 DEF PeersInv, FoundBy, Near
<1>3. ASSUME Exists(c, l), intf[c][l].k = "half"
      PROVE  Where(c, l) \in {"veth_join", "out"}
  <2>1. (pc[c] = "veth_join" /\ Link(c) = l) \/ pc[c] \notin Published
    BY <1>3 DEF HalvesInv, HalfOf
  <2> QED
    BY <2>1, WhereAt DEF InAddLoop, AddSteps
<1>4. ASSUME Astray(c, d, l) PROVE loc[c].peer \notin netns
  BY <1>1, <1>4, RightNs DEF Astray, Near
<1>5. ASSUME loc[c].peer \in Containers, Exists(loc[c].peer, l) PROVE loc[c].peer \in netns
  BY <1>5 DEF NsInv, NsOf, Exists, NoIf
<1> QED
  BY <1>2, <1>3, <1>4, <1>5, VethJoins DEF Astray, Leftover, Exists

\* Nobody but DEL takes a mark from the list of its own pod.
LEMMA MarksGrow ==
    ASSUME TypeInv, LifeInv, NEW c \in Containers, Current(c),
           NEW x \in Containers, Step(x)
    PROVE  status[PodOf(c)].skipped \subseteq status'[PodOf(c)].skipped
<1>1. PodOf(c) \in Pods
  BY PodOfContainer
<1>2. CASE UNCHANGED status
  BY <1>2
<1>3. CASE AddSetAlive(x) \/ AddSkip(x) \/ DelClear(x) \/ DelSkipPeer(x)
  BY <1>1, <1>3 DEF AddSetAlive, AddSkip, DelClear, DelSkipPeer, SetAlive, Skip,
                    SkipReversePeer, TypeInv, K8sOK, StatusType
<1>4. CASE DelSkipThis(x)
  <2>1. pc[x] = "del_skip_this" /\ x # c
    BY <1>4 DEF DelSkipThis, At, LifeInv, DeadIsDead, DeadSteps
  <2>2. PodOf(x) # PodOf(c)
    BY <2>1, SamePod DEF LifeInv, PredecessorsOver, OverSteps, DeadIsDead, DeadSteps
  <2> QED
    BY <1>1, <1>4, <2>2 DEF DelSkipThis, SkipReverseThis, TypeInv, K8sOK
<1> QED
  BY <1>2, <1>3, <1>4, PeerTurns
  DEF Step, AddMacvlan, AddGetPeer, Del, DelGet, DelWires, DelGetPeer, DelDown,
      DelRemove, Kubelet, StartPod, StartDel, RepeatDel, RemoveSandbox, Fault, AddApiFault,
      DelApiFault, RpcFault, k8s

\* The ADD at another link does nothing to this one.
LEMMA ElsewhereKeeps ==
    ASSUME TypeInv, NEW x \in Containers, Add(x), pc[x] \in InAddLoop,
           NEW l \in Links, Link(x) # l, NEW y \in Containers
    PROVE  intf'[y][l] = intf[y][l] /\ out'[x][l] = out[x][l]
<1>1. ASSUME NEW e, NEW m, m # l PROVE Unplug(intf, e, m)[y][l] = intf[y][l]
  BY <1>1 DEF Unplug
<1>2. ASSUME NEW e, AddGRPCWireRemote(x, e, Link(x)) \/ RemoteUpdate(x, e, Link(x))
      PROVE  intf'[y][l] = intf[y][l]
  <2> DEFINE U == Unplug(intf, e, Link(x))
  <2>1. /\ U[y][l] = intf[y][l] /\ DOMAIN U = Containers
        /\ \A z \in Containers : DOMAIN U[z] = Links
    BY <1>1 DEF Unplug
  <2>2. intf' = intf \/ \E v : intf' = [U EXCEPT ![e][Link(x)] = v]
    BY <1>2 DEF AddGRPCWireRemote, RemoteUpdate
  <2> HIDE DEF U
  <2> QED
    BY <2>1, <2>2
<1>3. intf'[y][l] = intf[y][l]
  <2>1. CASE AddMacvlan(x) \/ VethMake(x) \/ GrpcVeth(x) \/ VxMake(x)
    BY <2>1 DEF AddMacvlan, VethMake, GrpcVeth, VxMake, TypeInv, NodesOK
  <2>4. CASE VethJoin(x)
    <3>1. \/ intf' = intf \/ intf' = Unplug(intf, x, Link(x))
          \/ intf' = [intf EXCEPT ![x][Link(x)] = If("veth", loc[x].peer),
                                  ![loc[x].peer][Link(x)] = If("veth", x)]
      BY <2>4 DEF VethJoin
    <3>2. [intf EXCEPT ![x][Link(x)] = If("veth", loc[x].peer),
                       ![loc[x].peer][Link(x)] = If("veth", x)][y][l] = intf[y][l]
      BY DEF TypeInv, NodesOK
    <3>3. Unplug(intf, x, Link(x))[y][l] = intf[y][l]
      BY <1>1
    <3>4. CASE intf' = [intf EXCEPT ![x][Link(x)] = If("veth", loc[x].peer),
                                    ![loc[x].peer][Link(x)] = If("veth", x)]
      BY <3>2, <3>4, Zenon
    <3> QED
      BY <3>1, <3>3, <3>4, Zenon
  <2>2. CASE VethRemove(x) \/ VxClean(x)
    BY <1>1, <2>2 DEF VethRemove, VxClean
  <2>3. CASE GrpcRemote(x) \/ VxUpdate(x)
    BY <1>2, <2>3 DEF GrpcRemote, VxUpdate
  <2> QED
    BY <2>1, <2>2, <2>3, <2>4
    DEF Add, AddSetAlive, AddGetPeer, AddSkip, VethExistMine, VethExistPeer,
        VethIsSkipped, GrpcIsSkipped, GrpcWait, GrpcPoll, GrpcExists, GrpcLocal,
        VxRegister, nodes
<1>4. out'[x][l] = out[x][l]
  <2>1. ASSUME NEW how, Decide(x, how) PROVE out'[x][l] = out[x][l]
    BY <2>1 DEF Decide, TypeInv, ProcsOK
  <2>2. ASSUME NEW s, NEW r, GotoWith(x, s, r) PROVE out'[x][l] = out[x][l]
    BY <2>2 DEF GotoWith
  <2>3. CASE AddMacvlan(x) \/ AddSkip(x) \/ AddSetAlive(x) \/ AddGetPeer(x)
    BY <2>1, <2>2, <2>3 DEF AddMacvlan, AddSkip, AddSetAlive, AddGetPeer
  <2> QED
    BY <2>1, <2>2, <2>3, PeerTurns DEF Turns, Fail, Leave
<1> QED
  BY <1>3, <1>4

\* Nobody but the two touches the ends of their link.
LEMMA OthersKeepEnds ==
    ASSUME LinksApart, "api" \notin Faults, TypeInv, LifeInv, NsInv, PairsInv, HalvesInv,
           NEW c \in Containers, NEW d \in Containers, NEW l \in Links, Near(c, d, l),
           NEW x \in Containers \ {c, d}, Step(x)
    PROVE  intf'[c][l] = intf[c][l]
<1>1. pc[x] \in LoopSteps => Link(x) # l
  BY OnlyTwo DEF Near
<1>2. CASE UNCHANGED intf
  BY <1>2
<1>3. CASE Add(x) /\ pc[x] \in InAddLoop
  <2>1. pc[x] \in LoopSteps
    BY <1>3, AddLoopSteps DEF LoopSteps
  <2> QED
    BY <1>1, <1>3, <2>1, ElsewhereKeeps
<1>4. CASE DelWires(x)
  <2>1. Current(x)
    BY <1>4 DEF DelWires, At, LifeInv, ClearsItself, ClearingSteps
  <2>2. PodOf(c) # PodOf(x)
    BY <2>1 DEF Current, Near, Announced
  <2>3. \/ intf'[c][l] = intf[c][l]
        \/ PodOf(c) = PodOf(x)
    BY <1>4 DEF DelWires, DropPodWires, PodWire
  <2> QED
    BY <2>2, <2>3
<1>5. CASE DelRemove(x)
  <2>1. Link(x) # l
    BY <1>1, <1>5 DEF DelRemove, At, LoopSteps
  <2> QED
    BY <1>5, <2>1 DEF DelRemove, Unplug
<1>6. CASE RemoveSandbox(x)
  <2>1. intf[c][l].to # x
    <3> SUFFICES ASSUME intf[c][l].to = x PROVE FALSE
      OBVIOUS
    <3>1. intf[c][l].k = "veth"
      BY DEF PairsInv, Symmetric
    <3>2. intf[c][l] = If("veth", d)
      BY <3>1, VethJoins DEF Joined
    <3> QED
      BY <3>2 DEF If
  <2> QED
    BY <1>6, <2>1 DEF RemoveSandbox, DropNs
<1>7. CASE RpcFault(x) /\ pc[x] \in {"grpc_remote", "vx_update"}
  <2>1. Link(x) # l
    BY <1>1, <1>7 DEF LoopSteps, PeerSteps
  <2> DEFINE e == loc[x].peer
             U == Unplug(intf, e, Link(x))
  <2>2. /\ U[c][l] = intf[c][l] /\ DOMAIN U = Containers
        /\ \A z \in Containers : DOMAIN U[z] = Links
    BY <2>1 DEF Unplug
  <2>3. intf' = intf \/ \E v : intf' = [U EXCEPT ![e][Link(x)] = v]
    BY <1>7 DEF RpcFault, At, AddGRPCWireRemote, RemoteUpdate
  <2> HIDE DEF U, e
  <2> QED
    BY <2>1, <2>2, <2>3
<1>8. Add(x) => AddSetAlive(x) \/ pc[x] \in InAddLoop
  BY AddMoves DEF InAddLoop
<1> QED
  BY <1>2, <1>3, <1>4, <1>5, <1>6, <1>7, <1>8
  DEF Step, AddSetAlive, Del, DelGet, DelClear, DelGetPeer, DelDown, DelSkipPeer,
      DelSkipThis, Kubelet, StartPod, StartDel, RepeatDel, Fault, AddApiFault, DelApiFault,
      RpcFault, UseFault, At, nodes

\* The schedule in which the pair gets lost.
Raced(c, d, l) == out[c][l] = "skip" /\ out[d][l] = "defer" /\ PodOf(c) > PodOf(d)

\* What holds between c and d at one link.  If c is done with it and d is still
\* looking, then d finds the pair, or will make it: because its name is greater,
\* because c has marked it, or because it finds only one end.  If c is done and
\* d is not going to make it, the pair is there or c has left it to d, whose
\* name is greater.  If d has seen its own end, then the pair is there, or the
\* end is stale, or c is making the link anew.  d does not wait for a mark while
\* c can still take a stale end for the pair.  And if c deals with a container
\* that d replaces, the DEL of that one has left a mark.
Side(c, d, l) ==
    /\ Where(c, l) = "done" /\ Where(d, l) \in LookSteps =>
         /\ ~Leftover(d, l)
         /\ \/ Joined(c, d, l) \/ PodOf(d) > PodOf(c) \/ Mark(c, d, l)
            \/ Leftover(c, l) /\ Where(d, l) # "veth_skipped"
    /\ Where(c, l) = "done" /\ Where(d, l) = "add_skip" =>
         Joined(c, d, l) \/ (out[c][l] = "defer" /\ PodOf(d) > PodOf(c))
    /\ Where(c, l) = "done" /\ Where(d, l) \in GrpcSteps => Joined(c, d, l)
    /\ Where(d, l) = "veth_peer" /\ loc[d].peer = c /\ loc[d].exist =>
         Joined(c, d, l) \/ Leftover(d, l) \/ Where(c, l) \in RemakeSteps
    /\ Where(d, l) = "veth_skipped" /\ Where(c, l) \in LookSteps => ~Leftover(c, l)
    /\ Astray(c, d, l) => Mark(c, d, l)

\* Both ends; of the two at most one has anything stale.
Pair(c, d, l) ==
    /\ Side(c, d, l) /\ Side(d, c, l)
    /\ Where(c, l) = "done" /\ Where(d, l) = "done" =>
         Joined(c, d, l) \/ Raced(c, d, l) \/ Raced(d, c, l)
    /\ ~(Stale(c, d, l) /\ Stale(d, c, l))

NearInv ==
    \A c, d \in Containers : \A l \in Links : Near(c, d, l) => Pair(c, d, l)

LEMMA PairSymmetric ==
    ASSUME NEW c, NEW d, NEW l
    PROVE  /\ Pair(c, d, l) => Pair(d, c, l)
           /\ Pair(c, d, l)' => Pair(d, c, l)'
BY DEF Pair, Joined

\* A step of c that keeps what d has, and the marks.
Rest(c, d, l) ==
    /\ Where(d, l)' = Where(d, l) /\ loc'[d] = loc[d] /\ out'[d][l] = out[d][l]
    /\ Mark(c, d, l) => Mark(c, d, l)'
    /\ Mark(d, c, l) => Mark(d, c, l)'

EndsKept(c, d, l) == intf'[c][l] = intf[c][l] /\ intf'[d][l] = intf[d][l]

LEMMA EndsKeptMeans ==
    ASSUME NEW c, NEW d, NEW l, EndsKept(c, d, l)
    PROVE  /\ Joined(c, d, l)' <=> Joined(c, d, l)
           /\ Joined(d, c, l)' <=> Joined(d, c, l)
           /\ Leftover(c, l)' <=> Leftover(c, l)
           /\ Leftover(d, l)' <=> Leftover(d, l)
BY DEF EndsKept, Joined, Leftover

LEMMA RestHolds ==
    ASSUME TypeInv, LifeInv, NEW c \in Containers, NEW d \in Containers, NEW l \in Links,
           Near(c, d, l), Step(c)
    PROVE  Rest(c, d, l)
<1>1. Alone(c) /\ d # c
  BY StepAlone, NearApart
<1>2. Current(c) /\ Current(d)
  BY DEF Near, Announced
<1>3. Where(d, l)' = Where(d, l) /\ loc'[d] = loc[d] /\ out'[d][l] = out[d][l]
  BY <1>1, WhereKept DEF Alone
<1>4. /\ Mark(c, d, l) => Mark(c, d, l)'
      /\ Mark(d, c, l) => Mark(d, c, l)'
  BY <1>2, MarksGrow DEF Mark
<1> QED
  BY <1>3, <1>4 DEF Rest

\* The ADD of c has failed, or c is being deleted.
LEMMA PairOut ==
    ASSUME NEW c, NEW d, NEW l, Pair(c, d, l), Rest(c, d, l), Where(c, l)' = "out",
           Leftover(c, l)' => Leftover(c, l),
           Leftover(d, l)' => Leftover(d, l)
    PROVE  Pair(c, d, l)'
BY DEF Pair, Side, Rest, Stale, Astray, LookSteps, RemakeSteps, GrpcSteps, PeerSteps, VxSteps

\* Steps of others, and of c at other links.
LEMMA PairUnmoved ==
    ASSUME NEW c, NEW d, NEW l, Pair(c, d, l), Rest(c, d, l), EndsKept(c, d, l),
           loc'[c] = loc[c] \/ Where(c, l) \in Apart,
           out'[c][l] = out[c][l],
           \/ Where(c, l)' = Where(c, l)
           \/ Where(c, l) = "ahead" /\ Where(c, l)' = "add_link"
    PROVE  Pair(c, d, l)'
<1>1. /\ Joined(c, d, l)' <=> Joined(c, d, l)
      /\ Joined(d, c, l)' <=> Joined(d, c, l)
      /\ Leftover(c, l)' <=> Leftover(c, l)
      /\ Leftover(d, l)' <=> Leftover(d, l)
  BY EndsKeptMeans
<1>2. /\ Astray(c, d, l)' <=> Astray(c, d, l)
      /\ Astray(d, c, l)' <=> Astray(d, c, l)
  BY DEF Astray, Rest, Apart, PeerSteps
<1>3. /\ Stale(c, d, l)' => Stale(c, d, l)
      /\ Stale(d, c, l)' => Stale(d, c, l)
  BY <1>1, <1>2 DEF Stale, Rest
<1>4. Side(c, d, l)'
  BY <1>1, <1>2 DEF Pair, Side, Rest, LookSteps, RemakeSteps, VxSteps
<1>5. Side(d, c, l)'
  BY <1>1, <1>2 DEF Pair, Side, Rest, LookSteps, RemakeSteps, VxSteps, GrpcSteps, Apart
<1>6. /\ Raced(c, d, l)' <=> Raced(c, d, l)
      /\ Raced(d, c, l)' <=> Raced(d, c, l)
  BY DEF Raced, Rest
<1> QED
  BY <1>1, <1>3, <1>4, <1>5, <1>6 DEF Pair, Rest

\* All that is known apart from NearInv.
LinkInv == TypeInv /\ MeetInv /\ PeersInv /\ NsInv /\ PairsInv /\ HalvesInv

\* Both sides of a pair of which c, at the link, is about to step.
LEMMA PairFacts ==
    ASSUME LinkInv, NEW c \in Containers, NEW d \in Containers, NEW l \in Links,
           Near(c, d, l), Step(c)
    PROVE  /\ Rest(c, d, l)
           /\ Where(c, l) \in PeerSteps \ VethSteps => Astray(c, d, l)
           /\ Where(d, l) \in PeerSteps \ VethSteps => Astray(d, c, l)
           /\ Exists(c, l) => \/ Joined(c, d, l) \/ Leftover(c, l)
                              \/ Where(c, l) \in {"veth_join", "out"}
           /\ Astray(c, d, l) => loc[c].peer \notin netns
           /\ loc[c].peer \in Containers /\ Exists(loc[c].peer, l)
                => loc[c].peer \in netns
           /\ Joined(c, d, l) <=> Joined(d, c, l)
           /\ Joined(c, d, l)' <=> Joined(d, c, l)'
           /\ Joined(c, d, l) => ~Leftover(c, l) /\ ~Leftover(d, l)
           /\ c # d /\ c[1] # d[1] /\ PodOf(c) \in Nat /\ PodOf(d) \in Nat
<1>1. Near(d, c, l) /\ c # d
  BY NearApart
<1>2. PodOf(c) \in Nat /\ PodOf(d) \in Nat /\ c[1] # d[1]
  BY PodOfContainer, PodsAssumption DEF Near, PodOf
<1>3. /\ Joined(c, d, l) <=> Joined(d, c, l)
      /\ Joined(c, d, l)' <=> Joined(d, c, l)'
      /\ Joined(c, d, l) => ~Leftover(c, l) /\ ~Leftover(d, l)
  BY DEF Joined, Leftover, If
<1> QED
  BY <1>1, <1>2, <1>3, NearFacts, RestHolds DEF LinkInv, MeetInv

\* The look at the peer finds d.
LEMMA PairGetPeer ==
    ASSUME LinkInv, NEW c \in Containers, NEW d \in Containers, NEW l \in Links,
           Near(c, d, l), Pair(c, d, l), Step(c), Where(c, l) \notin Apart, AddGetPeer(c)
    PROVE  Pair(c, d, l)'
<1>1. Rest(c, d, l)
  BY PairFacts
<1>2. pc[c] = "add_link" /\ Link(c) = l /\ pc[c] \in InAddLoop /\ Where(c, l) = "add_link"
  BY WhereAt DEF AddGetPeer, At
<1>3. Get(status, Peer(c), knows[node[c]]) = d /\ d # None
  BY <1>2, GetFinds DEF LinkInv, MeetInv, Near
<1>4. GotoWith(c, "veth_mine", [loc[c] EXCEPT !.peer = d])
  BY <1>3 DEF AddGetPeer, Near
<1>5. Where(c, l)' = "veth_mine"
  BY <1>2, <1>4, WhereGoto DEF InAddLoop, AddSteps, LinkInv
<1>6. loc'[c].peer = d
  BY <1>4 DEF GotoWith, LinkInv, TypeInv, ProcsOK, LocType
<1>7. EndsKept(c, d, l) /\ out'[c] = out[c]
  BY <1>4 DEF AddGetPeer, nodes, EndsKept, GotoWith
<1>8. ~Astray(c, d, l)' /\ ~Astray(c, d, l) /\ (Astray(d, c, l)' <=> Astray(d, c, l))
  BY <1>1, <1>2, <1>6 DEF Astray, Rest, PeerSteps
<1> QED
  BY <1>1, <1>2, <1>5, <1>7, <1>8, EndsKeptMeans
  DEF Pair, Side, Stale, Rest, LookSteps, RemakeSteps, VxSteps, GrpcSteps

\* c leaves the link to its peer because it found no peer alive.
LEMMA PairSkip ==
    ASSUME LinkInv, NEW c \in Containers, NEW d \in Containers, NEW l \in Links,
           Near(c, d, l), Pair(c, d, l), Step(c), Where(c, l) \notin Apart, AddSkip(c)
    PROVE  Pair(c, d, l)'
<1>1. /\ Rest(c, d, l)
      /\ Where(d, l) \in PeerSteps \ VethSteps => Astray(d, c, l)
      /\ Joined(c, d, l) <=> Joined(d, c, l)
      /\ Joined(c, d, l)' <=> Joined(d, c, l)'
  BY PairFacts
<1>2. pc[c] = "add_skip" /\ Link(c) = l /\ pc[c] \in InAddLoop /\ Where(c, l) = "add_skip"
  BY WhereAt DEF AddSkip, At
<1>3. Decide(c, "skip") /\ EndsKept(c, d, l)
  BY DEF AddSkip, nodes, EndsKept
<1>4. Where(c, l)' = "done"
  BY <1>2, <1>3, WhereDecide DEF LinkInv, Near, Announced
<1>5. out'[c][l] = "skip"
  BY <1>2, <1>3 DEF Decide, LinkInv, TypeInv, ProcsOK
<1>6. Mark(c, d, l)'
  <2>1. Peer(c) = PodOf(d)
    BY <1>2, PeerOfLink DEF LinkInv, TypeInv, LoopSteps, Near, Announced
  <2> QED
    BY <1>2, <2>1, PodOfContainer DEF AddSkip, Skip, Mark, LinkInv, TypeInv, K8sOK, StatusType
<1>7. ~Astray(c, d, l)' /\ (Astray(d, c, l)' <=> Astray(d, c, l))
  BY <1>1, <1>4 DEF Astray, Rest, PeerSteps
<1>8. Stale(c, d, l) /\ ~Stale(d, c, l) /\ ~Stale(d, c, l)'
  BY <1>1, <1>2, <1>3, <1>7, EndsKeptMeans DEF Stale, Pair, Rest
<1>9. Where(d, l) \notin GrpcSteps
  BY <1>1, <1>8 DEF Stale, GrpcSteps, PeerSteps, VethSteps
<1>10. Side(c, d, l)'
  BY <1>1, <1>2, <1>3, <1>4, <1>5, <1>6, <1>7, <1>8, <1>9, EndsKeptMeans
  DEF Pair, Side, Stale, Rest, LookSteps, RemakeSteps, VxSteps
<1>11. Side(d, c, l)'
  BY <1>1, <1>3, <1>4, <1>7, EndsKeptMeans DEF Pair, Side, Rest, LookSteps, GrpcSteps
<1>12. Where(d, l) = "done" => Joined(c, d, l)' \/ Raced(c, d, l)'
  BY <1>1, <1>2, <1>3, <1>5, EndsKeptMeans DEF Pair, Side, Raced, Rest
<1> QED
  BY <1>1, <1>8, <1>10, <1>11, <1>12 DEF Pair, Rest

\* c notes whether its own end exists.
LEMMA PairExistMine ==
    ASSUME LinkInv, NEW c \in Containers, NEW d \in Containers, NEW l \in Links,
           Near(c, d, l), Pair(c, d, l), Step(c), Where(c, l) \notin Apart,
           VethExistMine(c)
    PROVE  Pair(c, d, l)'
<1>1. /\ Rest(c, d, l)
      /\ Exists(c, l) => \/ Joined(c, d, l) \/ Leftover(c, l)
                         \/ Where(c, l) \in {"veth_join", "out"}
      /\ Joined(c, d, l) <=> Joined(d, c, l)
  BY PairFacts
<1>2. pc[c] = "veth_mine" /\ Link(c) = l /\ pc[c] \in InAddLoop /\ Where(c, l) = "veth_mine"
  BY WhereAt DEF VethExistMine, At
<1>3. Where(c, l)' = "veth_peer"
  BY <1>2, WhereGoto DEF InAddLoop, AddSteps, LinkInv, VethExistMine
<1>4. loc'[c].peer = loc[c].peer /\ loc'[c].exist = Exists(c, l)
  BY <1>2 DEF VethExistMine, GotoWith, LinkInv, TypeInv, ProcsOK, LocType
<1>5. EndsKept(c, d, l) /\ out'[c] = out[c]
  BY DEF VethExistMine, nodes, EndsKept, GotoWith
<1>6. (Astray(c, d, l)' <=> Astray(c, d, l)) /\ (Astray(d, c, l)' <=> Astray(d, c, l))
  BY <1>1, <1>2, <1>3, <1>4 DEF Astray, Rest, PeerSteps
<1>7. Side(c, d, l)'
  BY <1>1, <1>2, <1>3, <1>5, <1>6, EndsKeptMeans
  DEF Pair, Side, Rest, LookSteps, RemakeSteps, VxSteps
<1>8. Side(d, c, l)'
  BY <1>1, <1>2, <1>3, <1>4, <1>5, <1>6, EndsKeptMeans
  DEF Pair, Side, Rest, LookSteps, GrpcSteps
<1> QED
  BY <1>1, <1>2, <1>3, <1>5, <1>6, <1>7, <1>8, EndsKeptMeans DEF Pair, Stale, Rest

\* c knows of both ends whether they exist.
LEMMA PairExistPeer ==
    ASSUME LinkInv, NEW c \in Containers, NEW d \in Containers, NEW l \in Links,
           Near(c, d, l), Pair(c, d, l), Step(c), Where(c, l) \notin Apart,
           VethExistPeer(c)
    PROVE  Pair(c, d, l)'
<1> DEFINE e == loc[c].peer
<1>1. /\ Rest(c, d, l)
      /\ Where(d, l) \in PeerSteps \ VethSteps => Astray(d, c, l)
      /\ Astray(c, d, l) => e \notin netns
      /\ e \in Containers /\ Exists(e, l) => e \in netns
      /\ Joined(c, d, l) <=> Joined(d, c, l)
      /\ Joined(c, d, l)' <=> Joined(d, c, l)'
      /\ Joined(c, d, l) => ~Leftover(c, l) /\ ~Leftover(d, l)
  BY PairFacts
<1>2. pc[c] = "veth_peer" /\ Link(c) = l /\ pc[c] \in InAddLoop /\ Where(c, l) = "veth_peer"
  BY WhereAt DEF VethExistPeer, At
<1>3. e \in Containers
  BY <1>2 DEF PeerSteps, LinkInv, TypeInv, ProcsOK, HasPeer
<1>4. Astray(c, d, l) <=> e # d
  BY <1>2 DEF Astray, PeerSteps
<1>5. EndsKept(c, d, l)
  BY DEF VethExistPeer, nodes, EndsKept
<1>6. /\ Joined(c, d, l)' <=> Joined(c, d, l)
      /\ Joined(d, c, l)' <=> Joined(d, c, l)
      /\ Leftover(c, l)' <=> Leftover(c, l)
      /\ Leftover(d, l)' <=> Leftover(d, l)
  BY <1>5, EndsKeptMeans
<1>7. /\ Astray(d, c, l)' <=> Astray(d, c, l)
      /\ Stale(d, c, l)' <=> Stale(d, c, l)
  BY <1>1, <1>6 DEF Astray, Stale, Rest
<1>8. Leftover(d, l) /\ ~Astray(c, d, l) => Exists(e, l)
  BY <1>4 DEF Leftover, Exists
<1>9. CASE loc[c].exist /\ Exists(e, l) /\ Decide(c, "exists")
  <2>1. e = d
    BY <1>1, <1>3, <1>4, <1>9
  <2>2. Where(c, l)' = "done"
    BY <1>2, <1>9, WhereDecide DEF LinkInv, Near, Announced
  <2>3. Joined(c, d, l) \/ Leftover(c, l) \/ Where(d, l) \in RemakeSteps
    BY <1>1, <1>2, <1>9, <2>1 DEF Pair, Side
  <2>4. ~Astray(c, d, l)'
    BY <2>2 DEF Astray, PeerSteps
  <2>5. Leftover(c, l) => ~Stale(d, c, l)
    BY DEF Pair, Stale
  <2>6. Where(d, l) \in GrpcSteps => Stale(d, c, l)
    BY <1>1 DEF Stale, GrpcSteps, PeerSteps, VethSteps
  <2>7. Where(d, l) = "add_skip" \/ Leftover(d, l) => Stale(d, c, l)
    BY DEF Stale
  <2>8. Leftover(c, l) => Where(d, l) # "veth_skipped" /\ Where(d, l) # "done"
    BY <1>2 DEF Pair, Side, LookSteps
  <2>9. Side(c, d, l)'
    BY <1>1, <1>2, <1>6, <1>7, <2>2, <2>3, <2>4, <2>5, <2>6, <2>7, <2>8
    DEF Pair, Side, Rest, LookSteps, RemakeSteps, VxSteps, GrpcSteps
  <2>10. Side(d, c, l)'
    BY <1>1, <1>6, <1>7, <2>2 DEF Pair, Side, Rest, LookSteps, GrpcSteps
  <2>11. Where(d, l) = "done" => Joined(c, d, l)'
    BY <1>6, <2>3, <2>8 DEF RemakeSteps, VxSteps
  <2>12. ~(Stale(c, d, l)' /\ Stale(d, c, l)')
    BY <1>6, <1>7, <2>2, <2>4, <2>5 DEF Stale
  <2> QED
    BY <1>1, <2>9, <2>10, <2>11, <2>12 DEF Pair, Rest
<1>10. ASSUME NEW s \in {"veth_skipped", "veth_rm"}, Goto(c, s),
              s = "veth_skipped" => ~Exists(e, l)
       PROVE  Pair(c, d, l)'
  <2>1. Where(c, l)' = s /\ loc'[c] = loc[c]
    BY <1>2, <1>10, WhereGoto
    DEF InAddLoop, AddSteps, LinkInv, TypeInv, ProcsOK, Goto, GotoWith
  <2>2. /\ Astray(c, d, l)' <=> Astray(c, d, l)
        /\ Stale(c, d, l)' <=> Stale(c, d, l)
    BY <1>2, <1>6, <2>1 DEF Astray, Stale, PeerSteps
  <2>3. s = "veth_skipped" => ~Leftover(d, l)
    BY <1>8, <1>10 DEF Pair, Stale
  <2>4. Side(c, d, l)'
    BY <1>1, <1>2, <1>6, <2>1, <2>2 DEF Pair, Side, Rest, LookSteps, RemakeSteps, VxSteps
  <2>5. Side(d, c, l)'
    BY <1>1, <1>2, <1>6, <1>7, <2>1, <2>3 DEF Pair, Side, Rest, LookSteps, GrpcSteps
  <2> QED
    BY <1>7, <2>1, <2>2, <2>4, <2>5 DEF Pair
<1> QED
  BY <1>2, <1>9, <1>10 DEF VethExistPeer

\* c goes on making the link with what it has found.
LEMMA PairRemake ==
    ASSUME NEW c, NEW d, NEW l, Pair(c, d, l), Rest(c, d, l), Where(c, l) \in PeerSteps,
           Where(c, l)' \in RemakeSteps \ {"out"}, loc'[c].peer = loc[c].peer,
           Leftover(c, l)' => Stale(c, d, l),
           Leftover(d, l)' => Leftover(d, l)
    PROVE  Pair(c, d, l)'
<1>1. Where(c, l)' \in PeerSteps
  BY DEF RemakeSteps, PeerSteps, VxSteps
<1>2. (Astray(c, d, l)' <=> Astray(c, d, l)) /\ (Astray(d, c, l)' <=> Astray(d, c, l))
  BY <1>1 DEF Astray, Rest
<1>3. (Stale(c, d, l)' => Stale(c, d, l)) /\ (Stale(d, c, l)' => Stale(d, c, l))
  BY <1>1, <1>2 DEF Stale, Rest, PeerSteps
<1>4. Side(c, d, l)'
  BY <1>2 DEF Pair, Side, Rest, LookSteps, RemakeSteps, VxSteps
<1>5. Side(d, c, l)'
  BY <1>2 DEF Pair, Side, Rest, LookSteps, RemakeSteps, VxSteps, GrpcSteps
<1>6. Where(c, l)' # "done"
  BY DEF RemakeSteps, VxSteps
<1> QED
  BY <1>3, <1>4, <1>5, <1>6 DEF Pair

\* c goes on making a wire to a container that d has replaced.
LEMMA PairWire ==
    ASSUME NEW c, NEW d, NEW l, Pair(c, d, l), Rest(c, d, l), Astray(c, d, l),
           Where(c, l) \in GrpcSteps, Where(c, l)' \in GrpcSteps,
           loc'[c].peer = loc[c].peer, intf'[d][l] = intf[d][l],
           Joined(c, d, l) => Joined(c, d, l)',
           Joined(d, c, l) => Joined(d, c, l)'
    PROVE  Pair(c, d, l)'
<1>1. Where(c, l)' \in PeerSteps
  BY DEF GrpcSteps, PeerSteps
<1>2. Astray(c, d, l)' /\ (Astray(d, c, l)' <=> Astray(d, c, l))
  BY <1>1 DEF Astray, Rest
<1>3. /\ Stale(c, d, l) /\ ~Stale(d, c, l) /\ ~Stale(d, c, l)'
      /\ Leftover(d, l)' <=> Leftover(d, l)
  BY <1>2 DEF Stale, Rest, Pair, Leftover
<1>4. Side(c, d, l)'
  BY <1>2, <1>3 DEF Pair, Side, Rest, LookSteps, RemakeSteps, VxSteps, GrpcSteps
<1>5. Side(d, c, l)'
  BY <1>2 DEF Pair, Side, Rest, LookSteps, GrpcSteps
<1>6. Where(c, l)' # "done"
  BY DEF GrpcSteps
<1> QED
  BY <1>3, <1>4, <1>5, <1>6 DEF Pair

\* It has made that wire, or given up.
LEMMA PairWired ==
    ASSUME NEW c, NEW d, NEW l, Pair(c, d, l), Rest(c, d, l), Astray(c, d, l),
           Where(d, l) \in PeerSteps \ VethSteps => Astray(d, c, l),
           Where(c, l) \in GrpcSteps, Where(c, l)' = "done", EndsKept(c, d, l),
           Joined(c, d, l) <=> Joined(d, c, l)
    PROVE  Pair(c, d, l)'
<1>1. /\ Joined(c, d, l)' <=> Joined(c, d, l)
      /\ Joined(d, c, l)' <=> Joined(d, c, l)
      /\ Leftover(c, l)' <=> Leftover(c, l)
      /\ Leftover(d, l)' <=> Leftover(d, l)
  BY EndsKeptMeans
<1>2. ~Astray(c, d, l)' /\ (Astray(d, c, l)' <=> Astray(d, c, l))
  BY DEF Astray, Rest, PeerSteps
<1>3. Stale(c, d, l) /\ ~Stale(d, c, l) /\ ~Stale(d, c, l)'
  BY <1>1, <1>2 DEF Stale, Rest, Pair
<1>4. Mark(c, d, l) /\ Mark(c, d, l)'
  BY DEF Pair, Side, Rest
<1>5. Where(d, l) # "add_skip" /\ Where(d, l) \notin GrpcSteps /\ ~Leftover(d, l)
  BY <1>3 DEF Stale, GrpcSteps, PeerSteps, VethSteps
<1>6. Side(c, d, l)'
  BY <1>1, <1>2, <1>3, <1>4, <1>5
  DEF Pair, Side, Rest, LookSteps, RemakeSteps, VxSteps, GrpcSteps
<1>7. Side(d, c, l)'
  BY <1>2 DEF Pair, Side, Rest, LookSteps, GrpcSteps
<1>8. Where(d, l) = "done" => Joined(c, d, l)'
  BY <1>1 DEF Pair, Side
<1> QED
  BY <1>3, <1>6, <1>7, <1>8 DEF Pair, Rest

\* Where the process is, and what it has, at a step at the link.
LEMMA PairAt ==
    ASSUME LinkInv, NEW c \in Containers, NEW l \in Links, Where(c, l) \notin Apart
    PROVE  /\ pc[c] \in InAddLoop /\ Link(c) = l /\ Where(c, l) = pc[c]
           /\ pc[c] \in PeerSteps => loc[c].peer \in Containers
           /\ \A s \in InAddLoop : Goto(c, s) => Where(c, l)' = s /\ loc'[c] = loc[c]
           /\ Fail(c) => Where(c, l)' = "out"
<1>1. pc[c] \in InAddLoop /\ Link(c) = l /\ Where(c, l) = pc[c]
  BY WhereAt
<1>2. pc[c] \in PeerSteps => loc[c].peer \in Containers
  BY DEF LinkInv, TypeInv, ProcsOK, HasPeer
<1>3. ASSUME NEW s \in InAddLoop, Goto(c, s) PROVE Where(c, l)' = s /\ loc'[c] = loc[c]
  BY <1>1, <1>3, WhereGoto DEF LinkInv, TypeInv, ProcsOK, Goto, GotoWith
<1>4. ASSUME Fail(c) PROVE Where(c, l)' = "out"
  <2>1. pc'[c] \notin Published
    BY <1>4 DEF Fail, Leave, GotoWith, LinkInv, TypeInv, ProcsOK, Published, AddSteps
  <2> QED
    BY <2>1, WhereOut
<1> QED
  BY <1>1, <1>2, <1>3, <1>4

\* What removing an interface may do to the ends.
LEMMA UnplugEnds ==
    ASSUME NEW e, NEW l \in Links, NEW c \in Containers, intf' = Unplug(intf, e, l)
    PROVE  /\ intf'[c][l] \in {intf[c][l], NoIf}
           /\ Leftover(c, l)' => Leftover(c, l)
<1>1. intf'[c][l] \in {intf[c][l], NoIf}
  BY DEF Unplug
<1> QED
  BY <1>1 DEF Leftover, NoIf

LEMMA PairRemove ==
    ASSUME LinkInv, NEW c \in Containers, NEW d \in Containers, NEW l \in Links,
           Near(c, d, l), Pair(c, d, l), Step(c), Where(c, l) \notin Apart,
           VethRemove(c) \/ VxClean(c)
    PROVE  Pair(c, d, l)'
<1>1. Rest(c, d, l)
  BY PairFacts
<1>2. pc[c] \in {"veth_rm", "vx_clean"} /\ Link(c) = l /\ Where(c, l) = pc[c]
  BY PairAt DEF VethRemove, VxClean, At
<1>3. CASE Fail(c) /\ UNCHANGED intf
  BY <1>1, <1>3, PairAt, PairOut DEF Leftover
<1>4. ASSUME NEW e, intf' = Unplug(intf, e, l), NEW s \in {"veth_make", "vx_make"},
             Goto(c, s)
      PROVE  Pair(c, d, l)'
  <2>1. s \in InAddLoop /\ s \in RemakeSteps \ {"out"} /\ Where(c, l) \in PeerSteps
    BY <1>2 DEF InAddLoop, AddSteps, RemakeSteps, VxSteps, PeerSteps
  <2>2. Where(c, l)' = s /\ loc'[c] = loc[c]
    BY <1>4, <2>1, PairAt
  <2>3. (Leftover(c, l)' => Leftover(c, l)) /\ (Leftover(d, l)' => Leftover(d, l))
    BY <1>4, UnplugEnds
  <2> QED
    BY <1>1, <2>1, <2>2, <2>3, PairRemake DEF Stale
<1> QED
  BY <1>2, <1>3, <1>4 DEF VethRemove, VxClean

LEMMA PairIsSkipped ==
    ASSUME LinkInv, NEW c \in Containers, NEW d \in Containers, NEW l \in Links,
           Near(c, d, l), Pair(c, d, l), Step(c), Where(c, l) \notin Apart,
           VethIsSkipped(c)
    PROVE  Pair(c, d, l)'
<1>1. /\ Rest(c, d, l)
      /\ Where(d, l) \in PeerSteps \ VethSteps => Astray(d, c, l)
      /\ Joined(c, d, l) <=> Joined(d, c, l)
      /\ PodOf(c) \in Nat /\ PodOf(d) \in Nat
  BY PairFacts
<1>2. pc[c] = "veth_skipped" /\ Link(c) = l /\ Where(c, l) = "veth_skipped"
      /\ pc[c] \in InAddLoop
  BY PairAt DEF VethIsSkipped, At
<1>3. EndsKept(c, d, l)
  BY DEF VethIsSkipped, nodes, EndsKept
<1>4. /\ Joined(c, d, l)' <=> Joined(c, d, l)
      /\ Joined(d, c, l)' <=> Joined(d, c, l)
      /\ Leftover(c, l)' <=> Leftover(c, l)
      /\ Leftover(d, l)' <=> Leftover(d, l)
  BY <1>3, EndsKeptMeans
<1>5. CASE Goto(c, "veth_make")
  <2>1. /\ "veth_make" \in InAddLoop /\ "veth_make" \in RemakeSteps \ {"out"}
        /\ Where(c, l) \in PeerSteps
    BY <1>2 DEF InAddLoop, AddSteps, RemakeSteps, PeerSteps
  <2>2. Where(c, l)' = "veth_make" /\ loc'[c] = loc[c]
    BY <1>5, <2>1, PairAt
  <2> QED
    BY <1>1, <1>4, <2>1, <2>2, PairRemake DEF Stale
<1>6. CASE /\ ~(IsSkipped(status, PodOf(c), Peer(c), Link(c)) \/ HigherPrio(c))
           /\ Decide(c, "defer")
  <2>1. Peer(c) = PodOf(d)
    BY <1>2, PeerOfLink, AddLoopSteps DEF LinkInv, TypeInv, LoopSteps, Near, Announced
  <2>2. ~Mark(d, c, l) /\ PodOf(d) > PodOf(c)
    <3>1. ~Mark(d, c, l)
      BY <1>2, <1>6, <2>1 DEF IsSkipped, Mark
    <3>2. ~(PodOf(c) > PodOf(d)) /\ PodOf(c) # PodOf(d)
      BY <1>6, <2>1 DEF HigherPrio, Near
    <3> QED
      BY <1>1, <3>1, <3>2
  <2>3. ~(PodOf(c) > PodOf(d))
    BY <1>1, <2>2
  <2>4. Where(c, l)' = "done"
    BY <1>2, <1>6, WhereDecide DEF LinkInv, Near, Announced
  <2>5. out'[c][l] = "defer"
    BY <1>2, <1>6 DEF Decide, LinkInv, TypeInv, ProcsOK
  <2>6. ~Astray(c, d, l)' /\ (Astray(d, c, l)' <=> Astray(d, c, l))
    BY <1>1, <2>4 DEF Astray, Rest, PeerSteps
  <2>7. ~Astray(d, c, l)
    BY <2>2 DEF Pair, Side
  <2>8. Where(d, l) \notin GrpcSteps
    BY <1>1, <2>7 DEF GrpcSteps, PeerSteps, VethSteps
  <2>9. Side(c, d, l)'
    BY <1>1, <1>2, <1>4, <2>2, <2>4, <2>5, <2>6, <2>8
    DEF Pair, Side, Rest, RemakeSteps, VxSteps, LookSteps
  <2>10. Side(d, c, l)'
    BY <2>4, <2>6, <2>7 DEF Pair, Side, Rest, LookSteps, GrpcSteps
  <2>11. Where(d, l) = "done" => Joined(c, d, l)'
    BY <1>1, <1>2, <1>4, <2>2, <2>3 DEF Pair, Side, LookSteps
  <2>12. /\ Stale(c, d, l)' => Stale(c, d, l)
         /\ Stale(d, c, l)' <=> Stale(d, c, l)
    BY <1>1, <1>4, <2>4, <2>6 DEF Stale, Rest
  <2> QED
    BY <1>1, <2>9, <2>10, <2>11, <2>12 DEF Pair, Rest
<1> QED
  BY <1>5, <1>6 DEF VethIsSkipped

LEMMA PairMake ==
    ASSUME LinkInv, NEW c \in Containers, NEW d \in Containers, NEW l \in Links,
           Near(c, d, l), Pair(c, d, l), Step(c), Where(c, l) \notin Apart,
           VethMake(c) \/ VxMake(c)
    PROVE  Pair(c, d, l)'
<1>1. /\ Rest(c, d, l) /\ c # d
      /\ Where(c, l) \in PeerSteps \ VethSteps => Astray(c, d, l)
  BY PairFacts
<1>2. pc[c] \in {"veth_make", "vx_make"} /\ Link(c) = l /\ Where(c, l) = pc[c]
  BY PairAt DEF VethMake, VxMake, At
<1>3. CASE Fail(c) /\ UNCHANGED intf
  BY <1>1, <1>3, PairAt, PairOut DEF Leftover
<1>4. ASSUME NEW s \in {"veth_join", "vx_register"}, Goto(c, s), NEW v,
             intf' = [intf EXCEPT ![c][l] = v],
             v.k = "half" \/ VxMake(c)
      PROVE  Pair(c, d, l)'
  <2>1. s \in InAddLoop /\ s \in RemakeSteps \ {"out"} /\ Where(c, l) \in PeerSteps
    BY <1>2 DEF InAddLoop, AddSteps, RemakeSteps, VxSteps, PeerSteps
  <2>2. Where(c, l)' = s /\ loc'[c] = loc[c]
    BY <1>4, <2>1, PairAt
  <2>3. intf'[c][l] = v /\ intf'[d][l] = intf[d][l]
    BY <1>1, <1>4 DEF LinkInv, TypeInv, NodesOK
  <2>4. VxMake(c) => Astray(c, d, l)
    BY <1>1, <1>2 DEF VxMake, At, PeerSteps, VethSteps
  <2> QED
    BY <1>1, <1>4, <2>1, <2>2, <2>3, <2>4, PairRemake DEF Stale, Leftover
<1> QED
  BY <1>2, <1>3, <1>4 DEF VethMake, VxMake, If

LEMMA PairJoin ==
    ASSUME LinkInv, NEW c \in Containers, NEW d \in Containers, NEW l \in Links,
           Near(c, d, l), Pair(c, d, l), Step(c), Where(c, l) \notin Apart,
           VethJoin(c)
    PROVE  Pair(c, d, l)'
<1> DEFINE e == loc[c].peer
<1>1. /\ Rest(c, d, l) /\ c # d
      /\ Astray(c, d, l) => e \notin netns
      /\ Joined(c, d, l)' <=> Joined(d, c, l)'
  BY PairFacts
<1>2. pc[c] = "veth_join" /\ Link(c) = l /\ Where(c, l) = pc[c] /\ pc[c] \in InAddLoop
  BY PairAt DEF VethJoin, At
<1>3. CASE Fail(c) /\ (UNCHANGED intf \/ intf' = Unplug(intf, c, l))
  <2>1. (Leftover(c, l)' => Leftover(c, l)) /\ (Leftover(d, l)' => Leftover(d, l))
    BY <1>3, UnplugEnds DEF Leftover
  <2> QED
    BY <1>1, <1>3, <2>1, PairAt, PairOut
<1>4. CASE /\ e \in netns
           /\ intf' = [intf EXCEPT ![c][l] = If("veth", e), ![e][l] = If("veth", c)]
           /\ Decide(c, "made")
  <2>1. e = d
    BY <1>1, <1>2, <1>4 DEF Astray, PeerSteps
  <2>2. Joined(c, d, l)' /\ Joined(d, c, l)'
    BY <1>1, <1>4, <2>1 DEF Joined, LinkInv, TypeInv, NodesOK
  <2>3. ~Leftover(c, l)' /\ ~Leftover(d, l)'
    BY <2>2 DEF Joined, Leftover, If
  <2>4. Where(c, l)' = "done"
    BY <1>2, <1>4, WhereDecide DEF LinkInv, Near, Announced
  <2>5. ~Astray(c, d, l)' /\ (Astray(d, c, l)' <=> Astray(d, c, l))
    BY <1>1, <2>4 DEF Astray, Rest, PeerSteps
  <2>6. Side(c, d, l)'
    BY <2>2, <2>3, <2>4, <2>5 DEF Side, LookSteps
  <2>7. Side(d, c, l)'
    BY <1>1, <2>4, <2>5 DEF Pair, Side, Rest, LookSteps, GrpcSteps
  <2> QED
    BY <2>2, <2>3, <2>4, <2>5, <2>6, <2>7 DEF Pair, Stale
<1> QED
  BY <1>2, <1>3, <1>4 DEF VethJoin

\* A call to the daemon of a container that is gone has no effect on interfaces.
LEMMA NoRemote ==
    ASSUME NEW c, NEW d, NEW l, d \notin netns
    PROVE  /\ AddGRPCWireRemote(c, d, l) => UNCHANGED intf
           /\ ~RemoteUpdate(c, d, l)
BY DEF AddGRPCWireRemote, RemoteCreates, RemoteUpdate

LEMMA PairGrpc ==
    ASSUME LinkInv, NEW c \in Containers, NEW d \in Containers, NEW l \in Links,
           Near(c, d, l), Pair(c, d, l), Step(c), Where(c, l) \notin Apart,
           \/ GrpcIsSkipped(c) \/ GrpcWait(c) \/ GrpcPoll(c) \/ GrpcExists(c)
           \/ GrpcVeth(c) \/ GrpcRemote(c) \/ GrpcLocal(c)
    PROVE  Pair(c, d, l)'
<1>1. /\ Rest(c, d, l) /\ c # d
      /\ Where(c, l) \in PeerSteps \ VethSteps => Astray(c, d, l)
      /\ Where(d, l) \in PeerSteps \ VethSteps => Astray(d, c, l)
      /\ Astray(c, d, l) => loc[c].peer \notin netns
      /\ Joined(c, d, l) <=> Joined(d, c, l)
  BY PairFacts
<1>2. pc[c] \in GrpcSteps /\ Link(c) = l /\ Where(c, l) = pc[c] /\ pc[c] \in InAddLoop
  BY PairAt
  DEF GrpcIsSkipped, GrpcWait, GrpcPoll, GrpcExists, GrpcVeth, GrpcRemote, GrpcLocal, At,
      GrpcSteps
<1>3. Astray(c, d, l) /\ loc[c].peer \notin netns
  BY <1>1, <1>2 DEF GrpcSteps, PeerSteps, VethSteps
<1>4. /\ \/ UNCHANGED intf
         \/ ~Exists(c, l) /\ GrpcVeth(c) /\ intf' = [intf EXCEPT ![c][l] = If("own", None)]
      /\ ~UNCHANGED intf => Goto(c, "grpc_remote")
  BY <1>2, <1>3, NoRemote
  DEF GrpcIsSkipped, GrpcWait, GrpcPoll, GrpcExists, GrpcVeth, GrpcRemote, GrpcLocal, nodes
<1>5. intf'[d][l] = intf[d][l]
  BY <1>1, <1>4 DEF LinkInv, TypeInv, NodesOK
<1>6. /\ Joined(c, d, l) => Joined(c, d, l)'
      /\ Joined(d, c, l) => Joined(d, c, l)'
  BY <1>4 DEF Joined, Exists, If
<1>7. CASE \E how \in Outcomes : Decide(c, how) /\ UNCHANGED intf
  <2>1. Where(c, l)' = "done" /\ EndsKept(c, d, l)
    BY <1>2, <1>7, WhereDecide DEF LinkInv, Near, Announced, EndsKept
  <2> QED
    BY <1>1, <1>2, <1>3, <2>1, PairWired
<1>8. CASE \E s \in GrpcSteps, r \in LocType :
             GotoWith(c, s, r) /\ r.peer = loc[c].peer
  <2>1. PICK s \in GrpcSteps, r \in LocType : GotoWith(c, s, r) /\ r.peer = loc[c].peer
    BY <1>8
  <2>2. s \in InAddLoop
    BY DEF GrpcSteps, InAddLoop, AddSteps
  <2>3. Where(c, l)' = s /\ loc'[c].peer = loc[c].peer
    BY <1>2, <2>1, <2>2, WhereGoto DEF LinkInv, TypeInv, ProcsOK, GotoWith
  <2> QED
    BY <1>1, <1>2, <1>3, <1>5, <1>6, <2>3, PairWire
<1>9. CASE Fail(c) /\ UNCHANGED intf
  BY <1>1, <1>9, PairAt, PairOut DEF Leftover
<1>10. \/ \E how : Decide(c, how)
       \/ \E s \in GrpcSteps : \E r : GotoWith(c, s, r)
       \/ Fail(c)
  BY DEF GrpcIsSkipped, GrpcWait, GrpcPoll, GrpcExists, GrpcVeth, GrpcRemote, GrpcLocal,
         GrpcSteps, Goto
<1>11. Turns(c)
  <2>1. Add(c) /\ ~AddSetAlive(c) /\ ~AddMacvlan(c) /\ ~AddGetPeer(c) /\ ~AddSkip(c)
    BY <1>2 DEF Add, GrpcSteps, AddSetAlive, AddMacvlan, AddGetPeer, AddSkip, At
  <2> QED
    BY <2>1, PeerTurns DEF LinkInv
<1>12. ASSUME NEW s, NEW r, GotoWith(c, s, r) PROVE pc'[c] = s
  BY <1>12 DEF GotoWith, LinkInv, TypeInv, ProcsOK
<1>13. ASSUME NEW how, Decide(c, how) PROVE pc'[c] \in {"up", "add_link"}
  BY <1>13 DEF Decide, LoopAt, LinkInv, TypeInv, ProcsOK
<1>14. Fail(c) => pc'[c] = "add_failed"
  BY <1>12 DEF Fail, Leave
<1>15. ~UNCHANGED intf => pc'[c] = "grpc_remote"
  BY <1>4, <1>12 DEF Goto
<1>16. CASE Fail(c)
  BY <1>9, <1>14, <1>15, <1>16
<1>17. CASE \E how \in Outcomes : Decide(c, how)
  BY <1>7, <1>13, <1>15, <1>17
<1>18. ASSUME NEW s \in PeerSteps, NEW r \in LocType, GotoWith(c, s, r), r.peer = loc[c].peer
       PROVE  s \in GrpcSteps
  BY <1>10, <1>12, <1>13, <1>14, <1>18 DEF PeerSteps
<1> QED
  BY <1>8, <1>11, <1>16, <1>17, <1>18 DEF Turns

LEMMA PairVxlan ==
    ASSUME LinkInv, NEW c \in Containers, NEW d \in Containers, NEW l \in Links,
           Near(c, d, l), Pair(c, d, l), Step(c), Where(c, l) \notin Apart,
           VxRegister(c) \/ VxUpdate(c)
    PROVE  Pair(c, d, l)'
<1>1. /\ Rest(c, d, l)
      /\ Where(c, l) \in PeerSteps \ VethSteps => Astray(c, d, l)
      /\ Astray(c, d, l) => loc[c].peer \notin netns
  BY PairFacts
<1>2. pc[c] \in {"vx_register", "vx_update"} /\ Link(c) = l /\ Where(c, l) = pc[c]
  BY PairAt DEF VxRegister, VxUpdate, At
<1>3. Astray(c, d, l) /\ loc[c].peer \notin netns
  BY <1>1, <1>2 DEF PeerSteps, VethSteps
<1>4. /\ UNCHANGED intf
      /\ Fail(c) \/ Goto(c, "vx_update")
  BY <1>3, NoRemote DEF VxRegister, VxUpdate, nodes
<1>5. CASE Fail(c)
  BY <1>1, <1>4, <1>5, PairAt, PairOut DEF Leftover
<1>6. CASE Goto(c, "vx_update")
  <2>1. /\ "vx_update" \in InAddLoop /\ "vx_update" \in RemakeSteps \ {"out"}
        /\ Where(c, l) \in PeerSteps
    BY <1>2 DEF InAddLoop, AddSteps, RemakeSteps, VxSteps, PeerSteps
  <2>2. Where(c, l)' = "vx_update" /\ loc'[c] = loc[c]
    BY <1>6, <2>1, PairAt
  <2> QED
    BY <1>1, <1>4, <2>1, <2>2, PairRemake DEF Stale, Leftover
<1> QED
  BY <1>4, <1>5, <1>6

LEMMA PairFault ==
    ASSUME "api" \notin Faults, LinkInv, NEW c \in Containers, NEW d \in Containers,
           NEW l \in Links, Near(c, d, l), Pair(c, d, l), Step(c), Where(c, l) \notin Apart,
           Fault(c)
    PROVE  Pair(c, d, l)'
<1>1. /\ Rest(c, d, l)
      /\ Where(c, l) \in PeerSteps \ VethSteps => Astray(c, d, l)
      /\ Astray(c, d, l) => loc[c].peer \notin netns
  BY PairFacts
<1>2. RpcFault(c)
  BY DEF Fault, AddApiFault, DelApiFault, UseFault
<1>3. pc[c] \in InAddLoop /\ Link(c) = l /\ Where(c, l) = pc[c]
  BY PairAt
<1>4. pc[c] \in {"grpc_remote", "vx_update"} /\ Fail(c)
  BY <1>2, <1>3 DEF RpcFault, At, InAddLoop, AddSteps
<1>5. loc[c].peer \notin netns
  BY <1>1, <1>3, <1>4 DEF PeerSteps, VethSteps
<1>6. UNCHANGED intf
  BY <1>2, <1>5, NoRemote DEF RpcFault
<1> QED
  BY <1>1, <1>4, <1>6, PairAt, PairOut DEF Leftover

\* The step of one of the two at the link.
LEMMA PairHere ==
    ASSUME "api" \notin Faults, LinkInv, NEW c \in Containers, NEW d \in Containers,
           NEW l \in Links, Near(c, d, l), Pair(c, d, l), Step(c), Where(c, l) \notin Apart
    PROVE  Pair(c, d, l)'
<1>1. pc[c] \in InAddLoop /\ Link(c) = l
  BY PairAt
<1>2. ~Del(c) /\ ~Kubelet(c) /\ ~AddSetAlive(c)
  BY <1>1
  DEF InAddLoop, AddSteps, At, Del, DelGet, DelWires, DelClear, DelGetPeer, DelDown,
      DelRemove, DelSkipPeer, DelSkipThis, Kubelet, StartPod, StartDel, RepeatDel,
      RemoveSandbox, AddSetAlive
<1>3. ~AddMacvlan(c)
  <2>1. PodOf(d) = Peer(c)
    BY <1>1, PeerOfLink, AddLoopSteps DEF LinkInv, TypeInv, LoopSteps, Near, Announced
  <2> QED
    BY <2>1, PodOfContainer, NoneAssumption DEF AddMacvlan
<1> QED
  BY <1>2, <1>3, PairGetPeer, PairSkip, PairExistMine, PairExistPeer, PairRemove,
     PairIsSkipped, PairMake, PairJoin, PairGrpc, PairVxlan, PairFault
  DEF Step, Add

\* Its step elsewhere.
LEMMA PairElsewhere ==
    ASSUME LinkInv, NEW c \in Containers, NEW d \in Containers,
           NEW l \in Links, Near(c, d, l), Pair(c, d, l), Step(c), ~AddSetAlive(c),
           Where(c, l) \in Apart
    PROVE  Pair(c, d, l)'
<1>1. Rest(c, d, l)
  BY PairFacts
<1>2. CASE Where(c, l)' = "out"
  <2>1. ~(pc[c] \in InAddLoop /\ Link(c) = l)
    BY WhereAt
  <2>2. \A y \in {c, d} : intf'[y][l] \in {intf[y][l], NoIf}
    BY <2>1, IntfGrows DEF LinkInv
  <2> QED
    BY <1>1, <1>2, <2>2, PairOut DEF Leftover, NoIf
<1>3. CASE /\ Add(c) /\ pc[c] \in InAddLoop /\ Link(c) # l
           /\ \/ Where(c, l)' = Where(c, l)
              \/ Where(c, l) = "ahead" /\ Where(c, l)' = "add_link"
  <2>1. EndsKept(c, d, l) /\ out'[c][l] = out[c][l]
    BY <1>3, ElsewhereKeeps DEF LinkInv, EndsKept
  <2> QED
    BY <1>1, <1>3, <2>1, PairUnmoved
<1> QED
  BY <1>2, <1>3, WhereElse DEF LinkInv, Near, Announced

\* The step of another process.
LEMMA PairOthers ==
    ASSUME LinksApart, "api" \notin Faults, LinkInv, NEW c \in Containers,
           NEW d \in Containers, NEW l \in Links, Near(c, d, l), Pair(c, d, l),
           NEW x \in Containers \ {c, d}, Step(x)
    PROVE  Pair(c, d, l)'
<1>1. Near(d, c, l) /\ Alone(x)
  BY NearApart, StepAlone DEF LinkInv
<1>2. EndsKept(c, d, l)
  BY <1>1, OthersKeepEnds DEF EndsKept, LinkInv, MeetInv
<1>3. /\ \A y \in {c, d} : Where(y, l)' = Where(y, l) /\ loc'[y] = loc[y] /\ out'[y] = out[y]
  BY <1>1, WhereKept DEF Alone
<1>4. /\ Mark(c, d, l) => Mark(c, d, l)'
      /\ Mark(d, c, l) => Mark(d, c, l)'
  BY MarksGrow DEF Mark, Near, Announced, LinkInv, MeetInv
<1>5. Rest(c, d, l)
  BY <1>3, <1>4 DEF Rest
<1> QED
  BY <1>2, <1>3, <1>5, PairUnmoved

\* Until a pod announces itself nobody deals with its container, and the marks
\* that are owed to it have been set.
LEMMA Unannounced ==
    ASSUME LinkInv, MarkInv, NEW c \in Containers, NEW d \in Containers, NEW l \in Links,
           Ends(c, d, l), pc[d] = "add_alive",
           Where(c, l) \in PeerSteps \cup {"done"}
    PROVE  Mark(c, d, l) /\ (Where(c, l) \in PeerSteps => loc[c].peer # d)
<1>1. PICK i \in 1..Len(PodLinks[PodOf(c)]) :
        PodLinks[PodOf(c)][i] = [link |-> l, peer |-> PodOf(d)]
  BY DEF Ends
<1>2. PodOf(c) \in Pods /\ PodOf(d) \in Pods
  BY PodOfContainer
<1>3. \A j \in 1..Len(PodLinks[PodOf(c)]) : PodLinks[PodOf(c)][j].link = l <=> j = i
  BY <1>1, <1>2, LinkOnce
<1>4. ASSUME Where(c, l) \in PeerSteps
      PROVE  Passed(c, i) /\ loc[c].peer # d
  <2>1. pc[c] \in PeerSteps /\ Link(c) = l
    BY <1>4, WhereAt DEF Apart, PeerSteps
  <2>2. idx[c] = i
    BY <1>3, <2>1
    DEF LinkInv, TypeInv, ProcsOK, InLoop, LoopSteps, Link, Cur
  <2>3. loc[c].peer # d
    BY <2>1 DEF LinkInv, PeersInv, FoundBy
  <2> QED
    BY <2>1, <2>2, <2>3 DEF Passed
<1>5. ASSUME Where(c, l) = "done" PROVE Passed(c, i)
  <2>1. pc[c] = "up" \/ (pc[c] \in InAddLoop /\ Behind(c, l))
    BY <1>5 DEF Where, InAddLoop, AddSteps
  <2>2. Behind(c, l) => idx[c] > i
    BY <1>3 DEF Behind, LinkInv, TypeInv, ProcsOK
  <2> QED
    BY <2>1, <2>2 DEF Passed, Published, InAddLoop
<1>6. ~Owed(c, i)
  <2> SUFFICES ASSUME NEW x \in Containers, PodOf(x) = PodOf(d),
                      NEW j \in 1..Len(PodLinks[PodOf(x)]), WillVisit(x, j),
                      PodLinks[PodOf(x)][j].peer = PodOf(c)
               PROVE  FALSE
    BY <1>1 DEF Owed, Opposite
  <2>1. Current(x) \/ pc[x] \in {"del_link", "del_down", "del_rm", "del_skip_peer",
                                 "del_skip_this"}
    BY <1>2, NoneAssumption DEF WillVisit
  <2>2. ~Current(d)
    BY DEF LinkInv, MeetInv, LifeInv, DeadIsDead, DeadSteps
  <2>3. x # d /\ pc[x] # "new"
    BY <2>1, <2>2 DEF LinkInv, MeetInv, LifeInv, DeadIsDead, DeadSteps
  <2>4. Earlier(x, d) \/ Earlier(d, x)
    BY <2>3, SamePod
  <2> QED
    BY <2>1, <2>3, <2>4 DEF LinkInv, MeetInv, LifeInv, PredecessorsOver, OverSteps
<1>7. Passed(c, i) => Marked(c, i)
  BY <1>6 DEF MarkInv
<1> QED
  BY <1>1, <1>2, <1>4, <1>5, <1>7, NoneAssumption DEF Marked, Mark

\* d announces itself.
LEMMA PairAlive ==
    ASSUME LinkInv, MarkInv, NEW c \in Containers, NEW d \in Containers, NEW l \in Links,
           AddSetAlive(d), Near(c, d, l)'
    PROVE  Pair(c, d, l)'
<1>1. Ends(c, d, l) /\ PodOf(c) # PodOf(d) /\ c # d
  BY DEF Near, Announced, Ends
<1>2. pc[d] = "add_alive"
  BY DEF AddSetAlive, At
<1>3. Where(d, l)' \in {"ahead", "add_link"}
  BY <1>1, WhereAlive, EndsSymmetric DEF LinkInv
<1>4. Where(c, l)' = Where(c, l) /\ loc'[c] = loc[c]
  <2>1. Alone(d)
    BY AddAlone DEF LinkInv, Add
  <2> QED
    BY <1>1, <2>1, WhereKept DEF Alone
<1>5. Mark(c, d, l) => Mark(c, d, l)'
  BY PodOfContainer
  DEF AddSetAlive, SetAlive, Mark, LinkInv, TypeInv, K8sOK, StatusType
<1>6. intf'[d][l] = NoIf
  BY <1>2 DEF LinkInv, HalvesInv, BareOf, AddSetAlive, nodes
<1>7. ~Leftover(d, l)' /\ ~Stale(d, c, l)' /\ ~Astray(d, c, l)'
  BY <1>3, <1>6 DEF Stale, Astray, Leftover, NoIf, PeerSteps
<1>8. Where(c, l) \in PeerSteps \cup {"done"}
        => Mark(c, d, l)' /\ (Where(c, l) \in PeerSteps => loc[c].peer # d)
  BY <1>1, <1>2, <1>5, Unannounced
<1>9. Side(c, d, l)'
  BY <1>3, <1>4, <1>7, <1>8 DEF Side, LookSteps, GrpcSteps, Astray
<1>10. Side(d, c, l)'
  BY <1>3, <1>4, <1>7, <1>8 DEF Side, LookSteps, PeerSteps
<1> QED
  BY <1>3, <1>7, <1>9, <1>10 DEF Pair

LEMMA NearStep ==
    ASSUME LinksApart, "api" \notin Faults, LinkInv, MarkInv, NearInv, [Next]_vars
    PROVE  NearInv'
<1>1. ASSUME NEW x \in Containers, Step(x) PROVE NearInv'
  <2> SUFFICES ASSUME NEW c \in Containers, NEW d \in Containers, NEW l \in Links,
                      Near(c, d, l)'
               PROVE  Pair(c, d, l)'
    BY DEF NearInv
  <2>1. Near(d, c, l)' /\ c # d
    BY EndsSymmetric DEF Near, Announced, Ends
  <2>2. CASE x = d /\ AddSetAlive(d)
    BY <2>2, PairAlive
  <2>3. CASE x = c /\ AddSetAlive(c)
    BY <2>1, <2>3, PairAlive, PairSymmetric
  <2>4. CASE ~(x = d /\ AddSetAlive(d)) /\ ~(x = c /\ AddSetAlive(c))
    <3>1. /\ Current(c) /\ node'[c] = node[c]
          /\ Current(d) /\ node'[d] = node[d]
      BY <1>1, <2>4, LiveBefore DEF LinkInv, MeetInv, Near, Announced
    <3>2. Near(c, d, l) /\ Near(d, c, l)
      BY <3>1, NearApart DEF Near, Announced, Ends
    <3>3. Pair(c, d, l) /\ Pair(d, c, l)
      BY <3>2 DEF NearInv
    <3>4. CASE x = c
      BY <1>1, <2>4, <3>2, <3>3, <3>4, PairHere, PairElsewhere
    <3>5. CASE x = d
      BY <1>1, <2>4, <3>2, <3>3, <3>5, PairHere, PairElsewhere, PairSymmetric
    <3> QED
      BY <1>1, <3>2, <3>3, <3>4, <3>5, PairOthers
  <2> QED
    BY <2>2, <2>3, <2>4
<1>2. CASE UNCHANGED <<status, node, intf, procs>>
  <2> SUFFICES ASSUME NEW c \in Containers, NEW d \in Containers, NEW l \in Links,
                      Near(c, d, l)'
               PROVE  Pair(c, d, l)'
    BY DEF NearInv
  <2>1. Near(c, d, l)
    BY <1>2 DEF Near, Announced, Ends, Current
  <2>2. Rest(c, d, l) /\ Where(c, l)' = Where(c, l) /\ EndsKept(c, d, l)
    BY <1>2, WhereKept DEF procs, Rest, Mark, EndsKept
  <2> QED
    BY <1>2, <2>1, <2>2, PairUnmoved DEF procs, NearInv
<1> QED
  BY <1>1, <1>2 DEF Next, RefreshNodeIPs, vars, k8s, nodes, Step

LEMMA NearInit == Init => NearInv
BY PodOfContainer, NoneAssumption DEF Init, NearInv, Near, Announced, Current, FreshStatus

\* LostOnlyBySkipRaceHolds: if a link uid belongs to one pair of pods, macvlan
\* links come last, the node lists are complete, a pod's sandbox starts only when
\* its predecessor is gone, and the API server answers, then two pods that are up
\* on one node have their veth pair, except when the pod with the greater name
\* looked for its peer too early and skipped it, and the peer looked for that
\* mark too early and left the pair to it. Restarts, interfaces left behind by
\* earlier links to other nodes, and lost calls between daemons do not matter,
\* for any number of pods and restarts.
THEOREM LostOnlyBySkipRaceHolds ==
    ASSUME LinksApart, MacvlanAtEnd, ~StaleNodes, ~Overlap, "api" \notin Faults
    PROVE  Spec => []LostOnlyBySkipRace
<1>1. Init => MeetInv
  BY MeetInit
<1>2. TypeInv /\ MeetInv /\ [Next]_vars => MeetInv'
  BY MeetStep
<1>3. TypeInv /\ LinkInv /\ [Next]_vars => PeersInv' /\ NsInv' /\ PairsInv' /\ HalvesInv'
  BY LifeNotYet, PeersStep, NsStep, PairsStep, HalvesStep
  DEF LinkInv, MeetInv, SkipInv, HereInv
<1>4. LinkInv /\ MarkInv /\ [Next]_vars => MarkInv'
  BY MarkStep DEF LinkInv, MeetInv, SkipInv, HereInv
<1>5. LinkInv /\ MarkInv /\ NearInv /\ [Next]_vars => NearInv'
  BY NearStep
<1>6. ASSUME NearInv PROVE LostOnlyBySkipRace
  <2> SUFFICES ASSUME NEW c \in Containers, NEW d \in Containers, NEW l \in Links,
                      Settled(c, d, l), SameHost(c, d), PodOf(c) > PodOf(d)
               PROVE  \/ Wired(c, d, l)
                      \/ out[c][l] = "skip" /\ out[d][l] = "defer"
    BY DEF LostOnlyBySkipRace
  <2>1. PodOf(c) \in Nat /\ PodOf(d) \in Nat
    BY PodOfContainer, PodsAssumption
  <2>2. Near(c, d, l) /\ ~Raced(d, c, l)
    BY <2>1 DEF Near, Announced, Settled, SameHost, Raced
  <2>3. Where(c, l) = "done" /\ Where(d, l) = "done"
    BY DEF Settled, At, Where, InAddLoop, AddSteps
  <2>4. Joined(c, d, l) \/ Raced(c, d, l)
    BY <1>6, <2>2, <2>3 DEF NearInv, Pair
  <2> QED
    BY <2>4 DEF Joined, Raced, Wired, Reaches
<1> QED
  BY <1>1, <1>2, <1>3, <1>4, <1>5, <1>6, InitType, NextType, PeersInit, NsInit, PairsInit,
     HalvesInit, MarkInit, NearInit, PTL DEF Spec, LinkInv

-----------------------------------------------------------------------------
(* VXLAN links between nodes.                                               *)

\* No gRPC wire exists, and nobody is about to make one.
NoWires == \A c \in Containers : \A l \in Links : wire[c][l].st = "none"
OnlyVxlan ==
    /\ NoWires
    /\ \A c \in Containers : pc[c] \in PeerSteps => pc[c] \in VethSteps \cup VxSteps

\* With VXLAN links the steps that make gRPC wires do not occur, and without
\* API errors a lost update is the only failure.
LostUpdate(c) ==
    /\ At(c, "vx_update")
    /\ RemoteUpdate(c, loc[c].peer, Link(c)) \/ UNCHANGED <<intf, vxlinks>>
    /\ Fail(c)
    /\ UNCHANGED <<wire, k8s, node, netns>>

LEMMA FaultIsLoss ==
    ASSUME VxlanCluster, OnlyVxlan, NEW c \in Containers, Fault(c)
    PROVE  LostUpdate(c)
<1>1. RpcFault(c)
  BY DEF Fault, AddApiFault, DelApiFault, UseFault, VxlanCluster, Cluster
<1>2. pc[c] # "grpc_remote"
  BY DEF OnlyVxlan, PeerSteps, VethSteps, VxSteps
<1> QED
  BY <1>1, <1>2 DEF RpcFault, LostUpdate, At, VxlanCluster

LEMMA NoGrpcSteps ==
    ASSUME OnlyVxlan, NEW c \in Containers, Add(c)
    PROVE  \/ AddSetAlive(c) \/ AddMacvlan(c) \/ AddGetPeer(c) \/ AddSkip(c)
           \/ VethExistMine(c) \/ VethExistPeer(c) \/ VethRemove(c)
           \/ VethIsSkipped(c) \/ VethMake(c) \/ VethJoin(c)
           \/ VxClean(c) \/ VxMake(c) \/ VxRegister(c) \/ VxUpdate(c)
<1>1. pc[c] \notin {"grpc_skipped", "grpc_wait", "grpc_poll", "grpc_exists",
                    "grpc_veth", "grpc_remote", "grpc_local"}
  BY DEF OnlyVxlan, PeerSteps, VethSteps, VxSteps
<1> QED
  BY <1>1 DEF Add, GrpcIsSkipped, GrpcWait, GrpcPoll, GrpcExists, GrpcVeth,
              GrpcRemote, GrpcLocal, At

\* Nobody makes a wire.
LEMMA WiresKept ==
    ASSUME VxlanCluster, TypeInv, OnlyVxlan, NEW c \in Containers, Step(c)
    PROVE  NoWires'
<1>1. CASE Add(c)
  <2>1. UNCHANGED wire
    BY <1>1, NoGrpcSteps
    DEF AddSetAlive, AddMacvlan, AddGetPeer, AddSkip, VethExistMine, VethExistPeer,
        VethRemove, VethIsSkipped, VethMake, VethJoin, VxClean, VxMake, VxRegister,
        VxUpdate, nodes
  <2> QED
    BY <2>1 DEF OnlyVxlan, NoWires
<1>2. CASE Del(c)
  <2>1. CASE DelWires(c)
    BY <2>1 DEF DelWires, DropPodWires, NoWire, OnlyVxlan, NoWires
  <2>2. UNCHANGED wire \/ DelWires(c)
    BY <1>2 DEF Del, DelGet, DelClear, DelGetPeer, DelDown, DelRemove,
                DelSkipPeer, DelSkipThis, nodes, VxlanCluster
  <2> QED
    BY <2>1, <2>2 DEF OnlyVxlan, NoWires
<1>3. CASE Kubelet(c) \/ Fault(c)
  BY <1>3, FaultIsLoss DEF LostUpdate, Kubelet, StartPod, StartDel, RepeatDel,
     RemoveSandbox, nodes, OnlyVxlan, NoWires
<1> QED
  BY <1>1, <1>2, <1>3 DEF Step

LEMMA VxlanStep ==
    ASSUME VxlanCluster, TypeInv, OnlyVxlan, [Next]_vars
    PROVE  OnlyVxlan'
<1>1. ASSUME NEW c \in Containers, Step(c) PROVE OnlyVxlan'
  <2>1. ASSUME AddGetPeer(c), pc'[c] \in PeerSteps PROVE pc'[c] \in VethSteps \cup VxSteps
    BY <2>1 DEF AddGetPeer, GotoWith, VxlanCluster, VethSteps, VxSteps, PeerSteps,
                TypeInv, ProcsOK
  <2>2. pc'[c] \in PeerSteps => pc'[c] \in VethSteps \cup VxSteps
    BY <1>1, <2>1, OthersStay DEF Stays, OnlyVxlan
  <2> QED
    BY <1>1, <2>2, WiresKept, StepAlone DEF Alone, OnlyVxlan
<1>2. CASE UNCHANGED <<wire, procs>>
  BY <1>2 DEF procs, OnlyVxlan, NoWires
<1> QED
  BY <1>1, <1>2 DEF Next, RefreshNodeIPs, vars, nodes, Step

LEMMA VxlanInit == Init => OnlyVxlan
BY DEF Init, OnlyVxlan, NoWires, NoWire, PeerSteps

-----------------------------------------------------------------------------
(* What a step can do to the end of a link.                                 *)

\* The steps that change the own interface for the link at hand, and those that
\* change the peer's.
OwnHands == {"add_link", "veth_rm", "veth_make", "veth_join", "vx_clean", "vx_make",
             "del_rm"}
PeerHands == {"veth_rm", "veth_join", "vx_update"}

Handles(x, y, l) ==
    \/ y = x /\ pc[x] = "del_done"
    \/ /\ Link(x) = l
       /\ \/ y = x /\ pc[x] \in OwnHands
          \/ y = loc[x].peer /\ pc[x] \in PeerHands

\* An interface that is not the end of a veth pair is changed by nobody else.
LEMMA IntfKept ==
    ASSUME VxlanCluster, TypeInv, OnlyVxlan, NEW x \in Containers, Step(x),
           NEW y \in Containers, NEW l \in Links,
           intf[y][l].to \notin Containers, ~Handles(x, y, l)
    PROVE  intf'[y][l] = intf[y][l]
<1>1. ASSUME NEW e \in Containers, NEW m \in Links, e # y \/ m # l
      PROVE  Unplug(intf, e, m)[y][l] = intf[y][l]
  BY <1>1 DEF Unplug
<1>2. /\ pc[x] \in LoopSteps => Link(x) \in Links
      /\ pc[x] \in PeerSteps => loc[x].peer \in Containers
  BY CurrentLink DEF TypeInv, ProcsOK, HasPeer
<1>3. ASSUME NEW e \in Containers, NEW m \in Links, e # y \/ m # l, RemoteUpdate(x, e, m)
      PROVE  intf'[y][l] = intf[y][l]
  <2> DEFINE U == Unplug(intf, e, m)
  <2>1. /\ U[y][l] = intf[y][l] /\ DOMAIN U = Containers
        /\ \A z \in Containers : DOMAIN U[z] = Links
    BY <1>1, <1>3 DEF Unplug
  <2>2. intf' = intf \/ intf' = [U EXCEPT ![e][m] = If("vx", node[x])]
    BY <1>3 DEF RemoteUpdate
  <2> HIDE DEF U
  <2> QED
    BY <1>3, <2>1, <2>2
<1>4. CASE Add(x)
  <2>1. CASE UNCHANGED intf
    BY <2>1
  <2>2. CASE AddMacvlan(x) \/ VethMake(x) \/ VxMake(x)
    BY <2>2 DEF AddMacvlan, VethMake, VxMake, At, Handles, OwnHands, TypeInv, NodesOK
  <2>3. CASE VethRemove(x)
    <3>1. /\ pc[x] = "veth_rm" /\ Link(x) \in Links /\ loc[x].peer \in Containers
      BY <1>2, <2>3 DEF VethRemove, At, LoopSteps, PeerSteps
    <3> QED
      BY <1>1, <2>3, <3>1 DEF VethRemove, Handles, OwnHands, PeerHands
  <2>4. CASE VethJoin(x)
    <3>1. /\ pc[x] = "veth_join" /\ Link(x) \in Links /\ loc[x].peer \in Containers
      BY <1>2, <2>4 DEF VethJoin, At, LoopSteps, PeerSteps
    <3>2. Link(x) = l => y # x /\ y # loc[x].peer
      BY <3>1 DEF Handles, OwnHands, PeerHands
    <3> QED
      BY <1>1, <2>4, <3>1, <3>2 DEF VethJoin, TypeInv, NodesOK
  <2>5. CASE VxClean(x)
    <3>1. /\ pc[x] = "vx_clean" /\ Link(x) \in Links
      BY <1>2, <2>5 DEF VxClean, At, LoopSteps, PeerSteps
    <3> QED
      BY <1>1, <2>5, <3>1 DEF VxClean, Handles, OwnHands
  <2>6. CASE VxUpdate(x)
    <3>1. /\ pc[x] = "vx_update" /\ Link(x) \in Links /\ loc[x].peer \in Containers
      BY <1>2, <2>6 DEF VxUpdate, At, LoopSteps, PeerSteps
    <3>2. Link(x) # l \/ y # loc[x].peer
      BY <3>1 DEF Handles, PeerHands
    <3> QED
      BY <1>3, <2>6, <3>1, <3>2 DEF VxUpdate
  <2> QED
    BY <1>4, <2>1, <2>2, <2>3, <2>4, <2>5, <2>6, NoGrpcSteps
    DEF AddSetAlive, AddGetPeer, AddSkip, VethExistMine, VethExistPeer,
        VethIsSkipped, VxRegister, nodes
<1>5. CASE Del(x)
  <2>1. CASE DelWires(x)
    BY <2>1 DEF DelWires, DropPodWires, PodWire, OnlyVxlan, NoWires
  <2>2. CASE DelRemove(x)
    <3>1. /\ pc[x] = "del_rm" /\ Link(x) \in Links
      BY <1>2, <2>2 DEF DelRemove, At, LoopSteps
    <3> QED
      BY <1>1, <2>2, <3>1 DEF DelRemove, Handles, OwnHands
  <2> QED
    BY <1>5, <2>1, <2>2 DEF Del, DelGet, DelClear, DelGetPeer, DelDown,
                            DelSkipPeer, DelSkipThis, nodes
<1>6. CASE Kubelet(x)
  BY <1>6 DEF Kubelet, StartPod, StartDel, RepeatDel, RemoveSandbox, DropNs, At, nodes,
              Handles
<1>7. CASE Fault(x)
  <2>1. LostUpdate(x)
    BY <1>7, FaultIsLoss
  <2>2. /\ pc[x] = "vx_update" /\ Link(x) \in Links /\ loc[x].peer \in Containers
    BY <1>2, <2>1 DEF LostUpdate, At, LoopSteps, PeerSteps
  <2>3. Link(x) # l \/ y # loc[x].peer
    BY <2>2 DEF Handles, PeerHands
  <2> QED
    BY <1>3, <2>1, <2>2, <2>3 DEF LostUpdate
<1> QED
  BY <1>4, <1>5, <1>6, <1>7 DEF Step

\* A registry is changed by the plugins on its node, and by the peers of those.
Registers(x, n, l) ==
    /\ Link(x) = l
    /\ \/ pc[x] \in {"vx_register", "del_down"} /\ n = node[x]
       \/ pc[x] = "vx_update" /\ n = node[loc[x].peer]

LEMMA RegistryKept ==
    ASSUME VxlanCluster, TypeInv, OnlyVxlan, NEW x \in Containers, Step(x),
           NEW n \in Nodes, NEW l \in Links, ~Registers(x, n, l)
    PROVE  vxlinks'[n][l] = vxlinks[n][l]
<1>1. CASE UNCHANGED vxlinks
  BY <1>1
<1>2. CASE VxRegister(x) \/ DelDown(x)
  BY <1>2 DEF VxRegister, DelDown, At, Registers, TypeInv, NodesOK
<1>3. CASE VxUpdate(x) \/ LostUpdate(x)
  <2>1. CASE RemoteUpdate(x, loc[x].peer, Link(x))
    <3>1. ~(n = node[loc[x].peer] /\ l = Link(x))
      BY <1>3 DEF VxUpdate, LostUpdate, At, Registers
    <3> QED
      BY <2>1, <3>1 DEF RemoteUpdate, TypeInv, NodesOK
  <2> QED
    BY <1>1, <1>3, <2>1 DEF VxUpdate, LostUpdate
<1>4. CASE Add(x)
  BY <1>1, <1>2, <1>3, <1>4, NoGrpcSteps
  DEF AddSetAlive, AddMacvlan, AddGetPeer, AddSkip, VethExistMine, VethExistPeer,
      VethRemove, VethIsSkipped, VethMake, VethJoin, VxClean, VxMake, nodes
<1>5. CASE Del(x) \/ Kubelet(x)
  BY <1>1, <1>2, <1>5
  DEF Del, DelGet, DelWires, DelClear, DelGetPeer, DelRemove, DelSkipPeer, DelSkipThis,
      Kubelet, StartPod, StartDel, RepeatDel, RemoveSandbox, nodes
<1> QED
  BY <1>3, <1>4, <1>5, FaultIsLoss DEF Step

-----------------------------------------------------------------------------
(* The two ends of a link.                                                  *)

\* c and d are announced at the two ends of l, on different nodes.
Live(c, d, l) == Ends(c, d, l) /\ Current(c) /\ Current(d) /\ node[c] # node[d]

\* ADD has done with link l what it will do, or is at a point from which it does
\* nothing to the link of a live pair any more.
IdleSteps == {"add_skip", "veth_mine", "veth_peer", "veth_skipped"}
Past(c, l) ==
    \/ pc[c] = "up"
    \/ /\ pc[c] \in Published
       /\ \E i \in 1..Len(PodLinks[PodOf(c)]) :
            PodLinks[PodOf(c)][i].link = l /\ i < idx[c]
    \/ pc[c] \in IdleSteps /\ Link(c) = l

\* c is making the link to d, and its own interface is there.
Making(c, d, l) ==
    pc[c] \in {"vx_register", "vx_update"} /\ Link(c) = l /\ loc[c].peer = d

HasIf(c, d, l) ==
    (Past(c, l) /\ Past(d, l)) \/ Making(c, d, l) => intf[c][l] = If("vx", node[d])
IsRegistered(c, d, l) ==
    (Past(c, l) /\ Past(d, l)) \/ (Making(c, d, l) /\ pc[c] = "vx_update")
        => vxlinks[node[c]][l] = VxEndpoint(c, node[d])

VxInv == \A c, d \in Containers : \A l \in Links :
            Live(c, d, l) => HasIf(c, d, l) /\ IsRegistered(c, d, l)

LEMMA LiveApart ==
    ASSUME NEW c \in Containers, NEW d \in Containers, NEW l \in Links, Live(c, d, l)
    PROVE  Live(d, c, l) /\ c # d /\ PodOf(c) # PodOf(d)
BY EndsSymmetric DEF Live, Current

\* Whoever of a live pair finds its peer in its namespace deals with it over VXLAN.
LEMMA RightVx ==
    ASSUME TypeInv, LifeInv, PeersInv, OnlyVxlan, NsInv, NEW c \in Containers,
           NEW d \in Containers, NEW l \in Links, Live(c, d, l), pc[c] \in PeerSteps,
           Link(c) = l, loc[c].peer \in netns
    PROVE  loc[c].peer = d /\ pc[c] \in VxSteps
<1>1. loc[c].peer = d
  BY RightNs DEF Live, Announced
<1> QED
  BY <1>1 DEF Live, PeersInv, FoundBy, OnlyVxlan

\* A step of another process than c leaves c's end of a link to d as it is.
LEMMA EndKept ==
    ASSUME VxlanCluster, TypeInv, HereInv, LifeInv, PeersInv, OnlyVxlan, NsInv,
           NEW c \in Containers, NEW d \in Containers, NEW l \in Links, Live(c, d, l),
           NEW x \in Containers, Step(x), x # c
    PROVE  /\ intf[c][l] = If("vx", node[d]) => intf'[c][l] = If("vx", node[d])
           /\ vxlinks[node[c]][l] = VxEndpoint(c, node[d])
                => vxlinks'[node[c]][l] = VxEndpoint(c, node[d])
<1>1. node[c] \in Nodes /\ node[d] \in Nodes
  BY DEF Live, LifeInv, DeadIsDead, DeadSteps, HereInv, Placed
<1>2. CASE VxUpdate(x) \/ LostUpdate(x)
  <2>1. pc[x] = "vx_update" /\ pc[x] \in PeerSteps /\ loc[x].peer \in Containers
    BY <1>2 DEF VxUpdate, LostUpdate, At, PeerSteps, TypeInv, ProcsOK, HasPeer
  <2>2. CASE Link(x) = l /\ loc[x].peer \in netns
    <3>1. x = d
      BY <2>1, <2>2, OnlyTwo DEF Live, Announced, LoopSteps, VxlanCluster, Cluster
    <3>2. loc[x].peer = c
      BY <2>1, <2>2, <3>1, LiveApart, RightVx
    <3>3. CASE RemoteUpdate(x, c, l)
      <4> DEFINE U == Unplug(intf, c, l)
      <4>1. DOMAIN U = Containers /\ \A z \in Containers : DOMAIN U[z] = Links
        BY DEF Unplug
      <4>2. \/ intf' = intf /\ intf[c][l] = If("vx", node[d])
            \/ intf' = [U EXCEPT ![c][l] = If("vx", node[d])]
        BY <3>1, <3>3 DEF RemoteUpdate
      <4>3. vxlinks' = [vxlinks EXCEPT ![node[c]][l] = VxEndpoint(c, node[d])]
        BY <3>1, <3>3 DEF RemoteUpdate
      <4> HIDE DEF U
      <4> QED
        BY <1>1, <4>1, <4>2, <4>3 DEF TypeInv, NodesOK
    <3> QED
      BY <1>2, <2>2, <3>2, <3>3 DEF VxUpdate, LostUpdate
  <2>3. CASE Link(x) = l /\ loc[x].peer \notin netns
    BY <1>2, <2>3 DEF VxUpdate, LostUpdate, RemoteUpdate
  <2>4. CASE Link(x) # l
    <3>1. ~Handles(x, c, l) /\ ~Registers(x, node[c], l)
      BY <2>1, <2>4 DEF Handles, Registers
    <3>2. intf[c][l] = If("vx", node[d]) => intf[c][l].to \notin Containers
      BY <1>1, NoneAssumption DEF If
    <3> QED
      BY <1>1, <3>1, <3>2, IntfKept, RegistryKept
  <2> QED
    BY <2>2, <2>3, <2>4
<1>3. CASE ~VxUpdate(x) /\ ~LostUpdate(x)
  <2>1. pc[x] # "vx_update"
    BY <1>3, NoGrpcSteps, FaultIsLoss
    DEF Step, AddSetAlive, AddMacvlan, AddGetPeer, AddSkip, VethExistMine, VethExistPeer,
        VethRemove, VethJoin, VethIsSkipped, VethMake, VxClean, VxMake, VxRegister,
        Del, DelGet, DelWires, DelClear, DelGetPeer, DelDown,
        DelRemove, DelSkipPeer, DelSkipThis, Kubelet, StartPod, StartDel, RepeatDel,
        RemoveSandbox, At
  <2>2. ~Handles(x, c, l)
    <3> SUFFICES ASSUME Link(x) = l, loc[x].peer = c, pc[x] \in {"veth_rm", "veth_join"}
                 PROVE  FALSE
      BY <2>1 DEF Handles, PeerHands
    <3>1. x = d
      BY OnlyTwo DEF Live, Announced, LoopSteps, PeerSteps, VxlanCluster, Cluster
    <3> QED
      BY <3>1 DEF PeersInv, FoundBy, PeerSteps, VethSteps, Live
  <2>3. ~Registers(x, node[c], l)
    <3> SUFFICES ASSUME Link(x) = l, pc[x] \in {"vx_register", "del_down"},
                        node[x] = node[c]
                 PROVE  FALSE
      BY <2>1 DEF Registers
    <3>1. x = d
      BY OnlyTwo DEF Live, Announced, LoopSteps, PeerSteps, VxlanCluster, Cluster
    <3> QED
      BY <3>1 DEF Live
  <2>4. intf[c][l] = If("vx", node[d]) => intf[c][l].to \notin Containers
    BY <1>1, NoneAssumption DEF If
  <2> QED
    BY <1>1, <2>2, <2>3, <2>4, IntfKept, RegistryKept
<1> QED
  BY <1>2, <1>3

\* Being done with a link that is not l passes l only if it was passed.
LEMMA DecidePast ==
    ASSUME TypeInv, NEW c \in Containers, NEW d \in Containers, NEW l \in Links,
           Ends(c, d, l), NEW how, Decide(c, how), pc[c] \in LoopSteps,
           pc[c] \in Published, Past(c, l)'
    PROVE  Past(c, l) \/ Link(c) = l
<1>1. PICK i \in 1..Len(PodLinks[PodOf(c)]) :
        PodLinks[PodOf(c)][i] = [link |-> l, peer |-> PodOf(d)]
  BY DEF Ends
<1>2. /\ idx[c] \in 1..Len(PodLinks[PodOf(c)])
      /\ PodLinks[PodOf(c)] \in Seq(LinkRec)
  BY PodOfContainer, PodLinksAssumption DEF TypeInv, ProcsOK, InLoop
<1>3. Len(PodLinks[PodOf(c)]) \in Nat
  BY <1>2
<1>4. /\ idx'[c] = idx[c] + 1
      /\ pc'[c] = IF idx[c] + 1 > Len(PodLinks[PodOf(c)]) THEN "up" ELSE "add_link"
  BY DEF Decide, LoopAt, TypeInv, ProcsOK
<1>5. i < idx'[c]
  <2>1. CASE pc'[c] = "up"
    BY <1>2, <1>3, <1>4, <2>1
  <2>2. CASE pc'[c] = "add_link"
    <3>1. PICK j \in 1..Len(PodLinks[PodOf(c)]) :
            PodLinks[PodOf(c)][j].link = l /\ j < idx'[c]
      BY <2>2 DEF Past, IdleSteps
    <3>2. j = i
      BY <1>1, <3>1, PodOfContainer, LinkOnce
    <3> QED
      BY <3>1, <3>2
  <2> QED
    BY <1>4, <2>1, <2>2
<1>6. CASE i = idx[c]
  BY <1>1, <1>6 DEF Link, Cur
<1>7. CASE i < idx[c]
  BY <1>1, <1>7 DEF Past
<1> QED
  BY <1>2, <1>3, <1>4, <1>5, <1>6, <1>7

\* The Get of a live pair finds the other one, and that on another node.
LEMMA GetFindsOther ==
    ASSUME VxlanCluster, TypeInv, SkipInv, NEW c \in Containers,
           NEW d \in Containers, NEW l \in Links, Live(c, d, l), AddGetPeer(c),
           Link(c) = l
    PROVE  pc'[c] = "vx_clean"
<1>1. Get(status, Peer(c), knows[node[c]]) = d /\ d # None
  BY GetFinds DEF Live, Announced
<1> QED
  BY <1>1 DEF AddGetPeer, GotoWith, Live, VxlanCluster, TypeInv, ProcsOK

\* A process gets past the link of a live pair by making it.
LEMMA PastGrows ==
    ASSUME VxlanCluster, TypeInv, MeetInv, PeersInv, OnlyVxlan, NsInv,
           NEW c \in Containers, NEW d \in Containers, NEW l \in Links, Live(c, d, l),
           Step(c), Past(c, l)'
    PROVE  \/ Past(c, l)
           \/ At(c, "vx_update") /\ Making(c, d, l) /\ RemoteUpdate(c, d, l)
<1>1. /\ SkipInv /\ LifeInv /\ PublishedIsCurrent
  BY DEF MeetInv
<1>2. PICK i \in 1..Len(PodLinks[PodOf(c)]) :
        PodLinks[PodOf(c)][i] = [link |-> l, peer |-> PodOf(d)]
  BY DEF Live, Ends
<1>3. Len(PodLinks[PodOf(c)]) \in Nat
  BY PodOfContainer, PodLinksAssumption
<1>4. pc'[c] \in Published
  BY DEF Past, Published, IdleSteps, AddSteps
<1>5. Add(c)
  <2>1. ~Del(c)
    BY <1>4, DelMoves DEF Published, AddSteps, DelSteps
  <2>2. ASSUME Kubelet(c) PROVE pc'[c] \in {"add_alive", "del_get", "gone"}
    BY <2>2 DEF Kubelet, StartPod, StartDel, RepeatDel, RemoveSandbox,
                Leave, Goto, GotoWith, TypeInv, ProcsOK
  <2>3. ASSUME Fault(c) PROVE pc'[c] = "add_failed"
    BY <2>3, FaultIsLoss DEF LostUpdate, Fail, Leave, GotoWith, TypeInv, ProcsOK
  <2> QED
    BY <1>4, <2>1, <2>2, <2>3 DEF Step, Published, AddSteps
<1>6. CASE AddSetAlive(c)
  <2>1. /\ idx'[c] = 1
        /\ pc'[c] = IF 1 > Len(PodLinks[PodOf(c)]) THEN "up" ELSE "add_link"
    BY <1>6 DEF AddSetAlive, LoopAt, TypeInv, ProcsOK
  <2>2. pc'[c] = "add_link"
    BY <1>2, <1>3, <2>1
  <2> QED
    BY <2>1, <2>2 DEF Past, IdleSteps
<1>7. ASSUME ~AddSetAlive(c) PROVE pc[c] \in Published
  BY <1>5, <1>7, AddMoves DEF Published
<1>8. ASSUME ~AddSetAlive(c), idx'[c] = idx[c], pc'[c] # "up", pc'[c] \notin IdleSteps
      PROVE  Past(c, l)
  BY <1>7, <1>8 DEF Past
<1>9. ASSUME NEW how, Decide(c, how), ~AddSetAlive(c), pc[c] \in LoopSteps
      PROVE  Past(c, l) \/ Link(c) = l
  BY <1>7, <1>9, DecidePast DEF Live
<1>10. CASE AddMacvlan(c)
  <2>1. Link(c) # l /\ pc[c] \in LoopSteps /\ ~AddSetAlive(c)
    BY <1>10, PeerOfLink, PodOfContainer, NoneAssumption
    DEF AddMacvlan, AddSetAlive, At, LoopSteps, Live, TypeInv
  <2> QED
    BY <1>9, <1>10, <2>1 DEF AddMacvlan
<1>11. CASE AddGetPeer(c)
  <2>1. ~AddSetAlive(c) /\ idx'[c] = idx[c] /\ pc'[c] # "up"
    BY <1>11 DEF AddGetPeer, AddSetAlive, At, GotoWith, TypeInv, ProcsOK
  <2>2. CASE Link(c) = l
    BY <1>1, <1>8, <1>11, <2>1, <2>2, GetFindsOther DEF IdleSteps
  <2>3. CASE Link(c) # l
    BY <1>7, <2>1, <2>3 DEF Past, Link, Cur
  <2> QED
    BY <2>2, <2>3
<1>12. CASE pc[c] \in IdleSteps
  <2>1. ~AddSetAlive(c) /\ pc[c] \in LoopSteps
    BY <1>12 DEF AddSetAlive, At, IdleSteps, LoopSteps, PeerSteps
  <2>2. CASE Link(c) = l
    BY <1>12, <2>2 DEF Past
  <2>3. CASE Link(c) # l
    <3>1. \/ \E how : Decide(c, how)
          \/ idx'[c] = idx[c] /\ pc'[c] # "up"
      BY <1>5, <1>12, NoGrpcSteps
      DEF AddSetAlive, AddMacvlan, AddGetPeer, AddSkip, VethExistMine, VethExistPeer,
          VethRemove, VethJoin, VethIsSkipped, VethMake, VxClean, VxMake, VxRegister,
          VxUpdate, At, IdleSteps, Goto, GotoWith, Fail, Leave, TypeInv, ProcsOK
    <3>2. CASE \E how : Decide(c, how)
      BY <1>9, <2>1, <2>3, <3>2
    <3>3. CASE idx'[c] = idx[c] /\ pc'[c] # "up"
      BY <1>7, <2>1, <2>3, <3>3 DEF Past, Link, Cur
    <3> QED
      BY <3>1, <3>2, <3>3
  <2> QED
    BY <2>2, <2>3
<1>13. CASE VethRemove(c) \/ VethMake(c) \/ VxClean(c) \/ VxMake(c) \/ VxRegister(c)
  <2>1. /\ ~AddSetAlive(c) /\ idx'[c] = idx[c]
        /\ pc'[c] \in {"veth_make", "veth_join", "vx_make", "vx_register", "vx_update",
                       "add_failed"}
    BY <1>13 DEF VethRemove, VethMake, VxClean, VxMake, VxRegister, AddSetAlive, At,
                 Goto, GotoWith, Fail, Leave, TypeInv, ProcsOK
  <2> QED
    BY <1>8, <2>1 DEF IdleSteps
<1>14. CASE VethJoin(c) \/ VxUpdate(c)
  <2>1. /\ ~AddSetAlive(c) /\ pc[c] \in LoopSteps /\ pc[c] \in PeerSteps
        /\ pc[c] \in {"veth_join", "vx_update"}
    BY <1>14 DEF VethJoin, VxUpdate, AddSetAlive, At, LoopSteps, PeerSteps
  <2>2. CASE Fail(c)
    BY <1>4, <2>2 DEF Fail, Leave, GotoWith, TypeInv, ProcsOK, Published, AddSteps
  <2>3. CASE Decide(c, "made") /\ Link(c) # l
    BY <1>9, <2>1, <2>3
  <2>4. CASE Decide(c, "made") /\ Link(c) = l /\ ~Fail(c)
    <3>1. loc[c].peer \in netns
      BY <1>14, <2>4 DEF VethJoin, VxUpdate, RemoteUpdate
    <3>2. loc[c].peer = d /\ pc[c] \in VxSteps
      BY <1>1, <2>1, <2>4, <3>1, RightVx
    <3>3. VxUpdate(c) /\ At(c, "vx_update")
      BY <1>14, <3>2 DEF VethJoin, VxUpdate, At, VxSteps
    <3> QED
      BY <2>4, <3>2, <3>3 DEF VxUpdate, At, Making
  <2> QED
    BY <1>14, <2>2, <2>3, <2>4 DEF VethJoin, VxUpdate
<1> QED
  BY <1>5, <1>6, <1>10, <1>11, <1>12, <1>13, <1>14, NoGrpcSteps
  DEF AddSkip, VethExistMine, VethExistPeer, VethIsSkipped, At, IdleSteps

\* How c comes to have its own interface, and then its registry entry.
LEMMA MakingGrows ==
    ASSUME VxlanCluster, TypeInv, OnlyVxlan, NEW c \in Containers,
           NEW d \in Containers, NEW l \in Links, Step(c), Making(c, d, l)'
    PROVE  /\ loc[c].peer = d /\ Link(c) = l
           /\ \/ VxMake(c) /\ ~Exists(c, l) /\ pc'[c] = "vx_register"
              \/ VxRegister(c)
<1>1. pc'[c] \in {"vx_register", "vx_update"}
  BY DEF Making
<1>2. Add(c)
  <2>1. ~Del(c)
    BY <1>1, DelMoves DEF DelSteps
  <2>2. ASSUME Kubelet(c) PROVE pc'[c] \in {"add_alive", "del_get", "gone"}
    BY <2>2 DEF Kubelet, StartPod, StartDel, RepeatDel, RemoveSandbox,
                Leave, Goto, GotoWith, TypeInv, ProcsOK
  <2>3. ASSUME Fault(c) PROVE pc'[c] = "add_failed"
    BY <2>3, FaultIsLoss DEF LostUpdate, Fail, Leave, GotoWith, TypeInv, ProcsOK
  <2> QED
    BY <1>1, <2>1, <2>2, <2>3 DEF Step
<1>3. VxMake(c) \/ VxRegister(c)
  <2>1. CASE AddSetAlive(c) \/ AddMacvlan(c) \/ AddGetPeer(c) \/ AddSkip(c)
    BY <1>1, <2>1 DEF AddSetAlive, AddMacvlan, AddGetPeer, AddSkip, Decide, LoopAt,
                      GotoWith, TypeInv, ProcsOK, VxlanCluster
  <2>2. CASE \/ VethExistMine(c) \/ VethExistPeer(c) \/ VethRemove(c)
             \/ VethIsSkipped(c) \/ VethMake(c) \/ VethJoin(c)
    BY <1>1, <2>2 DEF VethExistMine, VethExistPeer, VethRemove, VethIsSkipped, VethMake,
                      VethJoin, Decide, LoopAt, Goto, GotoWith, Fail, Leave,
                      TypeInv, ProcsOK
  <2>3. CASE VxClean(c) \/ VxUpdate(c)
    BY <1>1, <2>3 DEF VxClean, VxUpdate, Decide, LoopAt, Goto, GotoWith, Fail, Leave,
                      TypeInv, ProcsOK
  <2> QED
    BY <1>2, <2>1, <2>2, <2>3, NoGrpcSteps
<1>4. ~Fail(c)
  BY <1>1 DEF Fail, Leave, GotoWith, TypeInv, ProcsOK
<1>5. loc'[c] = loc[c] /\ idx'[c] = idx[c]
  BY <1>3, <1>4 DEF VxMake, VxRegister, Goto, GotoWith, TypeInv, ProcsOK
<1>6. loc[c].peer = d /\ Link(c) = l
  BY <1>5 DEF Making, Link, Cur
<1> QED
  BY <1>3, <1>4, <1>6 DEF VxMake, Goto, GotoWith, TypeInv, ProcsOK

\* The two processes of a live pair and all others keep c's end in order.
LEMMA EndStep ==
    ASSUME VxlanCluster, TypeInv, MeetInv, PeersInv, OnlyVxlan, NsInv, VxInv,
           NEW x \in Containers, Step(x),
           NEW c \in Containers, NEW d \in Containers, NEW l \in Links, Live(c, d, l),
           UNCHANGED <<node[c], node[d]>>
    PROVE  HasIf(c, d, l)' /\ IsRegistered(c, d, l)'
<1>1. /\ HasIf(c, d, l) /\ IsRegistered(c, d, l)
      /\ Live(d, c, l) /\ c # d /\ SkipInv /\ LifeInv /\ HereInv
  BY LiveApart DEF VxInv, MeetInv, SkipInv, HereInv
<1>2. node[c] \in Nodes /\ node[d] \in Nodes
  BY <1>1 DEF Live, LifeInv, DeadIsDead, DeadSteps, HereInv, Placed
<1>3. \A y \in Containers \ {x} :
        /\ Past(y, l)' <=> Past(y, l)
        /\ \A z \in Containers : Making(y, z, l)' <=> Making(y, z, l)
        /\ pc'[y] = pc[y]
  BY StepAlone DEF Alone, Past, Making, Link, Cur
<1> DEFINE If1 == intf'[c][l] = If("vx", node[d])
           Reg1 == vxlinks'[node[c]][l] = VxEndpoint(c, node[d])
<1>4. SUFFICES /\ (Past(c, l)' /\ Past(d, l)') => If1 /\ Reg1
               /\ Making(c, d, l)' => If1
               /\ Making(c, d, l)' /\ pc'[c] = "vx_update" => Reg1
  BY DEF HasIf, IsRegistered, VxEndpoint, If
<1>5. CASE x # c
  <2>1. /\ intf[c][l] = If("vx", node[d]) => If1
        /\ vxlinks[node[c]][l] = VxEndpoint(c, node[d]) => Reg1
    BY <1>1, <1>5, EndKept
  <2>2. /\ Making(c, d, l)' => If1
        /\ Making(c, d, l)' /\ pc'[c] = "vx_update" => Reg1
    BY <1>1, <1>3, <1>5, <2>1 DEF HasIf, IsRegistered
  <2>3. ASSUME Past(c, l)', Past(d, l)' PROVE If1 /\ Reg1
    <3>1. Past(c, l)
      BY <1>3, <1>5, <2>3
    <3>2. CASE Past(d, l)
      BY <1>1, <2>1, <3>1, <3>2 DEF HasIf, IsRegistered
    <3>3. CASE ~Past(d, l)
      <4>1. x = d
        BY <1>3, <2>3, <3>3
      <4>2. RemoteUpdate(d, c, l)
        BY <1>1, <2>3, <3>3, <4>1, PastGrows
      <4> DEFINE U == Unplug(intf, c, l)
      <4>3. DOMAIN U = Containers /\ \A z \in Containers : DOMAIN U[z] = Links
        BY DEF Unplug
      <4>4. \/ intf' = intf /\ intf[c][l] = If("vx", node[d])
            \/ intf' = [U EXCEPT ![c][l] = If("vx", node[d])]
        BY <4>2 DEF RemoteUpdate
      <4>5. vxlinks' = [vxlinks EXCEPT ![node[c]][l] = VxEndpoint(c, node[d])]
        BY <4>2 DEF RemoteUpdate
      <4> HIDE DEF U
      <4> QED
        BY <1>2, <4>3, <4>4, <4>5 DEF TypeInv, NodesOK
    <3> QED
      BY <3>2, <3>3
  <2> QED
    BY <2>2, <2>3
<1>6. CASE x = c
  <2>1. intf[c][l] = If("vx", node[d]) => intf[c][l].to \notin Containers
    BY <1>2, NoneAssumption DEF If
  <2>2. ASSUME Past(c, l)', Past(d, l)' PROVE If1 /\ Reg1
    <3>1. Past(d, l)
      BY <1>1, <1>3, <1>6, <2>2
    <3>2. CASE Past(c, l)
      <4>1. pc[c] \in LoopSteps /\ Link(c) = l => pc[c] \in IdleSteps
        BY <3>2, PodOfContainer, LinkOnce
        DEF Past, TypeInv, ProcsOK, InLoop, LoopSteps, PeerSteps, Link, Cur
      <4>2. pc[c] \in Published
        BY <3>2 DEF Past, Published, IdleSteps, AddSteps
      <4>3. ~Handles(c, c, l)
        BY <4>1, <4>2 DEF Handles, OwnHands, PeerHands, LoopSteps, PeerSteps,
                          IdleSteps, Published, AddSteps
      <4>4. ~Registers(c, node[c], l)
        BY <4>1 DEF Registers, LoopSteps, PeerSteps, IdleSteps
      <4> QED
        BY <1>1, <1>2, <1>6, <2>1, <3>1, <3>2, <4>3, <4>4, IntfKept, RegistryKept
        DEF HasIf, IsRegistered
    <3>3. CASE ~Past(c, l)
      <4>1. At(c, "vx_update") /\ Making(c, d, l) /\ RemoteUpdate(c, d, l)
        BY <1>1, <1>6, <2>2, <3>3, PastGrows
      <4>2. ~Handles(c, c, l) /\ ~Registers(c, node[c], l)
        BY <1>1, <4>1 DEF Handles, Registers, OwnHands, At, Making, Live
      <4> QED
        BY <1>1, <1>2, <1>6, <2>1, <4>1, <4>2, IntfKept, RegistryKept
        DEF HasIf, IsRegistered, At
    <3> QED
      BY <3>2, <3>3
  <2>3. ASSUME Making(c, d, l)'
        PROVE  If1 /\ (pc'[c] = "vx_update" => Reg1)
    <3>1. /\ loc[c].peer = d /\ Link(c) = l
          /\ \/ VxMake(c) /\ ~Exists(c, l) /\ pc'[c] = "vx_register"
             \/ VxRegister(c)
      BY <1>6, <2>3, MakingGrows
    <3>2. CASE VxMake(c) /\ ~Exists(c, l) /\ pc'[c] = "vx_register"
      BY <3>1, <3>2 DEF VxMake, TypeInv, NodesOK
    <3>3. CASE VxRegister(c)
      <4>1. Making(c, d, l) /\ intf' = intf
        BY <3>1, <3>3 DEF VxRegister, At, Making
      <4>2. If1
        BY <1>1, <4>1 DEF HasIf
      <4>3. Reg1
        BY <1>2, <3>1, <3>3 DEF VxRegister, TypeInv, NodesOK
      <4> QED
        BY <4>2, <4>3
    <3> QED
      BY <3>1, <3>2, <3>3
  <2> QED
    BY <2>2, <2>3
<1> QED
  BY <1>5, <1>6

LEMMA VxStep ==
    ASSUME VxlanCluster, TypeInv, MeetInv, PeersInv, OnlyVxlan, NsInv, VxInv, [Next]_vars
    PROVE  VxInv'
<1>1. ASSUME NEW x \in Containers, Step(x) PROVE VxInv'
  <2> SUFFICES ASSUME NEW c \in Containers, NEW d \in Containers, NEW l \in Links,
                      Live(c, d, l)'
               PROVE  HasIf(c, d, l)' /\ IsRegistered(c, d, l)'
    BY DEF VxInv
  <2>1. Ends(c, d, l) /\ Current(c)' /\ Current(d)' /\ node'[c] # node'[d]
    BY DEF Live, Ends
  <2>2. c # d
    BY <2>1
  <2>3. PICK i \in 1..Len(PodLinks[PodOf(c)]) :
          PodLinks[PodOf(c)][i] = [link |-> l, peer |-> PodOf(d)]
    BY <2>1 DEF Ends
  <2>4. ASSUME NEW y \in {c, d}, AddSetAlive(y)
        PROVE  ~Past(y, l)' /\ ~Making(y, c, l)' /\ ~Making(y, d, l)'
    <3>1. \E j \in 1..Len(PodLinks[PodOf(y)]) : TRUE
      BY <2>1, EndsSymmetric DEF Ends
    <3>2. Len(PodLinks[PodOf(y)]) \in Nat
      BY PodOfContainer, PodLinksAssumption
    <3>3. /\ idx'[y] = 1
          /\ pc'[y] = IF 1 > Len(PodLinks[PodOf(y)]) THEN "up" ELSE "add_link"
      BY <2>4 DEF AddSetAlive, LoopAt, TypeInv, ProcsOK
    <3>4. pc'[y] = "add_link"
      BY <3>1, <3>2, <3>3
    <3> QED
      BY <3>3, <3>4 DEF Past, Making, IdleSteps
  <2>5. CASE x = c /\ AddSetAlive(c)
    BY <2>4, <2>5 DEF HasIf, IsRegistered
  <2>6. CASE x = d /\ AddSetAlive(d)
    <3>1. Making(c, d, l)' => Making(c, d, l)
      BY <1>1, <2>2, <2>6, StepAlone DEF Alone, Making, Link, Cur
    <3>2. ~Making(c, d, l)
      BY <2>6 DEF AddSetAlive, At, Making, PeersInv, FoundBy, PeerSteps
    <3> QED
      BY <2>4, <2>6, <3>1, <3>2 DEF HasIf, IsRegistered
  <2>7. CASE ~(x = c /\ AddSetAlive(c)) /\ ~(x = d /\ AddSetAlive(d))
    <3>1. /\ Current(c) /\ Current(d) /\ UNCHANGED <<node[c], node[d]>>
      BY <1>1, <2>1, <2>7, LiveBefore DEF MeetInv
    <3>2. Live(c, d, l)
      BY <2>1, <3>1 DEF Live
    <3> QED
      BY <1>1, <3>1, <3>2, EndStep
  <2> QED
    BY <2>5, <2>6, <2>7
<1>2. CASE UNCHANGED <<status, nodes, procs>>
  BY <1>2 DEF nodes, procs, VxInv, Live, Ends, Current, HasIf, IsRegistered, Past,
              Making, Link, Cur
<1> QED
  BY <1>1, <1>2 DEF Next, RefreshNodeIPs, vars, k8s, Step

LEMMA VxInit == Init => VxInv
BY NoneAssumption DEF Init, VxInv, Live, Current, FreshStatus

\* VxlanUpHolds: if a link uid belongs to one pair of pods, the node lists are
\* complete, a pod's sandbox starts only when its predecessor is gone, and the
\* API server answers, then two pods that are up on different nodes have VXLAN
\* interfaces that point at each other, and both are registered, although both
\* ADDs may rebuild both ends at the same time, calls between daemons get lost,
\* and either pod may have come back from another node.
THEOREM VxlanUpHolds ==
    ASSUME LinkType = "VXLAN", LinksApart, ~StaleNodes, ~Overlap, "api" \notin Faults
    PROVE  Spec => []VxlanUp
<1>1. VxlanCluster
  BY DEF VxlanCluster, Cluster
<1>2. Init => MeetInv
  BY MeetInit
<1>3. TypeInv /\ MeetInv /\ [Next]_vars => MeetInv'
  BY MeetStep
<1>4. TypeInv /\ MeetInv /\ PeersInv /\ OnlyVxlan /\ NsInv /\ [Next]_vars
        => PeersInv' /\ OnlyVxlan' /\ NsInv'
  BY <1>1, LifeNotYet, PeersStep, VxlanStep, NsStep
  DEF MeetInv, SkipInv, HereInv, VxlanCluster, Cluster
<1>5. TypeInv /\ MeetInv /\ PeersInv /\ OnlyVxlan /\ NsInv /\ VxInv /\ [Next]_vars
        => VxInv'
  BY <1>1, VxStep
<1>6. ASSUME VxInv PROVE VxlanUp
  <2> SUFFICES ASSUME NEW c \in Containers, NEW d \in Containers, NEW l \in Links,
                      Settled(c, d, l), ~SameHost(c, d)
               PROVE  /\ Wired(c, d, l)
                      /\ vxlinks[node[c]][l] = VxEndpoint(c, node[d])
    BY DEF VxlanUp
  <2>1. Live(c, d, l) /\ Past(c, l) /\ Past(d, l)
    BY DEF Settled, SameHost, At, Live, Past
  <2>2. Live(d, c, l)
    BY <2>1, LiveApart
  <2> QED
    BY <1>6, <2>1, <2>2 DEF VxInv, HasIf, IsRegistered, Wired, Reaches
<1> QED
  BY <1>2, <1>3, <1>4, <1>5, <1>6, InitType, NextType, PeersInit, VxlanInit, NsInit,
     VxInit, PTL DEF Spec

-----------------------------------------------------------------------------
(* First sandboxes.  While every pod has its first sandbox there are no     *)
(* stale ends, containers or marks of earlier sandboxes, and what two pods  *)
(* have at their link follows from how far their ADDs are, whatever fails   *)
(* and whatever the daemons know of the nodes.                              *)

\* No pod is linked to itself.
NoLoops == \A p \in Pods : \A i \in 1..Len(PodLinks[p]) : PodLinks[p][i].peer # p

Unborn(c) == pc[c] \in {"new", "add_alive"}
Between(c, d, l) == Ends(c, d, l) /\ PodOf(c) # PodOf(d)

\* Links between nodes are made in one way, and an unborn container has no wire.
OneWay ==
    \A c \in Containers :
        /\ pc[c] \in GrpcSteps => LinkType = "GRPC"
        /\ pc[c] \in VxSteps => LinkType = "VXLAN"
BareWires == \A c \in Containers : \A l \in Links :
                 Unborn(c) => wire[c][l].st = "none"

\* The containers of the two pods of a link are the only ones to deal with it.
LEMMA OnlyThese ==
    ASSUME MaxInc = 1, LinksApart, TypeInv,
           NEW c \in Containers, NEW d \in Containers, NEW l \in Links, Ends(c, d, l),
           NEW x \in Containers, pc[x] \in LoopSteps, Link(x) = l
    PROVE  x \in {c, d}
<1>1. PICK i \in 1..Len(PodLinks[PodOf(c)]) :
        PodLinks[PodOf(c)][i] = [link |-> l, peer |-> PodOf(d)]
  BY DEF Ends
<1>2. idx[x] \in 1..Len(PodLinks[PodOf(x)]) /\ PodLinks[PodOf(x)][idx[x]].link = l
  BY DEF TypeInv, ProcsOK, InLoop, Link, Cur
<1>3. PodOf(x) = PodOf(c) \/ PodOf(x) = PodOf(d)
  BY <1>1, <1>2, PodOfContainer DEF LinksApart
<1> QED
  BY <1>3, OneSandbox

\* Whoever is at the link deals with the other one of the two.
LEMMA PeerIsOther ==
    ASSUME MaxInc = 1, TypeInv, PeersInv,
           NEW c \in Containers, NEW d \in Containers, NEW l \in Links, Ends(c, d, l),
           pc[c] \in LoopSteps, Link(c) = l
    PROVE  /\ Peer(c) = PodOf(d)
           /\ pc[c] \in PeerSteps => /\ loc[c].peer = d
                                     /\ pc[c] \in VethSteps <=> node[c] = node[d]
<1>1. PICK i \in 1..Len(PodLinks[PodOf(c)]) :
        PodLinks[PodOf(c)][i] = [link |-> l, peer |-> PodOf(d)]
  BY DEF Ends
<1>2. idx[c] \in 1..Len(PodLinks[PodOf(c)]) /\ PodLinks[PodOf(c)][idx[c]].link = l
  BY DEF TypeInv, ProcsOK, InLoop, Link, Cur
<1>3. Peer(c) = PodOf(d)
  BY <1>1, <1>2, PodOfContainer, LinkOnce DEF Peer, Cur
<1>4. ASSUME pc[c] \in PeerSteps PROVE loc[c].peer = d
  <2>1. loc[c].peer \in Containers /\ PodOf(loc[c].peer) = PodOf(d)
    BY <1>3, <1>4 DEF TypeInv, ProcsOK, HasPeer, PeersInv, FoundBy
  <2> QED
    BY <2>1, OneSandbox
<1> QED
  BY <1>3, <1>4 DEF PeersInv, FoundBy

LEMMA OneWayStep ==
    ASSUME TypeInv, OneWay, [Next]_vars
    PROVE  OneWay'
<1>1. ASSUME NEW x \in Containers, Step(x) PROVE OneWay'
  <2> SUFFICES ASSUME NEW c \in Containers
               PROVE  /\ pc'[c] \in GrpcSteps => LinkType = "GRPC"
                      /\ pc'[c] \in VxSteps => LinkType = "VXLAN"
    BY DEF OneWay
  <2>1. CASE c # x
    BY <1>1, <2>1, StepAlone DEF Alone, OneWay
  <2>2. CASE c = x /\ AddGetPeer(x)
    BY <2>2, PluginAssumption
    DEF AddGetPeer, GotoWith, TypeInv, ProcsOK, GrpcSteps, VxSteps
  <2>3. CASE c = x /\ ~AddGetPeer(x)
    <3>1. Stays(x)
      BY <1>1, <2>3, OthersStay
    <3> QED
      BY <2>3, <3>1 DEF Stays, OneWay, PeerSteps, VethSteps, GrpcSteps, VxSteps
  <2> QED
    BY <2>1, <2>2, <2>3
<1>2. CASE UNCHANGED pc
  BY <1>2 DEF OneWay
<1> QED
  BY <1>1, <1>2 DEF Next, RefreshNodeIPs, vars, procs, Step

LEMMA OneWayInit == Init => OneWay /\ BareWires
BY DEF Init, OneWay, BareWires, GrpcSteps, VxSteps, NoWire

\* Who changes the wire of y: the ADD of y or of its peer at that link, or a DEL, which
\* makes no new wires.
LEMMA WiresGrow ==
    ASSUME TypeInv, NEW x \in Containers, Step(x), NEW y \in Containers, NEW l \in Links
    PROVE  \/ wire'[y][l] = wire[y][l]
           \/ pc[x] \in GrpcSteps /\ Link(x) = l /\ (y = x \/ y = loc[x].peer)
           \/ /\ wire[y][l].st # "none" /\ pc[x] \in DelSteps
              /\ PodOf(y) = PodOf(x) \/ (Link(x) = l /\ pc[x] = "del_down")
<1>1. CASE UNCHANGED wire
  BY <1>1
<1>2. ASSUME AddGRPCWireRemote(x, loc[x].peer, Link(x)), pc[x] \in GrpcSteps
      PROVE  \/ wire'[y][l] = wire[y][l]
             \/ Link(x) = l /\ y = loc[x].peer
  <2>1. /\ wire \in [Containers -> [Links -> WireType]]
        /\ Link(x) \in Links /\ loc[x].peer \in Containers
    BY <1>2, CurrentLink
    DEF TypeInv, NodesOK, ProcsOK, HasPeer, GrpcSteps, PeerSteps, LoopSteps
  <2> DEFINE e == loc[x].peer
             m == Link(x)
  <2>2. \/ wire' = [wire EXCEPT ![e][m].st = "ready", ![e][m].to = x, ![e][m].toIf = "own"]
        \/ wire' = [wire EXCEPT ![e][m] = GWire("peer", x, "own")]
    BY <1>2 DEF AddGRPCWireRemote
  <2> HIDE DEF e, m
  <2>3. CASE y # e
    BY <2>1, <2>2, <2>3
  <2>4. CASE m # l
    BY <2>1, <2>2, <2>4
  <2> QED
    BY <2>3, <2>4 DEF e, m
<1>3. CASE GrpcRemote(x) \/ (RpcFault(x) /\ At(x, "grpc_remote"))
  <2>1. pc[x] \in GrpcSteps
    BY <1>3 DEF GrpcRemote, At, GrpcSteps
  <2>2. AddGRPCWireRemote(x, loc[x].peer, Link(x)) \/ UNCHANGED wire
    BY <1>3 DEF GrpcRemote, RpcFault, At
  <2> QED
    BY <1>2, <2>1, <2>2
<1>4. CASE GrpcLocal(x)
  <2>1. pc[x] \in GrpcSteps /\ pc[x] \in LoopSteps
    BY <1>4 DEF GrpcLocal, At, GrpcSteps, LoopSteps, PeerSteps
  <2>2. Link(x) \in Links
    BY <2>1, CurrentLink DEF TypeInv
  <2> QED
    BY <1>4, <2>1, <2>2 DEF GrpcLocal, TypeInv, NodesOK
<1>5. CASE DropPodWires(x) /\ pc[x] = "del_wires"
  BY <1>5 DEF DropPodWires, PodWire, DelSteps
<1>6. CASE DelDown(x)
  BY <1>6 DEF DelDown, MakeGRPCChanDown, At, TypeInv, NodesOK, DelSteps
<1>7. CASE Add(x)
  BY <1>1, <1>3, <1>4, <1>7
  DEF Add, AddSetAlive, AddMacvlan, AddGetPeer, AddSkip, VethExistMine, VethExistPeer,
      VethRemove, VethIsSkipped, VethMake, VethJoin, GrpcIsSkipped, GrpcWait, GrpcPoll,
      GrpcExists, GrpcVeth, VxClean, VxMake, VxRegister, VxUpdate, nodes
<1>8. CASE Del(x)
  BY <1>1, <1>5, <1>6, <1>8
  DEF Del, DelGet, DelWires, DelClear, DelGetPeer, DelRemove, DelSkipPeer, DelSkipThis,
      At, nodes
<1>9. CASE Kubelet(x)
  BY <1>1, <1>9 DEF Kubelet, StartPod, StartDel, RepeatDel, RemoveSandbox, nodes
<1>10. CASE AddApiFault(x) \/ DelApiFault(x)
  BY <1>1, <1>5, <1>10 DEF AddApiFault, DelApiFault, At, nodes
<1>11. CASE RpcFault(x)
  BY <1>1, <1>3, <1>11 DEF RpcFault
<1> QED
  BY <1>7, <1>8, <1>9, <1>10, <1>11 DEF Step, Fault

LEMMA BareWiresStep ==
    ASSUME TypeInv, PeersInv, BareWires, [Next]_vars
    PROVE  BareWires'
<1>1. ASSUME NEW x \in Containers, Step(x) PROVE BareWires'
  <2> SUFFICES ASSUME NEW y \in Containers, NEW l \in Links, Unborn(y)'
               PROVE  wire'[y][l].st = "none"
    BY DEF BareWires
  <2>1. Unborn(y) /\ wire[y][l].st = "none"
    BY <1>1, NeverNewAgain DEF Unborn, BareWires
  <2>2. ~(pc[x] \in GrpcSteps /\ (y = x \/ y = loc[x].peer))
    BY <2>1 DEF PeersInv, FoundBy, Unborn, GrpcSteps, PeerSteps
  <2> QED
    BY <1>1, <2>1, <2>2, WiresGrow
<1>2. CASE UNCHANGED <<wire, pc>>
  BY <1>2 DEF BareWires, Unborn
<1> QED
  BY <1>1, <1>2 DEF Next, RefreshNodeIPs, vars, nodes, procs, Step

\* Nobody but the two touches what they have at their link.
LEMMA OthersSpare ==
    ASSUME MaxInc = 1, LinksApart, TypeInv, PairsInv,
           NEW c \in Containers, NEW d \in Containers, NEW l \in Links, Ends(c, d, l),
           NEW x \in Containers \ {c, d}, Step(x)
    PROVE  intf'[c][l] = intf[c][l] /\ wire'[c][l] = wire[c][l]
<1>1. pc[x] \in LoopSteps => Link(x) # l
  BY OnlyThese
<1>2. PodOf(c) # PodOf(x) /\ PodOf(d) # PodOf(x)
  BY OneSandbox
<1>3. wire'[c][l] = wire[c][l]
  BY <1>1, <1>2, WiresGrow DEF GrpcSteps, LoopSteps, PeerSteps
<1>4. CASE UNCHANGED intf
  BY <1>3, <1>4
<1>5. CASE Add(x) /\ pc[x] \in InAddLoop
  <2>1. pc[x] \in LoopSteps
    BY <1>5, AddLoopSteps DEF LoopSteps
  <2> QED
    BY <1>1, <1>3, <1>5, <2>1, ElsewhereKeeps
<1>6. CASE DropPodWires(x)
  <2>1. intf'[c][l] = intf[c][l] \/ PodOf(c) = PodOf(x)
    BY <1>6 DEF DropPodWires, PodWire
  <2> QED
    BY <1>2, <1>3, <2>1
<1>7. CASE DelRemove(x)
  <2>1. Link(x) # l
    BY <1>1, <1>7 DEF DelRemove, At, LoopSteps
  <2> QED
    BY <1>3, <1>7, <2>1 DEF DelRemove, Unplug
<1>8. CASE RemoveSandbox(x)
  <2>1. intf[c][l].to # x
    <3> SUFFICES ASSUME intf[c][l].to = x PROVE FALSE
      OBVIOUS
    <3>1. Ends(c, x, l)
      BY DEF PairsInv, Symmetric
    <3>2. PICK i \in 1..Len(PodLinks[PodOf(c)]) :
            PodLinks[PodOf(c)][i] = [link |-> l, peer |-> PodOf(d)]
      BY DEF Ends
    <3>3. PICK j \in 1..Len(PodLinks[PodOf(c)]) :
            PodLinks[PodOf(c)][j] = [link |-> l, peer |-> PodOf(x)]
      BY <3>1 DEF Ends
    <3>4. i = j
      BY <3>2, <3>3, PodOfContainer, LinkOnce
    <3> QED
      BY <1>2, <3>2, <3>3, <3>4
  <2> QED
    BY <1>3, <1>8, <2>1 DEF RemoveSandbox, DropNs
<1>9. CASE RpcFault(x) /\ pc[x] \in {"grpc_remote", "vx_update"}
  <2>1. Link(x) # l
    BY <1>1, <1>9 DEF LoopSteps, PeerSteps
  <2> DEFINE e == loc[x].peer
             U == Unplug(intf, e, Link(x))
  <2>2. /\ U[c][l] = intf[c][l] /\ DOMAIN U = Containers
        /\ \A z \in Containers : DOMAIN U[z] = Links
    BY <2>1 DEF Unplug
  <2>3. intf' = intf \/ \E v : intf' = [U EXCEPT ![e][Link(x)] = v]
    BY <1>9 DEF RpcFault, At, AddGRPCWireRemote, RemoteUpdate
  <2> HIDE DEF U, e
  <2> QED
    BY <1>3, <2>1, <2>2, <2>3
<1>10. Add(x) => AddSetAlive(x) \/ pc[x] \in InAddLoop
  BY AddMoves DEF InAddLoop
<1> QED
  BY <1>4, <1>5, <1>6, <1>7, <1>8, <1>9, <1>10
  DEF Step, AddSetAlive, Del, DelGet, DelWires, DelClear, DelGetPeer, DelDown,
      DelSkipPeer, DelSkipThis, Kubelet, StartPod, StartDel, RepeatDel, Fault,
      AddApiFault, DelApiFault, RpcFault, UseFault, At, nodes

-----------------------------------------------------------------------------
(* What an ADD has left at a link, while every pod has its first sandbox.   *)

\* Where the ADD of c stands once it has looked at link l, or has yet to.
Starts == {"ahead", "add_link", "add_skip", "veth_mine", "grpc_skipped", "vx_clean"}

\* c has nothing at the link, having found no peer if it has looked for one.
Untouched(c, l) ==
    /\ Where(c, l) \notin PeerSteps
    /\ Where(c, l) = "done" => out[c][l] = "skip"
    /\ intf[c][l] = NoIf /\ wire[c][l].st = "none"

\* Of two pods on one node: what c takes for the pair is the pair, or is about to
\* be replaced by it, and c leaves the pair to a greater name only.
Remaking(c, l) == Where(c, l) \in {"veth_make", "veth_join"}
VethSide(c, d, l) ==
    /\ ~Leftover(c, l)
    /\ Where(c, l) = "done" => out[c][l] \in {"skip", "defer", "made", "exists"}
    /\ (\/ Where(c, l) = "done" /\ out[c][l] \in {"made", "exists"}
        \/ Where(c, l) = "veth_peer" /\ loc[c].exist)
         => Joined(c, d, l) \/ Remaking(d, l)
    /\ Where(c, l) = "done" /\ out[c][l] = "defer" => PodOf(d) > PodOf(c)

\* Of two pods on different nodes, over gRPC: the wire that c has made to d, whole
\* or with its near half to come.
WiredTo(c, d, l) ==
    /\ wire[d][l] = GWire("peer", c, "own")
    /\ intf[c][l] = If("own", None) /\ intf[d][l] = If("peer", None)
Made(c, d, l) == WiredTo(c, d, l) /\ wire[c][l] = GWire("own", d, "peer")
HalfMade(c, d, l) ==
    /\ WiredTo(c, d, l) /\ wire[c][l].st = "none"
    /\ Where(c, l) = "grpc_local" /\ loc[c].got = "peer"
GrpcSide(c, d, l) ==
    /\ Where(c, l) = "done" => out[c][l] \in {"skip", "gaveup", "made", "exists"}
    /\ Where(c, l) = "done" /\ out[c][l] \in {"made", "exists"} => wire[c][l].st # "none"
    /\ (\/ Where(c, l) \in {"grpc_wait", "grpc_poll"}
        \/ Where(c, l) = "done" /\ out[c][l] = "gaveup")
         => PodOf(d) > PodOf(c)
    /\ wire[c][l].st # "none" => Made(c, d, l) \/ Made(d, c, l) \/ HalfMade(d, c, l)
    /\ Where(c, l) \in {"grpc_veth", "grpc_remote"} =>
         wire[c][l].st = "none" /\ wire[d][l].st = "none"
    /\ Where(c, l) = "grpc_remote" => intf[c][l] = If("own", None)
    /\ Where(c, l) = "grpc_local" => HalfMade(c, d, l)

\* Over VXLAN: c has the interface to d's node once it has made it.
VxSide(c, d, l) ==
    /\ Where(c, l) = "done" => out[c][l] \in {"skip", "made"}
    /\ (\/ Where(c, l) \in {"vx_register", "vx_update"}
        \/ Where(c, l) = "done" /\ out[c][l] = "made")
         => intf[c][l] = If("vx", node[d])

Handled(c, d, l) ==
    /\ node[c] = node[d] => VethSide(c, d, l)
    /\ node[c] # node[d] /\ LinkType = "GRPC" => GrpcSide(c, d, l)
    /\ node[c] # node[d] /\ LinkType = "VXLAN" => VxSide(c, d, l)
First(c, d, l) ==
    /\ (pc[c] \in Published \/ Unborn(c)) /\ Unborn(d) => Untouched(c, l)
    /\ pc[c] \in Published /\ pc[d] \in Published => Handled(c, d, l)
FirstInv == \A c, d \in Containers : \A l \in Links :
                Between(c, d, l) => First(c, d, l)

FirstSetting ==
    /\ TypeInv /\ HereInv /\ NotYetAlive /\ PeersInv /\ PairsInv /\ HalvesInv
    /\ CreatorInv /\ OneWay /\ BareWires

\* A step of c's process that is not about the link, or finds out about the peer.
Moves(c, l) ==
    \/ /\ Where(c, l)' = Where(c, l) /\ out'[c][l] = out[c][l]
       /\ Where(c, l) \in PeerSteps => loc'[c] = loc[c]
    \/ /\ Where(c, l) \notin PeerSteps
       /\ Where(c, l)' \in Starts \/ (Where(c, l)' = "done" /\ out'[c][l] = "skip")
Spares(c, l) == intf'[c][l] = intf[c][l] /\ wire'[c][l] = wire[c][l]

LEMMA MovesKeep ==
    ASSUME NEW c, NEW d, NEW l, Handled(c, d, l),
           Moves(c, l), Moves(d, l), Spares(c, l), Spares(d, l),
           node'[c] = node[c], node'[d] = node[d]
    PROVE  Handled(c, d, l)'
<1>1. ASSUME VethSide(c, d, l) PROVE VethSide(c, d, l)'
  <2>1. Joined(c, d, l)' <=> Joined(c, d, l)
    BY DEF Spares, Joined
  <2>2. Remaking(d, l) => Remaking(d, l)'
    BY DEF Moves, Remaking, PeerSteps
  <2>3. Leftover(c, l)' <=> Leftover(c, l)
    BY DEF Spares, Leftover
  <2> QED
    BY <1>1, <2>1, <2>2, <2>3 DEF VethSide, Moves, Starts, PeerSteps
<1>2. ASSUME GrpcSide(c, d, l) PROVE GrpcSide(c, d, l)'
  <2>1. /\ Made(c, d, l)' <=> Made(c, d, l)
        /\ Made(d, c, l)' <=> Made(d, c, l)
        /\ WiredTo(c, d, l)' <=> WiredTo(c, d, l)
        /\ WiredTo(d, c, l)' <=> WiredTo(d, c, l)
    BY DEF Spares, Made, WiredTo, GWire
  <2>2. HalfMade(c, d, l) => HalfMade(c, d, l)'
    BY <2>1 DEF Moves, Spares, HalfMade, PeerSteps
  <2>3. HalfMade(d, c, l) => HalfMade(d, c, l)'
    BY <2>1 DEF Moves, Spares, HalfMade, PeerSteps
  <2> QED
    BY <1>2, <2>1, <2>2, <2>3 DEF GrpcSide, Moves, Spares, Starts
<1>3. ASSUME VxSide(c, d, l) PROVE VxSide(c, d, l)'
  BY <1>3 DEF VxSide, Moves, Spares, Starts
<1> QED
  BY <1>1, <1>2, <1>3 DEF Handled

\* A step of a process at another link, or of one of the others.
LEMMA ElsewhereMoves ==
    ASSUME TypeInv, NEW x \in Containers, Add(x), pc[x] \in InAddLoop,
           NEW c \in Containers, NEW d \in Containers, NEW l \in Links, Ends(x, d, l),
           Link(x) # l, pc'[x] \in Published
    PROVE  Moves(x, l) /\ Spares(c, l)
<1>1. ~AddSetAlive(x)
  BY DEF AddSetAlive, At, InAddLoop
<1>2. Where(x, l) \in Apart
  BY WhereAt
<1>5. Where(x, l)' # "out"
  BY DEF Where, Published, InAddLoop, AddSteps
<1>3. \/ Where(x, l)' = Where(x, l)
      \/ Where(x, l) = "ahead" /\ Where(x, l)' = "add_link"
  BY <1>1, <1>2, <1>5, WhereElse DEF Step
<1>4. wire'[c][l] = wire[c][l]
  BY WiresGrow DEF Step, InAddLoop, AddSteps, DelSteps
<1> QED
  BY <1>2, <1>3, <1>4, ElsewhereKeeps DEF Moves, Spares, Apart, Starts, PeerSteps

LEMMA OthersMoves ==
    ASSUME NEW x, Alone(x), NEW c \in Containers, c # x, NEW l
    PROVE  Moves(c, l)
BY WhereKept DEF Moves, Alone

\* SetAlive: the new one has nothing, and the other one has found nobody.
LEMMA FirstAlive ==
    ASSUME FirstSetting, NEW c \in Containers, NEW d \in Containers, NEW l \in Links,
           Between(c, d, l), First(d, c, l), pc[d] \in Published, AddSetAlive(c)
    PROVE  Handled(c, d, l)' /\ Handled(d, c, l)'
<1>1. Unborn(c) /\ Untouched(d, l) /\ c # d
  BY DEF AddSetAlive, At, Unborn, First, Between
<1>2. intf[c][l] = NoIf /\ wire[c][l].st = "none"
  BY <1>1 DEF FirstSetting, BareWires, HalvesInv, BareOf, Unborn
<1>3. Where(c, l)' \in {"ahead", "add_link"}
  BY WhereAlive DEF FirstSetting, Between
<1>4. Alone(c) /\ UNCHANGED <<intf, wire, node>>
  BY StepAlone DEF Step, Add, AddSetAlive, nodes, FirstSetting
<1>5. Where(d, l)' = Where(d, l) /\ out'[d] = out[d]
  BY <1>1, <1>4, WhereKept DEF Alone
<1>6. VethSide(c, d, l)' /\ VethSide(d, c, l)'
  BY <1>1, <1>2, <1>3, <1>4, <1>5 DEF VethSide, Untouched, Leftover, NoIf, PeerSteps
<1>7. GrpcSide(c, d, l)' /\ GrpcSide(d, c, l)'
  BY <1>1, <1>2, <1>3, <1>4, <1>5 DEF GrpcSide, Untouched, PeerSteps
<1>8. VxSide(c, d, l)' /\ VxSide(d, c, l)'
  BY <1>1, <1>2, <1>3, <1>4, <1>5 DEF VxSide, Untouched, PeerSteps
<1> QED
  BY <1>6, <1>7, <1>8 DEF Handled

\* The look at the peer.
LEMMA FirstLook ==
    ASSUME MaxInc = 1, FirstSetting,
           NEW c \in Containers, NEW d \in Containers, NEW l \in Links, Between(c, d, l),
           Add(c), pc[c] \in InAddLoop, Link(c) = l, pc[c] \notin PeerSteps
    PROVE  /\ UNCHANGED <<intf, wire, node>>
           /\ Where(c, l) \notin PeerSteps
           /\ \/ Where(c, l)' \in Starts
              \/ Where(c, l)' = "done" /\ out'[c][l] = "skip"
           /\ Unborn(d) => Where(c, l)' \notin PeerSteps
<1>1. pc[c] \in {"add_link", "add_skip"} /\ Where(c, l) = pc[c] /\ pc[c] \in LoopSteps
  BY AddLoopSteps DEF Where, LoopSteps
<1>2. Peer(c) = PodOf(d) /\ PodOf(d) \in Pods
  BY <1>1, PeerIsOther, PodOfContainer DEF Between, FirstSetting
<1>3. Peer(c) # Localhost
  BY <1>2, NoneAssumption
<1>4. CASE AddGetPeer(c)
  <2> DEFINE e == Get(status, Peer(c), knows[node[c]])
  <2>1. PICK s \in {"add_skip", "veth_mine", "grpc_skipped", "vx_clean"} :
          /\ GotoWith(c, s, [loc[c] EXCEPT !.peer = e])
          /\ e = None => s = "add_skip"
    BY <1>4 DEF AddGetPeer
  <2>2. Where(c, l)' = s
    BY <2>1, WhereGoto DEF InAddLoop, AddSteps, FirstSetting
  <2>3. ASSUME Unborn(d) PROVE e = None
    <3> SUFFICES ASSUME e # None PROVE FALSE
      OBVIOUS
    <3>1. e \in Containers /\ PodOf(e) = PodOf(d) /\ Current(e)
      BY <1>2, FoundPeer DEF FirstSetting, HereInv
    <3>2. e = d
      BY <3>1, OneSandbox
    <3> QED
      BY <2>3, <3>1, <3>2 DEF FirstSetting, NotYetAlive, Unborn
  <2> QED
    BY <1>1, <1>4, <2>1, <2>2, <2>3 DEF AddGetPeer, nodes, Starts, PeerSteps
<1>5. CASE AddSkip(c)
  <2>1. Where(c, l)' = "done"
    BY <1>5, WhereDecide DEF AddSkip, FirstSetting, Between
  <2>2. out'[c][l] = "skip"
    BY <1>5 DEF AddSkip, Decide, FirstSetting, TypeInv, ProcsOK
  <2> QED
    BY <1>1, <1>5, <2>1, <2>2 DEF AddSkip, nodes, PeerSteps
<1> QED
  BY <1>1, <1>3, <1>4, <1>5, PeerTurns DEF AddMacvlan, AddSetAlive, At, PeerSteps, FirstSetting

LEMMA UnbornStep ==
    ASSUME TypeInv, NEW x \in Containers, Step(x), Unborn(x)'
    PROVE  UNCHANGED <<intf, wire>>
<1>1. Unborn(x)
  BY NeverNewAgain DEF Unborn
<1>2. pc'[x] \notin Published /\ ~AddSetAlive(x)
  BY DEF Unborn, Published, AddSteps, AddSetAlive, LoopAt, TypeInv, ProcsOK
<1>3. ~Del(x) /\ ~Add(x)
  BY <1>1, <1>2, AddMoves, DelMoves DEF Unborn, AddSteps, DelSteps
<1> QED
  BY <1>1, <1>3
  DEF Step, Kubelet, StartPod, StartDel, RepeatDel, RemoveSandbox, Fault, AddApiFault,
      DelApiFault, RpcFault, At, Unborn, nodes

\* While the other pod has not been announced, c gets no further than to skip it.
LEMMA UntouchedStep ==
    ASSUME MaxInc = 1, LinksApart, FirstSetting,
           NEW c \in Containers, NEW d \in Containers, NEW l \in Links, Between(c, d, l),
           First(c, d, l), NEW x \in Containers, Step(x),
           (pc[c] \in Published \/ Unborn(c))', Unborn(d)'
    PROVE  Untouched(c, l)'
<1>1. Unborn(d) /\ c # d
  BY NeverNewAgain DEF Unborn, FirstSetting, Between
<1>2. pc[c] \in Published \/ Unborn(c)
  <2>1. CASE Unborn(c)'
    BY <2>1, NeverNewAgain DEF Unborn, FirstSetting
  <2>2. CASE pc'[c] \in Published /\ x = c
    BY <2>2, PublishedBefore
    DEF AddSetAlive, At, Unborn, Published, InAddLoop, FirstSetting
  <2>3. CASE pc'[c] \in Published /\ x # c
    BY <2>3, StepAlone DEF Alone, FirstSetting
  <2> QED
    BY <2>1, <2>2, <2>3
<1>3. Untouched(c, l)
  BY <1>1, <1>2 DEF First
<1>4. Alone(x)
  BY StepAlone DEF FirstSetting
<1>5. CASE x \notin {c, d}
  <2>1. Spares(c, l)
    BY <1>5, OthersSpare DEF Between, FirstSetting, Spares
  <2>2. Where(c, l)' = Where(c, l) /\ out'[c] = out[c]
    BY <1>4, <1>5, WhereKept DEF Alone
  <2> QED
    BY <1>3, <2>1, <2>2 DEF Untouched, Spares
<1>6. CASE x = d
  <2>2. UNCHANGED <<intf, wire>>
    BY <1>6, UnbornStep DEF FirstSetting
  <2>3. Where(c, l)' = Where(c, l) /\ out'[c] = out[c]
    BY <1>1, <1>4, <1>6, WhereKept DEF Alone
  <2> QED
    BY <1>3, <2>2, <2>3 DEF Untouched
<1>7. CASE x = c /\ Unborn(c)'
  <2>1. Where(c, l)' = "out"
    BY <1>7, WhereOut DEF Unborn, Published, AddSteps
  <2>2. UNCHANGED <<intf, wire>>
    BY <1>7, UnbornStep DEF FirstSetting
  <2> QED
    BY <1>3, <2>1, <2>2 DEF Untouched, PeerSteps
<1>8. CASE x = c /\ AddSetAlive(c)
  <2>1. Where(c, l)' \in {"ahead", "add_link"}
    BY <1>8, WhereAlive DEF FirstSetting, Between
  <2> QED
    BY <1>3, <1>8, <2>1 DEF Untouched, AddSetAlive, nodes, PeerSteps
<1>9. CASE x = c /\ Add(c) /\ pc[c] \in InAddLoop /\ pc'[c] \in Published
  <2>1. CASE Link(c) # l
    <3>1. Spares(c, l) /\ out'[c][l] = out[c][l]
      BY <1>9, <2>1, ElsewhereMoves, ElsewhereKeeps DEF FirstSetting, Between
    <3>2. Where(c, l)' \in {Where(c, l), "add_link", "out"}
      BY <1>9, <2>1, WhereAt, WhereElse
      DEF FirstSetting, Between, Step, AddSetAlive, At, InAddLoop
    <3> QED
      BY <1>3, <3>1, <3>2 DEF Untouched, Spares, PeerSteps
  <2>2. CASE Link(c) = l
    <3>1. pc[c] \notin PeerSteps
      BY <1>3, <1>9, <2>2 DEF Untouched, Where
    <3> QED
      BY <1>1, <1>3, <1>9, <2>2, <3>1, FirstLook DEF Untouched, Starts
  <2> QED
    BY <2>1, <2>2
<1> QED
  BY <1>5, <1>6, <1>7, <1>8, <1>9, PublishedBefore DEF FirstSetting

\* The setting of a step of c at its link with d.
Meeting(c, d, l) ==
    /\ FirstSetting /\ Between(c, d, l) /\ Handled(c, d, l) /\ Handled(d, c, l)
    /\ Add(c) /\ pc[c] \in PeerSteps /\ Link(c) = l /\ pc'[c] \in Published

LEMMA MeetingFacts ==
    ASSUME MaxInc = 1, NEW c \in Containers, NEW d \in Containers, NEW l \in Links,
           Meeting(c, d, l)
    PROVE  /\ TypeInv /\ c # d /\ loc[c].peer = d /\ Peer(c) = PodOf(d)
           /\ pc[c] \in VethSteps <=> node[c] = node[d]
           /\ Where(c, l) = pc[c] /\ UNCHANGED node
           /\ Where(d, l)' = Where(d, l) /\ out'[d] = out[d] /\ loc'[d] = loc[d]
           /\ PodOf(c) \in Nat /\ PodOf(d) \in Nat
           /\ intf \in [Containers -> [Links -> IntfType]]
<1>1. pc[c] \in LoopSteps /\ pc[c] \in InAddLoop
  BY AddLoopSteps DEF Meeting, LoopSteps
<1>2. Alone(c) /\ c # d
  BY AddAlone DEF Meeting, FirstSetting, Between
<1>3. Where(c, l) = pc[c]
  BY <1>1 DEF Meeting, Where
<1>4. /\ loc[c].peer = d /\ Peer(c) = PodOf(d)
      /\ pc[c] \in VethSteps <=> node[c] = node[d]
  BY <1>1, PeerIsOther DEF Meeting, FirstSetting, Between
<1>5. Where(d, l)' = Where(d, l) /\ out'[d] = out[d] /\ loc'[d] = loc[d]
  BY <1>2, WhereKept DEF Alone
<1>6. UNCHANGED node
  BY <1>1, PeerTurns DEF Meeting, AddSetAlive, AddMacvlan, AddGetPeer, AddSkip, At,
     FirstSetting, PeerSteps
<1>7. PodOf(c) \in Nat /\ PodOf(d) \in Nat
  BY PodOfContainer, PodsAssumption
<1> QED
  BY <1>2, <1>3, <1>4, <1>5, <1>6, <1>7 DEF Meeting, FirstSetting, TypeInv, NodesOK

\* How c goes on.
LEMMA MeetingGoes ==
    ASSUME NEW c \in Containers, NEW d \in Containers, NEW l \in Links, Meeting(c, d, l)
    PROVE  /\ \A s \in PeerSteps : \A r : GotoWith(c, s, r) =>
                Where(c, l)' = s /\ loc'[c] = r
           /\ \A how : Decide(c, how) =>
                Where(c, l)' = "done" /\ out'[c][l] = how
           /\ ~Fail(c)
<1>1. pc[c] \in InAddLoop /\ TypeInv /\ Link(c) = l /\ Ends(c, d, l)
  BY AddLoopSteps DEF Meeting, FirstSetting, Between
<1>2. ASSUME NEW s \in PeerSteps, NEW r, GotoWith(c, s, r)
      PROVE  Where(c, l)' = s /\ loc'[c] = r
  <2>1. s \in InAddLoop
    BY AddLoopSteps
  <2> QED
    BY <1>1, <1>2, <2>1, WhereGoto DEF GotoWith, TypeInv, ProcsOK
<1>3. ASSUME NEW how, Decide(c, how)
      PROVE  Where(c, l)' = "done" /\ out'[c][l] = how
  BY <1>1, <1>3, WhereDecide DEF Decide, TypeInv, ProcsOK
<1>4. ~Fail(c)
  BY <1>1 DEF Meeting, Fail, Leave, GotoWith, TypeInv, ProcsOK, Published, AddSteps
<1> QED
  BY <1>2, <1>3, <1>4

\* With one sandbox per pod, the veth end of c leads to d.
LEMMA JoinsPeer ==
    ASSUME MaxInc = 1, TypeInv, PairsInv,
           NEW c \in Containers, NEW d \in Containers, NEW l \in Links, Ends(c, d, l),
           intf[c][l].k = "veth"
    PROVE  Joined(c, d, l)
<1> DEFINE e == intf[c][l].to
<1>1. e \in Containers /\ Ends(c, e, l) /\ intf[e][l] = If("veth", c)
  BY DEF PairsInv, Symmetric
<1>2. PICK i \in 1..Len(PodLinks[PodOf(c)]) :
        PodLinks[PodOf(c)][i] = [link |-> l, peer |-> PodOf(d)]
  BY DEF Ends
<1>3. PICK j \in 1..Len(PodLinks[PodOf(c)]) :
        PodLinks[PodOf(c)][j] = [link |-> l, peer |-> PodOf(e)]
  BY <1>1 DEF Ends
<1>4. i = j
  BY <1>2, <1>3, PodOfContainer, LinkOnce
<1>5. e = d
  BY <1>1, <1>2, <1>3, <1>4, OneSandbox
<1>6. intf[c][l] = If("veth", e)
  BY DEF TypeInv, NodesOK, IntfType, If
<1> QED
  BY <1>1, <1>5, <1>6 DEF Joined

-----------------------------------------------------------------------------
\* The veth branch of ADD.
LEMMA FirstVeth ==
    ASSUME MaxInc = 1, NEW c \in Containers, NEW d \in Containers, NEW l \in Links,
           Meeting(c, d, l), pc[c] \in VethSteps
    PROVE  VethSide(c, d, l)' /\ VethSide(d, c, l)'
<1>1. /\ TypeInv /\ c # d /\ loc[c].peer = d /\ Peer(c) = PodOf(d)
      /\ Where(c, l) = pc[c] /\ Link(c) = l
      /\ Where(d, l)' = Where(d, l) /\ out'[d] = out[d] /\ loc'[d] = loc[d]
      /\ PodOf(c) \in Nat /\ PodOf(d) \in Nat
      /\ intf \in [Containers -> [Links -> IntfType]]
  BY MeetingFacts DEF Meeting
<1>2. VethSide(c, d, l) /\ VethSide(d, c, l)
  BY MeetingFacts DEF Meeting, Handled
<1>3. Joined(c, d, l) <=> Joined(d, c, l)
  BY DEF Joined
<1>4. CASE UNCHANGED intf
  <2>1. /\ Joined(c, d, l)' <=> Joined(c, d, l)
        /\ Joined(d, c, l)' <=> Joined(d, c, l)
        /\ Leftover(c, l)' <=> Leftover(c, l)
        /\ Leftover(d, l)' <=> Leftover(d, l)
        /\ Remaking(d, l)' <=> Remaking(d, l)
    BY <1>1, <1>4 DEF Joined, Leftover, Remaking
  <2>2. ASSUME Remaking(c, l) => Remaking(c, l)' \/ Joined(c, d, l)
        PROVE  VethSide(d, c, l)'
    BY <1>1, <1>2, <1>3, <2>1, <2>2 DEF VethSide
  <2>3. CASE VethExistMine(c)
    <3>1. /\ Where(c, l)' = "veth_peer" /\ pc[c] = "veth_mine"
          /\ loc'[c] = [loc[c] EXCEPT !.exist = Exists(c, l)]
      BY <1>1, <2>3, MeetingGoes DEF VethExistMine, At, PeerSteps
    <3>2. ASSUME loc'[c].exist PROVE Joined(c, d, l)
      <4>1. Exists(c, l)
        BY <1>1, <3>1, <3>2 DEF TypeInv, ProcsOK, LocType
      <4>2. intf[c][l].k # "half"
        BY <3>1 DEF Meeting, FirstSetting, HalvesInv, HalfOf, Published, AddSteps
      <4>3. intf[c][l].k = "veth"
        BY <1>2, <4>1, <4>2 DEF VethSide, Leftover, Exists
      <4> QED
        BY <4>3, JoinsPeer DEF Meeting, FirstSetting, Between
    <3> QED
      BY <1>1, <1>2, <2>1, <2>2, <3>1, <3>2 DEF VethSide, Remaking
  <2>4. CASE VethExistPeer(c)
    <3>1. pc[c] = "veth_peer"
      BY <2>4 DEF VethExistPeer, At
    <3>2. \/ Where(c, l)' \in {"veth_skipped", "veth_rm"}
          \/ Where(c, l)' = "done" /\ out'[c][l] = "exists" /\ loc[c].exist
      BY <1>1, <2>4, MeetingGoes DEF VethExistPeer, Goto, PeerSteps
    <3> QED
      BY <1>1, <1>2, <2>1, <2>2, <3>1, <3>2 DEF VethSide, Remaking
  <2>5. CASE VethIsSkipped(c)
    <3>1. pc[c] = "veth_skipped"
      BY <2>5 DEF VethIsSkipped, At
    <3>2. \/ Where(c, l)' = "veth_make"
          \/ Where(c, l)' = "done" /\ out'[c][l] = "defer" /\ PodOf(d) > PodOf(c)
      <4>1. ~HigherPrio(c) => PodOf(d) > PodOf(c)
        BY <1>1 DEF HigherPrio, Meeting, Between
      <4> QED
        BY <1>1, <2>5, <4>1, MeetingGoes DEF VethIsSkipped, Goto, PeerSteps
    <3> QED
      BY <1>1, <1>2, <2>1, <2>2, <3>1, <3>2 DEF VethSide, Remaking
  <2>6. ~(VethRemove(c) \/ VethMake(c) \/ VethJoin(c))
    <3>1. ~Fail(c)
      BY MeetingGoes
    <3>2. ASSUME VethRemove(c) PROVE FALSE
      <4>1. PICK e \in {c, d} : Exists(e, l) /\ intf' = Unplug(intf, e, l)
        BY <1>1, <3>1, <3>2 DEF VethRemove
      <4> QED
        BY <1>4, <4>1 DEF Unplug, Exists, NoIf
    <3>3. ASSUME VethMake(c) PROVE FALSE
      BY <1>1, <1>4, <3>1, <3>3 DEF VethMake, Exists, If
    <3>4. ASSUME VethJoin(c) PROVE FALSE
      BY <1>1, <1>4, <3>1, <3>4 DEF VethJoin, If
    <3> QED
      BY <3>2, <3>3, <3>4
  <2> QED
    BY <2>3, <2>4, <2>5, <2>6
    DEF Meeting, Add, AddSetAlive, AddMacvlan, AddGetPeer, AddSkip, GrpcIsSkipped,
        GrpcWait, GrpcPoll, GrpcExists, GrpcVeth, GrpcRemote, GrpcLocal, VxClean, VxMake,
        VxRegister, VxUpdate, At, VethSteps
<1>5. CASE VethRemove(c)
  <2>1. Where(c, l)' = "veth_make" /\ \E e \in Containers : intf' = Unplug(intf, e, l)
    BY <1>1, <1>5, MeetingGoes DEF VethRemove, Goto, PeerSteps
  <2>2. \A y \in Containers : intf'[y][l] \in {intf[y][l], NoIf}
    BY <2>1 DEF Unplug
  <2> QED
    BY <1>1, <1>2, <2>1, <2>2 DEF VethSide, Leftover, NoIf, Remaking
<1>6. CASE VethMake(c)
  <2>1. Where(c, l)' = "veth_join" /\ intf' = [intf EXCEPT ![c][l] = If("half", None)]
    BY <1>1, <1>6, MeetingGoes DEF VethMake, Goto, PeerSteps
  <2>2. intf'[c][l].k = "half" /\ intf'[d][l] = intf[d][l]
    BY <1>1, <2>1 DEF If
  <2> QED
    BY <1>1, <1>2, <2>1, <2>2 DEF VethSide, Leftover, Remaking
<1>7. CASE VethJoin(c)
  <2>1. /\ Where(c, l)' = "done" /\ out'[c][l] = "made"
        /\ intf' = [intf EXCEPT ![c][l] = If("veth", d), ![d][l] = If("veth", c)]
    BY <1>1, <1>7, MeetingGoes DEF VethJoin
  <2>2. intf'[c][l] = If("veth", d) /\ intf'[d][l] = If("veth", c)
    BY <1>1, <2>1
  <2>3. Joined(c, d, l)' /\ Joined(d, c, l)' /\ ~Leftover(c, l)' /\ ~Leftover(d, l)'
    BY <2>2 DEF Joined, Leftover, If
  <2> QED
    BY <1>1, <1>2, <2>1, <2>3 DEF VethSide
<1> QED
  BY <1>4, <1>5, <1>6, <1>7
  DEF Meeting, Add, AddSetAlive, AddMacvlan, AddGetPeer, AddSkip, VethExistMine,
      VethExistPeer, VethIsSkipped, GrpcIsSkipped, GrpcWait, GrpcPoll, GrpcExists,
      GrpcVeth, GrpcRemote, GrpcLocal, VxClean, VxMake, VxRegister, VxUpdate, At,
      VethSteps, nodes

\* CreatGRPCChan: steps that change neither interfaces nor wires.
LEMMA FirstGrpcLooks ==
    ASSUME MaxInc = 1, NEW c \in Containers, NEW d \in Containers, NEW l \in Links,
           Meeting(c, d, l), pc[c] \in GrpcSteps, LinkType = "GRPC",
           GrpcIsSkipped(c) \/ GrpcWait(c) \/ GrpcPoll(c) \/ GrpcExists(c)
    PROVE  GrpcSide(c, d, l)' /\ GrpcSide(d, c, l)'
<1>1. /\ TypeInv /\ c # d /\ loc[c].peer = d /\ Peer(c) = PodOf(d)
      /\ Where(c, l) = pc[c] /\ Link(c) = l /\ UNCHANGED node
      /\ Where(d, l)' = Where(d, l) /\ out'[d] = out[d] /\ loc'[d] = loc[d]
      /\ PodOf(c) \in Nat /\ PodOf(d) \in Nat
  BY MeetingFacts DEF Meeting
<1>2. GrpcSide(c, d, l) /\ GrpcSide(d, c, l)
  BY MeetingFacts DEF Meeting, Handled, GrpcSteps, VethSteps
<1>3. UNCHANGED <<intf, wire>>
  BY DEF GrpcIsSkipped, GrpcWait, GrpcPoll, GrpcExists, nodes
<1>4. /\ Made(c, d, l)' <=> Made(c, d, l)
      /\ Made(d, c, l)' <=> Made(d, c, l)
      /\ HalfMade(d, c, l)' <=> HalfMade(d, c, l)
  BY <1>1, <1>3 DEF Made, HalfMade, WiredTo, GWire
<1>5. pc[c] \in {"grpc_skipped", "grpc_wait", "grpc_poll", "grpc_exists"}
  BY DEF GrpcIsSkipped, GrpcWait, GrpcPoll, GrpcExists, At
<1>6. ~HalfMade(c, d, l)
  BY <1>1, <1>5 DEF HalfMade
<1>7. GrpcSide(d, c, l)'
  BY <1>1, <1>2, <1>3, <1>4, <1>6 DEF GrpcSide
<1>8. \/ Where(c, l)' = "grpc_exists"
      \/ Where(c, l)' = "grpc_veth" /\ wire[c][l].st = "none"
      \/ Where(c, l)' \in {"grpc_wait", "grpc_poll"} /\ PodOf(d) > PodOf(c)
      \/ Where(c, l)' = "done" /\ out'[c][l] = "exists" /\ wire[c][l].st # "none"
      \/ Where(c, l)' = "done" /\ out'[c][l] = "gaveup" /\ PodOf(d) > PodOf(c)
  <2>1. ~HigherPrio(c) => PodOf(d) > PodOf(c)
    BY <1>1 DEF HigherPrio, Meeting, Between
  <2>6. pc[c] \in {"grpc_wait", "grpc_poll"} => PodOf(d) > PodOf(c)
    BY <1>1, <1>2 DEF GrpcSide
  <2>2. CASE GrpcIsSkipped(c)
    BY <1>1, <2>1, <2>2, MeetingGoes DEF GrpcIsSkipped, Goto, PeerSteps
  <2>3. CASE GrpcWait(c)
    BY <1>1, <2>3, <2>6, MeetingGoes DEF GrpcWait, At, Goto, PeerSteps, HasWire
  <2>4. CASE GrpcPoll(c)
    BY <1>1, <2>4, <2>6, MeetingGoes DEF GrpcPoll, At, Goto, PeerSteps
  <2>5. CASE GrpcExists(c)
    BY <1>1, <2>5, MeetingGoes DEF GrpcExists, Goto, PeerSteps, HasWire
  <2> QED
    BY <2>2, <2>3, <2>4, <2>5
<1>9. wire[c][l].st = "none" => wire[d][l].st = "none"
  <2>1. wire[c][l].st = "none" => ~Made(c, d, l) /\ ~Made(d, c, l)
    BY DEF Made, WiredTo, GWire
  <2> QED
    BY <1>2, <1>6, <2>1 DEF GrpcSide
<1> QED
  BY <1>1, <1>2, <1>3, <1>4, <1>7, <1>8, <1>9 DEF GrpcSide

\* Its own end, the far half of the wire, and the near one.
LEMMA FirstGrpc ==
    ASSUME MaxInc = 1, NEW c \in Containers, NEW d \in Containers, NEW l \in Links,
           Meeting(c, d, l), pc[c] \in GrpcSteps, LinkType = "GRPC"
    PROVE  GrpcSide(c, d, l)' /\ GrpcSide(d, c, l)'
<1>1. /\ TypeInv /\ c # d /\ loc[c].peer = d
      /\ Where(c, l) = pc[c] /\ Link(c) = l /\ UNCHANGED node
      /\ Where(d, l)' = Where(d, l) /\ out'[d] = out[d] /\ loc'[d] = loc[d]
      /\ intf \in [Containers -> [Links -> IntfType]]
      /\ wire \in [Containers -> [Links -> WireType]]
  BY MeetingFacts DEF Meeting, TypeInv, NodesOK
<1>2. GrpcSide(c, d, l) /\ GrpcSide(d, c, l)
  BY MeetingFacts DEF Meeting, Handled, GrpcSteps, VethSteps
<1>3. c # None /\ d # None
  BY NoneAssumption
<1>4. ASSUME pc[c] \in {"grpc_veth", "grpc_remote", "grpc_local"}
      PROVE  Where(d, l) \notin {"grpc_veth", "grpc_remote", "grpc_local"}
  <2> SUFFICES ASSUME Where(d, l) \in {"grpc_veth", "grpc_remote", "grpc_local"}
               PROVE  FALSE
    OBVIOUS
  <2>1. pc[d] = Where(d, l) /\ Link(d) = l /\ pc[d] \in LoopSteps /\ pc[d] \in PeerSteps
    BY WhereAt DEF Apart, LoopSteps, PeerSteps
  <2>2. Ends(d, c, l)
    BY EndsSymmetric DEF Meeting, Between
  <2>3. loc[d].peer = c
    BY <2>1, <2>2, PeerIsOther DEF Meeting, FirstSetting
  <2>4. Creates(c, d, l) /\ Creates(d, c, l)
    BY <1>1, <1>4, <2>1, <2>3 DEF Creates
  <2> QED
    BY <2>4, CreatorAlone DEF OneCreator, Meeting, FirstSetting
<1>5. CASE GrpcVeth(c)
  <2>1. /\ pc[c] = "grpc_veth" /\ Where(c, l)' = "grpc_remote" /\ UNCHANGED wire
        /\ intf' = [intf EXCEPT ![c][l] = If("own", None)]
    BY <1>1, <1>5, MeetingGoes DEF GrpcVeth, At, Goto, PeerSteps
  <2>2. intf'[c][l] = If("own", None)
    BY <1>1, <2>1
  <2>3. wire[c][l].st = "none" /\ wire[d][l].st = "none"
    BY <1>1, <1>2, <2>1 DEF GrpcSide
  <2> QED
    BY <1>1, <1>2, <1>4, <2>1, <2>2, <2>3 DEF GrpcSide
<1>6. CASE GrpcRemote(c)
  <2>1. /\ pc[c] = "grpc_remote" /\ Where(c, l)' = "grpc_local"
        /\ loc'[c] = [loc[c] EXCEPT !.got = wire'[d][l].mine]
        /\ AddGRPCWireRemote(c, d, l)
    BY <1>1, <1>6, MeetingGoes DEF GrpcRemote, At, PeerSteps
  <2>2. /\ wire[c][l].st = "none" /\ wire[d][l].st = "none"
        /\ intf[c][l] = If("own", None)
    BY <1>1, <1>2, <2>1 DEF GrpcSide
  <2>3. /\ intf' = [Unplug(intf, d, l) EXCEPT ![d][l] = If("peer", None)]
        /\ wire' = [wire EXCEPT ![d][l] = GWire("peer", c, "own")]
    BY <2>1, <2>2 DEF AddGRPCWireRemote, RemoteUpdates
  <2>4. wire'[d][l] = GWire("peer", c, "own") /\ wire'[c][l] = wire[c][l]
    BY <1>1, <2>3
  <2>5. intf'[d][l] = If("peer", None) /\ intf'[c][l] = If("own", None)
    BY <1>1, <1>3, <2>2, <2>3 DEF Unplug, If
  <2>6. loc'[c].got = "peer"
    BY <1>1, <2>1, <2>4 DEF GWire, TypeInv, ProcsOK, LocType
  <2>7. GWire("peer", c, "own")' = GWire("peer", c, "own")
    BY <1>1 DEF GWire
  <2>8. HalfMade(c, d, l)'
    BY <2>1, <2>2, <2>4, <2>5, <2>6, <2>7 DEF HalfMade, WiredTo
  <2>9. wire'[d][l].st # "none"
    BY <2>4 DEF GWire
  <2> QED
    BY <1>1, <1>2, <1>4, <2>1, <2>2, <2>4, <2>8, <2>9 DEF GrpcSide
<1>7. CASE GrpcLocal(c)
  <2>1. HalfMade(c, d, l)
    BY <1>1, <1>2, <1>7 DEF GrpcLocal, At, GrpcSide
  <2>2. /\ Where(c, l)' = "done" /\ out'[c][l] = "made" /\ UNCHANGED intf
        /\ wire' = [wire EXCEPT ![c][l] = GWire("own", d, "peer")]
    BY <1>1, <1>7, <2>1, MeetingGoes DEF GrpcLocal, HalfMade
  <2>3. wire'[c][l] = GWire("own", d, "peer") /\ wire'[d][l] = wire[d][l]
    BY <1>1, <2>2
  <2>4. /\ GWire("peer", c, "own")' = GWire("peer", c, "own")
        /\ GWire("own", d, "peer")' = GWire("own", d, "peer")
    BY <1>1 DEF GWire
  <2>5. Made(c, d, l)'
    BY <2>1, <2>2, <2>3, <2>4 DEF Made, HalfMade, WiredTo
  <2>6. wire'[c][l].st # "none" /\ wire[d][l].st # "none"
    BY <2>1, <2>3 DEF GWire, HalfMade, WiredTo
  <2>7. pc[c] = "grpc_local"
    BY <1>7 DEF GrpcLocal, At
  <2> QED
    BY <1>1, <1>2, <1>4, <2>2, <2>3, <2>5, <2>6, <2>7 DEF GrpcSide
<1> QED
  BY <1>5, <1>6, <1>7, FirstGrpcLooks
  DEF Meeting, Add, AddSetAlive, AddMacvlan, AddGetPeer, AddSkip, VethExistMine,
      VethExistPeer, VethRemove, VethIsSkipped, VethMake, VethJoin, VxClean, VxMake,
      VxRegister, VxUpdate, At, GrpcSteps

\* The VXLAN branch.
LEMMA FirstVxlan ==
    ASSUME MaxInc = 1, NEW c \in Containers, NEW d \in Containers, NEW l \in Links,
           Meeting(c, d, l), pc[c] \in VxSteps, LinkType = "VXLAN"
    PROVE  VxSide(c, d, l)' /\ VxSide(d, c, l)'
<1>1. /\ TypeInv /\ c # d /\ loc[c].peer = d
      /\ Where(c, l) = pc[c] /\ Link(c) = l /\ UNCHANGED node
      /\ Where(d, l)' = Where(d, l) /\ out'[d] = out[d]
      /\ intf \in [Containers -> [Links -> IntfType]]
  BY MeetingFacts DEF Meeting
<1>2. VxSide(c, d, l) /\ VxSide(d, c, l)
  BY MeetingFacts DEF Meeting, Handled, VxSteps, VethSteps
<1>3. \A y \in Containers : intf[y][l].k = "vx" => intf[y][l].to \notin Containers
  BY DEF Meeting, FirstSetting, PairsInv, Symmetric
<1>4. CASE VxClean(c)
  <2>1. Where(c, l)' = "vx_make" /\ intf' = Unplug(intf, c, l)
    BY <1>1, <1>4, MeetingGoes DEF VxClean, Goto, PeerSteps
  <2>2. intf[d][l].k = "vx" => intf'[d][l] = intf[d][l]
    BY <1>1, <1>3, <2>1 DEF Unplug
  <2> QED
    BY <1>1, <1>2, <2>1, <2>2 DEF VxSide, If
<1>5. CASE VxMake(c)
  <2>1. /\ Where(c, l)' = "vx_register"
        /\ intf' = [intf EXCEPT ![c][l] = If("vx", node[d])]
    BY <1>1, <1>5, MeetingGoes DEF VxMake, Goto, PeerSteps
  <2> QED
    BY <1>1, <1>2, <2>1 DEF VxSide
<1>6. CASE VxRegister(c)
  <2>1. Where(c, l)' = "vx_update" /\ UNCHANGED intf /\ pc[c] = "vx_register"
    BY <1>1, <1>6, MeetingGoes DEF VxRegister, At, Goto, PeerSteps
  <2> QED
    BY <1>1, <1>2, <2>1 DEF VxSide
<1>7. CASE VxUpdate(c)
  <2>1. /\ Where(c, l)' = "done" /\ out'[c][l] = "made" /\ pc[c] = "vx_update"
        /\ RemoteUpdate(c, d, l)
    BY <1>1, <1>7, MeetingGoes DEF VxUpdate, At
  <2>5. Where(c, l) = "vx_update"
    BY <1>1, <2>1
  <2>2. intf[c][l] = If("vx", node[d])
    BY <1>2, <2>5 DEF VxSide
  <2>3. intf'[c][l] = intf[c][l]
    BY <1>1, <1>3, <2>1, <2>2 DEF RemoteUpdate, Unplug, If
  <2>4. intf'[d][l] = If("vx", node[c])
    BY <1>1, <2>1 DEF RemoteUpdate, Unplug
  <2> QED
    BY <1>1, <1>2, <2>1, <2>2, <2>3, <2>4 DEF VxSide
<1> QED
  BY <1>4, <1>5, <1>6, <1>7
  DEF Meeting, Add, AddSetAlive, AddMacvlan, AddGetPeer, AddSkip, VethExistMine,
      VethExistPeer, VethRemove, VethIsSkipped, VethMake, VethJoin, GrpcIsSkipped,
      GrpcWait, GrpcPoll, GrpcExists, GrpcVeth, GrpcRemote, GrpcLocal, At, VxSteps

-----------------------------------------------------------------------------
(* All steps, and the links of two pods that are up.                        *)

LEMMA AddNode ==
    ASSUME TypeInv, NEW c \in Containers, Add(c)
    PROVE  UNCHANGED node
BY PeerTurns DEF AddSetAlive, AddMacvlan, AddGetPeer, AddSkip, nodes

\* A step of an ADD in its loop, at the link or not.
LEMMA FirstAdd ==
    ASSUME MaxInc = 1, FirstSetting,
           NEW c \in Containers, NEW d \in Containers, NEW l \in Links, Between(c, d, l),
           Handled(c, d, l), Handled(d, c, l),
           Add(c), pc[c] \in InAddLoop, pc'[c] \in Published
    PROVE  Handled(c, d, l)' /\ Handled(d, c, l)'
<1>1. Alone(c) /\ c # d /\ Ends(d, c, l)
  BY AddAlone, EndsSymmetric DEF FirstSetting, Between
<1>2. Moves(d, l)
  BY <1>1, OthersMoves
<1>3. CASE Link(c) # l
  <2>1. Moves(c, l) /\ Spares(c, l) /\ Spares(d, l)
    BY <1>3, ElsewhereMoves DEF FirstSetting, Between
  <2>2. node'[c] = node[c] /\ node'[d] = node[d]
    BY AddNode DEF FirstSetting
  <2> QED
    BY <1>2, <2>1, <2>2, MovesKeep
<1>4. CASE Link(c) = l /\ pc[c] \notin PeerSteps
  <2>1. Moves(c, l) /\ UNCHANGED <<intf, wire, node>>
    BY <1>4, FirstLook DEF Moves
  <2> QED
    BY <1>2, <2>1, MovesKeep DEF Spares
<1>5. CASE Link(c) = l /\ pc[c] \in PeerSteps
  <2>1. Meeting(c, d, l)
    BY <1>5 DEF Meeting
  <2>2. /\ pc[c] \in VethSteps <=> node[c] = node[d]
        /\ UNCHANGED node
    BY <2>1, MeetingFacts
  <2>3. CASE pc[c] \in VethSteps
    BY <2>1, <2>2, <2>3, FirstVeth DEF Handled
  <2>4. CASE pc[c] \in GrpcSteps
    <3>1. LinkType = "GRPC"
      BY <2>4 DEF FirstSetting, OneWay
    <3>2. pc[c] \notin VethSteps
      BY <2>4 DEF VethSteps, GrpcSteps
    <3> QED
      BY <2>1, <2>2, <2>4, <3>1, <3>2, FirstGrpc DEF Handled
  <2>5. CASE pc[c] \in VxSteps
    <3>1. LinkType = "VXLAN"
      BY <2>5 DEF FirstSetting, OneWay
    <3>2. pc[c] \notin VethSteps
      BY <2>5 DEF VethSteps, VxSteps
    <3> QED
      BY <2>1, <2>2, <2>5, <3>1, <3>2, FirstVxlan DEF Handled
  <2> QED
    BY <1>5, <2>3, <2>4, <2>5 DEF PeerSteps, VethSteps, GrpcSteps, VxSteps
<1> QED
  BY <1>3, <1>4, <1>5

\* A step of one of the two that are both announced after it.
LEMMA FirstTwo ==
    ASSUME MaxInc = 1, FirstSetting, FirstInv,
           NEW c \in Containers, NEW d \in Containers, NEW l \in Links, Between(c, d, l),
           Step(c), pc'[c] \in Published, pc'[d] \in Published
    PROVE  Handled(c, d, l)' /\ Handled(d, c, l)'
<1>1. Between(d, c, l) /\ c # d /\ pc[d] \in Published
  BY EndsSymmetric, StepAlone DEF Between, Alone, FirstSetting
<1>2. First(c, d, l) /\ First(d, c, l)
  BY <1>1 DEF FirstInv
<1>3. CASE AddSetAlive(c)
  BY <1>1, <1>2, <1>3, FirstAlive
<1>4. CASE Add(c) /\ pc[c] \in InAddLoop
  <2>1. pc[c] \in Published
    BY <1>4 DEF Published, InAddLoop
  <2> QED
    BY <1>1, <1>2, <1>4, <2>1, FirstAdd DEF First
<1> QED
  BY <1>3, <1>4, PublishedBefore DEF FirstSetting

\* A step of somebody else.
LEMMA FirstOthers ==
    ASSUME MaxInc = 1, LinksApart, FirstSetting, FirstInv,
           NEW c \in Containers, NEW d \in Containers, NEW l \in Links, Between(c, d, l),
           NEW x \in Containers \ {c, d}, Step(x), pc'[c] \in Published, pc'[d] \in Published
    PROVE  Handled(c, d, l)'
<1>1. Alone(x) /\ Ends(c, d, l) /\ Ends(d, c, l)
  BY StepAlone, EndsSymmetric DEF FirstSetting, Between
<1>2. pc[c] \in Published /\ pc[d] \in Published
  BY <1>1 DEF Alone
<1>3. Handled(c, d, l)
  BY <1>2 DEF FirstInv, First
<1>4. Moves(c, l) /\ Moves(d, l)
  BY <1>1, OthersMoves
<1>5. Spares(c, l) /\ Spares(d, l)
  BY <1>1, OthersSpare DEF FirstSetting, Spares
<1>6. node'[c] = node[c] /\ node'[d] = node[d]
  BY <1>2, NodeKept DEF FirstSetting, Published, AddSteps
<1> QED
  BY <1>3, <1>4, <1>5, <1>6, MovesKeep

LEMMA FirstStep ==
    ASSUME MaxInc = 1, LinksApart, FirstSetting, FirstInv, [Next]_vars
    PROVE  FirstInv'
<1>1. ASSUME NEW x \in Containers, Step(x) PROVE FirstInv'
  <2> SUFFICES ASSUME NEW c \in Containers, NEW d \in Containers, NEW l \in Links,
                      Between(c, d, l)
               PROVE  First(c, d, l)'
    BY DEF FirstInv, Between, Ends
  <2>1. First(c, d, l) /\ Between(d, c, l)
    BY EndsSymmetric DEF FirstInv, Between
  <2>2. ((pc[c] \in Published \/ Unborn(c)) /\ Unborn(d))' => Untouched(c, l)'
    BY <1>1, <2>1, UntouchedStep
  <2>3. pc'[c] \in Published /\ pc'[d] \in Published => Handled(c, d, l)'
    BY <1>1, <2>1, FirstTwo, FirstOthers
  <2> QED
    BY <2>2, <2>3 DEF First
<1>2. CASE UNCHANGED <<nodes, procs>>
  <2> SUFFICES ASSUME NEW c \in Containers, NEW d \in Containers, NEW l \in Links,
                      Between(c, d, l)
               PROVE  First(c, d, l)'
    BY DEF FirstInv, Between, Ends
  <2>1. Where(c, l)' = Where(c, l) /\ Where(d, l)' = Where(d, l)
    BY <1>2, WhereKept DEF procs
  <2>2. Moves(c, l) /\ Moves(d, l) /\ Spares(c, l) /\ Spares(d, l)
    BY <1>2, <2>1 DEF nodes, procs, Moves, Spares
  <2>3. Handled(c, d, l) => Handled(c, d, l)'
    BY <1>2, <2>2, MovesKeep DEF nodes
  <2>4. Untouched(c, l) => Untouched(c, l)'
    BY <1>2, <2>1 DEF nodes, procs, Untouched
  <2> QED
    BY <1>2, <2>3, <2>4 DEF procs, FirstInv, First, Unborn
<1> QED
  BY <1>1, <1>2 DEF Next, RefreshNodeIPs, vars, Step

LEMMA FirstInit == Init => FirstInv
BY DEF Init, FirstInv, First, Unborn, Untouched, Where, InAddLoop, AddSteps, Published,
   PeerSteps, NoWire

LEMMA SettingStep ==
    ASSUME MaxInc = 1, FirstSetting, [Next]_vars
    PROVE  FirstSetting'
<1>1. TypeInv' /\ HereInv' /\ NotYetAlive'
  BY NextType, HereStep, NotYetStep DEF FirstSetting
<1>2. PeersInv' /\ PairsInv' /\ HalvesInv'
  BY PeersStep, PairsStep, HalvesStep DEF FirstSetting
<1>3. CreatorInv' /\ OneWay' /\ BareWires'
  BY CreatorStep, OneWayStep, BareWiresStep DEF FirstSetting
<1> QED
  BY <1>1, <1>2, <1>3 DEF FirstSetting

LEMMA SettingInit == Init => FirstSetting
BY InitType, HereInit, NotYetInit, PeersInit, PairsInit, HalvesInit, CreatorInit, OneWayInit
DEF FirstSetting

LEMMA HandledBoth ==
    ASSUME FirstInv, NEW c \in Containers, NEW d \in Containers, NEW l \in Links,
           Settled(c, d, l), PodOf(c) # PodOf(d)
    PROVE  /\ Handled(c, d, l) /\ Handled(d, c, l)
           /\ Where(c, l) = "done" /\ Where(d, l) = "done"
           /\ PodOf(c) \in Nat /\ PodOf(d) \in Nat
<1>1. Between(c, d, l) /\ Between(d, c, l)
  BY EndsSymmetric DEF Settled, Between
<1>2. pc[c] = "up" /\ pc[d] = "up"
  BY DEF Settled, At
<1>3. Where(c, l) = "done" /\ Where(d, l) = "done"
  BY <1>2 DEF Where, InAddLoop, AddSteps
<1>4. Handled(c, d, l) /\ Handled(d, c, l)
  BY <1>1, <1>2 DEF FirstInv, First, Published
<1> QED
  BY <1>3, <1>4, PodOfContainer, PodsAssumption

\* A wire of one of the two is the wire of both.
LEMMA WireIsWhole ==
    ASSUME NEW c \in Containers, NEW d \in Containers, NEW l \in Links,
           GrpcSide(c, d, l), Where(d, l) = "done", wire[c][l].st # "none"
    PROVE  Wired(c, d, l)
<1>1. Made(c, d, l) \/ Made(d, c, l)
  BY DEF GrpcSide, HalfMade
<1>2. ASSUME Made(c, d, l) PROVE Wired(c, d, l)
  BY <1>2 DEF Made, WiredTo, Wired, Reaches, GWire, If
<1>3. ASSUME Made(d, c, l) PROVE Wired(c, d, l)
  BY <1>3 DEF Made, WiredTo, Wired, Reaches, GWire, If
<1> QED
  BY <1>1, <1>2, <1>3

\* LostOnlyBySkippingHolds: while every pod has its first sandbox, if a link uid
\* belongs to one pair of different pods, then two pods that are up have their
\* link (a veth pair, a wire whose two ends agree, or two VXLAN interfaces) or one
\* of them found the other dead in cmdAdd. This holds whatever the daemons know of
\* the nodes, whichever calls to the API server and between daemons fail, and
\* however the ADDs interleave: the pod that goes second in a race for the pair
\* replaces half a pair by a whole one, the waiting pod gives up on a greater name
\* only, and of two ends of a wire none is made without the other.
THEOREM LostOnlyBySkippingHolds ==
    ASSUME MaxInc = 1, LinksApart, NoLoops
    PROVE  Spec => []LostOnlyBySkipping
<1>1. FirstSetting /\ [Next]_vars => FirstSetting'
  BY SettingStep
<1>2. FirstSetting /\ FirstInv /\ [Next]_vars => FirstInv'
  BY FirstStep
<1>3. ASSUME FirstInv PROVE LostOnlyBySkipping
  <2> SUFFICES ASSUME NEW c \in Containers, NEW d \in Containers, NEW l \in Links,
                      Settled(c, d, l), out[c][l] # "skip", out[d][l] # "skip"
               PROVE  Wired(c, d, l)
    BY DEF LostOnlyBySkipping
  <2>1. PodOf(c) # PodOf(d)
    <3>1. PICK i \in 1..Len(PodLinks[PodOf(c)]) :
            PodLinks[PodOf(c)][i] = [link |-> l, peer |-> PodOf(d)]
      BY DEF Settled, Ends
    <3> QED
      BY <3>1, PodOfContainer DEF NoLoops
  <2>2. /\ Handled(c, d, l) /\ Handled(d, c, l)
        /\ Where(c, l) = "done" /\ Where(d, l) = "done"
        /\ PodOf(c) \in Nat /\ PodOf(d) \in Nat
    BY <1>3, <2>1, HandledBoth
  <2>3. CASE node[c] = node[d]
    <3>1. VethSide(c, d, l) /\ VethSide(d, c, l)
      BY <2>2, <2>3 DEF Handled
    <3>2. Joined(c, d, l) \/ Joined(d, c, l)
      BY <2>2, <3>1 DEF VethSide, Remaking
    <3> QED
      BY <3>2 DEF Joined, Wired, Reaches
  <2>4. CASE node[c] # node[d] /\ LinkType = "GRPC"
    <3>1. GrpcSide(c, d, l) /\ GrpcSide(d, c, l)
      BY <2>2, <2>4 DEF Handled
    <3>2. wire[c][l].st # "none" \/ wire[d][l].st # "none"
      BY <2>2, <3>1 DEF GrpcSide
    <3> QED
      BY <2>2, <3>1, <3>2, WireIsWhole DEF Wired
  <2>5. CASE node[c] # node[d] /\ LinkType = "VXLAN"
    BY <2>2, <2>5 DEF Handled, VxSide, Wired, Reaches
  <2> QED
    BY <2>3, <2>4, <2>5, PluginAssumption
<1> QED
  BY <1>1, <1>2, <1>3, SettingInit, FirstInit, PTL DEF Spec

\* LostOnlyByGivingUpHolds: while every pod has its first sandbox, if a link uid
\* belongs to one pair of pods and the node lists are complete, then two pods that
\* are up on different nodes have a gRPC wire that works in both directions, except
\* when the pod with the greater name looked for its peer too early and skipped it,
\* and the peer's whole waiting loop in CreatGRPCChan passed before it saw the mark.
\* Failed calls to the API server and between daemons do not matter.
THEOREM LostOnlyByGivingUpHolds ==
    ASSUME MaxInc = 1, LinksApart, LinkType = "GRPC", ~StaleNodes
    PROVE  Spec => []LostOnlyByGivingUp
<1>1. FirstSetting /\ [Next]_vars => FirstSetting'
  BY SettingStep
<1>2. FirstSetting /\ FirstInv /\ [Next]_vars => FirstInv'
  BY FirstStep
<1>3. TypeInv /\ SkipInv /\ [Next]_vars => SkipInv'
  BY SkipStep
<1>4. ASSUME FirstInv, SkipInv PROVE LostOnlyByGivingUp
  <2> SUFFICES ASSUME NEW c \in Containers, NEW d \in Containers, NEW l \in Links,
                      Settled(c, d, l), node[c] # node[d], PodOf(c) > PodOf(d),
                      ~Wired(c, d, l)
               PROVE  out[c][l] = "skip" /\ out[d][l] = "gaveup"
    BY DEF LostOnlyByGivingUp, SameHost
  <2>1. PodOf(c) # PodOf(d) /\ ~(PodOf(d) > PodOf(c))
    <3>1. PodOf(c) \in Nat /\ PodOf(d) \in Nat
      BY PodOfContainer, PodsAssumption
    <3> QED
      BY <3>1
  <2>2. /\ GrpcSide(c, d, l) /\ GrpcSide(d, c, l)
        /\ Where(c, l) = "done" /\ Where(d, l) = "done"
    BY <1>4, <2>1, HandledBoth DEF Handled
  <2>3. wire[c][l].st = "none" /\ wire[d][l].st = "none"
    BY <2>2, WireIsWhole DEF Wired
  <2>4. ~(out[c][l] = "skip" /\ out[d][l] = "skip")
    BY <1>4 DEF SkipInv, NotBothSkip, Settled, Skips
  <2> QED
    BY <2>1, <2>2, <2>3, <2>4 DEF GrpcSide
<1>5. FirstSetting => TypeInv
  BY DEF FirstSetting
<1> QED
  BY <1>1, <1>2, <1>3, <1>4, <1>5, SettingInit, FirstInit, SkipInit, PTL DEF Spec

=============================================================================

---------------------------- MODULE PluginProofs ----------------------------
(***************************************************************************)
(* Proofs about Plugin for any topology and any number of nodes and        *)
(* sandboxes: the types, and the life of a pod's containers.               *)
(***************************************************************************)
EXTENDS Plugin, TLAPS

-----------------------------------------------------------------------------
(* Steps inside the loop over the pod's links, and those of them that use   *)
(* the answer to the Get of a living peer.                                  *)
PeerSteps == {"veth_mine", "veth_peer", "veth_rm", "veth_skipped", "veth_make",
              "veth_join", "grpc_skipped", "grpc_wait", "grpc_poll",
              "grpc_exists", "grpc_veth", "grpc_remote", "grpc_local",
              "vx_clean", "vx_make", "vx_register", "vx_update"}
LoopSteps == PeerSteps \cup {"add_link", "add_skip", "del_link", "del_down",
                             "del_rm", "del_skip_peer", "del_skip_this"}

\* The index of a process inside its loop is that of a link of its pod.
InLoop == \A c \in Containers :
            pc[c] \in LoopSteps => idx[c] \in 1..Len(PodLinks[PodOf(c)])

\* A process that deals with a living peer knows its container.
HasPeer == \A c \in Containers : pc[c] \in PeerSteps => loc[c].peer \in Containers

K8sOK == /\ status \in [Pods -> StatusType]
         /\ knows \in [Nodes -> SUBSET Nodes]

NodesOK == /\ node \in [Containers -> Nodes \cup {None}]
           /\ netns \subseteq Containers
           /\ intf \in [Containers -> [Links -> IntfType]]
           /\ wire \in [Containers -> [Links -> WireType]]
           /\ vxlinks \in [Nodes -> [Links -> VxType]]

ProcsOK == /\ pc \in [Containers -> Steps]
           /\ idx \in [Containers -> Nat]
           /\ loc \in [Containers -> LocType]
           /\ out \in [Containers -> [Links -> Outcomes]]
           /\ InLoop
           /\ HasPeer

BudgetOK == budget \in [dups : 0..MaxDups, faults : 0..MaxFaults]

\* TypeOK made inductive.
TypeInv == K8sOK /\ NodesOK /\ ProcsOK /\ BudgetOK

\* Containers belong to pods.
LEMMA PodOfContainer == \A c \in Containers : PodOf(c) \in Pods
BY DEF Containers, PodOf

\* The link at which a process stands is a link of its pod.
LEMMA CurrentLink ==
    ASSUME ProcsOK, NEW c \in Containers, pc[c] \in LoopSteps
    PROVE  /\ Cur(c) \in LinkRec
           /\ Link(c) \in Links
           /\ Peer(c) \in Pods \cup {Localhost}
<1>1. PodOf(c) \in Pods
  BY PodOfContainer
<1>2. PodLinks[PodOf(c)] \in Seq(LinkRec)
  BY <1>1, PodLinksAssumption
<1>3. idx[c] \in 1..Len(PodLinks[PodOf(c)])
  BY DEF ProcsOK, InLoop
<1>4. Cur(c) \in LinkRec
  BY <1>2, <1>3 DEF Cur
<1> QED
  BY <1>4 DEF Link, Peer, LinkRec

\* A step to another point of the same loop body keeps the processes typed.
LEMMA GotoProcs ==
    ASSUME ProcsOK, NEW c \in Containers, NEW step \in Steps, NEW r \in LocType,
           GotoWith(c, step, r),
           step \in LoopSteps => pc[c] \in LoopSteps,
           step \in PeerSteps => r.peer \in Containers
    PROVE  ProcsOK'
<1>1. /\ pc' \in [Containers -> Steps]
      /\ idx' \in [Containers -> Nat]
      /\ loc' \in [Containers -> LocType]
      /\ out' \in [Containers -> [Links -> Outcomes]]
  BY DEF ProcsOK, GotoWith
<1>2. InLoop'
  BY DEF ProcsOK, GotoWith, InLoop
<1>3. HasPeer'
  BY DEF ProcsOK, GotoWith, HasPeer
<1> QED
  BY <1>1, <1>2, <1>3 DEF ProcsOK

\* Entering the loop over the links at link i keeps the processes typed, be
\* there a link i or not.
LEMMA LoopProcs ==
    ASSUME ProcsOK, NEW c \in Containers, NEW i \in Nat \ {0},
           NEW body \in (LoopSteps \ PeerSteps) \cap Steps,
           NEW end \in Steps \ LoopSteps,
           LoopAt(c, i, body, end),
           out' \in [Containers -> [Links -> Outcomes]]
    PROVE  ProcsOK'
<1>0. PodLinks[PodOf(c)] \in Seq(LinkRec)
  BY PodOfContainer, PodLinksAssumption
<1>1. Len(PodLinks[PodOf(c)]) \in Nat
  BY <1>0
<1>2. FreshLoc \in LocType
  BY PluginAssumption DEF FreshLoc, LocType, Kinds
<1>3. /\ pc' \in [Containers -> Steps]
      /\ idx' \in [Containers -> Nat]
      /\ loc' \in [Containers -> LocType]
  BY <1>2 DEF ProcsOK, LoopAt
<1>4. InLoop'
  BY <1>1 DEF ProcsOK, LoopAt, InLoop
<1>5. HasPeer'
  BY DEF ProcsOK, LoopAt, HasPeer, LoopSteps
<1> QED
  BY <1>3, <1>4, <1>5 DEF ProcsOK

\* So does dealing with a link and going on with the next one,
LEMMA DecideProcs ==
    ASSUME ProcsOK, NEW c \in Containers, pc[c] \in LoopSteps,
           NEW how \in Outcomes, Decide(c, how)
    PROVE  ProcsOK'
<1>1. out' \in [Containers -> [Links -> Outcomes]]
  BY DEF ProcsOK, Decide
<1>2. idx[c] + 1 \in Nat \ {0}
  BY DEF ProcsOK
<1>3. "add_link" \in (LoopSteps \ PeerSteps) \cap Steps
  BY DEF LoopSteps, PeerSteps, Steps, AddSteps
<1>4. "up" \in Steps \ LoopSteps
  BY DEF LoopSteps, PeerSteps, Steps
<1>5. LoopAt(c, idx[c] + 1, "add_link", "up")
  BY DEF Decide
<1> QED
  BY <1>1, <1>2, <1>3, <1>4, <1>5, LoopProcs

\* The locals with which a loop body begins.
LEMMA FreshLocTyped == FreshLoc \in LocType /\ FreshLoc.peer = None
BY PluginAssumption DEF FreshLoc, LocType, Kinds

\* Leaving a loop, or going on inside a loop body, with the locals as they are.
LEMMA LeaveProcs ==
    ASSUME ProcsOK, NEW c \in Containers, NEW step \in Steps \ LoopSteps,
           Leave(c, step)
    PROVE  ProcsOK'
<1>1. step \notin PeerSteps
  BY DEF LoopSteps
<1> QED
  BY <1>1, FreshLocTyped, GotoProcs DEF Leave

\* failing an ADD,
LEMMA FailProcs ==
    ASSUME ProcsOK, NEW c \in Containers, Fail(c)
    PROVE  ProcsOK'
<1>1. "add_failed" \in Steps \ LoopSteps
  BY DEF Steps, LoopSteps, PeerSteps
<1> QED
  BY <1>1, LeaveProcs DEF Fail

\* and going on with another step of the same body.
LEMMA StayProcs ==
    ASSUME ProcsOK, NEW c \in Containers, NEW step \in Steps, Goto(c, step),
           step \in LoopSteps => pc[c] \in LoopSteps,
           step \in PeerSteps => pc[c] \in PeerSteps
    PROVE  ProcsOK'
<1>1. loc[c] \in LocType
  BY DEF ProcsOK
<1>2. step \in PeerSteps => loc[c].peer \in Containers
  BY DEF ProcsOK, HasPeer
<1> QED
  BY <1>1, <1>2, GotoProcs DEF Goto

\* What is removed from a typed table of interfaces leaves it typed.
LEMMA NoIfTyped == NoIf \in IntfType
BY DEF NoIf, IntfType, Kinds

\* Removing interfaces, or a namespace, leaves a typed map of interfaces.
LEMMA UnplugTyped ==
    ASSUME NEW I \in [Containers -> [Links -> IntfType]], NEW c, NEW l
    PROVE  /\ Unplug(I, c, l) \in [Containers -> [Links -> IntfType]]
           /\ DropNs(I, c) \in [Containers -> [Links -> IntfType]]
BY NoIfTyped DEF Unplug, DropNs

\* So does setting one interface,
LEMMA SetIntfTyped ==
    ASSUME NEW I \in [Containers -> [Links -> IntfType]], NEW c, NEW l,
           NEW x \in IntfType
    PROVE  [I EXCEPT ![c][l] = x] \in [Containers -> [Links -> IntfType]]
OBVIOUS

\* and the same holds of the wire map.
LEMMA SetWireTyped ==
    ASSUME NEW W \in [Containers -> [Links -> WireType]], NEW c, NEW l,
           NEW x \in WireType
    PROVE  [W EXCEPT ![c][l] = x] \in [Containers -> [Links -> WireType]]
OBVIOUS

\* If builds interfaces of the type.
LEMMA IfTyped ==
    ASSUME NEW k \in Kinds, NEW x \in Containers \cup Nodes \cup {None}
    PROVE  If(k, x) \in IntfType
BY DEF If, IntfType

-----------------------------------------------------------------------------
(* The kubelet's steps.                                                     *)
\* Every step of the kubelet and of the container runtime keeps the types.
LEMMA KubeletType ==
    ASSUME TypeInv, NEW c \in Containers, Kubelet(c)
    PROVE  TypeInv'
<1> USE DEF TypeInv
<1>1. ASSUME NEW n \in Nodes, StartPod(c, n) PROVE TypeInv'
  <2>1. ProcsOK'
    <3>1. "add_alive" \in Steps \ LoopSteps /\ "add_alive" \notin PeerSteps
      BY DEF Steps, AddSteps, LoopSteps, PeerSteps
    <3> QED BY <1>1, <3>1, StayProcs DEF StartPod
  <2>2. NodesOK'
    BY <1>1 DEF StartPod, NodesOK
  <2> QED
    BY <1>1, <2>1, <2>2 DEF StartPod, K8sOK, BudgetOK, k8s
<1>2. CASE StartDel(c)
  <2>1. "del_get" \in Steps \ LoopSteps
    BY DEF Steps, DelSteps, LoopSteps, PeerSteps
  <2>2. ProcsOK'
    BY <1>2, <2>1, LeaveProcs DEF StartDel
  <2> QED
    BY <1>2, <2>2 DEF StartDel, K8sOK, NodesOK, BudgetOK, k8s, nodes
<1>3. CASE RepeatDel(c)
  <2>1. "del_get" \in Steps \ LoopSteps
    BY DEF Steps, DelSteps, LoopSteps, PeerSteps
  <2>2. ProcsOK'
    BY <1>3, <2>1, LeaveProcs DEF RepeatDel
  <2>3. BudgetOK'
    BY <1>3, PluginAssumption DEF RepeatDel, BudgetOK
  <2> QED
    BY <1>3, <2>2, <2>3 DEF RepeatDel, K8sOK, NodesOK, k8s, nodes
<1>4. CASE RemoveSandbox(c)
  <2>1. ProcsOK'
    <3>1. "gone" \in Steps \ LoopSteps /\ "gone" \notin PeerSteps
      BY DEF Steps, LoopSteps, PeerSteps
    <3>2. NoOutcome \in [Links -> Outcomes]
      BY DEF NoOutcome, Outcomes
    <3> QED
      BY <1>4, <3>1, <3>2, FreshLocTyped
      DEF RemoveSandbox, ProcsOK, InLoop, HasPeer
  <2>2. NodesOK'
    BY <1>4, UnplugTyped DEF RemoveSandbox, NodesOK
  <2> QED
    BY <1>4, <2>1, <2>2 DEF RemoveSandbox, K8sOK, BudgetOK, k8s
<1> QED
  BY <1>1, <1>2, <1>3, <1>4 DEF Kubelet

-----------------------------------------------------------------------------
(* The steps of ADD.                                                        *)

\* Inside the part of the loop body that deals with a living peer, a process
\* may go to any other step of that part, leave the link, or fail.
LEMMA PeerProcs ==
    ASSUME ProcsOK, NEW c \in Containers, pc[c] \in PeerSteps
    PROVE  /\ \A s \in PeerSteps : Goto(c, s) => ProcsOK'
           /\ \A s \in PeerSteps : \A r \in LocType :
                r.peer \in Containers /\ GotoWith(c, s, r) => ProcsOK'
           /\ \A how \in Outcomes : Decide(c, how) => ProcsOK'
           /\ Fail(c) => ProcsOK'
<1>1. PeerSteps \subseteq Steps /\ PeerSteps \subseteq LoopSteps
  BY DEF PeerSteps, LoopSteps, Steps, AddSteps
<1>2. \A s \in PeerSteps : Goto(c, s) => ProcsOK'
  BY <1>1, StayProcs
<1>3. ASSUME NEW s \in PeerSteps, NEW r \in LocType, r.peer \in Containers,
             GotoWith(c, s, r)
      PROVE  ProcsOK'
  BY <1>1, <1>3, GotoProcs
<1>4. \A how \in Outcomes : Decide(c, how) => ProcsOK'
  BY <1>1, DecideProcs
<1> QED
  BY <1>2, <1>3, <1>4, FailProcs

\* What a process in such a step works on: its link, its peer, their tables.
LEMMA PeerLocals ==
    ASSUME ProcsOK, NEW c \in Containers, pc[c] \in PeerSteps
    PROVE  /\ Link(c) \in Links
           /\ loc[c] \in LocType
           /\ loc[c].peer \in Containers
BY CurrentLink DEF ProcsOK, HasPeer, LoopSteps

\* The container that Get answers with is a container, or None.
LEMMA GetTyped ==
    ASSUME K8sOK, NEW q \in Pods, NEW known
    PROVE  Get(status, q, known) \in Containers \cup {None}
BY DEF K8sOK, StatusType, Get

\* SetAlive keeps the type of the status.
LEMMA SetAliveTyped ==
    ASSUME NEW S \in [Pods -> StatusType], NEW p \in Pods,
           NEW n \in Nodes \cup {None}, NEW c \in Containers \cup {None}
    PROVE  SetAlive(S, p, n, c) \in [Pods -> StatusType]
<1>1. [S[p] EXCEPT !.src = n, !.ns = c] \in StatusType
  BY DEF StatusType
<1>2. SetAlive(S, p, n, c) = [S EXCEPT ![p] = [S[p] EXCEPT !.src = n, !.ns = c]]
  BY DEF SetAlive, StatusType
<1> QED
  BY <1>1, <1>2

\* So do Skip and the two updates of SkipReverse.
LEMMA SkipTyped ==
    ASSUME NEW S \in [Pods -> StatusType], NEW p \in Pods,
           NEW q \in Pods \cup {Localhost}, NEW l \in Links
    PROVE  /\ Skip(S, p, q, l) \in [Pods -> StatusType]
           /\ SkipReverseThis(S, p, q, l) \in [Pods -> StatusType]
           /\ SkipReversePeer(S, p, q, l) \in [Pods -> StatusType]
<1>1. \A a \in Pods, b \in Pods \cup {Localhost} :
        Skip(S, a, b, l) \in [Pods -> StatusType]
  BY DEF Skip, StatusType
<1>2. SkipReverseThis(S, p, q, l) \in [Pods -> StatusType]
  BY DEF SkipReverseThis, StatusType
<1>3. q \notin Pods => Skip(S, q, p, l) = S
  BY DEF Skip
<1> QED
  BY <1>1, <1>2, <1>3 DEF SkipReversePeer

\* Skip and both updates of SkipReverse leave everybody alive or dead.
LEMMA SkipKeepsAlive ==
    ASSUME NEW S \in [Pods -> StatusType], NEW p, NEW q, NEW l, NEW x \in Pods
    PROVE  /\ Skip(S, p, q, l)[x].ns = S[x].ns
           /\ Skip(S, p, q, l)[x].src = S[x].src
           /\ SkipReversePeer(S, p, q, l)[x].ns = S[x].ns
           /\ SkipReversePeer(S, p, q, l)[x].src = S[x].src
           /\ SkipReverseThis(S, p, q, l)[x].ns = S[x].ns
           /\ SkipReverseThis(S, p, q, l)[x].src = S[x].src
<1>1. \A a, b : /\ Skip(S, a, b, l)[x].ns = S[x].ns
                /\ Skip(S, a, b, l)[x].src = S[x].src
  BY DEF Skip, StatusType
<1>2. /\ SkipReverseThis(S, p, q, l)[x].ns = S[x].ns
      /\ SkipReverseThis(S, p, q, l)[x].src = S[x].src
  BY DEF SkipReverseThis, StatusType
<1> QED
  BY <1>1, <1>2 DEF SkipReversePeer

\* The loop of ADD: publishing the pod, macvlan links, the look at the peer,
\* and skipping it keep the types.
LEMMA AddLoopType ==
    ASSUME TypeInv, NEW c \in Containers,
           AddSetAlive(c) \/ AddMacvlan(c) \/ AddGetPeer(c) \/ AddSkip(c)
    PROVE  TypeInv'
<1> USE DEF TypeInv
<1>1. CASE AddSetAlive(c)
  <2>1. ProcsOK'
    <3>1. /\ "add_link" \in (LoopSteps \ PeerSteps) \cap Steps
          /\ "up" \in Steps \ LoopSteps
      BY DEF LoopSteps, PeerSteps, Steps, AddSteps
    <3> QED BY <1>1, <3>1, LoopProcs DEF AddSetAlive, ProcsOK
  <2>2. K8sOK'
    BY <1>1, SetAliveTyped, PodOfContainer DEF AddSetAlive, K8sOK, NodesOK
  <2> QED
    BY <1>1, <2>1, <2>2 DEF AddSetAlive, NodesOK, BudgetOK, nodes
<1>2. CASE AddMacvlan(c)
  <2>1. pc[c] \in LoopSteps
    BY <1>2 DEF AddMacvlan, At, LoopSteps
  <2>2. ProcsOK'
    BY <1>2, <2>1, DecideProcs DEF AddMacvlan, Outcomes
  <2>3. NodesOK'
    BY <1>2, IfTyped, SetIntfTyped DEF AddMacvlan, NodesOK, Kinds
  <2> QED
    BY <1>2, <2>2, <2>3 DEF AddMacvlan, K8sOK, BudgetOK, k8s
<1>3. CASE AddGetPeer(c)
  <2> DEFINE d == Get(status, Peer(c), knows[node[c]])
  <2>1. pc[c] \in LoopSteps
    BY <1>3 DEF AddGetPeer, At, LoopSteps
  <2>2. Peer(c) \in Pods
    BY <1>3, <2>1, CurrentLink DEF AddGetPeer
  <2>3. d \in Containers \cup {None}
    BY <2>2, GetTyped
  <2>4. [loc[c] EXCEPT !.peer = d] \in LocType
    BY <2>3 DEF ProcsOK, LocType
  <2>5. [loc[c] EXCEPT !.peer = d].peer = d
    BY DEF ProcsOK, LocType
  <2>6. ProcsOK'
    <3>1. PICK s \in {"add_skip", "veth_mine", "grpc_skipped", "vx_clean"} :
            /\ GotoWith(c, s, [loc[c] EXCEPT !.peer = d])
            /\ s # "add_skip" => d # None
      BY <1>3 DEF AddGetPeer
    <3>2. s \in Steps /\ s \in LoopSteps /\ (s \in PeerSteps => s # "add_skip")
      BY DEF Steps, AddSteps, LoopSteps, PeerSteps
    <3> QED BY <2>1, <2>3, <2>4, <2>5, <3>1, <3>2, GotoProcs
  <2> QED
    BY <1>3, <2>6 DEF AddGetPeer, K8sOK, NodesOK, BudgetOK, k8s, nodes
<1>4. CASE AddSkip(c)
  <2>1. pc[c] \in LoopSteps
    BY <1>4 DEF AddSkip, At, LoopSteps
  <2>2. ProcsOK'
    BY <1>4, <2>1, DecideProcs DEF AddSkip, Outcomes
  <2>3. K8sOK'
    BY <1>4, <2>1, CurrentLink, PodOfContainer, SkipTyped DEF AddSkip, K8sOK
  <2> QED
    BY <1>4, <2>2, <2>3 DEF AddSkip, NodesOK, BudgetOK, nodes
<1> QED
  BY <1>1, <1>2, <1>3, <1>4

\* The veth branch of ADD keeps the types.
LEMMA AddVethType ==
    ASSUME TypeInv, NEW c \in Containers,
           \/ VethExistMine(c) \/ VethExistPeer(c) \/ VethRemove(c)
           \/ VethIsSkipped(c) \/ VethMake(c) \/ VethJoin(c)
    PROVE  TypeInv'
<1> USE DEF TypeInv
<1>1. pc[c] \in PeerSteps
  BY DEF PeerSteps, At, VethExistMine, VethExistPeer, VethRemove,
         VethIsSkipped, VethMake, VethJoin
<1>2. /\ Link(c) \in Links
      /\ loc[c] \in LocType
      /\ loc[c].peer \in Containers
  BY <1>1, PeerLocals
<1>3. /\ {"veth_peer", "veth_skipped", "veth_rm", "veth_make", "veth_join"}
            \subseteq PeerSteps
      /\ {"exists", "defer", "made"} \subseteq Outcomes
  BY DEF PeerSteps, Outcomes
<1>4. CASE VethExistMine(c)
  <2>1. [loc[c] EXCEPT !.exist = Exists(c, Link(c))] \in LocType
    BY <1>2 DEF LocType, Exists
  <2>2. [loc[c] EXCEPT !.exist = Exists(c, Link(c))].peer \in Containers
    BY <1>2 DEF LocType
  <2>3. ProcsOK'
    BY <1>1, <1>3, <1>4, <2>1, <2>2, PeerProcs DEF VethExistMine
  <2> QED
    BY <1>4, <2>3 DEF VethExistMine, K8sOK, NodesOK, BudgetOK, k8s, nodes
<1>5. CASE VethExistPeer(c)
  <2>1. ProcsOK'
    BY <1>1, <1>3, <1>5, PeerProcs DEF VethExistPeer
  <2> QED
    BY <1>5, <2>1 DEF VethExistPeer, K8sOK, NodesOK, BudgetOK, k8s, nodes
<1>6. CASE VethRemove(c)
  <2>1. ProcsOK'
    BY <1>1, <1>3, <1>6, PeerProcs DEF VethRemove
  <2>2. NodesOK'
    BY <1>6, UnplugTyped DEF VethRemove, NodesOK
  <2> QED
    BY <1>6, <2>1, <2>2 DEF VethRemove, K8sOK, BudgetOK, k8s
<1>7. CASE VethIsSkipped(c)
  <2>1. ProcsOK'
    BY <1>1, <1>3, <1>7, PeerProcs DEF VethIsSkipped
  <2> QED
    BY <1>7, <2>1 DEF VethIsSkipped, K8sOK, NodesOK, BudgetOK, k8s, nodes
<1>8. CASE VethMake(c)
  <2>1. ProcsOK'
    BY <1>1, <1>3, <1>8, PeerProcs DEF VethMake
  <2>2. If("half", None) \in IntfType
    BY IfTyped DEF Kinds
  <2>3. [intf EXCEPT ![c][Link(c)] = If("half", None)]
           \in [Containers -> [Links -> IntfType]]
    BY <2>2, SetIntfTyped DEF NodesOK
  <2>4. intf' \in [Containers -> [Links -> IntfType]]
    BY <1>8, <2>3 DEF VethMake, NodesOK
  <2> QED
    BY <1>8, <2>1, <2>4 DEF VethMake, K8sOK, NodesOK, BudgetOK, k8s
<1>9. CASE VethJoin(c)
  <2>1. ProcsOK'
    BY <1>1, <1>3, <1>9, PeerProcs DEF VethJoin
  <2>2. intf' \in [Containers -> [Links -> IntfType]]
    <3>1. If("veth", c) \in IntfType /\ If("veth", loc[c].peer) \in IntfType
      BY <1>2, IfTyped DEF Kinds
    <3>2. [intf EXCEPT ![c][Link(c)] = If("veth", loc[c].peer)]
             \in [Containers -> [Links -> IntfType]]
      BY <3>1, SetIntfTyped DEF NodesOK
    <3>3. [intf EXCEPT ![c][Link(c)] = If("veth", loc[c].peer),
                       ![loc[c].peer][Link(c)] = If("veth", c)]
             \in [Containers -> [Links -> IntfType]]
      BY <3>1, <3>2, SetIntfTyped
    <3>4. Unplug(intf, c, Link(c)) \in [Containers -> [Links -> IntfType]]
      BY UnplugTyped DEF NodesOK
    <3> QED
      BY <1>9, <3>3, <3>4 DEF VethJoin, NodesOK
  <2> QED
    BY <1>9, <2>1, <2>2 DEF VethJoin, K8sOK, NodesOK, BudgetOK, k8s
<1> QED
  BY <1>4, <1>5, <1>6, <1>7, <1>8, <1>9

\* What AddGRPCWireRemote leaves at the peer is typed.
LEMMA RemoteWireTyped ==
    ASSUME NodesOK, NEW c \in Containers, NEW d \in Containers, NEW l \in Links,
           AddGRPCWireRemote(c, d, l)
    PROVE  /\ intf' \in [Containers -> [Links -> IntfType]]
           /\ wire' \in [Containers -> [Links -> WireType]]
<1>1. CASE RemoteUpdates(d, l) /\ wire' = [wire EXCEPT ![d][l].st = "ready",
                                   ![d][l].to = c, ![d][l].toIf = "own"]
                               /\ UNCHANGED intf
  <2> DEFINE w == [wire[d][l] EXCEPT !.st = "ready", !.to = c, !.toIf = "own"]
  <2>1. wire[d][l] \in WireType
    BY DEF NodesOK
  <2>2. w \in WireType
    BY <2>1 DEF WireType, Kinds
  <2>3. wire' = [wire EXCEPT ![d][l] = w]
    BY <1>1 DEF NodesOK
  <2>4. [wire EXCEPT ![d][l] = w] \in [Containers -> [Links -> WireType]]
    BY <2>2, SetWireTyped DEF NodesOK
  <2> QED
    BY <1>1, <2>3, <2>4 DEF NodesOK
<1>2. CASE /\ intf' = [Unplug(intf, d, l) EXCEPT ![d][l] = If("peer", None)]
           /\ wire' = [wire EXCEPT ![d][l] = GWire("peer", c, "own")]
  <2>1. If("peer", None) \in IntfType
    BY IfTyped DEF Kinds
  <2>2. Unplug(intf, d, l) \in [Containers -> [Links -> IntfType]]
    BY UnplugTyped DEF NodesOK
  <2>3. intf' \in [Containers -> [Links -> IntfType]]
    BY <1>2, <2>1, <2>2, SetIntfTyped
  <2>4. GWire("peer", c, "own") \in WireType
    BY DEF GWire, WireType, Kinds, NodesOK
  <2> QED
    BY <1>2, <2>3, <2>4 DEF NodesOK
<1> QED
  BY <1>1, <1>2 DEF AddGRPCWireRemote

\* The gRPC branch of ADD (CreatGRPCChan) keeps the types.
LEMMA AddGrpcType ==
    ASSUME TypeInv, NEW c \in Containers,
           \/ GrpcIsSkipped(c) \/ GrpcWait(c) \/ GrpcPoll(c) \/ GrpcExists(c)
           \/ GrpcVeth(c) \/ GrpcRemote(c) \/ GrpcLocal(c)
    PROVE  TypeInv'
<1> USE DEF TypeInv
<1>1. pc[c] \in PeerSteps
  BY DEF PeerSteps, At, GrpcIsSkipped, GrpcWait, GrpcPoll, GrpcExists,
         GrpcVeth, GrpcRemote, GrpcLocal
<1>2. /\ Link(c) \in Links
      /\ loc[c] \in LocType
      /\ loc[c].peer \in Containers
  BY <1>1, PeerLocals
<1>3. /\ {"grpc_wait", "grpc_poll", "grpc_exists", "grpc_veth", "grpc_remote",
          "grpc_local"} \subseteq PeerSteps
      /\ {"exists", "gaveup", "made"} \subseteq Outcomes
  BY DEF PeerSteps, Outcomes
<1>4. CASE GrpcIsSkipped(c)
  <2>1. [loc[c] EXCEPT !.ticks = 1] \in LocType
    BY <1>2, PluginAssumption DEF LocType
  <2>2. [loc[c] EXCEPT !.ticks = 1].peer \in Containers
    BY <1>2 DEF LocType
  <2>3. ProcsOK'
    BY <1>1, <1>3, <1>4, <2>1, <2>2, PeerProcs DEF GrpcIsSkipped
  <2> QED
    BY <1>4, <2>3 DEF GrpcIsSkipped, K8sOK, NodesOK, BudgetOK, k8s, nodes
<1>5. CASE GrpcWait(c)
  <2>1. ProcsOK'
    BY <1>1, <1>3, <1>5, PeerProcs DEF GrpcWait
  <2> QED
    BY <1>5, <2>1 DEF GrpcWait, K8sOK, NodesOK, BudgetOK, k8s, nodes
<1>6. CASE GrpcPoll(c)
  <2>1. loc[c].ticks < MaxTicks => [loc[c] EXCEPT !.ticks = @ + 1] \in LocType
    BY <1>2, PluginAssumption DEF LocType
  <2>2. [loc[c] EXCEPT !.ticks = @ + 1].peer \in Containers
    BY <1>2 DEF LocType
  <2>3. ProcsOK'
    BY <1>1, <1>3, <1>6, <2>1, <2>2, PeerProcs DEF GrpcPoll
  <2> QED
    BY <1>6, <2>3 DEF GrpcPoll, K8sOK, NodesOK, BudgetOK, k8s, nodes
<1>7. CASE GrpcExists(c)
  <2>1. ProcsOK'
    BY <1>1, <1>3, <1>7, PeerProcs DEF GrpcExists
  <2> QED
    BY <1>7, <2>1 DEF GrpcExists, K8sOK, NodesOK, BudgetOK, k8s, nodes
<1>8. CASE GrpcVeth(c)
  <2>1. ProcsOK'
    BY <1>1, <1>3, <1>8, PeerProcs DEF GrpcVeth
  <2>2. If("own", None) \in IntfType
    BY IfTyped DEF Kinds
  <2>3. [intf EXCEPT ![c][Link(c)] = If("own", None)]
           \in [Containers -> [Links -> IntfType]]
    BY <2>2, SetIntfTyped DEF NodesOK
  <2>4. intf' \in [Containers -> [Links -> IntfType]]
    BY <1>8, <2>3 DEF GrpcVeth, NodesOK
  <2> QED
    BY <1>8, <2>1, <2>4 DEF GrpcVeth, K8sOK, NodesOK, BudgetOK, k8s
<1>9. CASE GrpcRemote(c)
  <2>1. /\ intf' \in [Containers -> [Links -> IntfType]]
        /\ wire' \in [Containers -> [Links -> WireType]]
    BY <1>2, <1>9, RemoteWireTyped DEF GrpcRemote, NodesOK
  <2>2. wire'[loc[c].peer][Link(c)].mine \in Kinds
    BY <1>2, <2>1 DEF WireType
  <2> DEFINE r == [loc[c] EXCEPT !.got = wire'[loc[c].peer][Link(c)].mine]
  <2>3. r \in LocType /\ r.peer \in Containers
    BY <1>2, <2>2 DEF LocType
  <2>4. ProcsOK'
    BY <1>1, <1>3, <1>9, <2>3, PeerProcs DEF GrpcRemote
  <2> QED
    BY <1>9, <2>1, <2>4 DEF GrpcRemote, K8sOK, NodesOK, BudgetOK, k8s
<1>10. CASE GrpcLocal(c)
  <2>1. ProcsOK'
    BY <1>1, <1>3, <1>10, PeerProcs DEF GrpcLocal
  <2>2. GWire("own", loc[c].peer, loc[c].got) \in WireType
    BY <1>2 DEF GWire, WireType, Kinds, NodesOK, LocType
  <2>3. [wire EXCEPT ![c][Link(c)] = GWire("own", loc[c].peer, loc[c].got)]
           \in [Containers -> [Links -> WireType]]
    BY <2>2, SetWireTyped DEF NodesOK
  <2>4. wire' \in [Containers -> [Links -> WireType]]
    BY <1>10, <2>3 DEF GrpcLocal, NodesOK
  <2> QED
    BY <1>10, <2>1, <2>4 DEF GrpcLocal, K8sOK, NodesOK, BudgetOK, k8s
<1> QED
  BY <1>4, <1>5, <1>6, <1>7, <1>8, <1>9, <1>10

\* What a node registers for a VXLAN link keeps the registry typed.
LEMMA SetVxTyped ==
    ASSUME NEW V \in [Nodes -> [Links -> VxType]], NEW n, NEW l, NEW x \in VxType
    PROVE  [V EXCEPT ![n][l] = x] \in [Nodes -> [Links -> VxType]]
OBVIOUS

\* What Update leaves at the peer is typed.
LEMMA RemoteUpdateTyped ==
    ASSUME NodesOK, NEW c \in Containers, NEW d \in Containers, NEW l \in Links,
           RemoteUpdate(c, d, l)
    PROVE  /\ intf' \in [Containers -> [Links -> IntfType]]
           /\ vxlinks' \in [Nodes -> [Links -> VxType]]
<1>1. node[c] \in Nodes \cup {None}
  BY DEF NodesOK
<1>2. If("vx", node[c]) \in IntfType
  BY <1>1, IfTyped DEF Kinds
<1>3. Unplug(intf, d, l) \in [Containers -> [Links -> IntfType]]
  BY UnplugTyped DEF NodesOK
<1>4. [Unplug(intf, d, l) EXCEPT ![d][l] = If("vx", node[c])]
         \in [Containers -> [Links -> IntfType]]
  BY <1>2, <1>3, SetIntfTyped
<1>5. VxEndpoint(d, node[c]) \in VxType
  BY <1>1 DEF VxEndpoint, VxType
<1>6. [vxlinks EXCEPT ![node[d]][l] = VxEndpoint(d, node[c])]
         \in [Nodes -> [Links -> VxType]]
  BY <1>5, SetVxTyped DEF NodesOK
<1> QED
  BY <1>4, <1>6 DEF RemoteUpdate, NodesOK

\* The VXLAN branch of ADD keeps the types.
LEMMA AddVxType ==
    ASSUME TypeInv, NEW c \in Containers,
           VxClean(c) \/ VxMake(c) \/ VxRegister(c) \/ VxUpdate(c)
    PROVE  TypeInv'
<1> USE DEF TypeInv
<1>1. pc[c] \in PeerSteps
  BY DEF PeerSteps, At, VxClean, VxMake, VxRegister, VxUpdate
<1>2. /\ Link(c) \in Links
      /\ loc[c].peer \in Containers
      /\ node[loc[c].peer] \in Nodes \cup {None}
  BY <1>1, PeerLocals DEF NodesOK
<1>3. /\ {"vx_make", "vx_register", "vx_update"} \subseteq PeerSteps
      /\ "made" \in Outcomes
  BY DEF PeerSteps, Outcomes
<1>4. CASE VxClean(c)
  <2>1. ProcsOK'
    BY <1>1, <1>3, <1>4, PeerProcs DEF VxClean
  <2>2. NodesOK'
    BY <1>4, UnplugTyped DEF VxClean, NodesOK
  <2> QED
    BY <1>4, <2>1, <2>2 DEF VxClean, K8sOK, BudgetOK, k8s
<1>5. CASE VxMake(c)
  <2>1. ProcsOK'
    BY <1>1, <1>3, <1>5, PeerProcs DEF VxMake
  <2>2. If("vx", node[loc[c].peer]) \in IntfType
    BY <1>2, IfTyped DEF Kinds
  <2>3. [intf EXCEPT ![c][Link(c)] = If("vx", node[loc[c].peer])]
           \in [Containers -> [Links -> IntfType]]
    BY <2>2, SetIntfTyped DEF NodesOK
  <2>4. intf' \in [Containers -> [Links -> IntfType]]
    BY <1>5, <2>3 DEF VxMake, NodesOK
  <2> QED
    BY <1>5, <2>1, <2>4 DEF VxMake, K8sOK, NodesOK, BudgetOK, k8s
<1>6. CASE VxRegister(c)
  <2>1. ProcsOK'
    BY <1>1, <1>3, <1>6, PeerProcs DEF VxRegister
  <2>2. VxEndpoint(c, node[loc[c].peer]) \in VxType
    BY <1>2 DEF VxEndpoint, VxType
  <2>3. [vxlinks EXCEPT ![node[c]][Link(c)] = VxEndpoint(c, node[loc[c].peer])]
           \in [Nodes -> [Links -> VxType]]
    BY <2>2, SetVxTyped DEF NodesOK
  <2> QED
    BY <1>6, <2>1, <2>3 DEF VxRegister, K8sOK, NodesOK, BudgetOK, k8s
<1>7. CASE VxUpdate(c)
  <2>1. ProcsOK'
    BY <1>1, <1>3, <1>7, PeerProcs DEF VxUpdate
  <2>2. /\ intf' \in [Containers -> [Links -> IntfType]]
        /\ vxlinks' \in [Nodes -> [Links -> VxType]]
    BY <1>2, <1>7, RemoteUpdateTyped DEF VxUpdate, NodesOK
  <2> QED
    BY <1>7, <2>1, <2>2 DEF VxUpdate, K8sOK, NodesOK, BudgetOK, k8s
<1> QED
  BY <1>4, <1>5, <1>6, <1>7

\* Every step of ADD keeps the types.
LEMMA AddType ==
    ASSUME TypeInv, NEW c \in Containers, Add(c)
    PROVE  TypeInv'
BY AddLoopType, AddVethType, AddGrpcType, AddVxType DEF Add

-----------------------------------------------------------------------------
(* The steps of DEL.                                                        *)

\* RemGRPCWire leaves typed wires and interfaces behind.
LEMMA DropTyped ==
    ASSUME NodesOK, NEW c \in Containers, DropPodWires(c)
    PROVE  /\ intf' \in [Containers -> [Links -> IntfType]]
           /\ wire' \in [Containers -> [Links -> WireType]]
<1>1. NoWire \in WireType
  BY DEF NoWire, WireType, Kinds
<1> QED
  BY <1>1, NoIfTyped DEF DropPodWires, NodesOK

\* Every step of DEL keeps the types.
LEMMA DelType ==
    ASSUME TypeInv, NEW c \in Containers, Del(c)
    PROVE  TypeInv'
<1> USE DEF TypeInv
<1>1. CASE DelGet(c)
  <2>1. {"del_wires", "del_done"} \subseteq (Steps \ LoopSteps) \ PeerSteps
    BY DEF Steps, DelSteps, LoopSteps, PeerSteps
  <2>2. ProcsOK'
    BY <1>1, <2>1, StayProcs DEF DelGet
  <2> QED
    BY <1>1, <2>2 DEF DelGet, K8sOK, NodesOK, BudgetOK, k8s, nodes
<1>2. CASE DelWires(c)
  <2>1. "del_clear" \in (Steps \ LoopSteps) \ PeerSteps
    BY DEF Steps, DelSteps, LoopSteps, PeerSteps
  <2>2. ProcsOK'
    BY <1>2, <2>1, StayProcs DEF DelWires
  <2>3. NodesOK'
    BY <1>2, DropTyped DEF DelWires, NodesOK
  <2> QED
    BY <1>2, <2>2, <2>3 DEF DelWires, K8sOK, BudgetOK, k8s
<1>3. CASE DelClear(c)
  <2>1. /\ "del_link" \in (LoopSteps \ PeerSteps) \cap Steps
        /\ "del_done" \in Steps \ LoopSteps
    BY DEF LoopSteps, PeerSteps, Steps, DelSteps
  <2>2. ProcsOK'
    BY <1>3, <2>1, LoopProcs DEF DelClear, ProcsOK
  <2>3. K8sOK'
    BY <1>3, SetAliveTyped, PodOfContainer DEF DelClear, K8sOK
  <2> QED
    BY <1>3, <2>2, <2>3 DEF DelClear, NodesOK, BudgetOK, nodes
<1>4. CASE DelGetPeer(c)
  <2> DEFINE d == Get(status, Peer(c), knows[node[c]])
  <2>1. pc[c] \in LoopSteps
    BY <1>4 DEF DelGetPeer, At, LoopSteps
  <2>2. ProcsOK'
    <3>1. CASE Leave(c, "del_failed")
      <4>1. "del_failed" \in Steps \ LoopSteps
        BY DEF Steps, DelSteps, LoopSteps, PeerSteps
      <4> QED BY <3>1, <4>1, LeaveProcs
    <3>2. CASE Peer(c) # Localhost
      <4>1. d \in Containers \cup {None}
        BY <2>1, <3>2, CurrentLink, GetTyped
      <4>2. [loc[c] EXCEPT !.peer = d] \in LocType
        BY <4>1 DEF ProcsOK, LocType
      <4>3. PICK s \in {"del_rm", "del_down"} :
              GotoWith(c, s, [loc[c] EXCEPT !.peer = d])
        BY <1>4, <3>2 DEF DelGetPeer
      <4>4. s \in Steps /\ s \notin PeerSteps
        BY DEF Steps, DelSteps, PeerSteps
      <4> QED BY <2>1, <4>2, <4>3, <4>4, GotoProcs
    <3> QED
      BY <1>4, <3>1, <3>2 DEF DelGetPeer
  <2> QED
    BY <1>4, <2>2 DEF DelGetPeer, K8sOK, NodesOK, BudgetOK, k8s, nodes
<1>5. CASE DelDown(c)
  <2>1. pc[c] \in LoopSteps
    BY <1>5 DEF DelDown, At, LoopSteps
  <2>2. "del_rm" \in Steps /\ "del_rm" \notin PeerSteps
    BY DEF Steps, DelSteps, PeerSteps
  <2>3. ProcsOK'
    BY <1>5, <2>1, <2>2, StayProcs DEF DelDown
  <2>4. /\ Link(c) \in Links
        /\ loc[c].peer \in Containers \cup {None}
    BY <2>1, CurrentLink DEF ProcsOK, LocType
  <2>5. loc[c].peer \in Containers =>
          [wire EXCEPT ![loc[c].peer][Link(c)].st = "down"]
             \in [Containers -> [Links -> WireType]]
    <3> DEFINE d == loc[c].peer
               w == [wire[d][Link(c)] EXCEPT !.st = "down"]
    <3>1. HAVE d \in Containers
    <3>2. wire[d][Link(c)] \in WireType
      BY <2>4, <3>1 DEF NodesOK
    <3>3. w \in WireType
      BY <3>2 DEF WireType
    <3>4. [wire EXCEPT ![d][Link(c)].st = "down"] = [wire EXCEPT ![d][Link(c)] = w]
      BY DEF NodesOK
    <3>5. [wire EXCEPT ![d][Link(c)] = w] \in [Containers -> [Links -> WireType]]
      BY <3>3, SetWireTyped DEF NodesOK
    <3> QED
      BY <3>4, <3>5
  <2>6. wire' \in [Containers -> [Links -> WireType]]
    BY <1>5, <2>4, <2>5 DEF DelDown, MakeGRPCChanDown, NodesOK
  <2>7. [vxlinks EXCEPT ![node[c]][Link(c)] = NoVx] \in [Nodes -> [Links -> VxType]]
    <3>1. NoVx \in VxType
      BY DEF NoVx, VxType
    <3> QED
      BY <3>1, SetVxTyped DEF NodesOK
  <2>8. vxlinks' \in [Nodes -> [Links -> VxType]]
    BY <1>5, <2>7 DEF DelDown, NodesOK
  <2> QED
    BY <1>5, <2>3, <2>6, <2>8 DEF DelDown, K8sOK, NodesOK, BudgetOK, k8s
<1>6. CASE DelRemove(c)
  <2>1. /\ pc[c] \in LoopSteps
        /\ "del_skip_peer" \in Steps /\ "del_skip_peer" \notin PeerSteps
    BY <1>6 DEF DelRemove, At, LoopSteps, Steps, DelSteps, PeerSteps
  <2>2. ProcsOK'
    BY <1>6, <2>1, StayProcs DEF DelRemove
  <2>3. NodesOK'
    BY <1>6, UnplugTyped DEF DelRemove, NodesOK
  <2> QED
    BY <1>6, <2>2, <2>3 DEF DelRemove, K8sOK, BudgetOK, k8s
<1>7. CASE DelSkipPeer(c)
  <2>1. /\ pc[c] \in LoopSteps
        /\ "del_skip_this" \in Steps /\ "del_skip_this" \notin PeerSteps
    BY <1>7 DEF DelSkipPeer, At, LoopSteps, Steps, DelSteps, PeerSteps
  <2>2. ProcsOK'
    BY <1>7, <2>1, StayProcs DEF DelSkipPeer
  <2>3. K8sOK'
    BY <1>7, <2>1, CurrentLink, PodOfContainer, SkipTyped DEF DelSkipPeer, K8sOK
  <2> QED
    BY <1>7, <2>2, <2>3 DEF DelSkipPeer, NodesOK, BudgetOK, nodes
<1>8. CASE DelSkipThis(c)
  <2>1. /\ pc[c] \in LoopSteps
        /\ "del_link" \in (LoopSteps \ PeerSteps) \cap Steps
        /\ "del_done" \in Steps \ LoopSteps
    BY <1>8 DEF DelSkipThis, At, LoopSteps, PeerSteps, Steps, DelSteps
  <2>2. idx[c] + 1 \in Nat \ {0}
    BY DEF ProcsOK
  <2>3. ProcsOK'
    BY <1>8, <2>1, <2>2, LoopProcs DEF DelSkipThis, ProcsOK
  <2>4. K8sOK'
    BY <1>8, <2>1, CurrentLink, PodOfContainer, SkipTyped DEF DelSkipThis, K8sOK
  <2> QED
    BY <1>8, <2>3, <2>4 DEF DelSkipThis, NodesOK, BudgetOK, nodes
<1> QED
  BY <1>1, <1>2, <1>3, <1>4, <1>5, <1>6, <1>7, <1>8 DEF Del

-----------------------------------------------------------------------------
(* Failures, and the daemons' node lists.                                   *)

\* Every injected failure keeps the types.
LEMMA FaultType ==
    ASSUME TypeInv, NEW c \in Containers, Fault(c)
    PROVE  TypeInv'
<1> USE DEF TypeInv
<1>1. ASSUME NEW kind, UseFault(kind) PROVE BudgetOK'
  BY <1>1, PluginAssumption DEF UseFault, BudgetOK
<1>2. CASE AddApiFault(c)
  <2>1. ProcsOK'
    BY <1>2, FailProcs DEF AddApiFault
  <2> QED
    BY <1>1, <1>2, <2>1 DEF AddApiFault, K8sOK, NodesOK, k8s, nodes
<1>3. CASE DelApiFault(c)
  <2>1. {"del_done", "del_failed"} \subseteq Steps \ LoopSteps
    BY DEF Steps, DelSteps, LoopSteps, PeerSteps
  <2>2. ProcsOK'
    BY <1>3, <2>1, LeaveProcs DEF DelApiFault
  <2>3. NodesOK'
    BY <1>3, DropTyped DEF DelApiFault, NodesOK
  <2> QED
    BY <1>1, <1>3, <2>2, <2>3 DEF DelApiFault, K8sOK, k8s
<1>4. CASE RpcFault(c)
  <2>1. CASE At(c, "grpc_remote") \/ At(c, "vx_update")
    <3>1. pc[c] \in PeerSteps
      BY <2>1 DEF At, PeerSteps
    <3>2. Link(c) \in Links /\ loc[c].peer \in Containers
      BY <3>1, PeerLocals
    <3>3. ProcsOK'
      BY <1>4, <2>1, FailProcs DEF RpcFault, At
    <3>4. NodesOK'
      BY <1>4, <2>1, <3>2, RemoteWireTyped, RemoteUpdateTyped
      DEF RpcFault, NodesOK, At
    <3> QED
      BY <1>1, <1>4, <3>3, <3>4 DEF RpcFault, K8sOK, k8s
  <2>2. CASE At(c, "del_down")
    <3>1. /\ pc[c] \in LoopSteps
          /\ "del_rm" \in Steps /\ "del_rm" \notin PeerSteps
      BY <2>2 DEF At, LoopSteps, Steps, DelSteps, PeerSteps
    <3>2. Goto(c, "del_rm") /\ UNCHANGED <<intf, wire, vxlinks>>
      BY <1>4, <2>2 DEF RpcFault, At
    <3>3. ProcsOK'
      BY <3>1, <3>2, StayProcs
    <3> QED
      BY <1>1, <1>4, <3>2, <3>3 DEF RpcFault, K8sOK, NodesOK, k8s
  <2> QED
    BY <1>4, <2>1, <2>2 DEF RpcFault
<1> QED
  BY <1>2, <1>3, <1>4 DEF Fault

\* The initial states are typed.
LEMMA InitType == Init => TypeInv
<1> SUFFICES ASSUME Init PROVE TypeInv
  OBVIOUS
<1>1. K8sOK
  BY DEF Init, K8sOK, FreshStatus, StatusType
<1>2. NodesOK
  <2>1. NoIf \in IntfType /\ NoWire \in WireType /\ NoVx \in VxType
    BY NoIfTyped DEF NoWire, WireType, Kinds, NoVx, VxType
  <2> QED
    BY <2>1 DEF Init, NodesOK
<1>3. ProcsOK
  <2>1. "new" \in Steps /\ "new" \notin LoopSteps /\ "new" \notin PeerSteps
    BY DEF Steps, LoopSteps, PeerSteps
  <2>2. NoOutcome \in [Links -> Outcomes]
    BY DEF NoOutcome, Outcomes
  <2> QED
    BY <2>1, <2>2, FreshLocTyped DEF Init, ProcsOK, InLoop, HasPeer
<1>4. BudgetOK
  BY PluginAssumption DEF Init, BudgetOK
<1> QED
  BY <1>1, <1>2, <1>3, <1>4 DEF TypeInv

\* Every step, and every stuttering step, keeps the types.
LEMMA NextType == TypeInv /\ [Next]_vars => TypeInv'
<1> SUFFICES ASSUME TypeInv, [Next]_vars PROVE TypeInv'
  OBVIOUS
<1>1. ASSUME NEW n \in Nodes, RefreshNodeIPs(n) PROVE TypeInv'
  BY <1>1 DEF RefreshNodeIPs, TypeInv, K8sOK, NodesOK, ProcsOK, InLoop, HasPeer,
              BudgetOK, nodes, procs
<1>2. CASE UNCHANGED vars
  BY <1>2 DEF vars, k8s, nodes, procs, TypeInv, K8sOK, NodesOK, ProcsOK,
              InLoop, HasPeer, BudgetOK
<1> QED
  BY <1>1, <1>2, AddType, DelType, KubeletType, FaultType DEF Next

\* TypeCorrect: in every behaviour of the plugin, whatever the topology, the
\* number of nodes and sandboxes, the link type and the failures, the loops of
\* cmdAdd and cmdDel index a link of their pod and a step that plumbs towards a
\* peer has a container to plumb to; in particular TypeOK always holds.
THEOREM TypeCorrect == Spec => []TypeOK
<1>1. TypeInv => TypeOK
  BY DEF TypeInv, TypeOK, K8sOK, NodesOK, ProcsOK, BudgetOK
<1> QED
  BY <1>1, InitType, NextType, PTL DEF Spec

-----------------------------------------------------------------------------
(* The life of a pod's containers, for any topology and schedule: DEL      *)
(* marks dead the container it was called for and no other, and the        *)
(* resource of a pod never names a container that has been torn down.      *)
(*                                                                         *)
(* cmdDel compares the container id once, in its first call, and clears    *)
(* the resource two calls later.  What makes this safe is that between the *)
(* two no other container of the pod can publish itself: the runtime does  *)
(* not start one before the DEL of its predecessor is over (~Overlap), and *)
(* a DEL that is repeated later finds its container not current.  The      *)
(* latter needs that every DEL really cleared the resource, which is not   *)
(* so if its first Get may fail (no "api" faults).                         *)

\* A container that has not published itself, or whose DEL is past the clearing
\* of the resource, is not named by it.
DeadSteps == {"new", "add_alive", "del_link", "del_down", "del_rm",
              "del_skip_peer", "del_skip_this", "del_done", "gone"}
DeadIsDead == \A c \in Containers : pc[c] \in DeadSteps => ~Current(c)

\* DEL gets past the comparison for the current container only, and that is
\* still current when the resource is cleared.
ClearingSteps == {"del_wires", "del_clear"}
ClearsItself == \A c \in Containers : pc[c] \in ClearingSteps => Current(c)

\* Once a container has been started, its predecessors do no more than repeat
\* a DEL that finds them not current.
OverSteps == {"gone", "del_get", "del_done"}
Earlier(d, c) == PodOf(d) = PodOf(c) /\ d[2] < c[2]
PredecessorsOver ==
    \A c, d \in Containers :
        Earlier(d, c) /\ pc[c] # "new" => pc[d] \in OverSteps /\ ~Current(d)

LifeInv == DeadIsDead /\ ClearsItself /\ PredecessorsOver

\* Two containers of a pod are ordered.
LEMMA SamePod ==
    ASSUME NEW c \in Containers, NEW d \in Containers, PodOf(c) = PodOf(d), c # d
    PROVE  Earlier(c, d) \/ Earlier(d, c)
BY BoundAssumption DEF Containers, PodOf, Earlier

-----------------------------------------------------------------------------
\* A step that takes container c from one step to the next and leaves it open
\* who is alive keeps the invariant, if the new step fits c being current or not.
LEMMA MoveKeeps ==
    ASSUME TypeInv, LifeInv, NEW c \in Containers, NEW s,
           pc' = [pc EXCEPT ![c] = s], pc[c] # "new",
           \A p \in Pods : status'[p].ns = status[p].ns,
           s \in DeadSteps => ~Current(c),
           s \in ClearingSteps => Current(c),
           pc[c] \in OverSteps /\ ~Current(c) => s \in OverSteps
    PROVE  LifeInv'
<1>1. pc'[c] = s /\ \A d \in Containers \ {c} : pc'[d] = pc[d]
  BY DEF TypeInv, ProcsOK
<1>2. \A d \in Containers : Current(d)' <=> Current(d)
  BY PodOfContainer DEF Current
<1>3. DeadIsDead'
  BY <1>1, <1>2 DEF LifeInv, DeadIsDead
<1>4. ClearsItself'
  BY <1>1, <1>2 DEF LifeInv, ClearsItself
<1>5. PredecessorsOver'
  BY <1>1, <1>2 DEF LifeInv, PredecessorsOver
<1> QED
  BY <1>3, <1>4, <1>5 DEF LifeInv

\* SetAlive publishes a container that has no predecessor and no successor
\* about to clear the resource.
LEMMA PublishKeeps ==
    ASSUME TypeInv, LifeInv, NEW c \in Containers, AddSetAlive(c)
    PROVE  LifeInv'
<1>1. pc[c] = "add_alive" /\ PodOf(c) \in Pods
  BY PodOfContainer DEF AddSetAlive, At
<1>2. /\ pc'[c] \in {"add_link", "up"}
      /\ \A d \in Containers \ {c} : pc'[d] = pc[d]
  BY DEF AddSetAlive, LoopAt, TypeInv, ProcsOK
<1>3. /\ \A p \in Pods \ {PodOf(c)} : status'[p].ns = status[p].ns
      /\ status'[PodOf(c)].ns = c
  BY <1>1 DEF AddSetAlive, SetAlive, TypeInv, K8sOK, StatusType
<1>4. \A d \in Containers \ {c} : Current(d)' => Current(d)
  BY <1>3, PodOfContainer DEF Current
<1>5. DeadIsDead'
  BY <1>2, <1>4 DEF LifeInv, DeadIsDead, DeadSteps
<1>6. ClearsItself'
  <2> SUFFICES ASSUME NEW d \in Containers, pc'[d] \in ClearingSteps
               PROVE  Current(d)'
    BY DEF ClearsItself
  <2>1. d # c /\ pc[d] \in ClearingSteps
    BY <1>2 DEF ClearingSteps
  <2>2. PodOf(d) # PodOf(c)
    BY <1>1, <2>1, SamePod DEF LifeInv, PredecessorsOver, OverSteps, ClearingSteps
  <2>3. Current(d)
    BY <2>1 DEF LifeInv, ClearsItself
  <2> QED
    BY <1>3, <2>2, <2>3, PodOfContainer DEF Current
<1>7. PredecessorsOver'
  <2> SUFFICES ASSUME NEW a \in Containers, NEW b \in Containers,
                      Earlier(b, a), pc'[a] # "new"
               PROVE  pc'[b] \in OverSteps /\ ~Current(b)'
    BY DEF PredecessorsOver, Earlier
  <2>1. pc[a] # "new"
    BY <1>1, <1>2
  <2>2. pc[b] \in OverSteps /\ ~Current(b)
    BY <2>1 DEF LifeInv, PredecessorsOver
  <2>3. b # c
    BY <1>1, <2>2 DEF OverSteps
  <2> QED
    BY <1>2, <1>4, <2>2, <2>3
<1> QED
  BY <1>5, <1>6, <1>7 DEF LifeInv

\* DEL clears the resource of the container it was called for.
LEMMA ClearKeeps ==
    ASSUME TypeInv, LifeInv, NEW c \in Containers, DelClear(c)
    PROVE  /\ LifeInv'
           /\ \A d \in Containers :
                Current(d) /\ status'[PodOf(d)].ns = None => At(d, "del_clear")
<1>1. pc[c] = "del_clear" /\ PodOf(c) \in Pods /\ Current(c)
  BY PodOfContainer DEF DelClear, At, LifeInv, ClearsItself, ClearingSteps
<1>2. /\ pc'[c] \in {"del_link", "del_done"}
      /\ \A d \in Containers \ {c} : pc'[d] = pc[d]
  BY DEF DelClear, LoopAt, TypeInv, ProcsOK
<1>3. /\ \A p \in Pods \ {PodOf(c)} : status'[p].ns = status[p].ns
      /\ status'[PodOf(c)].ns = None
  BY <1>1 DEF DelClear, SetAlive, TypeInv, K8sOK, StatusType
<1>4. /\ ~Current(c)'
      /\ \A d \in Containers \ {c} : Current(d)' <=> Current(d)
  BY <1>1, <1>3, PodOfContainer, NoneAssumption DEF Current
<1>5. DeadIsDead'
  BY <1>2, <1>4 DEF LifeInv, DeadIsDead
<1>6. ClearsItself'
  BY <1>2, <1>4 DEF LifeInv, ClearsItself, ClearingSteps
<1>7. PredecessorsOver'
  BY <1>1, <1>2, <1>4 DEF LifeInv, PredecessorsOver, OverSteps, Earlier
<1>8. ASSUME NEW d \in Containers, Current(d), status'[PodOf(d)].ns = None
      PROVE  At(d, "del_clear")
  <2>1. status[PodOf(d)].ns # None
    BY <1>8, NoneAssumption DEF Current
  <2>2. PodOf(d) = PodOf(c)
    BY <1>3, <1>8, <2>1, PodOfContainer
  <2> QED
    BY <1>1, <1>8, <2>2 DEF Current, At
<1> QED
  BY <1>5, <1>6, <1>7, <1>8 DEF LifeInv

\* A sandbox is started when all its predecessors are gone.
LEMMA StartKeeps ==
    ASSUME ~Overlap, TypeInv, LifeInv, NEW c \in Containers, NEW n \in Nodes,
           StartPod(c, n)
    PROVE  LifeInv'
<1>1. /\ pc[c] = "new" /\ pc'[c] = "add_alive"
      /\ \A d \in Containers \ {c} : pc'[d] = pc[d]
      /\ UNCHANGED status
  BY DEF StartPod, At, Goto, GotoWith, k8s, TypeInv, ProcsOK
<1>2. \A d \in Containers : Earlier(d, c) => pc[d] = "gone"
  BY DEF StartPod, At, Earlier
<1>3. \A d \in Containers : Current(d)' <=> Current(d)
  BY <1>1 DEF Current
<1>4. DeadIsDead' /\ ClearsItself'
  BY <1>1, <1>3 DEF LifeInv, DeadIsDead, ClearsItself, DeadSteps, ClearingSteps
<1>5. PredecessorsOver'
  <2> SUFFICES ASSUME NEW a \in Containers, NEW b \in Containers,
                      Earlier(b, a), pc'[a] # "new"
               PROVE  pc'[b] \in OverSteps /\ ~Current(b)'
    BY DEF PredecessorsOver, Earlier
  <2>1. CASE a = c
    <3>1. pc[b] = "gone"
      BY <1>2, <2>1
    <3> QED
      BY <1>1, <1>3, <3>1 DEF LifeInv, DeadIsDead, DeadSteps, OverSteps
  <2>2. CASE a # c
    <3>1. pc[b] \in OverSteps /\ ~Current(b)
      BY <1>1, <2>2 DEF LifeInv, PredecessorsOver
    <3> QED
      BY <1>1, <1>3, <3>1 DEF OverSteps
  <2> QED
    BY <2>1, <2>2
<1> QED
  BY <1>4, <1>5 DEF LifeInv

-----------------------------------------------------------------------------
(* Which steps follow which.                                                *)

\* Inside ADD, past SetAlive, a process stays in ADD or ends it.
LEMMA AddMoves ==
    ASSUME NEW c \in Containers, Add(c), ~AddSetAlive(c)
    PROVE  /\ pc[c] \in AddSteps \ {"add_alive"}
           /\ \E s \in (AddSteps \ {"add_alive"}) \cup {"up", "add_failed"} :
                pc' = [pc EXCEPT ![c] = s]
<1>1. CASE AddMacvlan(c) \/ AddGetPeer(c) \/ AddSkip(c)
  BY <1>1 DEF AddMacvlan, AddGetPeer, AddSkip, At, Decide, LoopAt, GotoWith, AddSteps
<1>2. CASE \/ VethExistMine(c) \/ VethExistPeer(c) \/ VethRemove(c)
           \/ VethIsSkipped(c) \/ VethMake(c) \/ VethJoin(c)
  BY <1>2 DEF VethExistMine, VethExistPeer, VethRemove, VethIsSkipped, VethMake,
              VethJoin, At, Decide, LoopAt, Goto, GotoWith, Fail, Leave, AddSteps
<1>3. CASE \/ GrpcIsSkipped(c) \/ GrpcWait(c) \/ GrpcPoll(c) \/ GrpcExists(c)
           \/ GrpcVeth(c) \/ GrpcRemote(c) \/ GrpcLocal(c)
  BY <1>3 DEF GrpcIsSkipped, GrpcWait, GrpcPoll, GrpcExists, GrpcVeth, GrpcRemote,
              GrpcLocal, At, Decide, LoopAt, Goto, GotoWith, Fail, Leave, AddSteps
<1>4. CASE VxClean(c) \/ VxMake(c) \/ VxRegister(c) \/ VxUpdate(c)
  BY <1>4 DEF VxClean, VxMake, VxRegister, VxUpdate, At, Decide, LoopAt, Goto,
              GotoWith, Fail, Leave, AddSteps
<1> QED
  BY <1>1, <1>2, <1>3, <1>4 DEF Add

\* Past SetAlive, ADD does not touch who is alive.
LEMMA AddSparesAlive ==
    ASSUME TypeInv, NEW c \in Containers, Add(c), ~AddSetAlive(c)
    PROVE  \A p \in Pods : status'[p].ns = status[p].ns
<1>1. CASE AddSkip(c)
  BY <1>1, SkipKeepsAlive DEF AddSkip, TypeInv, K8sOK
<1>2. CASE ~AddSkip(c)
  BY <1>2 DEF Add, AddMacvlan, AddGetPeer, VethExistMine, VethExistPeer, VethRemove,
         VethIsSkipped, VethMake, VethJoin, GrpcIsSkipped, GrpcWait, GrpcPoll,
         GrpcExists, GrpcVeth, GrpcRemote, GrpcLocal, VxClean, VxMake, VxRegister,
         VxUpdate, k8s
<1> QED
  BY <1>1, <1>2

\* ADD keeps the invariant.
LEMMA AddLife ==
    ASSUME TypeInv, LifeInv, NEW c \in Containers, Add(c), ~AddSetAlive(c)
    PROVE  LifeInv'
<1>1. PICK s \in (AddSteps \ {"add_alive"}) \cup {"up", "add_failed"} :
        pc' = [pc EXCEPT ![c] = s]
  BY AddMoves
<1>2. /\ pc[c] # "new" /\ pc[c] \notin OverSteps
      /\ s \notin DeadSteps /\ s \notin ClearingSteps
  BY AddMoves DEF AddSteps, DeadSteps, ClearingSteps, OverSteps
<1> QED
  BY <1>1, <1>2, AddSparesAlive, MoveKeeps

\* DEL, but for the step that clears the resource, keeps the invariant.
LEMMA DelLife ==
    ASSUME TypeInv, LifeInv, NEW c \in Containers, Del(c), ~DelClear(c)
    PROVE  /\ LifeInv'
           /\ \A p \in Pods : status'[p].ns = status[p].ns
<1>1. \A p \in Pods : status'[p].ns = status[p].ns
  BY SkipKeepsAlive DEF Del, DelGet, DelWires, DelGetPeer, DelDown, DelRemove,
     DelSkipPeer, DelSkipThis, k8s, TypeInv, K8sOK
<1>2. CASE DelGet(c)
  <2> DEFINE s == IF Current(c) THEN "del_wires" ELSE "del_done"
  <2>1. pc' = [pc EXCEPT ![c] = s] /\ pc[c] = "del_get"
    BY <1>2 DEF DelGet, At, Goto, GotoWith, Current
  <2>2. /\ s \in DeadSteps => ~Current(c)
        /\ s \in ClearingSteps => Current(c)
        /\ ~Current(c) => s \in OverSteps
    BY DEF DeadSteps, ClearingSteps, OverSteps
  <2> QED
    BY <1>1, <2>1, <2>2, MoveKeeps
<1>3. CASE DelWires(c)
  <2>1. pc' = [pc EXCEPT ![c] = "del_clear"] /\ pc[c] = "del_wires"
    BY <1>3 DEF DelWires, At, Goto, GotoWith
  <2>2. Current(c)
    BY <2>1 DEF LifeInv, ClearsItself, ClearingSteps
  <2>3. "del_clear" \notin DeadSteps
    BY DEF DeadSteps
  <2> QED
    BY <1>1, <2>1, <2>2, <2>3, MoveKeeps
<1>4. CASE \/ DelGetPeer(c) \/ DelDown(c) \/ DelRemove(c) \/ DelSkipPeer(c)
           \/ DelSkipThis(c)
  <2>1. PICK s \in {"del_failed", "del_rm", "del_down", "del_skip_peer",
                    "del_skip_this", "del_link", "del_done"} :
          pc' = [pc EXCEPT ![c] = s]
    BY <1>4 DEF DelGetPeer, DelDown, DelRemove, DelSkipPeer, DelSkipThis,
                Leave, Goto, GotoWith, LoopAt
  <2>2. pc[c] \in {"del_link", "del_down", "del_rm", "del_skip_peer", "del_skip_this"}
    BY <1>4 DEF DelGetPeer, DelDown, DelRemove, DelSkipPeer, DelSkipThis, At
  <2>3. ~Current(c)
    BY <2>2 DEF LifeInv, DeadIsDead, DeadSteps
  <2>4. pc[c] \notin OverSteps /\ s \notin ClearingSteps /\ pc[c] # "new"
    BY <2>2 DEF OverSteps, ClearingSteps
  <2> QED
    BY <1>1, <2>1, <2>3, <2>4, MoveKeeps
<1> QED
  BY <1>1, <1>2, <1>3, <1>4 DEF Del

\* The kubelet's other steps, and lost calls between daemons, keep it.
LEMMA OtherLife ==
    ASSUME ~Overlap, "api" \notin Faults, TypeInv, LifeInv, NEW c \in Containers,
           Kubelet(c) \/ Fault(c)
    PROVE  /\ LifeInv'
           /\ UNCHANGED status
<1>1. UNCHANGED status
  BY DEF Kubelet, StartPod, StartDel, RepeatDel, RemoveSandbox, Fault,
         AddApiFault, DelApiFault, RpcFault, k8s
<1>2. CASE StartDel(c) \/ RepeatDel(c)
  <2>1. /\ pc' = [pc EXCEPT ![c] = "del_get"]
        /\ pc[c] # "new"
    BY <1>2 DEF StartDel, RepeatDel, At, Leave, GotoWith
  <2>2. "del_get" \notin DeadSteps \cup ClearingSteps /\ "del_get" \in OverSteps
    BY DEF DeadSteps, ClearingSteps, OverSteps
  <2> QED
    BY <1>1, <2>1, <2>2, MoveKeeps
<1>3. CASE RemoveSandbox(c)
  <2>1. pc' = [pc EXCEPT ![c] = "gone"] /\ pc[c] = "del_done"
    BY <1>3 DEF RemoveSandbox, At
  <2>2. ~Current(c)
    BY <2>1 DEF LifeInv, DeadIsDead, DeadSteps
  <2>3. "gone" \in OverSteps /\ "gone" \notin ClearingSteps
    BY DEF OverSteps, ClearingSteps
  <2> QED
    BY <1>1, <2>1, <2>2, <2>3, MoveKeeps
<1>4. CASE Fault(c)
  <2>1. RpcFault(c)
    BY <1>4 DEF Fault, AddApiFault, DelApiFault, UseFault
  <2>2. \/ pc[c] \in AddSteps /\ pc' = [pc EXCEPT ![c] = "add_failed"]
        \/ pc[c] = "del_down" /\ pc' = [pc EXCEPT ![c] = "del_rm"]
    BY <2>1 DEF RpcFault, At, Fail, Leave, Goto, GotoWith, AddSteps
  <2>3. CASE pc[c] \in AddSteps /\ pc' = [pc EXCEPT ![c] = "add_failed"]
    <3>1. /\ "add_failed" \notin DeadSteps \cup ClearingSteps
          /\ pc[c] # "new" /\ pc[c] \notin OverSteps
      BY <2>3 DEF AddSteps, DeadSteps, ClearingSteps, OverSteps
    <3> QED
      BY <1>1, <2>3, <3>1, MoveKeeps
  <2>4. CASE pc[c] = "del_down" /\ pc' = [pc EXCEPT ![c] = "del_rm"]
    <3>1. ~Current(c) /\ "del_rm" \notin ClearingSteps /\ pc[c] \notin OverSteps
      BY <2>4 DEF LifeInv, DeadIsDead, DeadSteps, ClearingSteps, OverSteps
    <3> QED
      BY <1>1, <2>4, <3>1, MoveKeeps
  <2> QED
    BY <2>2, <2>3, <2>4
<1> QED
  BY <1>1, <1>2, <1>3, <1>4, StartKeeps DEF Kubelet

-----------------------------------------------------------------------------
\* One step: the invariant is kept, and nobody but a container whose own DEL
\* clears the resource stops being alive.
LEMMA LifeStep ==
    ASSUME ~Overlap, "api" \notin Faults, TypeInv, LifeInv, [Next]_vars
    PROVE  /\ LifeInv'
           /\ \A c \in Containers :
                Current(c) /\ status'[PodOf(c)].ns = None => At(c, "del_clear")
<1> DEFINE Spared == \A c \in Containers :
                Current(c) /\ status'[PodOf(c)].ns = None => At(c, "del_clear")
<1>1. ASSUME \A p \in Pods : status'[p].ns = status[p].ns PROVE Spared
  BY <1>1, PodOfContainer, NoneAssumption DEF Current
<1>2. ASSUME NEW c \in Containers, Add(c) PROVE LifeInv' /\ Spared
  <2>1. CASE AddSetAlive(c)
    <3>1. /\ status'[PodOf(c)].ns = c
          /\ \A p \in Pods \ {PodOf(c)} : status'[p].ns = status[p].ns
      BY <2>1, PodOfContainer
      DEF AddSetAlive, SetAlive, TypeInv, K8sOK, StatusType
    <3>2. Spared
      BY <3>1, PodOfContainer, NoneAssumption DEF Current
    <3> QED
      BY <2>1, <3>2, PublishKeeps
  <2>2. CASE ~AddSetAlive(c)
    BY <1>1, <1>2, <2>2, AddLife, AddSparesAlive
  <2> QED
    BY <2>1, <2>2
<1>3. ASSUME NEW c \in Containers, Del(c) PROVE LifeInv' /\ Spared
  BY <1>1, <1>3, ClearKeeps, DelLife
<1>4. ASSUME NEW c \in Containers, Kubelet(c) \/ Fault(c) PROVE LifeInv' /\ Spared
  BY <1>1, <1>4, OtherLife
<1>5. ASSUME NEW n \in Nodes, RefreshNodeIPs(n) PROVE LifeInv' /\ Spared
  <2>1. UNCHANGED <<status, pc>>
    BY <1>5 DEF RefreshNodeIPs, procs
  <2>2. LifeInv'
    BY <2>1 DEF LifeInv, DeadIsDead, ClearsItself, PredecessorsOver, Current
  <2> QED
    BY <1>1, <2>1, <2>2
<1>6. CASE UNCHANGED vars
  <2>1. UNCHANGED <<status, pc>>
    BY <1>6 DEF vars, k8s, procs
  <2>2. LifeInv'
    BY <2>1 DEF LifeInv, DeadIsDead, ClearsItself, PredecessorsOver, Current
  <2> QED
    BY <1>1, <2>1, <2>2
<1> QED
  BY <1>2, <1>3, <1>4, <1>5, <1>6 DEF Next

\* In the initial states nobody has been started.
LEMMA LifeInit == Init => LifeInv
BY NoneAssumption
DEF Init, LifeInv, DeadIsDead, ClearsItself, PredecessorsOver, ClearingSteps,
    Current, FreshStatus, Containers, PodOf

\* GoneIsDeadHolds: if sandboxes of a pod do not overlap and the API server
\* answers, no resource ever names a container that has been torn down,
\* however often DEL was repeated.
THEOREM GoneIsDeadHolds ==
    ASSUME ~Overlap, "api" \notin Faults
    PROVE  Spec => []GoneIsDead
<1>1. TypeInv /\ LifeInv /\ [Next]_vars => LifeInv'
  BY LifeStep
<1>2. LifeInv => GoneIsDead
  BY DEF LifeInv, DeadIsDead, DeadSteps, GoneIsDead, At
<1> QED
  BY <1>1, <1>2, InitType, NextType, LifeInit, PTL DEF Spec

\* DelSparesOthersHolds: under the same conditions a step of cmdDel never marks
\* dead a container other than the one it was called for, although it checks
\* the container id two calls before it clears the resource.
THEOREM DelSparesOthersHolds ==
    ASSUME ~Overlap, "api" \notin Faults
    PROVE  Spec => DelSparesOthers
<1>1. TypeInv /\ LifeInv /\ [Next]_vars => LifeInv'
  BY LifeStep
<1>2. TypeInv /\ LifeInv /\ [Next]_vars =>
        [\A c \in Containers :
           Current(c) /\ status'[PodOf(c)].ns = None => At(c, "del_clear")]_vars
  BY LifeStep
<1> QED
  BY <1>1, <1>2, InitType, NextType, LifeInit, PTL DEF Spec, DelSparesOthers
=============================================================================

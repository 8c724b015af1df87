-------------------------- MODULE RendezvousProofs --------------------------
(***************************************************************************)
(* How two pods agree on who makes their link, for any topology and any    *)
(* schedule, provided every daemon knows the nodes of the cluster.         *)
(*                                                                         *)
(* Two pods that are both alive never both leave a link to the other one.  *)
(* The argument: cmdAdd publishes its container (SetAlive) before it looks *)
(* at any peer (Get).  Only SetAlive makes a container current, and then   *)
(* it has skipped nothing; only a Get that finds no living peer makes a    *)
(* container skip, and then the peer is not current.                       *)
(*                                                                         *)
(* cmdAdd and cmdDel implement the abstract rendezvous: a container        *)
(* announces itself before it decides anything, it is still the one that   *)
(* is announced when it leaves a link to its peer (by the invariant of     *)
(* PluginProofs no other container of the pod announces or clears anything   *)
(* while an ADD is under way), and at that moment the peer has announced   *)
(* nobody (a Get that finds nobody is not mistaken).                       *)
(***************************************************************************)
EXTENDS PluginProofs

-----------------------------------------------------------------------------
\* Every daemon's node list is complete, and stays so.
NodesKnown == \A n \in Nodes : knows[n] = Nodes

\* A container that has been started is on a node.
Placed == \A c \in Containers : pc[c] # "new" => node[c] \in Nodes

\* A resource that names a container names one of its own pod, and a node.
AliveSomewhere ==
    \A p \in Pods : status[p].ns # None =>
        /\ status[p].src \in Nodes
        /\ status[p].ns \in Containers /\ PodOf(status[p].ns) = p

\* Before SetAlive nothing has been decided.
NothingDecided ==
    \A c \in Containers : pc[c] \in {"new", "add_alive"} => out[c] = NoOutcome

\* NotBothSkip made inductive.
SkipInv == NodesKnown /\ Placed /\ AliveSomewhere /\ NothingDecided /\ NotBothSkip

-----------------------------------------------------------------------------
(* Links.                                                                   *)

\* An entry of a pod's list names a link and a pod or localhost.
LEMMA LinkTyped ==
    ASSUME NEW p \in Pods, NEW i \in 1..Len(PodLinks[p])
    PROVE  /\ PodLinks[p][i].link \in Links
           /\ PodLinks[p][i].peer \in Pods \cup {Localhost}
<1>1. PodLinks[p] \in Seq(LinkRec)
  BY PodLinksAssumption
<1>2. PodLinks[p][i] \in LinkRec
  BY <1>1
<1> QED
  BY <1>2 DEF LinkRec

\* A pod lists a link once.
LEMMA LinkOnce ==
    ASSUME NEW p \in Pods, NEW i \in 1..Len(PodLinks[p]),
           NEW j \in 1..Len(PodLinks[p]), PodLinks[p][i].link = PodLinks[p][j].link
    PROVE  i = j
BY TopologyAssumption

\* A pod whose list has a link is at the other end of it, too.
LEMMA EndsSymmetric ==
    ASSUME NEW c \in Containers, NEW d \in Containers, NEW l \in Links, Ends(c, d, l)
    PROVE  Ends(d, c, l)
<1>1. PICK i \in 1..Len(PodLinks[PodOf(c)]) :
        PodLinks[PodOf(c)][i] = [link |-> l, peer |-> PodOf(d)]
  BY DEF Ends
<1>2. PodOf(c) \in Pods /\ PodOf(d) \in Pods
  BY PodOfContainer
<1>3. PodLinks[PodOf(c)][i].peer # Localhost
  BY <1>1, <1>2, NoneAssumption
<1>4. \E j \in 1..Len(PodLinks[PodOf(d)]) :
        PodLinks[PodOf(d)][j] = [link |-> l, peer |-> PodOf(c)]
  BY <1>1, <1>2, <1>3, TopologyAssumption
<1> QED
  BY <1>4 DEF Ends

\* The peer on the link at which a process stands is the pod at its other end.
LEMMA PeerOfLink ==
    ASSUME ProcsOK, NEW c \in Containers, NEW d \in Containers,
           pc[c] \in LoopSteps, Ends(c, d, Link(c))
    PROVE  Peer(c) = PodOf(d)
<1>1. PICK i \in 1..Len(PodLinks[PodOf(c)]) :
        PodLinks[PodOf(c)][i] = [link |-> Link(c), peer |-> PodOf(d)]
  BY DEF Ends
<1>2. idx[c] \in 1..Len(PodLinks[PodOf(c)])
  BY DEF ProcsOK, InLoop
<1>3. PodLinks[PodOf(c)][i].link = PodLinks[PodOf(c)][idx[c]].link
  BY <1>1 DEF Link, Cur
<1>4. i = idx[c]
  BY <1>1, <1>2, <1>3, PodOfContainer, TopologyAssumption
<1> QED
  BY <1>1, <1>4 DEF Peer, Cur

-----------------------------------------------------------------------------
(* Steps that neither make a container current nor make one skip.           *)

Early == {"new", "add_alive", "add_skip"}

\* Container c's process moves on, and skips no link it did not skip before.
ProcQuiet(c) ==
    /\ pc'[c] \notin Early
    /\ \A l \in Links : out'[c][l] = "skip" => Skips(c, l)
    /\ \A d \in Containers \ {c} :
         pc'[d] = pc[d] /\ idx'[d] = idx[d] /\ out'[d] = out[d]

\* No resource names a container it did not name before.
StatusQuiet ==
    \A p \in Pods : status'[p].ns # None =>
        status'[p].ns = status[p].ns /\ status'[p].src = status[p].src

\* Such steps keep the invariant.
LEMMA QuietKeeps ==
    ASSUME TypeInv, SkipInv, NEW c \in Containers, pc[c] # "new",
           ProcQuiet(c), StatusQuiet, UNCHANGED <<knows, node>>
    PROVE  SkipInv'
<1>1. NodesKnown' /\ Placed'
  BY DEF SkipInv, NodesKnown, Placed, ProcQuiet
<1>2. AliveSomewhere'
  BY DEF SkipInv, AliveSomewhere, StatusQuiet
<1>3. NothingDecided'
  BY DEF SkipInv, NothingDecided, ProcQuiet, Early
<1>4. \A d \in Containers : Current(d)' => Current(d)
  <2>1. TAKE d \in Containers
  <2>2. PodOf(d) \in Pods /\ d # None
    BY PodOfContainer, NoneAssumption
  <2> QED
    BY <2>2 DEF Current, StatusQuiet
<1>5. \A d \in Containers, l \in Links : Skips(d, l)' => Skips(d, l)
  BY DEF ProcQuiet, Early, Skips, At, Link, Cur
<1>6. NotBothSkip'
  <2> SUFFICES ASSUME NEW a \in Containers, NEW b \in Containers, NEW l \in Links,
                      Ends(a, b, l)', Current(a)', Current(b)',
                      Skips(a, l)', Skips(b, l)'
               PROVE  FALSE
    BY DEF NotBothSkip
  <2>1. Ends(a, b, l)
    BY DEF Ends
  <2> QED
    BY <1>4, <1>5, <2>1 DEF SkipInv, NotBothSkip
<1> QED
  BY <1>1, <1>2, <1>3, <1>6 DEF SkipInv

\* Going to a step inside or outside the loop body is quiet.
LEMMA GotoQuiet ==
    ASSUME ProcsOK, NEW c \in Containers, NEW s, s \notin Early, NEW r,
           GotoWith(c, s, r)
    PROVE  ProcQuiet(c)
BY DEF ProcsOK, GotoWith, ProcQuiet, Skips

\* So is a failure of ADD.
LEMMA FailQuiet ==
    ASSUME ProcsOK, NEW c \in Containers, Fail(c)
    PROVE  ProcQuiet(c)
BY GotoQuiet DEF Fail, Leave, Early

\* So is a turn of the loop, if nothing new is skipped.
LEMMA LoopQuiet ==
    ASSUME ProcsOK, NEW c \in Containers, NEW i, NEW body, NEW end,
           body \notin Early, end \notin Early, LoopAt(c, i, body, end),
           \A l \in Links : out'[c][l] = "skip" => Skips(c, l),
           \A d \in Containers \ {c} : out'[d] = out[d]
    PROVE  ProcQuiet(c)
BY DEF ProcsOK, LoopAt, ProcQuiet

\* So is a decision about a link other than to skip, and the noting of a skip
\* that was decided on before.
LEMMA DecideQuiet ==
    ASSUME ProcsOK, NEW c \in Containers, NEW how, Decide(c, how),
           how # "skip" \/ At(c, "add_skip")
    PROVE  ProcQuiet(c)
<1>1. \A l \in Links : out'[c][l] = "skip" => Skips(c, l)
  BY DEF ProcsOK, Decide, Skips
<1>2. \A d \in Containers \ {c} : out'[d] = out[d]
  BY DEF ProcsOK, Decide
<1>3. LoopAt(c, idx[c] + 1, "add_link", "up")
  BY DEF Decide
<1> QED
  BY <1>1, <1>2, <1>3, LoopQuiet DEF Early

-----------------------------------------------------------------------------
(* The steps that are not quiet.                                            *)

\* SetAlive makes a container current that has skipped nothing.
LEMMA SetAliveKeeps ==
    ASSUME TypeInv, SkipInv, NEW c \in Containers, AddSetAlive(c)
    PROVE  SkipInv'
<1>1. /\ PodOf(c) \in Pods /\ c # None
      /\ node[c] \in Nodes
      /\ out[c] = NoOutcome
  BY PodOfContainer, NoneAssumption
  DEF AddSetAlive, At, SkipInv, Placed, NothingDecided
<1>2. /\ \A p \in Pods \ {PodOf(c)} : status'[p] = status[p]
      /\ status'[PodOf(c)].ns = c /\ status'[PodOf(c)].src = node[c]
  BY <1>1 DEF AddSetAlive, SetAlive, TypeInv, K8sOK, StatusType
<1>3. /\ pc'[c] \in {"add_link", "up"}
      /\ \A d \in Containers \ {c} : pc'[d] = pc[d] /\ idx'[d] = idx[d]
      /\ UNCHANGED <<out, knows, node>>
  BY DEF AddSetAlive, LoopAt, TypeInv, ProcsOK, nodes
<1>4. NodesKnown' /\ Placed' /\ NothingDecided'
  BY <1>1, <1>3 DEF SkipInv, NodesKnown, Placed, NothingDecided
<1>5. AliveSomewhere'
  BY <1>1, <1>2 DEF SkipInv, AliveSomewhere
<1>6. \A l \in Links : ~Skips(c, l)'
  BY <1>1, <1>3 DEF Skips, At, NoOutcome
<1>7. \A d \in Containers \ {c}, l \in Links : Skips(d, l)' => Skips(d, l)
  BY <1>3 DEF Skips, At, Link, Cur
<1>8. \A d \in Containers \ {c} : Current(d)' => Current(d)
  BY <1>2, PodOfContainer DEF Current
<1>9. NotBothSkip'
  <2> SUFFICES ASSUME NEW a \in Containers, NEW b \in Containers, NEW l \in Links,
                      Ends(a, b, l)', Current(a)', Current(b)',
                      Skips(a, l)', Skips(b, l)'
               PROVE  FALSE
    BY DEF NotBothSkip
  <2>1. Ends(a, b, l)
    BY DEF Ends
  <2>2. a # c /\ b # c
    BY <1>6
  <2> QED
    BY <1>7, <1>8, <2>1, <2>2 DEF SkipInv, NotBothSkip
<1> QED
  BY <1>4, <1>5, <1>9 DEF SkipInv

\* A container that finds no peer alive finds a peer that is not current.
LEMMA NoPeerAlive ==
    ASSUME TypeInv, SkipInv, NEW c \in Containers, NEW d \in Containers,
           pc[c] \in LoopSteps, pc[c] # "new", Ends(c, d, Link(c)),
           Get(status, Peer(c), knows[node[c]]) = None
    PROVE  ~Current(d)
<1> SUFFICES ASSUME Current(d) PROVE FALSE
  OBVIOUS
<1>1. Peer(c) = PodOf(d) /\ PodOf(d) \in Pods
  BY PeerOfLink, PodOfContainer DEF TypeInv
<1>2. status[PodOf(d)].ns = d /\ d # None
  BY NoneAssumption DEF Current
<1>3. status[PodOf(d)].src \in Nodes
  BY <1>1, <1>2 DEF SkipInv, AliveSomewhere
<1>4. knows[node[c]] = Nodes
  BY DEF SkipInv, Placed, NodesKnown
<1> QED
  BY <1>1, <1>2, <1>3, <1>4 DEF Get

\* Looking at the peer keeps the invariant: a container that starts to skip
\* does so because its peer is not current.
LEMMA GetPeerKeeps ==
    ASSUME TypeInv, SkipInv, NEW c \in Containers, AddGetPeer(c)
    PROVE  SkipInv'
<1> DEFINE found == Get(status, Peer(c), knows[node[c]])
<1>1. /\ At(c, "add_link") /\ UNCHANGED <<status, knows, node>>
  BY DEF AddGetPeer, k8s, nodes
<1>2. PICK s \in {"add_skip", "veth_mine", "grpc_skipped", "vx_clean"} :
        /\ GotoWith(c, s, [loc[c] EXCEPT !.peer = found])
        /\ s = "add_skip" => found = None
  BY DEF AddGetPeer
<1>3. CASE s # "add_skip"
  <2>1. ProcQuiet(c)
    BY <1>2, <1>3, GotoQuiet DEF TypeInv, Early
  <2>2. StatusQuiet /\ pc[c] # "new"
    BY <1>1 DEF StatusQuiet, At
  <2> QED
    BY <1>1, <2>1, <2>2, QuietKeeps
<1>4. CASE s = "add_skip"
  <2>1. /\ pc[c] = "add_link" /\ pc'[c] = "add_skip" /\ found = None
        /\ pc[c] \in LoopSteps
        /\ \A d \in Containers \ {c} : pc'[d] = pc[d]
        /\ UNCHANGED <<idx, out>>
    BY <1>1, <1>2, <1>4 DEF GotoWith, At, TypeInv, ProcsOK, LoopSteps
  <2>2. NodesKnown' /\ Placed' /\ NothingDecided' /\ AliveSomewhere'
    BY <1>1, <2>1 DEF SkipInv, NodesKnown, Placed, NothingDecided, AliveSomewhere
  <2>3. \A d \in Containers, l \in Links :
          Skips(d, l)' => Skips(d, l) \/ (d = c /\ l = Link(c))
    BY <2>1 DEF Skips, At, Link, Cur
  <2>4. NotBothSkip'
    <3> SUFFICES ASSUME NEW a \in Containers, NEW b \in Containers,
                        NEW l \in Links, Ends(a, b, l)', Current(a)', Current(b)',
                        Skips(a, l)', Skips(b, l)'
                 PROVE  FALSE
      BY DEF NotBothSkip
    <3>1. Ends(a, b, l) /\ Ends(b, a, l)
      BY EndsSymmetric DEF Ends
    <3>2. Current(a) /\ Current(b)
      BY <1>1 DEF Current
    <3>3. CASE a = c /\ l = Link(c)
      BY <2>1, <3>1, <3>2, <3>3, NoPeerAlive
    <3>4. CASE b = c /\ l = Link(c)
      BY <2>1, <3>1, <3>2, <3>4, NoPeerAlive
    <3> QED
      BY <2>3, <3>1, <3>2, <3>3, <3>4 DEF SkipInv, NotBothSkip
  <2> QED
    BY <2>2, <2>4 DEF SkipInv
<1> QED
  BY <1>3, <1>4

\* A sandbox that is started has skipped nothing and is not current.
LEMMA StartPodKeeps ==
    ASSUME TypeInv, SkipInv, NEW c \in Containers, NEW n \in Nodes, StartPod(c, n)
    PROVE  SkipInv'
<1>1. /\ pc[c] = "new" /\ pc'[c] = "add_alive"
      /\ \A d \in Containers \ {c} : pc'[d] = pc[d] /\ node'[d] = node[d]
      /\ node'[c] = n
      /\ UNCHANGED <<idx, out, status, knows>>
  BY DEF StartPod, At, Goto, GotoWith, k8s, TypeInv, ProcsOK, NodesOK
<1>2. NodesKnown' /\ Placed' /\ NothingDecided' /\ AliveSomewhere'
  BY <1>1 DEF SkipInv, NodesKnown, Placed, NothingDecided, AliveSomewhere
<1>3. \A d \in Containers, l \in Links : Skips(d, l)' => Skips(d, l)
  BY <1>1 DEF Skips, At, Link, Cur
<1>4. NotBothSkip'
  BY <1>1, <1>3 DEF SkipInv, NotBothSkip, Current, Ends
<1> QED
  BY <1>2, <1>4 DEF SkipInv

-----------------------------------------------------------------------------
(* All other steps are quiet.                                               *)

\* Steps that leave the resources alone.
LEMMA StatusUnchanged ==
    ASSUME UNCHANGED status
    PROVE  StatusQuiet
BY DEF StatusQuiet

\* The loop body of ADD for a living peer: it goes on with the same peer, or
\* is done with the link (not by skipping it), or fails. It gets to create a
\* wire itself if it goes first or was skipped.
Creating == {"grpc_exists", "grpc_veth", "grpc_remote", "grpc_local"}

Turns(c) ==
    \/ \E s \in PeerSteps, r \in LocType :
         /\ GotoWith(c, s, r) /\ r.peer = loc[c].peer
         /\ s \in Creating => \/ pc[c] \in Creating \/ HigherPrio(c)
                              \/ IsSkipped(status, PodOf(c), Peer(c), Link(c))
    \/ \E how \in Outcomes \ {"none", "skip"} : Decide(c, how)
    \/ Fail(c)

LEMMA PeerTurns ==
    ASSUME TypeInv, NEW c \in Containers, Add(c), ~AddSetAlive(c), ~AddMacvlan(c),
           ~AddGetPeer(c), ~AddSkip(c)
    PROVE  pc[c] \in PeerSteps /\ UNCHANGED <<status, knows, node>> /\ Turns(c)
<1>1. /\ loc[c] \in LocType
      /\ \A b \in BOOLEAN : /\ [loc[c] EXCEPT !.exist = b] \in LocType
                           /\ [loc[c] EXCEPT !.exist = b].peer = loc[c].peer
      /\ \A k \in 0..MaxTicks : /\ [loc[c] EXCEPT !.ticks = k] \in LocType
                               /\ [loc[c] EXCEPT !.ticks = k].peer = loc[c].peer
      /\ \A k \in Kinds : /\ [loc[c] EXCEPT !.got = k] \in LocType
                         /\ [loc[c] EXCEPT !.got = k].peer = loc[c].peer
  BY DEF TypeInv, ProcsOK, LocType
<1>2. CASE \/ VethExistMine(c) \/ VethExistPeer(c) \/ VethRemove(c)
           \/ VethIsSkipped(c) \/ VethMake(c) \/ VethJoin(c)
  <2>1. pc[c] \in PeerSteps /\ UNCHANGED <<status, knows, node>>
    BY <1>2 DEF VethExistMine, VethExistPeer, VethRemove, VethIsSkipped,
                VethMake, VethJoin, At, k8s, nodes, PeerSteps
  <2>2. \/ \E s \in {"veth_peer", "veth_skipped", "veth_rm", "veth_make",
                     "veth_join"}, r \in LocType :
             GotoWith(c, s, r) /\ r.peer = loc[c].peer
        \/ \E how \in {"exists", "defer", "made"} : Decide(c, how)
        \/ Fail(c)
    <3>1. Exists(c, Link(c)) \in BOOLEAN
      BY DEF Exists
    <3> QED
      BY <1>1, <1>2, <3>1 DEF VethExistMine, VethExistPeer, VethRemove,
         VethIsSkipped, VethMake, VethJoin, Goto
  <2>3. Turns(c)
    BY <2>2 DEF Turns, PeerSteps, Creating, Outcomes
  <2> QED
    BY <2>1, <2>3
<1>3. CASE GrpcIsSkipped(c) \/ GrpcWait(c) \/ GrpcPoll(c) \/ GrpcExists(c)
  <2>1. pc[c] \in PeerSteps /\ UNCHANGED <<status, knows, node>>
    BY <1>3 DEF GrpcIsSkipped, GrpcWait, GrpcPoll, GrpcExists, At, k8s, nodes, PeerSteps
  <2>2. CASE GrpcIsSkipped(c)
    <3>1. 1 \in 0..MaxTicks
      BY PluginAssumption
    <3> QED
      BY <1>1, <2>1, <2>2, <3>1 DEF GrpcIsSkipped, Goto, Turns, PeerSteps, Creating
  <2>3. CASE GrpcWait(c)
    BY <1>1, <2>1, <2>3 DEF GrpcWait, Goto, Turns, PeerSteps, Creating, Outcomes
  <2>4. CASE GrpcPoll(c)
    <3>1. loc[c].ticks < MaxTicks => loc[c].ticks + 1 \in 0..MaxTicks
      BY <1>1, PluginAssumption DEF LocType
    <3> QED
      BY <1>1, <2>1, <2>4, <3>1 DEF GrpcPoll, Goto, Turns, PeerSteps, Creating, Outcomes
  <2>5. CASE GrpcExists(c)
    BY <1>1, <2>1, <2>5 DEF GrpcExists, At, Goto, Turns, PeerSteps, Creating, Outcomes
  <2> QED
    BY <1>3, <2>1, <2>2, <2>3, <2>4, <2>5
<1>4. CASE GrpcVeth(c) \/ GrpcRemote(c) \/ GrpcLocal(c)
  <2>1. pc[c] \in PeerSteps /\ UNCHANGED <<status, knows, node>>
    BY <1>4 DEF GrpcVeth, GrpcRemote, GrpcLocal, At, k8s, nodes, PeerSteps
  <2>2. pc[c] \in Creating
    BY <1>4 DEF GrpcVeth, GrpcRemote, GrpcLocal, At, Creating
  <2>3. CASE GrpcVeth(c) \/ GrpcLocal(c)
    BY <1>1, <2>1, <2>2, <2>3 DEF GrpcVeth, GrpcLocal, Goto, Turns, PeerSteps, Outcomes
  <2>4. CASE GrpcRemote(c)
    <3>1. \/ \E k \in Kinds : GotoWith(c, "grpc_local", [loc[c] EXCEPT !.got = k])
          \/ Fail(c)
      <4>1. NodesOK'
        BY NextType, <2>4 DEF TypeInv, Next, Add
      <4>2. Link(c) \in Links /\ loc[c].peer \in Containers
        BY <2>1, CurrentLink DEF TypeInv, ProcsOK, HasPeer, LoopSteps
      <4>3. wire'[loc[c].peer][Link(c)].mine \in Kinds
        BY <4>1, <4>2 DEF NodesOK, WireType
      <4> QED
        BY <2>4, <4>3 DEF GrpcRemote
    <3> QED
      BY <1>1, <2>1, <2>2, <3>1 DEF Turns, PeerSteps
  <2> QED
    BY <1>4, <2>3, <2>4
<1>5. CASE VxClean(c) \/ VxMake(c) \/ VxRegister(c) \/ VxUpdate(c)
  <2>1. pc[c] \in PeerSteps /\ UNCHANGED <<status, knows, node>>
    BY <1>5 DEF VxClean, VxMake, VxRegister, VxUpdate, At, k8s, PeerSteps
  <2>2. \/ \E s \in {"vx_make", "vx_register", "vx_update"} : Goto(c, s)
        \/ Decide(c, "made")
        \/ Fail(c)
    BY <1>5 DEF VxClean, VxMake, VxRegister, VxUpdate
  <2>3. Turns(c)
    BY <1>1, <2>2 DEF Goto, Turns, PeerSteps, Creating, Outcomes
  <2> QED
    BY <2>1, <2>3
<1> QED
  BY <1>2, <1>3, <1>4, <1>5 DEF Add

\* The remaining steps of ADD.
LEMMA AddQuiet ==
    ASSUME TypeInv, NEW c \in Containers, Add(c), ~AddSetAlive(c), ~AddGetPeer(c)
    PROVE  /\ pc[c] # "new" /\ ProcQuiet(c) /\ StatusQuiet
           /\ UNCHANGED <<knows, node>>
<1>1. ProcsOK
  BY DEF TypeInv
<1>2. CASE AddMacvlan(c) \/ AddSkip(c)
  <2>1. pc[c] # "new" /\ UNCHANGED <<knows, node>>
    BY <1>2 DEF AddMacvlan, AddSkip, At, k8s, nodes
  <2>2. ProcQuiet(c)
    BY <1>1, <1>2, DecideQuiet DEF AddMacvlan, AddSkip
  <2>3. StatusQuiet
    BY <1>2, SkipKeepsAlive DEF AddMacvlan, AddSkip, k8s, StatusQuiet, TypeInv, K8sOK
  <2> QED
    BY <2>1, <2>2, <2>3
<1>3. CASE ~AddMacvlan(c) /\ ~AddSkip(c)
  <2>1. pc[c] # "new" /\ UNCHANGED <<status, knows, node>>
    BY <1>3, PeerTurns DEF PeerSteps
  <2>2. \/ \E s \in PeerSteps : \E r : GotoWith(c, s, r)
        \/ \E how \in Outcomes \ {"skip"} : Decide(c, how)
        \/ Fail(c)
    BY <1>3, PeerTurns DEF Turns
  <2>3. ProcQuiet(c)
    BY <1>1, <2>2, GotoQuiet, DecideQuiet, FailQuiet DEF Early, PeerSteps
  <2> QED
    BY <2>1, <2>3, StatusUnchanged
<1> QED
  BY <1>2, <1>3

LEMMA AddKeeps ==
    ASSUME TypeInv, SkipInv, NEW c \in Containers, Add(c)
    PROVE  SkipInv'
BY AddQuiet, QuietKeeps, SetAliveKeeps, GetPeerKeeps

\* The steps of DEL: they make nobody current.
LEMMA DelQuiet ==
    ASSUME TypeInv, NEW c \in Containers, Del(c)
    PROVE  /\ pc[c] # "new" /\ ProcQuiet(c) /\ StatusQuiet
           /\ UNCHANGED <<knows, node>>
<1>1. ProcsOK
  BY DEF TypeInv
<1>2. CASE \/ DelGet(c) \/ DelWires(c) \/ DelGetPeer(c) \/ DelDown(c)
           \/ DelRemove(c) \/ DelSkipPeer(c)
  <2>1. pc[c] # "new" /\ UNCHANGED <<knows, node>>
    BY <1>2 DEF DelGet, DelWires, DelGetPeer, DelDown, DelRemove, DelSkipPeer,
                At, k8s, nodes
  <2>2. \E s \in DelSteps : \E r : GotoWith(c, s, r)
    BY <1>2 DEF DelGet, DelWires, DelGetPeer, DelDown, DelRemove, DelSkipPeer,
                Goto, Leave, DelSteps
  <2>3. ProcQuiet(c)
    BY <1>1, <2>2, GotoQuiet DEF Early, DelSteps
  <2>4. StatusQuiet
    BY <1>2, SkipKeepsAlive
    DEF DelGet, DelWires, DelGetPeer, DelDown, DelRemove, DelSkipPeer, k8s,
        StatusQuiet, TypeInv, K8sOK
  <2> QED
    BY <2>1, <2>3, <2>4
<1>3. CASE DelClear(c) \/ DelSkipThis(c)
  <2>1. pc[c] # "new" /\ UNCHANGED <<knows, node, out>>
    BY <1>3 DEF DelClear, DelSkipThis, At, nodes
  <2>2. \E i : LoopAt(c, i, "del_link", "del_done")
    BY <1>3 DEF DelClear, DelSkipThis
  <2>3. ProcQuiet(c)
    BY <1>1, <2>1, <2>2, LoopQuiet DEF Early, Skips
  <2>4. StatusQuiet
    BY <1>3, SkipKeepsAlive, PodOfContainer
    DEF DelClear, DelSkipThis, SetAlive, StatusQuiet, TypeInv, K8sOK, StatusType
  <2> QED
    BY <2>1, <2>3, <2>4
<1> QED
  BY <1>2, <1>3 DEF Del

LEMMA DelKeeps ==
    ASSUME TypeInv, SkipInv, NEW c \in Containers, Del(c)
    PROVE  SkipInv'
BY DelQuiet, QuietKeeps

\* The kubelet's other steps, and the failures.
LEMMA OthersQuiet ==
    ASSUME TypeInv, NEW c \in Containers,
           StartDel(c) \/ RepeatDel(c) \/ RemoveSandbox(c) \/ Fault(c)
    PROVE  /\ pc[c] # "new" /\ ProcQuiet(c)
           /\ UNCHANGED <<status, knows, node>>
<1>1. ProcsOK
  BY DEF TypeInv
<1>2. CASE StartDel(c) \/ RepeatDel(c) \/ Fault(c)
  <2>1. pc[c] # "new" /\ UNCHANGED <<status, knows, node>>
    BY <1>2 DEF StartDel, RepeatDel, Fault, AddApiFault, DelApiFault, RpcFault,
                ApiAddSteps, At, k8s, nodes
  <2>2. \E s \in DelSteps \cup {"add_failed"} : \E r : GotoWith(c, s, r)
    BY <1>2 DEF StartDel, RepeatDel, Fault, AddApiFault, DelApiFault, RpcFault,
                Fail, Leave, Goto, DelSteps
  <2>3. ProcQuiet(c)
    BY <1>1, <2>2, GotoQuiet DEF Early, DelSteps
  <2> QED
    BY <2>1, <2>3
<1>3. CASE RemoveSandbox(c)
  <2>1. pc[c] # "new" /\ UNCHANGED <<status, knows, node>>
    BY <1>3 DEF RemoveSandbox, At, k8s
  <2>2. ProcQuiet(c)
    BY <1>1, <1>3 DEF RemoveSandbox, ProcsOK, ProcQuiet, Early, NoOutcome
  <2> QED
    BY <2>1, <2>2
<1> QED
  BY <1>2, <1>3

LEMMA OthersKeep ==
    ASSUME TypeInv, SkipInv, NEW c \in Containers, Kubelet(c) \/ Fault(c)
    PROVE  SkipInv'
BY OthersQuiet, StatusUnchanged, QuietKeeps, StartPodKeeps DEF Kubelet

\* The invariant, in every behaviour with complete node lists.
LEMMA SkipInit ==
    ASSUME ~StaleNodes
    PROVE  Init => SkipInv
<1> SUFFICES ASSUME Init PROVE SkipInv
  OBVIOUS
<1>1. NodesKnown /\ Placed /\ AliveSomewhere /\ NothingDecided
  BY DEF Init, NodesKnown, Placed, AliveSomewhere, FreshStatus, NothingDecided
<1>2. NotBothSkip
  BY DEF Init, NotBothSkip, Skips, At, NoOutcome
<1> QED
  BY <1>1, <1>2 DEF SkipInv

LEMMA SkipStep ==
    ASSUME TypeInv, SkipInv, [Next]_vars
    PROVE  SkipInv'
<1>1. ASSUME NEW n \in Nodes, RefreshNodeIPs(n) PROVE SkipInv'
  BY <1>1 DEF RefreshNodeIPs, SkipInv, NodesKnown
<1>2. CASE UNCHANGED vars
  BY <1>2 DEF vars, k8s, nodes, procs, SkipInv, NodesKnown, Placed,
              AliveSomewhere, NothingDecided, NotBothSkip, Ends, Current,
              Skips, At, Link, Cur
<1> QED
  BY <1>1, <1>2, AddKeeps, DelKeeps, OthersKeep DEF Next

-----------------------------------------------------------------------------
\* NotBothSkipHolds: if the daemons' node lists are complete, then in every
\* behaviour, with any failures of the API server and of remote calls, two
\* pods that are alive at the same time never both find the other one dead in
\* cmdAdd: one of them is there to make the link.
THEOREM NotBothSkipHolds ==
    ASSUME ~StaleNodes
    PROVE  Spec => []NotBothSkip
<1>1. Init => SkipInv
  BY SkipInit
<1>2. TypeInv /\ SkipInv /\ [Next]_vars => SkipInv'
  BY SkipStep
<1>3. SkipInv => NotBothSkip
  BY DEF SkipInv
<1> QED
  BY <1>1, <1>2, <1>3, InitType, NextType, PTL DEF Spec

-----------------------------------------------------------------------------
\* Past SetAlive, the container that an ADD works for is the announced one, and
\* so it is when the ADD has succeeded.
Published == (AddSteps \ {"add_alive"}) \cup {"up"}
PublishedIsCurrent == \A c \in Containers : pc[c] \in Published => Current(c)

MeetInv == SkipInv /\ LifeInv /\ PublishedIsCurrent

\* A step that leaves all announcements alone, and that takes a process into
\* ADD only from ADD, keeps this.
LEMMA PublishedMoveKeeps ==
    ASSUME PublishedIsCurrent, NEW c \in Containers,
           \A p \in Pods : status'[p].ns = status[p].ns,
           \A d \in Containers \ {c} : pc'[d] = pc[d],
           pc'[c] \in Published => pc[c] \in Published
    PROVE  PublishedIsCurrent'
<1>1. \A d \in Containers : Current(d)' <=> Current(d)
  BY PodOfContainer DEF Current
<1> QED
  BY <1>1 DEF PublishedIsCurrent

\* Steps of ADD: SetAlive replaces the announcement of no other ADD.
LEMMA AddKeepsPublished ==
    ASSUME TypeInv, LifeInv, PublishedIsCurrent, NEW c \in Containers, Add(c)
    PROVE  PublishedIsCurrent'
<1>1. CASE AddSetAlive(c)
  <2>1. pc[c] = "add_alive" /\ PodOf(c) \in Pods
    BY <1>1, PodOfContainer DEF AddSetAlive, At
  <2>2. \A d \in Containers \ {c} : pc'[d] = pc[d]
    BY <1>1 DEF AddSetAlive, LoopAt, TypeInv, ProcsOK
  <2>3. /\ \A p \in Pods \ {PodOf(c)} : status'[p].ns = status[p].ns
        /\ status'[PodOf(c)].ns = c
    BY <1>1, <2>1 DEF AddSetAlive, SetAlive, TypeInv, K8sOK, StatusType
  <2> SUFFICES ASSUME NEW d \in Containers, pc'[d] \in Published, d # c
               PROVE  Current(d)'
    BY <2>3 DEF PublishedIsCurrent, Current
  <2>4. pc[d] \in Published /\ Current(d)
    BY <2>2 DEF PublishedIsCurrent
  <2>5. PodOf(d) # PodOf(c)
    BY <2>1, <2>4, SamePod
    DEF LifeInv, PredecessorsOver, OverSteps, Published, AddSteps
  <2> QED
    BY <2>3, <2>4, <2>5, PodOfContainer DEF Current
<1>2. CASE ~AddSetAlive(c)
  <2>1. pc[c] \in Published /\ \A d \in Containers \ {c} : pc'[d] = pc[d]
    BY <1>2, AddMoves DEF Published, TypeInv, ProcsOK
  <2> QED
    BY <1>2, <2>1, AddSparesAlive, PublishedMoveKeeps
<1> QED
  BY <1>1, <1>2

\* DEL stays in DEL.
LEMMA DelMoves ==
    ASSUME TypeInv, NEW c \in Containers, Del(c)
    PROVE  /\ pc'[c] \in DelSteps
           /\ \A d \in Containers \ {c} : pc'[d] = pc[d]
<1>1. \E s \in DelSteps : pc' = [pc EXCEPT ![c] = s]
  BY DEF Del, DelGet, DelWires, DelClear, DelGetPeer, DelDown, DelRemove,
         DelSkipPeer, DelSkipThis, Leave, Goto, GotoWith, LoopAt, DelSteps
<1> QED
  BY <1>1 DEF TypeInv, ProcsOK

\* Steps of DEL: what it clears is the announcement of its own container.
LEMMA DelKeepsPublished ==
    ASSUME TypeInv, LifeInv, PublishedIsCurrent, NEW c \in Containers, Del(c)
    PROVE  PublishedIsCurrent'
<1>1. pc'[c] \notin Published /\ \A d \in Containers \ {c} : pc'[d] = pc[d]
  BY DelMoves DEF Published, AddSteps, DelSteps
<1>2. CASE DelClear(c)
  <2>1. PodOf(c) \in Pods /\ Current(c)
    BY <1>2, PodOfContainer
    DEF DelClear, At, LifeInv, ClearsItself, ClearingSteps
  <2>2. \A p \in Pods \ {PodOf(c)} : status'[p].ns = status[p].ns
    BY <1>2, <2>1 DEF DelClear, SetAlive, TypeInv, K8sOK, StatusType
  <2> SUFFICES ASSUME NEW d \in Containers, pc'[d] \in Published
               PROVE  Current(d)'
    BY DEF PublishedIsCurrent
  <2>3. d # c /\ Current(d)
    BY <1>1 DEF PublishedIsCurrent
  <2>4. PodOf(d) # PodOf(c)
    BY <2>1, <2>3 DEF Current
  <2> QED
    BY <2>2, <2>3, <2>4, PodOfContainer DEF Current
<1>3. CASE ~DelClear(c)
  BY <1>1, <1>3, DelLife, PublishedMoveKeeps
<1> QED
  BY <1>2, <1>3

\* The kubelet and the failures take no process into the loop of ADD.
LEMMA OthersKeepPublished ==
    ASSUME TypeInv, LifeInv, PublishedIsCurrent, NEW c \in Containers, Kubelet(c) \/ Fault(c)
    PROVE  PublishedIsCurrent'
<1>1. UNCHANGED status
  BY DEF Kubelet, StartPod, StartDel, RepeatDel, RemoveSandbox, Fault,
         AddApiFault, DelApiFault, RpcFault, k8s
<1>2. \E s \in Steps \ Published : pc' = [pc EXCEPT ![c] = s]
  BY DEF Kubelet, StartPod, StartDel, RepeatDel, RemoveSandbox, Fault,
         AddApiFault, DelApiFault, RpcFault, Fail, Leave, Goto, GotoWith,
         Steps, Published, AddSteps, DelSteps
<1>3. pc'[c] \notin Published /\ \A d \in Containers \ {c} : pc'[d] = pc[d]
  BY <1>2 DEF TypeInv, ProcsOK
<1> QED
  BY <1>1, <1>3, PublishedMoveKeeps

LEMMA PublishedInit == Init => PublishedIsCurrent
BY DEF Init, PublishedIsCurrent, Published, AddSteps

LEMMA PublishedStep ==
    ASSUME TypeInv, LifeInv, PublishedIsCurrent, [Next]_vars
    PROVE  PublishedIsCurrent'
<1>1. ASSUME UNCHANGED vars PROVE PublishedIsCurrent'
  BY <1>1 DEF vars, k8s, procs, PublishedIsCurrent, Current
<1>2. ASSUME NEW n \in Nodes, RefreshNodeIPs(n) PROVE PublishedIsCurrent'
  BY <1>2 DEF RefreshNodeIPs, procs, PublishedIsCurrent, Current
<1> QED
  BY <1>1, <1>2, AddKeepsPublished, DelKeepsPublished, OthersKeepPublished DEF Next

LEMMA MeetInit ==
    ASSUME ~StaleNodes
    PROVE  Init => MeetInv
BY PublishedInit, SkipInit, LifeInit DEF MeetInv

LEMMA MeetStep ==
    ASSUME ~Overlap, "api" \notin Faults, TypeInv, MeetInv, [Next]_vars
    PROVE  MeetInv'
BY PublishedStep, SkipStep, LifeStep DEF MeetInv

-----------------------------------------------------------------------------
(* The refinement mapping.                                                  *)

present == [p \in Pods |-> status[p].ns]
left == {x \in Containers \X Links : Skips(x[1], x[2])}

\* A step in which one process skips no link it did not skip before is a
\* withdrawal of what it does not skip any longer.
LEMMA QuietLeft ==
    ASSUME NEW c \in Containers, ProcQuiet(c)
    PROVE  \E S \in SUBSET ({c} \X Links) : left' = left \ S
<1> DEFINE S == {x \in {c} \X Links : ~Skips(x[1], x[2])'}
<1>1. \A d \in Containers \ {c}, l \in Links : Skips(d, l)' <=> Skips(d, l)
  BY DEF ProcQuiet, Skips, At, Link, Cur
<1>2. \A l \in Links : Skips(c, l)' => Skips(c, l)
  BY DEF ProcQuiet, Early, Skips, At
<1>3. ASSUME NEW x PROVE x \in left' <=> x \in left \ S
  <2>1. CASE x \in Containers \X Links
    BY <1>1, <1>2, <2>1 DEF left
  <2>2. CASE x \notin Containers \X Links
    BY <2>2 DEF left
  <2> QED
    BY <2>1, <2>2
<1>4. left' = left \ S
  BY <1>3
<1> QED
  BY <1>4

\* A quiet step that changes no announcement.
LEMMA QuietRefines ==
    ASSUME NEW c \in Containers, ProcQuiet(c),
           \A p \in Pods : status'[p].ns = status[p].ns
    PROVE  Abstract!Next
<1>1. PICK S \in SUBSET ({c} \X Links) : left' = left \ S
  BY QuietLeft
<1>2. UNCHANGED present
  BY DEF present
<1>3. Abstract!Withdraw(c)
  BY <1>1, <1>2 DEF Abstract!Withdraw, present, left
<1> QED
  BY <1>3 DEF Abstract!Next

\* A step that changes neither mapped variable.
LEMMA Stutters ==
    ASSUME \A p \in Pods : status'[p].ns = status[p].ns,
           \A c \in Containers, l \in Links : Skips(c, l)' <=> Skips(c, l)
    PROVE  UNCHANGED Abstract!vars
<1>1. UNCHANGED present
  BY DEF present
<1>2. UNCHANGED left
  BY DEF left
<1> QED
  BY <1>1, <1>2 DEF Abstract!vars, present, left

\* SetAlive announces a container that has left no link to anybody.
LEMMA SetAliveRefines ==
    ASSUME TypeInv, MeetInv, NEW c \in Containers, AddSetAlive(c)
    PROVE  Abstract!Next
<1>1. PodOf(c) \in Pods /\ pc[c] = "add_alive" /\ out[c] = NoOutcome
  BY PodOfContainer DEF AddSetAlive, At, MeetInv, SkipInv, NothingDecided
<1>2. /\ \A p \in Pods \ {PodOf(c)} : status'[p] = status[p]
      /\ status'[PodOf(c)].ns = c
  BY <1>1 DEF AddSetAlive, SetAlive, TypeInv, K8sOK, StatusType
<1>3. /\ pc'[c] \in {"add_link", "up"}
      /\ \A d \in Containers \ {c} : pc'[d] = pc[d] /\ idx'[d] = idx[d]
      /\ UNCHANGED out
  BY DEF AddSetAlive, LoopAt, TypeInv, ProcsOK
<1>4. \A l \in Links : ~Skips(c, l) /\ ~Skips(c, l)'
  BY <1>1, <1>3 DEF Skips, At, NoOutcome
<1>5. \A d \in Containers \ {c}, l \in Links : Skips(d, l)' <=> Skips(d, l)
  BY <1>3 DEF Skips, At, Link, Cur
<1>6. UNCHANGED left
  BY <1>4, <1>5 DEF left
<1>7. present' = [present EXCEPT ![PodOf(c)] = c]
  BY <1>1, <1>2 DEF present
<1>8. \A l \in Links : <<c, l>> \notin left
  BY <1>4 DEF left
<1>9. Abstract!Arrive(c)
  BY <1>6, <1>7, <1>8 DEF Abstract!Arrive, present, left
<1> QED
  BY <1>9 DEF Abstract!Next

\* A Get that finds nobody finds a peer that has announced nobody.
LEMMA GetPeerRefines ==
    ASSUME TypeInv, MeetInv, NEW c \in Containers, AddGetPeer(c)
    PROVE  Abstract!Next
<1> DEFINE found == Get(status, Peer(c), knows[node[c]])
           l == Link(c)
<1>1. At(c, "add_link") /\ Peer(c) # Localhost /\ UNCHANGED status
  BY DEF AddGetPeer, k8s
<1>2. PICK s \in {"add_skip", "veth_mine", "grpc_skipped", "vx_clean"} :
        /\ GotoWith(c, s, [loc[c] EXCEPT !.peer = found])
        /\ s = "add_skip" => found = None
  BY DEF AddGetPeer
<1>3. CASE s # "add_skip"
  <2>1. ProcQuiet(c)
    BY <1>2, <1>3, GotoQuiet DEF TypeInv, Early
  <2> QED
    BY <1>1, <2>1, QuietRefines
<1>4. CASE s = "add_skip"
  <2>1. /\ pc[c] = "add_link" /\ pc'[c] = "add_skip" /\ found = None
        /\ \A d \in Containers \ {c} : pc'[d] = pc[d]
        /\ UNCHANGED <<idx, out>>
    BY <1>1, <1>2, <1>4 DEF GotoWith, At, TypeInv, ProcsOK
  <2>2. /\ idx[c] \in 1..Len(PodLinks[PodOf(c)])
        /\ PodOf(c) \in Pods
        /\ PodLinks[PodOf(c)][idx[c]] \in LinkRec
    BY <2>1, PodOfContainer, PodLinksAssumption
    DEF TypeInv, ProcsOK, InLoop, LoopSteps
  <2>3. l \in Links /\ Peer(c) \in Pods
    BY <1>1, <2>2 DEF Link, Peer, Cur, LinkRec
  <2>4. Meets(PodOf(c), Peer(c), l)
    BY <2>2 DEF Meets, Link, Peer, Cur, LinkRec
  <2>5. status[Peer(c)].ns = None
    <3>1. knows[node[c]] = Nodes
      BY <2>1 DEF MeetInv, SkipInv, Placed, NodesKnown
    <3> QED
      BY <2>1, <2>3, <3>1 DEF Get, MeetInv, SkipInv, AliveSomewhere
  <2>6. Current(c)
    BY <2>1 DEF MeetInv, PublishedIsCurrent, Published, AddSteps
  <2>7. \A d \in Containers, m \in Links :
          Skips(d, m)' <=> Skips(d, m) \/ (d = c /\ m = l)
    BY <2>1 DEF Skips, At, Link, Cur
  <2>8. left' = left \cup {<<c, l>>}
    <3>1. ASSUME NEW x PROVE x \in left' <=> x \in left \cup {<<c, l>>}
      <4>1. CASE x \in Containers \X Links
        BY <2>7, <4>1 DEF left
      <4>2. CASE x \notin Containers \X Links
        BY <2>3, <4>2 DEF left
      <4> QED
        BY <4>1, <4>2
    <3> QED
      BY <3>1
  <2>9. /\ present[PodOf(c)] = c
        /\ \E q \in Pods : Meets(PodOf(c), q, l) /\ present[q] = None
        /\ UNCHANGED present
    BY <1>1, <2>2, <2>3, <2>4, <2>5, <2>6 DEF present, Current
  <2>10. Abstract!LeaveToPeer(c, l)
    BY <2>8, <2>9 DEF Abstract!LeaveToPeer, present, left
  <2> QED
    BY <2>3, <2>10 DEF Abstract!Next
<1> QED
  BY <1>3, <1>4

\* Clearing the resource is a departure.
LEMMA ClearRefines ==
    ASSUME TypeInv, NEW c \in Containers, DelClear(c)
    PROVE  Abstract!Next
<1>1. PodOf(c) \in Pods /\ pc[c] = "del_clear"
  BY PodOfContainer DEF DelClear, At
<1>2. /\ \A p \in Pods \ {PodOf(c)} : status'[p] = status[p]
      /\ status'[PodOf(c)].ns = None
  BY <1>1 DEF DelClear, SetAlive, TypeInv, K8sOK, StatusType
<1>3. /\ pc'[c] \in {"del_link", "del_done"}
      /\ \A d \in Containers \ {c} : pc'[d] = pc[d] /\ idx'[d] = idx[d]
      /\ UNCHANGED out
  BY DEF DelClear, LoopAt, TypeInv, ProcsOK
<1>4. \A d \in Containers, l \in Links : Skips(d, l)' <=> Skips(d, l)
  BY <1>1, <1>3 DEF Skips, At, Link, Cur
<1>5. UNCHANGED left
  BY <1>4 DEF left
<1>6. present' = [present EXCEPT ![PodOf(c)] = None]
  BY <1>1, <1>2 DEF present
<1>7. Abstract!Depart(PodOf(c))
  BY <1>5, <1>6 DEF Abstract!Depart, present, left
<1> QED
  BY <1>1, <1>7 DEF Abstract!Next

\* Every step is a step of the rendezvous or changes nothing there.
LEMMA StepRefines ==
    ASSUME TypeInv, MeetInv, [Next]_vars
    PROVE  [Abstract!Next]_(Abstract!vars)
<1>1. ASSUME NEW c \in Containers, Add(c) PROVE Abstract!Next
  BY <1>1, SetAliveRefines, GetPeerRefines, AddQuiet, AddSparesAlive, QuietRefines
<1>2. ASSUME NEW c \in Containers, Del(c) PROVE Abstract!Next
  BY <1>2, ClearRefines, DelQuiet, DelLife, QuietRefines DEF MeetInv
<1>3. ASSUME NEW c \in Containers,
             StartDel(c) \/ RepeatDel(c) \/ RemoveSandbox(c) \/ Fault(c)
      PROVE  Abstract!Next
  <2>1. ProcQuiet(c) /\ UNCHANGED status
    BY <1>3, OthersQuiet
  <2> QED
    BY <2>1, QuietRefines
<1>4. ASSUME NEW c \in Containers, NEW n \in Nodes, StartPod(c, n)
      PROVE  UNCHANGED Abstract!vars
  <2>1. /\ pc[c] = "new" /\ pc'[c] = "add_alive"
        /\ \A d \in Containers \ {c} : pc'[d] = pc[d]
        /\ UNCHANGED <<idx, out, status>>
    BY <1>4 DEF StartPod, At, Goto, GotoWith, k8s, TypeInv, ProcsOK
  <2>2. \A d \in Containers, l \in Links : Skips(d, l)' <=> Skips(d, l)
    BY <2>1 DEF Skips, At, Link, Cur
  <2> QED
    BY <2>1, <2>2, Stutters
<1>5. ASSUME NEW n \in Nodes, RefreshNodeIPs(n) PROVE UNCHANGED Abstract!vars
  <2>1. UNCHANGED <<status, pc, idx, out>>
    BY <1>5 DEF RefreshNodeIPs, procs
  <2> QED
    BY <2>1, Stutters DEF Skips, At, Link, Cur
<1>6. ASSUME UNCHANGED vars PROVE UNCHANGED Abstract!vars
  <2>1. UNCHANGED <<status, pc, idx, out>>
    BY <1>6 DEF vars, k8s, procs
  <2> QED
    BY <2>1, Stutters DEF Skips, At, Link, Cur
<1> QED
  BY <1>1, <1>2, <1>3, <1>4, <1>5, <1>6 DEF Next, Kubelet

LEMMA InitRefines == Init => Abstract!Init
<1> SUFFICES ASSUME Init PROVE Abstract!Init
  OBVIOUS
<1>1. present = [p \in Pods |-> None]
  BY DEF Init, FreshStatus, present
<1>2. left = {}
  BY DEF Init, Skips, At, NoOutcome, left
<1> QED
  BY <1>1, <1>2 DEF Abstract!Init, present, left

-----------------------------------------------------------------------------
\* IsRendezvousHolds: if the node lists are complete, a pod's sandbox starts
\* only when its predecessor is gone, and the API server answers, then cmdAdd
\* and cmdDel, with every interleaving and every lost call between daemons,
\* implement the abstract specification of how two pods agree on who makes
\* their link.
THEOREM IsRendezvousHolds ==
    ASSUME ~StaleNodes, ~Overlap, "api" \notin Faults
    PROVE  Spec => IsRendezvous
<1>1. Init => MeetInv
  BY MeetInit
<1>2. TypeInv /\ MeetInv /\ [Next]_vars => MeetInv'
  BY MeetStep
<1>3. TypeInv /\ MeetInv /\ [Next]_vars => [Abstract!Next]_(Abstract!vars)
  BY StepRefines
<1> QED
  BY <1>1, <1>2, <1>3, InitType, NextType, InitRefines, PTL
  DEF Spec, IsRendezvous, Abstract!Spec

-----------------------------------------------------------------------------
(* What holds also while daemons do not know all nodes yet.                 *)
HereInv == Placed /\ AliveSomewhere /\ NothingDecided

LEMMA HereInit == Init => HereInv
BY DEF Init, HereInv, Placed, AliveSomewhere, FreshStatus, NothingDecided

\* A step past SetAlive that announces nobody keeps it.
LEMMA HereMoveKeeps ==
    ASSUME HereInv, NEW c \in Containers, pc[c] # "new",
           pc'[c] \notin {"new", "add_alive"},
           \A d \in Containers \ {c} : pc'[d] = pc[d] /\ out'[d] = out[d],
           StatusQuiet, UNCHANGED node
    PROVE  HereInv'
<1>1. Placed' /\ NothingDecided'
  BY DEF HereInv, Placed, NothingDecided
<1>2. AliveSomewhere'
  BY DEF HereInv, AliveSomewhere, StatusQuiet
<1> QED
  BY <1>1, <1>2 DEF HereInv

LEMMA HereStep ==
    ASSUME TypeInv, HereInv, [Next]_vars
    PROVE  HereInv'
<1>1. ASSUME NEW c \in Containers, AddSetAlive(c) PROVE HereInv'
  <2>1. /\ PodOf(c) \in Pods /\ c # None /\ node[c] \in Nodes
        /\ out[c] = NoOutcome
    BY <1>1, PodOfContainer, NoneAssumption
    DEF AddSetAlive, At, HereInv, Placed, NothingDecided
  <2>2. /\ \A p \in Pods \ {PodOf(c)} : status'[p] = status[p]
        /\ status'[PodOf(c)].ns = c /\ status'[PodOf(c)].src = node[c]
    BY <1>1, <2>1 DEF AddSetAlive, SetAlive, TypeInv, K8sOK, StatusType
  <2>3. /\ pc'[c] \in {"add_link", "up"}
        /\ \A d \in Containers \ {c} : pc'[d] = pc[d]
        /\ UNCHANGED <<out, node>>
    BY <1>1 DEF AddSetAlive, LoopAt, TypeInv, ProcsOK, nodes
  <2>4. Placed' /\ NothingDecided'
    BY <2>1, <2>3 DEF HereInv, Placed, NothingDecided
  <2>5. AliveSomewhere'
    BY <2>1, <2>2 DEF HereInv, AliveSomewhere
  <2> QED
    BY <2>4, <2>5 DEF HereInv
<1>2. ASSUME NEW c \in Containers, AddGetPeer(c) PROVE HereInv'
  <2>1. /\ pc[c] = "add_link" /\ UNCHANGED <<status, node, out>>
        /\ \E s \in {"add_skip", "veth_mine", "grpc_skipped", "vx_clean"} :
             pc' = [pc EXCEPT ![c] = s]
    BY <1>2 DEF AddGetPeer, At, GotoWith, k8s, nodes
  <2>2. /\ pc'[c] \notin {"new", "add_alive"}
        /\ \A d \in Containers \ {c} : pc'[d] = pc[d]
    BY <2>1 DEF TypeInv, ProcsOK
  <2> QED
    BY <2>1, <2>2, StatusUnchanged, HereMoveKeeps
<1>3. ASSUME NEW c \in Containers, ProcQuiet(c), StatusQuiet, pc[c] # "new",
             UNCHANGED node
      PROVE  HereInv'
  BY <1>3, HereMoveKeeps DEF ProcQuiet, Early
<1>4. ASSUME NEW c \in Containers, NEW n \in Nodes, StartPod(c, n) PROVE HereInv'
  <2>1. /\ pc[c] = "new" /\ pc'[c] = "add_alive"
        /\ \A d \in Containers \ {c} : pc'[d] = pc[d] /\ node'[d] = node[d]
        /\ node'[c] = n
        /\ UNCHANGED <<out, status>>
    BY <1>4 DEF StartPod, At, Goto, GotoWith, k8s, TypeInv, ProcsOK, NodesOK
  <2> QED
    BY <2>1 DEF HereInv, Placed, NothingDecided, AliveSomewhere
<1>5. ASSUME NEW n \in Nodes, RefreshNodeIPs(n) PROVE HereInv'
  BY <1>5 DEF RefreshNodeIPs, procs, nodes, HereInv, Placed, AliveSomewhere,
              NothingDecided
<1>6. CASE UNCHANGED vars
  BY <1>6 DEF vars, k8s, nodes, procs, HereInv, Placed, AliveSomewhere,
              NothingDecided
<1>7. ASSUME NEW c \in Containers, Add(c) PROVE HereInv'
  BY <1>1, <1>2, <1>3, <1>7, AddQuiet
<1>8. ASSUME NEW c \in Containers, Del(c) PROVE HereInv'
  BY <1>3, <1>8, DelQuiet
<1>9. ASSUME NEW c \in Containers, Kubelet(c) \/ Fault(c) PROVE HereInv'
  BY <1>3, <1>4, <1>9, OthersQuiet, StatusUnchanged DEF Kubelet
<1> QED
  BY <1>5, <1>6, <1>7, <1>8, <1>9 DEF Next

\* The container that a Get of the peer finds belongs to that peer.
LEMMA FoundPeer ==
    ASSUME AliveSomewhere, NEW q \in Pods, NEW known, Get(status, q, known) # None
    PROVE  /\ Get(status, q, known) \in Containers
           /\ PodOf(Get(status, q, known)) = q
           /\ Current(Get(status, q, known))
BY DEF Get, AliveSomewhere, Current
=============================================================================

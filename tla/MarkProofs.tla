----------------------------- MODULE MarkProofs -----------------------------
(***************************************************************************)
(* The skip marks: the lists of skipped peers in the Topology resources,   *)
(* by which a pod tells its peer that the link is the peer's to make.      *)
(***************************************************************************)
EXTENDS RendezvousProofs

-----------------------------------------------------------------------------
(* Who creates a gRPC wire when pods boot, one sandbox per pod: a skip mark *)
(* is then the word of a peer that has really left the link to the reader,  *)
(* or of the reader's own DEL.                                              *)

\* The ADD of c is over.
Over(c) == pc[c] \in Steps \ (AddSteps \cup {"new"})

\* d is not going to make link l any more.
LeftBy(d, l) == out[d][l] = "skip" \/ Over(d)

MarksAreTrue ==
    \A c, d \in Containers : \A l \in Links :
        <<PodOf(c), l>> \in status[PodOf(d)].skipped => LeftBy(d, l) \/ Over(c)

\* Of the link at which ADD is, and of those after it, nothing is decided.
InAddLoop == AddSteps \ {"add_alive"}
Undecided(c) ==
    pc[c] \in InAddLoop =>
        \A i \in 1..Len(PodLinks[PodOf(c)]) :
            i >= idx[c] => out[c][PodLinks[PodOf(c)][i].link] = "none"

\* The living peer is a container of the pod at the other end.
RightPeer(c) == pc[c] \in PeerSteps => PodOf(loc[c].peer) = Peer(c)

\* Whoever creates a wire goes first by name, or the peer will not do it.
MayCreate(c) ==
    pc[c] \in Creating =>
        \/ HigherPrio(c)
        \/ \A d \in Containers : PodOf(d) = Peer(c) => LeftBy(d, Link(c))

CreatorInv ==
    /\ MarksAreTrue
    /\ \A c \in Containers : Undecided(c) /\ RightPeer(c) /\ MayCreate(c)

\* A step of the process of c touches no other process.
Alone(c) ==
    \A d \in Containers \ {c} :
        /\ pc'[d] = pc[d] /\ idx'[d] = idx[d]
        /\ loc'[d] = loc[d] /\ out'[d] = out[d]

\* It keeps the invariant, if c does not take back what it left to others, and
\* the marks it adds and its own next step are in order.
LEMMA CreatorMoveKeeps ==
    ASSUME TypeInv, CreatorInv, NEW c \in Containers, Alone(c),
           Over(c) => Over(c)',
           \A l \in Links : LeftBy(c, l) => LeftBy(c, l)',
           \A a, b \in Containers : \A l \in Links :
               <<PodOf(a), l>> \in status'[PodOf(b)].skipped =>
                   \/ <<PodOf(a), l>> \in status[PodOf(b)].skipped
                   \/ LeftBy(b, l)' \/ Over(a)',
           Undecided(c)', RightPeer(c)', MayCreate(c)'
    PROVE  CreatorInv'
<1>1. /\ \A d \in Containers : Over(d) => Over(d)'
      /\ \A d \in Containers, l \in Links : LeftBy(d, l) => LeftBy(d, l)'
  BY DEF Over, LeftBy, Alone
<1>2. MarksAreTrue'
  BY <1>1 DEF CreatorInv, MarksAreTrue
<1>3. ASSUME NEW d \in Containers, d # c
      PROVE  Undecided(d)' /\ RightPeer(d)' /\ MayCreate(d)'
  <2>1. Undecided(d)' /\ RightPeer(d)'
    BY <1>3 DEF CreatorInv, Undecided, RightPeer, Peer, Cur, Alone
  <2>2. ASSUME pc'[d] \in Creating, ~HigherPrio(d)',
               NEW x \in Containers, PodOf(x) = Peer(d)'
        PROVE  LeftBy(x, Link(d))'
    <3>1. pc[d] \in Creating /\ pc[d] \in LoopSteps
      BY <1>3, <2>2 DEF Creating, LoopSteps, PeerSteps, Alone
    <3>2. Link(d) \in Links
      BY <3>1, CurrentLink DEF TypeInv
    <3>3. Peer(d)' = Peer(d) /\ Link(d)' = Link(d)
      BY <1>3 DEF Peer, Link, Cur, Alone
    <3>4. LeftBy(x, Link(d))
      BY <2>2, <3>1, <3>3 DEF CreatorInv, MayCreate, HigherPrio
    <3>5. LeftBy(x, Link(d))' <=> (out'[x][Link(d)] = "skip" \/ Over(x)')
      BY <3>3 DEF LeftBy
    <3>6. out'[x][Link(d)] = "skip" \/ Over(x)'
      BY <1>1, <3>2, <3>4 DEF LeftBy
    <3> QED
      BY <3>5, <3>6
  <2> QED
    BY <2>1, <2>2 DEF MayCreate
<1> QED
  BY <1>2, <1>3 DEF CreatorInv

\* The process is in DEL or ended: it is no more concerned, but may leave marks.
LEMMA OverKeeps ==
    ASSUME TypeInv, CreatorInv, NEW c \in Containers, Alone(c), Over(c)',
           \A a, b \in Containers : \A l \in Links :
               <<PodOf(a), l>> \in status'[PodOf(b)].skipped =>
                   \/ <<PodOf(a), l>> \in status[PodOf(b)].skipped
                   \/ a = c
    PROVE  CreatorInv'
<1>1. /\ pc'[c] \notin InAddLoop /\ pc'[c] \notin PeerSteps
      /\ pc'[c] \notin Creating
  BY DEF Over, InAddLoop, AddSteps, PeerSteps, Creating
<1>2. Undecided(c)' /\ RightPeer(c)' /\ MayCreate(c)'
  BY <1>1 DEF Undecided, RightPeer, MayCreate
<1>3. \A l \in Links : LeftBy(c, l)'
  BY DEF LeftBy
<1> QED
  BY <1>2, <1>3, CreatorMoveKeeps

\* Being done with a link: what is decided of it was open before.
LEMMA DecideKeeps ==
    ASSUME TypeInv, CreatorInv, NEW c \in Containers, NEW how,
           pc[c] \in InAddLoop, pc[c] \in LoopSteps, Decide(c, how),
           \A a, b \in Containers : \A l \in Links :
               <<PodOf(a), l>> \in status'[PodOf(b)].skipped =>
                   \/ <<PodOf(a), l>> \in status[PodOf(b)].skipped
                   \/ b = c /\ l = Link(c) /\ how = "skip"
    PROVE  CreatorInv'
<1>1. /\ idx[c] \in 1..Len(PodLinks[PodOf(c)]) /\ PodOf(c) \in Pods
      /\ Link(c) = PodLinks[PodOf(c)][idx[c]].link
      /\ Link(c) \in Links
  BY PodOfContainer, CurrentLink DEF TypeInv, ProcsOK, InLoop, Link, Cur
<1>2. /\ pc'[c] \in {"add_link", "up"} /\ idx'[c] = idx[c] + 1
      /\ Alone(c)
      /\ \A l \in Links : l # Link(c) => out'[c][l] = out[c][l]
      /\ out'[c][Link(c)] = how
  BY <1>1 DEF Decide, LoopAt, TypeInv, ProcsOK, Alone
<1>3. out[c][Link(c)] = "none"
  <2>1. Undecided(c) /\ idx[c] \in Nat
    BY DEF CreatorInv, TypeInv, ProcsOK
  <2> QED
    BY <1>1, <2>1 DEF Undecided
<1>4. ~Over(c) /\ \A l \in Links : LeftBy(c, l) => LeftBy(c, l)'
  BY <1>2, <1>3 DEF Over, InAddLoop, LeftBy
<1>5. RightPeer(c)' /\ MayCreate(c)'
  BY <1>2 DEF RightPeer, MayCreate, PeerSteps, Creating
<1>6. Undecided(c)'
  <2> SUFFICES ASSUME NEW i \in 1..Len(PodLinks[PodOf(c)]), i >= idx[c] + 1
               PROVE  out'[c][PodLinks[PodOf(c)][i].link] = "none"
    BY <1>2 DEF Undecided
  <2>1. PodLinks[PodOf(c)][i].link \in Links
    BY <1>1, LinkTyped
  <2>2. i # idx[c] /\ i >= idx[c]
    BY <1>1
  <2>3. PodLinks[PodOf(c)][i].link # Link(c)
    BY <1>1, <2>2, LinkOnce
  <2>4. out[c][PodLinks[PodOf(c)][i].link] = "none"
    BY <2>2 DEF CreatorInv, Undecided
  <2> QED
    BY <1>2, <2>1, <2>3, <2>4
<1>7. \A a, b \in Containers : \A l \in Links :
        <<PodOf(a), l>> \in status'[PodOf(b)].skipped =>
            \/ <<PodOf(a), l>> \in status[PodOf(b)].skipped
            \/ LeftBy(b, l)' \/ Over(a)'
  BY <1>2 DEF LeftBy
<1> QED
  BY <1>2, <1>4, <1>5, <1>6, <1>7, CreatorMoveKeeps

\* With one sandbox per pod, a pod is its container.
LEMMA OneSandbox ==
    ASSUME MaxInc = 1, NEW c \in Containers, NEW d \in Containers,
           PodOf(c) = PodOf(d)
    PROVE  c = d
BY DEF Containers, PodOf

\* SetAlive: nothing has been decided, and the loop begins.
LEMMA SetAliveCreator ==
    ASSUME TypeInv, HereInv, CreatorInv, NEW c \in Containers, AddSetAlive(c)
    PROVE  CreatorInv'
<1>1. pc[c] = "add_alive" /\ PodOf(c) \in Pods /\ out[c] = NoOutcome
  BY PodOfContainer DEF AddSetAlive, At, HereInv, NothingDecided
<1>2. pc'[c] \in {"add_link", "up"} /\ Alone(c) /\ UNCHANGED out
  BY DEF AddSetAlive, LoopAt, TypeInv, ProcsOK, Alone
<1>3. \A p \in Pods : status'[p].skipped = status[p].skipped
  BY <1>1 DEF AddSetAlive, SetAlive, TypeInv, K8sOK, StatusType
<1>4. ~Over(c) /\ \A l \in Links : ~LeftBy(c, l)
  BY <1>1 DEF Over, LeftBy, NoOutcome, AddSteps
<1>5. RightPeer(c)' /\ MayCreate(c)'
  BY <1>2 DEF RightPeer, MayCreate, PeerSteps, Creating
<1>6. Undecided(c)'
  BY <1>1, <1>2, LinkTyped DEF Undecided, NoOutcome
<1> QED
  BY <1>2, <1>3, <1>4, <1>5, <1>6, PodOfContainer, CreatorMoveKeeps

\* The look at the peer finds a container of that pod.
LEMMA GetPeerCreator ==
    ASSUME TypeInv, HereInv, CreatorInv, NEW c \in Containers, AddGetPeer(c)
    PROVE  CreatorInv'
<1> DEFINE found == Get(status, Peer(c), knows[node[c]])
<1>1. /\ pc[c] = "add_link" /\ Peer(c) # Localhost /\ UNCHANGED <<status, idx, out>>
      /\ pc[c] \in LoopSteps /\ pc[c] \in InAddLoop
  BY DEF AddGetPeer, At, k8s, GotoWith, LoopSteps, InAddLoop, AddSteps
<1>2. PICK s \in {"add_skip", "veth_mine", "grpc_skipped", "vx_clean"} :
        /\ GotoWith(c, s, [loc[c] EXCEPT !.peer = found])
        /\ s # "add_skip" => found # None
  BY DEF AddGetPeer
<1>3. /\ pc'[c] = s /\ Alone(c) /\ loc'[c].peer = found
  BY <1>2 DEF GotoWith, TypeInv, ProcsOK, LocType, Alone
<1>4. Peer(c) \in Pods
  BY <1>1, CurrentLink DEF TypeInv
<1>5. RightPeer(c)'
  <2>1. pc'[c] \in PeerSteps => s # "add_skip"
    BY <1>3 DEF PeerSteps
  <2>2. s # "add_skip" => PodOf(found) = Peer(c)
    BY <1>2, <1>4, FoundPeer DEF HereInv
  <2>3. Peer(c)' = Peer(c)
    BY <1>1 DEF Peer, Cur
  <2> QED
    BY <1>3, <2>1, <2>2, <2>3 DEF RightPeer
<1>6. MayCreate(c)'
  BY <1>3 DEF MayCreate, Creating
<1>7. Undecided(c)'
  BY <1>1 DEF CreatorInv, Undecided
<1>8. ~Over(c) /\ \A l \in Links : LeftBy(c, l) => LeftBy(c, l)'
  BY <1>1 DEF Over, LeftBy, AddSteps
<1> QED
  BY <1>1, <1>3, <1>5, <1>6, <1>7, <1>8, CreatorMoveKeeps

\* Going on inside the loop body: the step to creating the wire is taken by the
\* pod that goes first, or by one that has seen the mark of its peer.
LEMMA BodyCreator ==
    ASSUME TypeInv, CreatorInv, NEW c \in Containers, pc[c] \in PeerSteps,
           NEW s \in PeerSteps, NEW r \in LocType, GotoWith(c, s, r),
           r.peer = loc[c].peer, UNCHANGED status,
           s \in Creating => \/ pc[c] \in Creating \/ HigherPrio(c)
                             \/ IsSkipped(status, PodOf(c), Peer(c), Link(c))
    PROVE  CreatorInv'
<1>1. pc'[c] = s /\ loc'[c] = r /\ Alone(c) /\ UNCHANGED <<idx, out>>
  BY DEF GotoWith, TypeInv, ProcsOK, Alone
<1>2. pc[c] \in InAddLoop /\ pc[c] \in LoopSteps /\ ~Over(c) /\ ~Over(c)'
  BY <1>1 DEF PeerSteps, LoopSteps, InAddLoop, AddSteps, Over
<1>3. Link(c)' = Link(c) /\ Peer(c)' = Peer(c) /\ Link(c) \in Links
  BY <1>1, <1>2, CurrentLink DEF Link, Peer, Cur, TypeInv
<1>4. RightPeer(c)'
  BY <1>1, <1>3 DEF CreatorInv, RightPeer
<1>5. Undecided(c)'
  BY <1>1, <1>2 DEF CreatorInv, Undecided
<1>6. \A d \in Containers, l \in Links : LeftBy(d, l) <=> LeftBy(d, l)'
  BY <1>1, <1>2 DEF LeftBy, Over, Alone
<1>7. MayCreate(c)'
  <2> SUFFICES ASSUME s \in Creating, ~HigherPrio(c),
                      NEW d \in Containers, PodOf(d) = Peer(c)
               PROVE  LeftBy(d, Link(c))
    BY <1>1, <1>3, <1>6 DEF MayCreate, HigherPrio, LeftBy, Over
  <2>1. CASE pc[c] \in Creating
    BY <2>1 DEF CreatorInv, MayCreate
  <2>2. CASE IsSkipped(status, PodOf(c), Peer(c), Link(c))
    BY <1>2, <1>3, <2>2 DEF IsSkipped, CreatorInv, MarksAreTrue
  <2> QED
    BY <2>1, <2>2
<1> QED
  BY <1>1, <1>2, <1>4, <1>5, <1>6, <1>7, CreatorMoveKeeps

\* A failed ADD is over.
LEMMA FailCreator ==
    ASSUME TypeInv, CreatorInv, NEW c \in Containers, Fail(c), UNCHANGED status
    PROVE  CreatorInv'
<1>1. Alone(c) /\ pc'[c] = "add_failed"
  BY DEF Fail, Leave, GotoWith, TypeInv, ProcsOK, Alone
<1>2. Over(c)'
  BY <1>1 DEF Over, Steps, AddSteps
<1> QED
  BY <1>1, <1>2, OverKeeps

\* The steps of ADD.
LEMMA AddCreator ==
    ASSUME MaxInc = 1, TypeInv, HereInv, CreatorInv, NEW c \in Containers, Add(c)
    PROVE  CreatorInv'
<1>1. CASE AddMacvlan(c)
  <2>1. /\ pc[c] \in InAddLoop /\ pc[c] \in LoopSteps /\ Decide(c, "made")
        /\ UNCHANGED status
    BY <1>1 DEF AddMacvlan, At, InAddLoop, AddSteps, LoopSteps, k8s
  <2> QED
    BY <2>1, DecideKeeps
<1>2. CASE AddSkip(c)
  <2>1. /\ pc[c] \in InAddLoop /\ pc[c] \in LoopSteps /\ Decide(c, "skip")
        /\ PodOf(c) \in Pods
    BY <1>2, PodOfContainer DEF AddSkip, At, InAddLoop, AddSteps, LoopSteps
  <2>2. \A p \in Pods : \/ status'[p].skipped = status[p].skipped
                        \/ /\ p = PodOf(c)
                           /\ status'[p].skipped =
                                status[p].skipped \cup {<<Peer(c), Link(c)>>}
    BY <1>2, <2>1 DEF AddSkip, Skip, TypeInv, K8sOK, StatusType
  <2>3. \A a, b \in Containers : \A l \in Links :
          <<PodOf(a), l>> \in status'[PodOf(b)].skipped =>
              \/ <<PodOf(a), l>> \in status[PodOf(b)].skipped
              \/ b = c /\ l = Link(c)
    BY <2>2, PodOfContainer, OneSandbox
  <2> QED
    BY <2>1, <2>3, DecideKeeps
<1>3. CASE ~AddSetAlive(c) /\ ~AddMacvlan(c) /\ ~AddGetPeer(c) /\ ~AddSkip(c)
  <2>1. pc[c] \in PeerSteps /\ UNCHANGED status /\ Turns(c)
    BY <1>3, PeerTurns
  <2>2. pc[c] \in InAddLoop /\ pc[c] \in LoopSteps
    BY <2>1 DEF PeerSteps, LoopSteps, InAddLoop, AddSteps
  <2>3. ASSUME NEW how, Decide(c, how) PROVE CreatorInv'
    BY <2>1, <2>2, <2>3, DecideKeeps
  <2> QED
    BY <2>1, <2>3, BodyCreator, FailCreator DEF Turns
<1> QED
  BY <1>1, <1>2, <1>3, SetAliveCreator, GetPeerCreator

\* The steps of DEL: the marks it leaves speak of the pod that goes.
LEMMA DelCreator ==
    ASSUME MaxInc = 1, TypeInv, CreatorInv, NEW c \in Containers, Del(c)
    PROVE  CreatorInv'
<1>1. PodOf(c) \in Pods
  BY PodOfContainer
<1>2. Over(c)'
  BY DelMoves DEF Over, Steps, DelSteps, AddSteps
<1>3. Alone(c)
  BY DEF Del, DelGet, DelWires, DelClear, DelGetPeer, DelDown, DelRemove,
         DelSkipPeer, DelSkipThis, Leave, Goto, GotoWith, LoopAt, TypeInv, ProcsOK,
         Alone
<1>4. \A p \in Pods : \/ status'[p].skipped \subseteq status[p].skipped
                      \/ status'[p].skipped =
                           status[p].skipped \cup {<<PodOf(c), Link(c)>>}
  <2>1. CASE DelSkipPeer(c)
    BY <2>1 DEF DelSkipPeer, SkipReversePeer, Skip, TypeInv, K8sOK, StatusType
  <2>2. CASE DelSkipThis(c) \/ DelClear(c)
    BY <1>1, <2>2 DEF DelSkipThis, DelClear, SetAlive, SkipReverseThis, TypeInv,
       K8sOK, StatusType
  <2>3. CASE ~DelSkipPeer(c) /\ ~DelSkipThis(c) /\ ~DelClear(c)
    BY <2>3 DEF Del, DelGet, DelWires, DelGetPeer, DelDown, DelRemove, k8s
  <2> QED
    BY <2>1, <2>2, <2>3
<1>5. \A a, b \in Containers : \A l \in Links :
        <<PodOf(a), l>> \in status'[PodOf(b)].skipped =>
            \/ <<PodOf(a), l>> \in status[PodOf(b)].skipped
            \/ a = c
  BY <1>4, PodOfContainer, OneSandbox
<1> QED
  BY <1>2, <1>3, <1>5, OverKeeps

\* The kubelet and the failures.
LEMMA OthersCreator ==
    ASSUME TypeInv, HereInv, CreatorInv, NEW c \in Containers, Kubelet(c) \/ Fault(c)
    PROVE  CreatorInv'
<1>1. UNCHANGED status
  BY DEF Kubelet, StartPod, StartDel, RepeatDel, RemoveSandbox, Fault,
         AddApiFault, DelApiFault, RpcFault, k8s
<1>2. Alone(c)
  BY DEF Kubelet, StartPod, StartDel, RepeatDel, RemoveSandbox, Fault,
         AddApiFault, DelApiFault, RpcFault, Fail, Leave, Goto, GotoWith,
         TypeInv, ProcsOK, Alone
<1>3. CASE \E n \in Nodes : StartPod(c, n)
  <2>1. /\ pc[c] = "new" /\ pc'[c] = "add_alive" /\ UNCHANGED out
        /\ out[c] = NoOutcome
    BY <1>3 DEF StartPod, At, Goto, GotoWith, TypeInv, ProcsOK, HereInv,
                NothingDecided
  <2>2. ~Over(c) /\ \A l \in Links : ~LeftBy(c, l)
    BY <2>1 DEF Over, LeftBy, NoOutcome
  <2>3. Undecided(c)' /\ RightPeer(c)' /\ MayCreate(c)'
    BY <2>1 DEF Undecided, InAddLoop, RightPeer, MayCreate, PeerSteps, Creating
  <2> QED
    BY <1>1, <1>2, <2>2, <2>3, CreatorMoveKeeps
<1>4. CASE StartDel(c) \/ RepeatDel(c) \/ RemoveSandbox(c) \/ Fault(c)
  <2>1. \E s \in DelSteps \cup {"add_failed", "gone"} : pc' = [pc EXCEPT ![c] = s]
    BY <1>4 DEF StartDel, RepeatDel, RemoveSandbox, Fault, AddApiFault,
                DelApiFault, RpcFault, Fail, Leave, Goto, GotoWith, DelSteps
  <2>2. Over(c)'
    BY <2>1 DEF Over, Steps, DelSteps, AddSteps, TypeInv, ProcsOK
  <2> QED
    BY <1>1, <1>2, <2>2, OverKeeps
<1> QED
  BY <1>3, <1>4 DEF Kubelet

LEMMA CreatorInit == Init => CreatorInv
BY PodOfContainer DEF Init, CreatorInv, MarksAreTrue, FreshStatus, Undecided,
   InAddLoop, AddSteps, RightPeer, PeerSteps, MayCreate, Creating

LEMMA CreatorStep ==
    ASSUME MaxInc = 1, TypeInv, HereInv, CreatorInv, [Next]_vars
    PROVE  CreatorInv'
<1>1. ASSUME UNCHANGED <<status, pc, idx, loc, out>> PROVE CreatorInv'
  BY <1>1 DEF CreatorInv, MarksAreTrue, LeftBy, Over, Undecided, RightPeer,
              MayCreate, HigherPrio, Link, Peer, Cur
<1>2. ASSUME NEW n \in Nodes, RefreshNodeIPs(n) PROVE CreatorInv'
  BY <1>1, <1>2 DEF RefreshNodeIPs, procs
<1>3. CASE UNCHANGED vars
  BY <1>1, <1>3 DEF vars, k8s, procs
<1> QED
  BY <1>2, <1>3, AddCreator, DelCreator, OthersCreator DEF Next

\* Two pods never both have reason to create the wire between them.
LEMMA CreatorAlone ==
    ASSUME TypeInv, CreatorInv
    PROVE  OneCreator
<1> SUFFICES ASSUME NEW c \in Containers, NEW d \in Containers, NEW l \in Links,
                    Creates(c, d, l), Creates(d, c, l)
             PROVE  FALSE
  BY DEF OneCreator
<1>1. ASSUME NEW a \in Containers, NEW b \in Containers,
             Creates(a, b, l), Creates(b, a, l)
      PROVE  PodOf(b) = Peer(a) /\ PodOf(a) > PodOf(b)
  <2>1. /\ pc[a] \in Creating /\ pc[a] \in PeerSteps /\ Link(a) = l
        /\ loc[a].peer = b
    BY <1>1 DEF Creates, Creating, PeerSteps
  <2>2. /\ pc[b] \in InAddLoop /\ pc[b] \in LoopSteps /\ ~Over(b) /\ Link(b) = l
    BY <1>1 DEF Creates, InAddLoop, AddSteps, LoopSteps, PeerSteps, Over
  <2>3. PodOf(b) = Peer(a)
    BY <2>1 DEF CreatorInv, RightPeer
  <2>4. idx[b] \in 1..Len(PodLinks[PodOf(b)])
    BY <2>2 DEF TypeInv, ProcsOK, InLoop
  <2>5. out[b][l] = "none"
    BY <2>2, <2>4 DEF CreatorInv, Undecided, Link, Cur
  <2>6. HigherPrio(a)
    BY <2>1, <2>2, <2>3, <2>5 DEF CreatorInv, MayCreate, LeftBy
  <2> QED
    BY <2>3, <2>6 DEF HigherPrio
<1>2. PodOf(c) \in Nat /\ PodOf(d) \in Nat
  BY PodOfContainer, PodsAssumption
<1> QED
  BY <1>1, <1>2

\* OneCreatorHolds: while every pod has its first sandbox, whatever the daemons
\* know of the nodes, whatever fails and however ADDs and DELs interleave,
\* CreatGRPCChan never has both pods create the wire between them. (A pod that
\* comes back may take the mark that the DEL of its own earlier sandbox has put
\* on its peer's list for the word of that peer, whose ADD goes on to create the
\* wire, too.)
THEOREM OneCreatorHolds ==
    ASSUME MaxInc = 1
    PROVE  Spec => []OneCreator
<1>1. TypeInv /\ HereInv /\ CreatorInv /\ [Next]_vars => CreatorInv'
  BY CreatorStep
<1>2. TypeInv /\ HereInv /\ [Next]_vars => HereInv'
  BY HereStep
<1>3. TypeInv /\ CreatorInv => OneCreator
  BY CreatorAlone
<1> QED
  BY <1>1, <1>2, <1>3, InitType, NextType, HereInit, CreatorInit, PTL DEF Spec

-----------------------------------------------------------------------------
(* A pod that goes away leaves a mark at every peer that is up.  The mark   *)
(* is owed from the moment the peer has found the pod alive: the pod is     *)
(* then announced, and before its DEL ends, that walks all its links and    *)
(* puts the pod on the list of each peer.  DEL clears the pod's own list    *)
(* on the way, but no ADD of the same pod is then under way or done.        *)

\* A pod lists its macvlan links last: DEL dies at the first of them and marks
\* no further peer.
MacvlanAtEnd == \A p \in Pods : \A i, j \in 1..Len(PodLinks[p]) :
                    i < j /\ PodLinks[p][i].peer = Localhost
                        => PodLinks[p][j].peer = Localhost

\* d's ADD is done with its i-th link, or has found the peer alive.
Passed(d, i) ==
    \/ pc[d] = "up"
    \/ pc[d] \in Published /\ idx[d] > i
    \/ pc[d] \in PeerSteps /\ idx[d] = i

\* d has the peer, if there is one, on its list.
Marked(d, i) ==
    \/ PodLinks[PodOf(d)][i].peer = Localhost
    \/ <<PodLinks[PodOf(d)][i].peer, PodLinks[PodOf(d)][i].link>>
          \in status[PodOf(d)].skipped

\* x will visit its j-th link: it is announced, hence still has its DEL before
\* it, or the loop of its DEL has not got past that link. A macvlan link needs no
\* visit.
WillVisit(x, j) ==
    \/ Current(x)
    \/ PodLinks[PodOf(x)][j].peer = Localhost
    \/ /\ pc[x] \in {"del_link", "del_down", "del_rm", "del_skip_peer"}
       /\ j >= idx[x]
    \/ pc[x] = "del_skip_this" /\ j > idx[x]

\* Seen from x, d is at the other end of its j-th link, and seen from d, x is at
\* the other end of its i-th.
Opposite(d, i, x, j) ==
    /\ PodOf(x) = PodLinks[PodOf(d)][i].peer
    /\ PodLinks[PodOf(x)][j] = [link |-> PodLinks[PodOf(d)][i].link,
                                peer |-> PodOf(d)]

Owed(d, i) ==
    \E x \in Containers : \E j \in 1..Len(PodLinks[PodOf(x)]) :
        Opposite(d, i, x, j) /\ WillVisit(x, j)

MarkInv ==
    \A d \in Containers : \A i \in 1..Len(PodLinks[PodOf(d)]) :
        Passed(d, i) => Marked(d, i) \/ Owed(d, i)

LEMMA MarkInit == Init => MarkInv
BY DEF Init, MarkInv, Passed, Published, AddSteps, PeerSteps

\* A step of c that takes no mark away keeps the invariant, if all visits stay
\* due, be it to another container of the pod, and c has passed only links with
\* a mark that is there or owed.
LEMMA MarkMoveKeeps ==
    ASSUME TypeInv, MarkInv, NEW c \in Containers, Alone(c),
           \A p \in Pods : status[p].skipped \subseteq status'[p].skipped,
           \A x \in Containers : \A j \in 1..Len(PodLinks[PodOf(x)]) :
               WillVisit(x, j) =>
                   \E y \in Containers : PodOf(y) = PodOf(x) /\ WillVisit(y, j)',
           \A i \in 1..Len(PodLinks[PodOf(c)]) :
               Passed(c, i)' => Passed(c, i) \/ Marked(c, i)' \/ Owed(c, i)'
    PROVE  MarkInv'
<1> SUFFICES ASSUME NEW d \in Containers, NEW i \in 1..Len(PodLinks[PodOf(d)]),
                    Passed(d, i)'
             PROVE  Marked(d, i)' \/ Owed(d, i)'
  BY DEF MarkInv
<1>1. CASE ~Passed(d, i)
  <2>1. d = c
    BY <1>1 DEF Passed, Alone
  <2> QED
    BY <1>1, <2>1
<1>2. CASE Marked(d, i)
  BY <1>2, PodOfContainer DEF Marked
<1>3. CASE Owed(d, i)
  <2>0. PICK x \in Containers : \E j \in 1..Len(PodLinks[PodOf(x)]) :
          Opposite(d, i, x, j) /\ WillVisit(x, j)
    BY <1>3 DEF Owed
  <2>1. PICK j \in 1..Len(PodLinks[PodOf(x)]) :
          Opposite(d, i, x, j) /\ WillVisit(x, j)
    BY <2>0
  <2>2. PICK y \in Containers : PodOf(y) = PodOf(x) /\ WillVisit(y, j)'
    BY <2>1
  <2>3. Opposite(d, i, y, j) /\ j \in 1..Len(PodLinks[PodOf(y)])
    BY <2>1, <2>2 DEF Opposite
  <2> QED
    BY <2>2, <2>3 DEF Owed, Opposite
<1> QED
  BY <1>1, <1>2, <1>3 DEF MarkInv

\* The peer of a link lists the link too.
LEMMA OtherEnd ==
    ASSUME NEW d \in Containers, NEW i \in 1..Len(PodLinks[PodOf(d)]),
           NEW x \in Containers, PodOf(x) = PodLinks[PodOf(d)][i].peer
    PROVE  \E j \in 1..Len(PodLinks[PodOf(x)]) : Opposite(d, i, x, j)
<1>1. PodOf(d) \in Pods /\ PodLinks[PodOf(d)][i].peer # Localhost
  BY PodOfContainer, NoneAssumption
<1>2. \E j \in 1..Len(PodLinks[PodLinks[PodOf(d)][i].peer]) :
        PodLinks[PodLinks[PodOf(d)][i].peer][j] =
            [link |-> PodLinks[PodOf(d)][i].link, peer |-> PodOf(d)]
  BY <1>1, TopologyAssumption
<1> QED
  BY <1>2 DEF Opposite

\* A step of ADD past SetAlive keeps every visit due.
LEMMA AddVisits ==
    ASSUME TypeInv, NEW c \in Containers, Add(c), ~AddSetAlive(c), Alone(c)
    PROVE  \A x \in Containers : \A j \in 1..Len(PodLinks[PodOf(x)]) :
             WillVisit(x, j) => WillVisit(x, j)'
<1>1. \A x \in Containers : Current(x)' <=> Current(x)
  BY AddSparesAlive, PodOfContainer DEF Current
<1>2. pc[c] \in AddSteps
  BY AddMoves
<1> QED
  BY <1>1, <1>2 DEF WillVisit, Alone, AddSteps

\* Being done with the link at which the process is.
LEMMA DecidePasses ==
    ASSUME TypeInv, NEW c \in Containers, NEW how, Decide(c, how),
           pc[c] \in LoopSteps, pc[c] \in InAddLoop,
           NEW i \in 1..Len(PodLinks[PodOf(c)]), Passed(c, i)'
    PROVE  Passed(c, i) \/ i = idx[c]
<1>1. /\ idx[c] \in 1..Len(PodLinks[PodOf(c)])
      /\ PodLinks[PodOf(c)] \in Seq(LinkRec)
  BY PodOfContainer, PodLinksAssumption DEF TypeInv, ProcsOK, InLoop
<1>2. Len(PodLinks[PodOf(c)]) \in Nat
  BY <1>1
<1>3. /\ idx'[c] = idx[c] + 1
      /\ pc'[c] = IF idx[c] + 1 > Len(PodLinks[PodOf(c)]) THEN "up" ELSE "add_link"
  BY DEF Decide, LoopAt, TypeInv, ProcsOK
<1>4. i <= idx[c]
  BY <1>1, <1>2, <1>3 DEF Passed, PeerSteps
<1>5. i < idx[c] => Passed(c, i)
  BY DEF Passed, Published, InAddLoop
<1> QED
  BY <1>1, <1>4, <1>5

\* ADD touches no other process.
LEMMA AddAlone ==
    ASSUME TypeInv, NEW c \in Containers, Add(c)
    PROVE  Alone(c)
<1>1. CASE AddSetAlive(c) \/ AddMacvlan(c) \/ AddGetPeer(c) \/ AddSkip(c)
  BY <1>1 DEF AddSetAlive, AddMacvlan, AddGetPeer, AddSkip, Decide, LoopAt, GotoWith,
              TypeInv, ProcsOK, Alone
<1>2. CASE Turns(c)
  BY <1>2 DEF Turns, Decide, LoopAt, GotoWith, Fail, Leave, TypeInv, ProcsOK, Alone
<1> QED
  BY <1>1, <1>2, PeerTurns

\* SetAlive: the new announcement is due to visit all links of the pod.
LEMMA SetAliveMarks ==
    ASSUME TypeInv, MarkInv, NEW c \in Containers, AddSetAlive(c)
    PROVE  MarkInv'
<1>1. pc[c] = "add_alive" /\ PodOf(c) \in Pods /\ Alone(c)
  BY PodOfContainer, AddAlone DEF AddSetAlive, At, Add
<1>2. /\ \A p \in Pods : status'[p].skipped = status[p].skipped
      /\ \A p \in Pods \ {PodOf(c)} : status'[p].ns = status[p].ns
      /\ status'[PodOf(c)].ns = c
  BY <1>1 DEF AddSetAlive, SetAlive, TypeInv, K8sOK, StatusType
<1>3. ASSUME NEW x \in Containers, NEW j \in 1..Len(PodLinks[PodOf(x)]),
             WillVisit(x, j)
      PROVE  \E y \in Containers : PodOf(y) = PodOf(x) /\ WillVisit(y, j)'
  <2>1. CASE PodOf(x) = PodOf(c)
    BY <1>2, <2>1 DEF WillVisit, Current
  <2>2. CASE PodOf(x) # PodOf(c)
    <3>1. Current(x)' <=> Current(x)
      BY <1>2, <2>2, PodOfContainer DEF Current
    <3>2. x # c
      BY <2>2
    <3> QED
      BY <1>1, <1>3, <3>1, <3>2 DEF WillVisit, Alone
  <2> QED
    BY <2>1, <2>2
<1>4. /\ idx'[c] = 1
      /\ pc'[c] = IF 1 > Len(PodLinks[PodOf(c)]) THEN "up" ELSE "add_link"
  BY DEF AddSetAlive, LoopAt, TypeInv, ProcsOK
<1>5. PodLinks[PodOf(c)] \in Seq(LinkRec)
  BY <1>1, PodLinksAssumption
<1>6. Len(PodLinks[PodOf(c)]) \in Nat
  BY <1>5
<1>7. \A i \in 1..Len(PodLinks[PodOf(c)]) : ~Passed(c, i)'
  BY <1>4, <1>6 DEF Passed, PeerSteps
<1> QED
  BY <1>1, <1>2, <1>3, <1>7, MarkMoveKeeps

\* The look at the peer: a peer that is found alive is announced, hence due to
\* visit the link.
LEMMA GetPeerMarks ==
    ASSUME TypeInv, HereInv, MarkInv, NEW c \in Containers, AddGetPeer(c)
    PROVE  MarkInv'
<1> DEFINE found == Get(status, Peer(c), knows[node[c]])
<1>1. /\ pc[c] = "add_link" /\ Peer(c) # Localhost /\ UNCHANGED <<status, idx>>
      /\ pc[c] \in LoopSteps
  BY DEF AddGetPeer, At, k8s, GotoWith, LoopSteps
<1>2. PICK s \in {"add_skip", "veth_mine", "grpc_skipped", "vx_clean"} :
        /\ GotoWith(c, s, [loc[c] EXCEPT !.peer = found])
        /\ s # "add_skip" => found # None
  BY DEF AddGetPeer
<1>3. pc'[c] = s /\ Alone(c)
  BY <1>2, AddAlone DEF GotoWith, TypeInv, ProcsOK, Add
<1>4. Peer(c) \in Pods /\ idx[c] \in 1..Len(PodLinks[PodOf(c)])
  BY <1>1, CurrentLink DEF TypeInv, ProcsOK, InLoop
<1>5. \A x \in Containers : Current(x)' <=> Current(x)
  BY <1>1 DEF Current
<1>6. ASSUME NEW i \in 1..Len(PodLinks[PodOf(c)]), Passed(c, i)', ~Passed(c, i)
      PROVE  Owed(c, i)'
  <2>1. i = idx[c] /\ s # "add_skip"
    BY <1>1, <1>3, <1>6 DEF Passed, Published, AddSteps, PeerSteps
  <2>2. found \in Containers /\ PodOf(found) = Peer(c) /\ Current(found)
    BY <1>2, <1>4, <2>1, FoundPeer DEF HereInv
  <2>3. \E j \in 1..Len(PodLinks[PodOf(found)]) : Opposite(c, i, found, j)
    BY <2>1, <2>2, OtherEnd DEF Peer, Cur
  <2> QED
    BY <1>5, <2>2, <2>3 DEF Owed, WillVisit, Opposite
<1>7. \A x \in Containers : \A j \in 1..Len(PodLinks[PodOf(x)]) :
        WillVisit(x, j) => WillVisit(x, j)'
  BY <1>1, <1>3, <1>5 DEF WillVisit, Alone
<1> QED
  BY <1>1, <1>3, <1>6, <1>7, MarkMoveKeeps

\* The other steps of ADD: a link that is skipped is marked.
LEMMA AddMarks ==
    ASSUME TypeInv, HereInv, MarkInv, NEW c \in Containers, Add(c)
    PROVE  MarkInv'
<1>1. Alone(c)
  BY AddAlone
<1>2. CASE AddMacvlan(c)
  <2>1. /\ pc[c] \in LoopSteps /\ pc[c] \in InAddLoop /\ Decide(c, "made")
        /\ Peer(c) = Localhost /\ UNCHANGED status /\ ~AddSetAlive(c)
    BY <1>2 DEF AddMacvlan, AddSetAlive, At, LoopSteps, InAddLoop, AddSteps, k8s
  <2>2. ASSUME NEW i \in 1..Len(PodLinks[PodOf(c)]), Passed(c, i)'
        PROVE  Passed(c, i) \/ Marked(c, i)'
    BY <2>1, <2>2, DecidePasses DEF Marked, Peer, Cur
  <2> QED
    BY <1>1, <2>1, <2>2, AddVisits, MarkMoveKeeps
<1>3. CASE AddSkip(c)
  <2>1. /\ pc[c] \in LoopSteps /\ pc[c] \in InAddLoop /\ Decide(c, "skip")
        /\ PodOf(c) \in Pods /\ ~AddSetAlive(c)
    BY <1>3, PodOfContainer
    DEF AddSkip, At, LoopSteps, InAddLoop, AddSteps, AddSetAlive
  <2>2. /\ \A p \in Pods : status[p].skipped \subseteq status'[p].skipped
        /\ <<Peer(c), Link(c)>> \in status'[PodOf(c)].skipped
    BY <1>3, <2>1 DEF AddSkip, Skip, TypeInv, K8sOK, StatusType
  <2>3. ASSUME NEW i \in 1..Len(PodLinks[PodOf(c)]), Passed(c, i)'
        PROVE  Passed(c, i) \/ Marked(c, i)'
    <3>1. Passed(c, i) \/ i = idx[c]
      BY <2>1, <2>3, DecidePasses
    <3>2. i = idx[c] => Marked(c, i)'
      BY <2>2 DEF Marked, Peer, Link, Cur
    <3> QED
      BY <3>1, <3>2
  <2> QED
    BY <1>1, <2>1, <2>2, <2>3, AddVisits, MarkMoveKeeps
<1>4. CASE ~AddSetAlive(c) /\ ~AddMacvlan(c) /\ ~AddGetPeer(c) /\ ~AddSkip(c)
  <2>1. pc[c] \in PeerSteps /\ UNCHANGED status /\ Turns(c)
    BY <1>4, PeerTurns
  <2>2. pc[c] \in InAddLoop /\ pc[c] \in LoopSteps
    BY <2>1 DEF PeerSteps, LoopSteps, InAddLoop, AddSteps
  <2>3. Passed(c, idx[c])
    BY <2>1 DEF Passed
  <2>4. ASSUME NEW i \in 1..Len(PodLinks[PodOf(c)]), Passed(c, i)'
        PROVE  Passed(c, i)
    <3>1. ASSUME NEW how, Decide(c, how) PROVE Passed(c, i)
      BY <2>2, <2>3, <2>4, <3>1, DecidePasses
    <3>2. ASSUME NEW s \in PeerSteps, NEW r, GotoWith(c, s, r) PROVE Passed(c, i)
      <4>1. pc'[c] = s /\ idx'[c] = idx[c]
        BY <3>2 DEF GotoWith, TypeInv, ProcsOK
      <4>2. s # "up" /\ pc[c] \in Published
        BY <2>2 DEF PeerSteps, Published, InAddLoop
      <4> QED
        BY <2>1, <2>4, <4>1, <4>2 DEF Passed
    <3>3. ~Fail(c)
      BY <2>4 DEF Fail, Leave, GotoWith, Passed, Published, AddSteps, PeerSteps,
                  TypeInv, ProcsOK
    <3> QED
      BY <2>1, <3>1, <3>2, <3>3 DEF Turns
  <2> QED
    BY <1>1, <1>4, <2>1, <2>4, AddVisits, MarkMoveKeeps
<1> QED
  BY <1>2, <1>3, <1>4, SetAliveMarks, GetPeerMarks

\* DEL touches no other process, and passes no link of ADD.
LEMMA DelAlone ==
    ASSUME TypeInv, NEW c \in Containers, Del(c)
    PROVE  /\ Alone(c)
           /\ \A i \in 1..Len(PodLinks[PodOf(c)]) : ~Passed(c, i)'
<1>1. Alone(c)
  BY DEF Del, DelGet, DelWires, DelClear, DelGetPeer, DelDown, DelRemove,
         DelSkipPeer, DelSkipThis, Leave, Goto, GotoWith, LoopAt, TypeInv, ProcsOK,
         Alone
<1> QED
  BY <1>1, DelMoves DEF Passed, Published, PeerSteps, AddSteps, DelSteps

\* Clearing the resource: now the loop of DEL is due to visit all links.
LEMMA ClearMarks ==
    ASSUME TypeInv, MarkInv, NEW c \in Containers, DelClear(c)
    PROVE  MarkInv'
<1>1. pc[c] = "del_clear" /\ PodOf(c) \in Pods /\ Alone(c)
  BY PodOfContainer, DelAlone DEF DelClear, At, Del
<1>2. /\ \A p \in Pods : status'[p].skipped = status[p].skipped
      /\ \A p \in Pods \ {PodOf(c)} : status'[p].ns = status[p].ns
  BY <1>1 DEF DelClear, SetAlive, TypeInv, K8sOK, StatusType
<1>3. /\ idx'[c] = 1
      /\ pc'[c] = IF 1 > Len(PodLinks[PodOf(c)]) THEN "del_done" ELSE "del_link"
  BY DEF DelClear, LoopAt, TypeInv, ProcsOK
<1>4. PodLinks[PodOf(c)] \in Seq(LinkRec)
  BY <1>1, PodLinksAssumption
<1>5. Len(PodLinks[PodOf(c)]) \in Nat
  BY <1>4
<1>6. ASSUME NEW x \in Containers, NEW j \in 1..Len(PodLinks[PodOf(x)]),
             WillVisit(x, j)
      PROVE  \E y \in Containers : PodOf(y) = PodOf(x) /\ WillVisit(y, j)'
  <2>1. CASE Current(x) /\ PodOf(x) = PodOf(c)
    <3>1. pc'[c] = "del_link" /\ j >= idx'[c]
      BY <1>3, <1>5, <2>1
    <3> QED
      BY <2>1, <3>1 DEF WillVisit
  <2>2. CASE Current(x) /\ PodOf(x) # PodOf(c)
    BY <1>2, <2>2, PodOfContainer DEF WillVisit, Current
  <2>3. CASE ~Current(x)
    <3>1. x # c \/ PodLinks[PodOf(x)][j].peer = Localhost
      BY <1>1, <1>6, <2>3 DEF WillVisit
    <3> QED
      BY <1>1, <1>6, <2>3, <3>1 DEF WillVisit, Alone
  <2> QED
    BY <2>1, <2>2, <2>3
<1>7. \A i \in 1..Len(PodLinks[PodOf(c)]) : ~Passed(c, i)'
  BY DelAlone DEF Del
<1> QED
  BY <1>1, <1>2, <1>6, <1>7, MarkMoveKeeps

\* A visit: DEL puts its pod on the list of the peer, which is alive if its ADD
\* has passed the link.
LEMMA SkipPeerMarks ==
    ASSUME TypeInv, HereInv, PublishedIsCurrent, MarkInv,
           NEW c \in Containers, DelSkipPeer(c)
    PROVE  MarkInv'
<1>1. /\ pc[c] = "del_skip_peer" /\ pc'[c] = "del_skip_this" /\ idx'[c] = idx[c]
      /\ status' = SkipReversePeer(status, PodOf(c), Peer(c), Link(c))
  BY DEF DelSkipPeer, At, Goto, GotoWith, TypeInv, ProcsOK
<1>2. Alone(c) /\ \A i \in 1..Len(PodLinks[PodOf(c)]) : ~Passed(c, i)'
  BY DelAlone DEF Del
<1>3. \A p \in Pods : status[p].skipped \subseteq status'[p].skipped
  BY <1>1 DEF SkipReversePeer, Skip, TypeInv, K8sOK, StatusType
<1>4. \A x \in Containers : Current(x)' <=> Current(x)
  BY <1>1, SkipKeepsAlive, PodOfContainer DEF Current, TypeInv, K8sOK
<1> SUFFICES ASSUME NEW d \in Containers, NEW i \in 1..Len(PodLinks[PodOf(d)]),
                    Passed(d, i)'
             PROVE  Marked(d, i)' \/ Owed(d, i)'
  BY DEF MarkInv
<1>5. d # c
  BY <1>2
<1>6. Passed(d, i) /\ PodOf(d) \in Pods
  BY <1>2, <1>5, PodOfContainer DEF Passed, Alone
<1>7. CASE Marked(d, i)
  BY <1>3, <1>6, <1>7 DEF Marked
<1>8. CASE Owed(d, i)
  <2>1. PICK x \in Containers : \E j \in 1..Len(PodLinks[PodOf(x)]) :
          Opposite(d, i, x, j) /\ WillVisit(x, j)
    BY <1>8 DEF Owed
  <2>2. PICK j \in 1..Len(PodLinks[PodOf(x)]) :
          Opposite(d, i, x, j) /\ WillVisit(x, j)
    BY <2>1
  <2>3. CASE WillVisit(x, j)'
    BY <2>2, <2>3 DEF Owed, Opposite
  <2>4. CASE ~WillVisit(x, j)'
    <3>1. x = c
      BY <1>2, <1>4, <2>2, <2>4 DEF WillVisit, Alone
    <3>2. idx[c] \in 1..Len(PodLinks[PodOf(c)])
      BY <1>1 DEF TypeInv, ProcsOK, InLoop, LoopSteps
    <3>3. j = idx[c]
      BY <1>1, <1>4, <2>2, <2>4, <3>1, <3>2 DEF WillVisit
    <3>4. /\ Peer(c) = PodOf(d) /\ Link(c) = PodLinks[PodOf(d)][i].link
          /\ PodOf(c) = PodLinks[PodOf(d)][i].peer
      BY <2>2, <3>1, <3>3 DEF Opposite, Peer, Link, Cur
    <3>5. status[PodOf(d)].ns # None /\ status[PodOf(d)].src # None
      <4>1. pc[d] \in Published
        BY <1>6 DEF Passed, Published, PeerSteps, AddSteps
      <4>2. status[PodOf(d)].ns # None
        BY <4>1, NoneAssumption DEF PublishedIsCurrent, Current
      <4> QED
        BY <1>6, <4>2, NoneAssumption DEF HereInv, AliveSomewhere
    <3>6. <<PodOf(c), Link(c)>> \in status'[PodOf(d)].skipped
      BY <1>1, <1>6, <3>4, <3>5 DEF SkipReversePeer, Skip, TypeInv, K8sOK, StatusType
    <3> QED
      BY <3>4, <3>6 DEF Marked
  <2> QED
    BY <2>3, <2>4
<1> QED
  BY <1>6, <1>7, <1>8 DEF MarkInv

\* DEL clears its pod's own list at a time when no ADD of the pod is under way
\* or done.
LEMMA SkipThisMarks ==
    ASSUME TypeInv, LifeInv, MarkInv, NEW c \in Containers, DelSkipThis(c)
    PROVE  MarkInv'
<1>1. /\ pc[c] = "del_skip_this" /\ idx'[c] = idx[c] + 1
      /\ pc'[c] = IF idx[c] + 1 > Len(PodLinks[PodOf(c)])
                  THEN "del_done" ELSE "del_link"
      /\ status' = SkipReverseThis(status, PodOf(c), Peer(c), Link(c))
  BY DEF DelSkipThis, At, LoopAt, TypeInv, ProcsOK
<1>2. Alone(c) /\ \A i \in 1..Len(PodLinks[PodOf(c)]) : ~Passed(c, i)'
  BY DelAlone DEF Del
<1>3. /\ idx[c] \in 1..Len(PodLinks[PodOf(c)])
      /\ PodLinks[PodOf(c)] \in Seq(LinkRec)
  BY <1>1, PodOfContainer, PodLinksAssumption DEF TypeInv, ProcsOK, InLoop, LoopSteps
<1>4. Len(PodLinks[PodOf(c)]) \in Nat
  BY <1>3
<1>5. \A x \in Containers : Current(x)' <=> Current(x)
  BY <1>1, SkipKeepsAlive, PodOfContainer DEF Current, TypeInv, K8sOK
<1> SUFFICES ASSUME NEW d \in Containers, NEW i \in 1..Len(PodLinks[PodOf(d)]),
                    Passed(d, i)'
             PROVE  Marked(d, i)' \/ Owed(d, i)'
  BY DEF MarkInv
<1>6. d # c
  BY <1>2
<1>7. Passed(d, i) /\ PodOf(d) \in Pods
  BY <1>2, <1>6, PodOfContainer DEF Passed, Alone
<1>8. CASE Marked(d, i)
  <2>1. pc[d] \in Published
    BY <1>7 DEF Passed, Published, PeerSteps, AddSteps
  <2>2. PodOf(d) # PodOf(c)
    BY <1>1, <1>6, <2>1, SamePod
    DEF LifeInv, PredecessorsOver, OverSteps, Published, AddSteps
  <2>3. status'[PodOf(d)].skipped = status[PodOf(d)].skipped
    BY <1>1, <1>7, <2>2 DEF SkipReverseThis, TypeInv, K8sOK
  <2> QED
    BY <1>8, <2>3 DEF Marked
<1>9. CASE Owed(d, i)
  <2>1. PICK x \in Containers : \E j \in 1..Len(PodLinks[PodOf(x)]) :
          Opposite(d, i, x, j) /\ WillVisit(x, j)
    BY <1>9 DEF Owed
  <2>2. PICK j \in 1..Len(PodLinks[PodOf(x)]) :
          Opposite(d, i, x, j) /\ WillVisit(x, j)
    BY <2>1
  <2>3. WillVisit(x, j)'
    <3>1. CASE x # c
      BY <1>2, <1>5, <2>2, <3>1 DEF WillVisit, Alone
    <3>2. CASE x = c
      BY <1>1, <1>3, <1>4, <1>5, <2>2, <3>2 DEF WillVisit
    <3> QED
      BY <3>1, <3>2
  <2> QED
    BY <2>2, <2>3 DEF Owed, Opposite
<1> QED
  BY <1>7, <1>8, <1>9 DEF MarkInv

\* The other steps of DEL.
LEMMA DelMarks ==
    ASSUME MacvlanAtEnd, TypeInv, HereInv, LifeInv, PublishedIsCurrent, MarkInv,
           NEW c \in Containers, Del(c)
    PROVE  MarkInv'
<1>1. Alone(c) /\ \A i \in 1..Len(PodLinks[PodOf(c)]) : ~Passed(c, i)'
  BY DelAlone
<1>2. CASE DelGet(c) \/ DelWires(c) \/ DelGetPeer(c) \/ DelDown(c) \/ DelRemove(c)
  <2>1. UNCHANGED <<status, idx>>
    BY <1>2 DEF DelGet, DelWires, DelGetPeer, DelDown, DelRemove, Goto, GotoWith,
                Leave, k8s
  <2>2. \/ pc[c] \in {"del_get", "del_wires"}
        \/ pc[c] = "del_link" /\ pc'[c] \in {"del_rm", "del_down"}
        \/ pc[c] = "del_link" /\ Peer(c) = Localhost
        \/ pc[c] = "del_down" /\ pc'[c] = "del_rm"
        \/ pc[c] = "del_rm" /\ pc'[c] = "del_skip_peer"
    BY <1>2 DEF DelGet, DelWires, DelGetPeer, DelDown, DelRemove, At, Goto, GotoWith,
                TypeInv, ProcsOK
  <2>3. ASSUME pc[c] = "del_link", Peer(c) = Localhost,
               NEW j \in 1..Len(PodLinks[PodOf(c)]), j >= idx[c]
        PROVE  PodLinks[PodOf(c)][j].peer = Localhost
    <3>1. idx[c] \in 1..Len(PodLinks[PodOf(c)]) /\ PodLinks[PodOf(c)] \in Seq(LinkRec)
      BY <2>3, PodOfContainer, PodLinksAssumption
      DEF TypeInv, ProcsOK, InLoop, LoopSteps
    <3>2. j = idx[c] \/ idx[c] < j
      BY <2>3, <3>1
    <3> QED
      BY <2>3, <3>1, <3>2, PodOfContainer DEF MacvlanAtEnd, Peer, Cur
  <2>4. \A x \in Containers : \A j \in 1..Len(PodLinks[PodOf(x)]) :
          WillVisit(x, j) => WillVisit(x, j)'
    BY <1>1, <2>1, <2>2, <2>3 DEF WillVisit, Current, Alone
  <2> QED
    BY <1>1, <2>1, <2>4, MarkMoveKeeps
<1> QED
  BY <1>2, ClearMarks, SkipPeerMarks, SkipThisMarks DEF Del

\* The kubelet, and lost calls between daemons.
LEMMA OthersMark ==
    ASSUME "api" \notin Faults, TypeInv, LifeInv, MarkInv,
           NEW c \in Containers, Kubelet(c) \/ Fault(c)
    PROVE  MarkInv'
<1>1. UNCHANGED status /\ Alone(c)
  BY DEF Kubelet, StartPod, StartDel, RepeatDel, RemoveSandbox, Fault,
         AddApiFault, DelApiFault, RpcFault, Fail, Leave, Goto, GotoWith, k8s,
         TypeInv, ProcsOK, Alone
<1>2. \/ /\ pc[c] \notin {"del_link", "del_down", "del_rm", "del_skip_peer",
                          "del_skip_this"}
         /\ pc'[c] \in {"add_alive", "del_get", "gone", "add_failed"}
      \/ pc[c] = "del_down" /\ pc'[c] = "del_rm" /\ idx'[c] = idx[c]
  <2>1. CASE Kubelet(c)
    BY <2>1 DEF Kubelet, StartPod, StartDel, RepeatDel, RemoveSandbox, At, Leave,
                Goto, GotoWith, TypeInv, ProcsOK
  <2>2. CASE Fault(c)
    <3>1. RpcFault(c)
      BY <2>2 DEF Fault, AddApiFault, DelApiFault, UseFault
    <3> QED
      BY <3>1 DEF RpcFault, At, Fail, Leave, Goto, GotoWith, TypeInv, ProcsOK
  <2> QED
    BY <2>1, <2>2
<1>3. \A x \in Containers : \A j \in 1..Len(PodLinks[PodOf(x)]) :
        WillVisit(x, j) => WillVisit(x, j)'
  BY <1>1, <1>2 DEF WillVisit, Current, Alone
<1>4. \A i \in 1..Len(PodLinks[PodOf(c)]) : ~Passed(c, i)'
  BY <1>2 DEF Passed, Published, PeerSteps, AddSteps
<1> QED
  BY <1>1, <1>3, <1>4, MarkMoveKeeps

LEMMA MarkStep ==
    ASSUME MacvlanAtEnd, "api" \notin Faults, TypeInv, HereInv, LifeInv,
           PublishedIsCurrent, MarkInv, [Next]_vars
    PROVE  MarkInv'
<1>1. ASSUME UNCHANGED <<status, pc, idx>> PROVE MarkInv'
  BY <1>1 DEF MarkInv, Passed, Marked, Owed, Opposite, WillVisit, Current
<1>2. ASSUME NEW n \in Nodes, RefreshNodeIPs(n) PROVE MarkInv'
  BY <1>1, <1>2 DEF RefreshNodeIPs, procs
<1>3. CASE UNCHANGED vars
  BY <1>1, <1>3 DEF vars, k8s, procs
<1> QED
  BY <1>2, <1>3, AddMarks, DelMarks, OthersMark DEF Next

\* A pod that is away owes nobody anything.
LEMMA AwayIsMarked ==
    ASSUME LifeInv, MarkInv
    PROVE  GonePeerIsSkipped
<1> SUFFICES ASSUME NEW d \in Containers, NEW i \in 1..Len(PodLinks[PodOf(d)]),
                    At(d, "up"), Away(PodLinks[PodOf(d)][i].peer)
             PROVE  Marked(d, i)
  BY DEF GonePeerIsSkipped, Marked
<1>1. Passed(d, i)
  BY DEF Passed, At
<1>2. ~Owed(d, i)
  <2> SUFFICES ASSUME NEW x \in Containers, PodOf(x) = PodLinks[PodOf(d)][i].peer,
                      NEW j \in 1..Len(PodLinks[PodOf(x)]), WillVisit(x, j),
                      PodLinks[PodOf(x)][j].peer # Localhost
               PROVE  FALSE
    BY PodOfContainer, NoneAssumption DEF Owed, Opposite
  <2>1. pc[x] \in {"new", "gone"}
    BY DEF Away
  <2>2. ~Current(x)
    BY <2>1 DEF LifeInv, DeadIsDead, DeadSteps
  <2> QED
    BY <2>1, <2>2 DEF WillVisit
<1> QED
  BY <1>1, <1>2 DEF MarkInv

\* GonePeerIsSkippedHolds: if macvlan links come last, a sandbox starts only
\* when its predecessor is gone and the API server answers, then a pod that has
\* gone is on the skip list of every peer that is up, however its DEL, the ADDs
\* of its peers and stale node lists interleave: by the Skip of the peer or by
\* the SkipReverse of its own DEL. (At a macvlan link DEL dies and leaves no
\* mark at the peers of the links after it.)
THEOREM GonePeerIsSkippedHolds ==
    ASSUME MacvlanAtEnd, ~Overlap, "api" \notin Faults
    PROVE  Spec => []GonePeerIsSkipped
<1>1. TypeInv /\ HereInv /\ LifeInv /\ PublishedIsCurrent /\ MarkInv /\ [Next]_vars
        => MarkInv'
  BY MarkStep
<1>2. TypeInv /\ LifeInv /\ [Next]_vars => LifeInv'
  BY LifeStep
<1>3. TypeInv /\ HereInv /\ [Next]_vars => HereInv'
  BY HereStep
<1>4. TypeInv /\ LifeInv /\ PublishedIsCurrent /\ [Next]_vars => PublishedIsCurrent'
  BY PublishedStep
<1>5. LifeInv /\ MarkInv => GonePeerIsSkipped
  BY AwayIsMarked
<1> QED
  BY <1>1, <1>2, <1>3, <1>4, <1>5, InitType, NextType, HereInit, LifeInit,
     PublishedInit, MarkInit, PTL DEF Spec
=============================================================================

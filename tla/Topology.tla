------------------------------ MODULE Topology ------------------------------
(***************************************************************************)
(* The Topology custom resources: the only state two CNI invocations on    *)
(* different nodes share.  Every pod of the topology has one resource; its *)
(* spec lists the pod's links, its status says on which node and in which  *)
(* network namespace the pod is alive, and which (peer, link) pairs the    *)
(* pod has skipped because the peer was not there yet.                     *)
(*                                                                         *)
(* The operators are the meshnetd handlers of daemon/meshnet/handler.go as *)
(* functions of the status.  Each read-modify-write closure the handlers   *)
(* pass to RetryOnConflict is one operator: the resource version makes it  *)
(* atomic.                                                                 *)
(***************************************************************************)
EXTENDS Integers, Sequences, FiniteSets

CONSTANTS
    Pods,       \* pod names; naturals, since the plugin compares names with >
    Links,      \* link uids
    Nodes,      \* cluster nodes, named by the IP the plugin publishes
    MaxInc,     \* bound: sandboxes (containers) one pod gets in a behaviour
    PodLinks,   \* PodLinks[p] = the sequence of [link, peer] of p's spec
    Localhost,  \* the peer name that asks for a macvlan interface
    None        \* the empty string of src_ip, net_ns and container_id

\* A container is a pod together with the number of its sandbox. Container id
\* and network namespace are both unique to it, so one value stands for both.
Containers == Pods \X (1..MaxInc)

PodOf(c) == c[1]

LinkRec == [link : Links, peer : Pods \cup {Localhost}]

ASSUME PodsAssumption == Pods \subseteq Nat
ASSUME BoundAssumption == MaxInc \in Nat
ASSUME NoneAssumption ==
    /\ None \notin Nodes
    /\ None \notin Containers
    /\ Nodes \cap Containers = {}
    /\ Localhost \notin Pods
ASSUME PodLinksAssumption == PodLinks \in [Pods -> Seq(LinkRec)]

\* A topology is well formed: a pod lists a link once, and the pod at the other
\* end lists it too.
ASSUME TopologyAssumption ==
    \A p \in Pods : \A i \in 1..Len(PodLinks[p]) :
        LET e == PodLinks[p][i] IN
        /\ \A j \in 1..Len(PodLinks[p]) : PodLinks[p][j].link = e.link => i = j
        /\ e.peer # Localhost =>
             \E j \in 1..Len(PodLinks[e.peer]) :
                 PodLinks[e.peer][j] = [link |-> e.link, peer |-> p]

-----------------------------------------------------------------------------
StatusType == [src : Nodes \cup {None},
               ns : Containers \cup {None},
               skipped : SUBSET ((Pods \cup {Localhost}) \X Links)]

\* A resource just created: nobody is alive and nothing is skipped.
FreshStatus == [src |-> None, ns |-> None, skipped |-> {}]

\* SetAlive: marks pod p alive as container c on node n, or dead (None, None).
SetAlive(S, p, n, c) == [S EXCEPT ![p].src = n, ![p].ns = c]

\* Get: the container as which pod q is alive, None if it is not. The srcIP of
\* a node that is not in the daemon's node list is blanked, so that the
\* plugin's test (SrcIp and NetNs both non-empty) takes the pod for dead.
Get(S, q, known) ==
    IF S[q].src \in known /\ S[q].ns # None THEN S[q].ns ELSE None

\* Skip: p notes that it skipped peer q on link l. The list may hold an entry
\* twice; every reader asks only whether it is there, so a set represents it.
Skip(S, p, q, l) == [S EXCEPT ![p].skipped = @ \cup {<<q, l>>}]

\* IsSkipped: has q skipped p on link l?
IsSkipped(S, p, q, l) == <<p, l>> \in S[q].skipped

\* Mutant: the peer's list is not updated.
SkipReversePeerForgotten(S, p, q, l) == S

\* SkipReverse, first update: if q is alive, p enters itself in q's list.
SkipReversePeer(S, p, q, l) ==
    IF S[q].src = None \/ S[q].ns = None THEN S ELSE Skip(S, q, p, l)

\* SkipReverse, second update: p keeps of its own list the entries that differ
\* from (q, l) in BOTH components, as the condition of the code has it.
SkipReverseThis(S, p, q, l) ==
    [S EXCEPT ![p].skipped = {e \in @ : e[1] # q /\ e[2] # l}]
=============================================================================

------------------------------ MODULE MCPlugin ------------------------------
(* Instances of Plugin for TLC. *)
EXTENDS Plugin, TLC

\* Two pods and one link between them.
OneLink == (1 :> <<[link |-> 7, peer |-> 2]>>) @@ (2 :> <<[link |-> 7, peer |-> 1]>>)

\* The same, and the pod with the smaller name starts with a macvlan link.
MacvlanFirst ==
    (1 :> <<[link |-> 6, peer |-> Localhost], [link |-> 7, peer |-> 2]>>) @@
    (2 :> <<[link |-> 7, peer |-> 1]>>)

\* The same with the macvlan link last, at the pod with the greater name.
MacvlanLast ==
    (1 :> <<[link |-> 7, peer |-> 2]>>) @@
    (2 :> <<[link |-> 7, peer |-> 1], [link |-> 6, peer |-> Localhost]>>)

\* A chain of three pods; the middle one looks at its greater neighbour first,
\* so that the smallest pod waits for a pod that waits.
Chain ==
    (1 :> <<[link |-> 7, peer |-> 2]>>) @@
    (2 :> <<[link |-> 8, peer |-> 3], [link |-> 7, peer |-> 1]>>) @@
    (3 :> <<[link |-> 8, peer |-> 2]>>)

\* Nodes are interchangeable: nothing in Plugin orders or names them. A run with
\* liveness properties cannot use that as a symmetry; there the first pod is
\* placed on one and the same node instead.
NodeSymmetry == Permutations(Nodes)
Places(c) == IF PodOf(c) = 1 THEN {CHOOSE n \in Nodes : TRUE} ELSE Nodes

\* To bound a run: a repeated DEL or a failure but not both, and with a repeated
\* DEL only one of the pods comes back.
OneMishap ==
    \/ budget.dups = MaxDups
    \/ /\ budget.faults = MaxFaults
       /\ \E c \in Containers : c[2] = MaxInc /\ At(c, "new")

\* First boot: pods are started and wired while nodes still join; an ADD may
\* fail, and if it is that of the middle pod (to bound the run) its sandbox is
\* torn down. The scheduler is fair to every plugin process: the kubelet lets
\* an ADD run to its end. Nothing forces a pod to be started, or to be tried
\* again.
BootNext ==
    \/ \E c \in Containers :
          \/ Add(c) \/ Del(c) \/ Fault(c) \/ RemoveSandbox(c)
          \/ \E n \in Places(c) : StartPod(c, n)
          \/ PodOf(c) = 2 /\ ~At(c, "up") /\ StartDel(c)
    \/ \E n \in Nodes : RefreshNodeIPs(n)
BootSpec == Init /\ [][BootNext]_vars /\ \A c \in Containers : WF_vars(Add(c))
=============================================================================

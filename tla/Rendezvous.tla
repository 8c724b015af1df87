----------------------------- MODULE Rendezvous -----------------------------
(***************************************************************************)
(* What the status of the Topology resources promises to two pods that     *)
(* share a link: each announces itself before it looks for the other, so   *)
(* that of two pods that are both there at most one has left the link to   *)
(* the other.  This is the abstract specification of cmdAdd and cmdDel as  *)
(* far as they agree on who makes a link; Plugin implements it.            *)
(***************************************************************************)
CONSTANTS
    Pods, Links,
    Containers,       \* the containers that pods get over time
    PodOf(_),         \* the pod of a container
    Meets(_, _, _),   \* Meets(p, q, l): pods p and q are the ends of link l
    None

VARIABLES
    present,  \* per pod: the container it has announced, or None
    left      \* the pairs <<c, l>> such that c leaves link l to its peer

vars == <<present, left>>

Init ==
    /\ present = [p \in Pods |-> None]
    /\ left = {}

\* SetAlive at the start of ADD: a container announces itself, once.
Arrive(c) ==
    /\ \A l \in Links : <<c, l>> \notin left
    /\ present' = [present EXCEPT ![PodOf(c)] = c]
    /\ UNCHANGED left

\* Get finds no peer: whoever is there may leave the link to one who is not.
LeaveToPeer(c, l) ==
    /\ present[PodOf(c)] = c
    /\ \E q \in Pods : Meets(PodOf(c), q, l) /\ present[q] = None
    /\ left' = left \cup {<<c, l>>}
    /\ UNCHANGED present

\* SetAlive with empty values in DEL.
Depart(p) ==
    /\ present' = [present EXCEPT ![p] = None]
    /\ UNCHANGED left

\* ADD fails before the skip is recorded, or the container is gone.
Withdraw(c) ==
    /\ \E S \in SUBSET ({c} \X Links) : left' = left \ S
    /\ UNCHANGED present

Next ==
    \/ \E c \in Containers : Arrive(c) \/ Withdraw(c)
    \/ \E c \in Containers, l \in Links : LeaveToPeer(c, l)
    \/ \E p \in Pods : Depart(p)

Spec == Init /\ [][Next]_vars
=============================================================================

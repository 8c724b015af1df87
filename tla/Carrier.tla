------------------------------ MODULE Carrier ------------------------------
(***************************************************************************)
(* Carrier propagation between the two ends of a link.  The daemon of each *)
(* end polls the state of its interface, debounces it, and tells the other *)
(* daemon about every stable change, which applies it to its own           *)
(* interface.  A change that a daemon caused itself must not be reported   *)
(* back: it leaves a mark (SuppressEcho) that the next edge of that value  *)
(* uses up (ConsumeEcho).                                                  *)
(*                                                                         *)
(* The ends are asynchronous: a watcher may be held up for seconds by a    *)
(* call to the peer of another link, so that no relation between the polls *)
(* of two nodes can be relied on.                                          *)
(***************************************************************************)
EXTENDS Naturals

CONSTANTS
    Ends,        \* the two ends of the link, one per node
    Overlays,    \* the link types considered: "GRPC", "VXLAN"
    Debounce,    \* carrierprop.Debounce in polls (300 ms, polled every 100 ms)
    MaxChanges,  \* bound: changes that pods make to their interfaces
    MaxFaults    \* bound: crashes of a daemon, and calls that outlive the 5 s
                 \* their caller waits

ASSUME CarrierAssumption ==
    /\ \E a, b \in Ends : a # b /\ Ends = {a, b}
    /\ Overlays \subseteq {"GRPC", "VXLAN"}
    /\ Debounce \in Nat \ {0}
    /\ MaxChanges \in Nat /\ MaxFaults \in Nat

Other(n) == CHOOSE m \in Ends : m # n

VARIABLES
    overlay,  \* the type of the link
    pod,      \* per end: state of the interface in the pod
    host,     \* per end: state of the host-side veth (a gRPC wire has one)
    running,  \* per end: the daemon runs
    tracked,  \* per end: the daemon has the link in its wire map or registry
    deb,      \* per end: the debouncer's entry for the link
    echo,     \* per end: echoExpect for the link, "none" if there is no mark
    watch,    \* per end: the goroutine of StartCarrierWatch
    reas,     \* per end: the goroutine of ReassertLocalLinkStates
    net,      \* SetPeerLinkState calls under way
    sent,     \* history, per end: the last state it sent
    took,     \* history, per end: its last edge was taken for an echo
    budget    \* changes and faults left

daemon == <<running, tracked, deb, echo, watch, reas>>
vars == <<overlay, pod, host, daemon, net, sent, took, budget>>

-----------------------------------------------------------------------------
States  == {"up", "down"}
Maybe   == States \cup {"none"}
Threads == {"watch", "reassert"}

DebType == [pending : Maybe, left : 0..Debounce, emitted : Maybe]
NoDeb   == [pending |-> "none", left |-> 0, emitted |-> "none"]

\* A goroutine: what it does next, and the state it has in hand.
Job   == [at : {"idle", "due", "edge", "send", "wait"}, val : Maybe]
Idle  == [at |-> "idle", val |-> "none"]
Do(step, v) == [at |-> step, val |-> v]

\* A call: the end it is for, what it says, the thread that waits for its
\* answer, and whether the handler has set the mark.
CallType == [to : Ends, val : States, by : Threads \cup {"nobody"},
             at : {"sent", "marked"}]

\* TypeOK: the state has the shape the code gives it; the deadline of the
\* debouncer never lies further ahead than the debounce time.
TypeOK ==
    /\ overlay \in Overlays
    /\ pod \in [Ends -> States] /\ host \in [Ends -> States]
    /\ running \in [Ends -> BOOLEAN] /\ tracked \in [Ends -> BOOLEAN]
    /\ deb \in [Ends -> DebType]
    /\ echo \in [Ends -> Maybe]
    /\ watch \in [Ends -> Job] /\ reas \in [Ends -> Job]
    /\ net \subseteq CallType
    /\ sent \in [Ends -> Maybe] /\ took \in [Ends -> BOOLEAN]
    /\ budget \in [changes : 0..MaxChanges, faults : 0..MaxFaults]

\* A link just made: the host side is up; the interface in the pod is up, or
\* left down if MESHNET_DATAPATH_IFACE_PREFIX says so.
Init ==
    /\ overlay \in Overlays
    /\ pod \in [Ends -> States]
    /\ host = [n \in Ends |-> "up"]
    /\ running = [n \in Ends |-> TRUE] /\ tracked = [n \in Ends |-> TRUE]
    /\ deb = [n \in Ends |-> NoDeb]
    /\ echo = [n \in Ends |-> "none"]
    /\ watch = [n \in Ends |-> Idle] /\ reas = [n \in Ends |-> Idle]
    /\ net = {}
    /\ sent = [n \in Ends |-> "none"] /\ took = [n \in Ends |-> FALSE]
    /\ budget = [changes |-> MaxChanges, faults |-> MaxFaults]

-----------------------------------------------------------------------------
(* Interfaces.                                                              *)

\* OperUp of the interface that is polled: the host-side veth runs if both its
\* ends are up; a VXLAN interface is in the pod itself.
Oper(n) == IF pod[n] = "up" /\ (overlay = "GRPC" => host[n] = "up")
           THEN "up" ELSE "down"

\* LinkSetUp or LinkSetDown of that interface.
LinkSet(n, v) ==
    IF overlay = "GRPC"
    THEN host' = [host EXCEPT ![n] = v] /\ UNCHANGED pod
    ELSE pod' = [pod EXCEPT ![n] = v] /\ UNCHANGED host

\* The pod changes its interface (external).
PodChanges(n) ==
    /\ budget.changes > 0
    /\ budget' = [budget EXCEPT !.changes = @ - 1]
    /\ pod' = [pod EXCEPT ![n] = IF @ = "up" THEN "down" ELSE "up"]
    /\ UNCHANGED <<overlay, host, daemon, net, sent, took>>

-----------------------------------------------------------------------------
(* The debouncer.                                                           *)

\* Mutant: the deadline is set anew at every sample.
ObserveRearming(d, s) == [d EXCEPT !.pending = s, !.left = Debounce + 1]

\* Mutant: the deadline is one poll late.
ObserveLate(d, s) ==
    IF d.pending = s THEN d ELSE [d EXCEPT !.pending = s, !.left = Debounce + 2]

\* Observe: a sample that differs from the last one sets the deadline, to be
\* met Debounce turns after this one.
Observe(d, s) ==
    IF d.pending = s THEN d ELSE [d EXCEPT !.pending = s, !.left = Debounce + 1]

\* Due: the deadline is a turn nearer; one that is met is deleted (0), and if
\* the state is not the one emitted last it is emitted.
Due(d) ==
    CASE d.left > 1 -> [d EXCEPT !.left = @ - 1]
      [] d.left = 1 -> [d EXCEPT !.left = 0, !.emitted = d.pending]
      [] OTHER      -> d

\* One turn of the loop of StartCarrierWatch.
Poll(n) ==
    /\ running[n] /\ tracked[n] /\ watch[n] = Idle
    /\ LET next == Due(Observe(deb[n], Oper(n)))
       IN /\ deb' = [deb EXCEPT ![n] = next]
          /\ watch' = IF next.emitted # deb[n].emitted
                      THEN [watch EXCEPT ![n] = Do("edge", next.emitted)]
                      ELSE watch
    /\ UNCHANGED <<overlay, pod, host, running, tracked, echo, reas, net, sent,
                   took, budget>>

-----------------------------------------------------------------------------
(* Telling the peer.                                                        *)

\* NotifyPeerLinkState: the thread sends the call and waits for the answer.
Call(n, who, v) ==
    /\ net' = net \cup {[to |-> Other(n), val |-> v, by |-> who, at |-> "sent"]}
    /\ sent' = [sent EXCEPT ![n] = v]

\* Mutant: no edge is ever taken for an echo.
EdgeNoEcho(n) ==
    /\ watch[n].at = "edge"
    /\ Call(n, "watch", watch[n].val)
    /\ watch' = [watch EXCEPT ![n].at = "wait"]
    /\ took' = [took EXCEPT ![n] = FALSE]
    /\ UNCHANGED <<overlay, pod, host, running, tracked, deb, echo, reas, budget>>

\* Mutant: the watcher does not wait for the answer.
EdgeNoWait(n) ==
    /\ watch[n].at = "edge"
    /\ \/ /\ echo[n] = watch[n].val
          /\ echo' = [echo EXCEPT ![n] = "none"]
          /\ took' = [took EXCEPT ![n] = TRUE]
          /\ UNCHANGED <<net, sent>>
       \/ /\ echo[n] # watch[n].val
          /\ Call(n, "nobody", watch[n].val)
          /\ took' = [took EXCEPT ![n] = FALSE]
          /\ UNCHANGED echo
    /\ watch' = [watch EXCEPT ![n] = Idle]
    /\ UNCHANGED <<overlay, pod, host, running, tracked, deb, reas, budget>>

\* Mutant: only the loss of carrier is propagated.
EdgeDownOnly(n) ==
    /\ watch[n].at = "edge"
    /\ \/ /\ echo[n] = watch[n].val
          /\ echo' = [echo EXCEPT ![n] = "none"]
          /\ took' = [took EXCEPT ![n] = TRUE]
          /\ watch' = [watch EXCEPT ![n] = Idle]
          /\ UNCHANGED <<net, sent>>
       \/ /\ echo[n] # watch[n].val /\ watch[n].val = "down"
          /\ Call(n, "watch", "down")
          /\ watch' = [watch EXCEPT ![n].at = "wait"]
          /\ took' = [took EXCEPT ![n] = FALSE]
          /\ UNCHANGED echo
       \/ /\ echo[n] # watch[n].val /\ watch[n].val = "up"
          /\ watch' = [watch EXCEPT ![n] = Idle]
          /\ took' = [took EXCEPT ![n] = FALSE]
          /\ UNCHANGED <<echo, net, sent>>
    /\ UNCHANGED <<overlay, pod, host, running, tracked, deb, reas, budget>>

\* ConsumeEcho and propagateEdge: an edge of the expected value uses the mark
\* up; any other is sent, and leaves the mark where it is.
Edge(n) ==
    /\ watch[n].at = "edge"
    /\ \/ /\ echo[n] = watch[n].val
          /\ echo' = [echo EXCEPT ![n] = "none"]
          /\ watch' = [watch EXCEPT ![n] = Idle]
          /\ took' = [took EXCEPT ![n] = TRUE]
          /\ UNCHANGED <<net, sent>>
       \/ /\ echo[n] # watch[n].val
          /\ Call(n, "watch", watch[n].val)
          /\ watch' = [watch EXCEPT ![n].at = "wait"]
          /\ took' = [took EXCEPT ![n] = FALSE]
          /\ UNCHANGED echo
    /\ UNCHANGED <<overlay, pod, host, running, tracked, deb, reas, budget>>

\* ReassertLocalLinkStates, two seconds after the start: the state is read ...
ReassertRead(n) ==
    /\ reas[n].at = "due"
    /\ reas' = [reas EXCEPT ![n] = IF tracked[n] THEN Do("send", Oper(n)) ELSE Idle]
    /\ UNCHANGED <<overlay, pod, host, running, tracked, deb, echo, watch, net,
                   sent, took, budget>>

\* ... and sent.
ReassertSend(n) ==
    /\ reas[n].at = "send"
    /\ Call(n, "reassert", reas[n].val)
    /\ reas' = [reas EXCEPT ![n].at = "wait"]
    /\ UNCHANGED <<overlay, pod, host, running, tracked, deb, echo, watch, took,
                   budget>>

-----------------------------------------------------------------------------
(* SetPeerLinkState at the other end.                                       *)

\* The answer, or an error, reaches the thread that waits for call k.
Answer(k) ==
    LET n == Other(k.to) IN
    /\ watch' = IF k.by = "watch" THEN [watch EXCEPT ![n] = Idle] ELSE watch
    /\ reas' = IF k.by = "reassert" THEN [reas EXCEPT ![n] = Idle] ELSE reas

\* The link is looked up. A call for a link the daemon does not have is
\* acknowledged and ignored; otherwise SuppressEcho leaves the mark ...
Mark(k) ==
    /\ k.at = "sent" /\ running[k.to]
    /\ \/ /\ tracked[k.to]
          /\ echo' = [echo EXCEPT ![k.to] = k.val]
          /\ net' = (net \ {k}) \cup {[k EXCEPT !.at = "marked"]}
          /\ UNCHANGED <<watch, reas>>
       \/ /\ ~tracked[k.to]
          /\ net' = net \ {k}
          /\ Answer(k)
          /\ UNCHANGED echo
    /\ UNCHANGED <<overlay, pod, host, running, tracked, deb, sent, took, budget>>

\* ... and the interface is set.
Apply(k) ==
    /\ k.at = "marked"
    /\ LinkSet(k.to, k.val)
    /\ net' = net \ {k}
    /\ Answer(k)
    /\ UNCHANGED <<overlay, running, tracked, deb, echo, sent, took, budget>>

\* The daemon of the other end is not there: the error is logged, no more.
Refused(k) ==
    /\ ~running[k.to]
    /\ net' = net \ {k}
    /\ Answer(k)
    /\ UNCHANGED <<overlay, pod, host, running, tracked, deb, echo, sent, took,
                   budget>>

\* The caller gives up after 5 s; the handler, which does not look at its
\* context, goes on.
Timeout(k) ==
    /\ k.by \in Threads
    /\ budget.faults > 0
    /\ budget' = [budget EXCEPT !.faults = @ - 1]
    /\ net' = (net \ {k}) \cup {[k EXCEPT !.by = "nobody"]}
    /\ Answer(k)
    /\ UNCHANGED <<overlay, pod, host, running, tracked, deb, echo, sent, took>>

-----------------------------------------------------------------------------
(* Crash and restart of a daemon.                                           *)

\* Marks, debouncer and goroutines are gone; calls the daemon was serving break
\* off, calls it had sent are carried out all the same.
Crash(n) ==
    /\ running[n]
    /\ budget.faults > 0
    /\ budget' = [budget EXCEPT !.faults = @ - 1]
    /\ running' = [running EXCEPT ![n] = FALSE]
    /\ deb' = [deb EXCEPT ![n] = NoDeb]
    /\ echo' = [echo EXCEPT ![n] = "none"]
    /\ LET dead == {k \in net : k.to = n}
           freed(who, j) == IF \E k \in dead : k.by = who THEN Idle ELSE j
       IN /\ net' = {[k EXCEPT !.by = "nobody"] : k \in net \ dead}
          /\ watch' = [m \in Ends |-> IF m = n THEN Idle ELSE freed("watch", watch[m])]
          /\ reas' = [m \in Ends |-> IF m = n THEN Idle ELSE freed("reassert", reas[m])]
    /\ UNCHANGED <<overlay, pod, host, tracked, sent, took>>

\* ReconGWires brings the gRPC wires back; the registry of VXLAN links was in
\* memory only. Then the watcher starts, and Reassert after a while.
Start(n) ==
    /\ ~running[n]
    /\ running' = [running EXCEPT ![n] = TRUE]
    /\ tracked' = [tracked EXCEPT ![n] = @ /\ overlay = "GRPC"]
    /\ reas' = [reas EXCEPT ![n] = Do("due", "none")]
    /\ UNCHANGED <<overlay, pod, host, deb, echo, watch, net, sent, took, budget>>

-----------------------------------------------------------------------------
Watch(n)    == Poll(n) \/ Edge(n)
Reassert(n) == ReassertRead(n) \/ ReassertSend(n)
Serve       == \E k \in net : Mark(k) \/ Apply(k) \/ Refused(k)

Next ==
    \/ \E n \in Ends : Watch(n) \/ Reassert(n) \/ Start(n)
    \/ Serve
    \/ \E n \in Ends : PodChanges(n) \/ Crash(n)
    \/ \E k \in net : Timeout(k)

\* The scheduler runs every goroutine, a call is answered or refused, and the
\* kubelet restarts a daemon that has died.
Fairness ==
    /\ \A n \in Ends : WF_vars(Watch(n)) /\ WF_vars(Reassert(n)) /\ WF_vars(Start(n))
    /\ WF_vars(Serve)

Spec == Init /\ [][Next]_vars /\ Fairness

-----------------------------------------------------------------------------
(* What the properties are about.                                           *)

\* Nothing has gone wrong so far: no daemon crashed, no call timed out.
NoFaults == budget.faults = MaxFaults

\* Both watchers have seen the present state and dealt with it.
Settled ==
    /\ net = {}
    /\ \A n \in Ends : /\ watch[n] = Idle /\ reas[n] = Idle
                       /\ deb[n].pending = Oper(n) /\ deb[n].left = 0

\* LastNoticeWins: without faults the host side of a gRPC wire is in the state
\* the other end sent last, once that has arrived: notices do not overtake
\* each other, because the watcher waits for each answer.
LastNoticeWins ==
    overlay = "GRPC" /\ NoFaults =>
        \A n \in Ends :
            sent[n] # "none" /\ (\A k \in net : k.to # Other(n))
                => host[Other(n)] = sent[n]

\* HeldDownOnlyByEcho: when both pods have their interfaces up and all has
\* settled, an end of a gRPC wire is held down for one of two reasons only:
\* both ends are, each waiting for the other to come up, or the edge by which
\* the other end came up was taken for an echo.
HeldDownOnlyByEcho ==
    overlay = "GRPC" /\ NoFaults /\ Settled /\ (\A n \in Ends : pod[n] = "up") =>
        \A n \in Ends :
            host[n] = "down" => host[Other(n)] = "down" \/ took[Other(n)]

\* StableIsReported: a state that lasts is emitted by the debouncer, however
\* often the interface is polled and whatever flaps went before.
StableIsReported ==
    \A n \in Ends, s \in States :
        <>[](running[n] /\ tracked[n] /\ Oper(n) = s) => <>[](deb[n].emitted = s)

\* Quiesces: once the pods leave their interfaces alone the daemons stop
\* calling each other; they do not take their own changes for new ones and
\* chase each other for ever.
Quiesces == <>[](net = {})

-----------------------------------------------------------------------------
(* What the design document says; TLC refutes it.                           *)

\* UpRestores: "Up restores it": when both pods have their interfaces up and
\* all has settled, the link is up at both ends.
UpRestores ==
    overlay = "GRPC" /\ NoFaults /\ Settled /\ (\A n \in Ends : pod[n] = "up") =>
        \A n \in Ends : Oper(n) = "up"
=============================================================================

# meshnet-cni: specifications, model checking and proofs

meshnet-cni builds the links of an emulated network between Kubernetes pods. A
chained CNI plugin runs once per pod start (ADD) and pod stop (DEL); a daemon on
every node answers its RPCs, keeps the state of the links, and carries frames
between nodes over gRPC or sets up VXLAN tunnels. This directory holds TLA+
models of that program, TLC configurations for small instances, and theorems
checked by TLAPS. Line numbers refer to `src/`.

## 1. Inventory

| Part | State | Operations | Who uses it |
|---|---|---|---|
| CNI plugin, `plugin/meshnet.go`, `plugin/grpcwires-plugin.go` | none between runs; the position in `cmdAdd` / `cmdDel` and a few locals | ADD: publish the pod, then for each link decide who makes it, and make it; DEL: delete wires, unpublish, then for each link take the peer's end down, remove the interface, reverse the skip marks | the kubelet, possibly several at a time and repeatedly |
| Topology resource handlers, `daemon/meshnet/handler.go` | `status` of a Topology: `srcIP`, `netNS`, `containerID`, `skipped` | `Get`, `SetAlive`, `Skip`, `SkipReverse`, `IsSkipped` | the plugin |
| gRPC wires, `daemon/grpcwire/{grpcwire,gwire_map,gwire_rpc_handlers}.go` | the map of wires by (network namespace, link UID), wire objects with stop channels, one thread or more per wire, pcap handles | add locally, add or update for the peer, down, delete by pod, forward | plugins of both ends, peers' daemons |
| Wire persistence, `daemon/grpcwire/gwire_recon.go` | records in the `GWireKObj` of the node | upsert, delete by link, delete by pod, replay at start | the wire package |
| Peer address check, `daemon/grpcwire/peerip.go` | cached list of node addresses with a TTL | validate, refresh, wait | `Get`, forwarding threads |
| VXLAN links, `daemon/vxlan/{vxlan,link_map}.go` | registry of endpoints per link UID | create or update, register, unregister | plugin, peer's plugin |
| Namespace operations, `internal/koko/koko.go` | kernel interfaces | make and remove veth, VXLAN and macvlan interfaces | plugin, daemons |
| Carrier propagation, `internal/carrierprop`, `daemon/{grpcwire,vxlan}/carrier.go` | debouncer, echo marks, the watcher and the goroutine that reasserts | poll, debounce, notify the peer, apply what the peer says, reassert after a start | daemons of both ends |
| Node readiness, `daemon/main.go`, `daemon/meshnet/{meshnet,taint}.go`, `daemon/cni`, `internal/cniconf` | CNI configuration list, three small files for the plugin, the node's taints | wait for another plugin's list, write the files, listen, poll, untaint; the plugin reads the files | the daemon at its start; runtime and plugin read |
| Interface index, `grpcwire.go:45-90,327-349` | a counter in memory | next name, seed from the host's interfaces | wire creation, daemon start |

How the parts interact: the two plugins of a link never talk to each other. They
meet in the Topology resources (who is alive, who skipped whom), in the network
namespaces (is the interface there already) and in the wire maps of the two
daemons, and each of these is read in one call and acted on in a later one. A
daemon serves RPCs concurrently; the wire map has a lock, the wire objects are
reached through pointers outside it.

What is hard here, and what makes each part correct:

* **Who makes a link.** Both pods start in any order, fail, are retried, deleted
  and come back on another node. Exactly one side must make the link, and after
  everything has settled the link must work.
* **DEL.** It compares container ids first and clears the resource two calls
  later; it may be repeated, and it may die half-way. It must not disturb another
  container, and must leave marks by which the returning pod is wired again.
* **Waiting.** The waiting loop of `CreatGRPCChan` must end, also when pods wait
  for pods that wait.
* **Wire objects.** Update, down and delete of the same wire run concurrently
  with the threads that use it. No channel may be closed twice (that kills the
  daemon, and all wires of the node with it), and a ready wire must be served.
* **Records.** The daemon may die between any two steps; what comes back is what
  the store holds.

* **Carrier.** Each daemon watches an interface that the other daemon changes
  through it. A change one's own daemon made must not be reported back, every
  other one must, and the two must come to rest; marks, debouncer and the VXLAN
  registry are lost in a crash.
* **Start of a node.** The daemon may die at any step and be restarted with
  another environment, other CNI plugins change their files at any time, files are
  truncated before they are written, and the node object has other writers. Pods
  must not be let in before the list is there, and must be let in at last.
* **Names.** A name given out must not be in use, across restarts.

The full list of hazards, with the line where each bites and the properties that
would catch it, is in `PROJECT.json`.

## 2. Modules

| Module | Subject |
|---|---|
| `Topology` | the Topology resources and their handlers, as operators on the status |
| `Plugin` | extends `Topology`: plugin processes, namespaces, wire maps as the plugin sees them, VXLAN registries, kubelet, failures |
| `GRPCWire` | the inside of one node's daemon: wire map, objects, stop channels, threads, records, crash and restart |
| `Rendezvous` | abstract specification of how two pods agree on who makes a link; `Plugin` implements it |
| `Carrier` | both ends of a link and their daemons: polling, debouncer, echo marks, notices, crash and restart |
| `IfIndex` | names of host-side interfaces: counter, seed, wrap-around |
| `NodeStart` | extends `IfIndex`: one node from the start of its daemon to the removal of the readiness taint |
| `MCPlugin`, `MCGRPCWire`, `MCCarrier`, `MCNodeStart` | instances for TLC |
| `PluginProofs` | theorems about `Plugin`: types, DEL |
| `RendezvousProofs` | extends `PluginProofs`: what two pods know of each other, the refinement of `Rendezvous` |
| `MarkProofs` | extends `RendezvousProofs`: the skip marks |
| `LinkProofs` | extends `MarkProofs`: the links that two ADDs leave behind: veth pairs, gRPC wires, VXLAN interfaces |
| `GRPCWireProofs` | theorems about `GRPCWire`: types, stop channels, threads |
| `RecordProofs` | extends `GRPCWireProofs`: the records of the wires |
| `CarrierProofs` | theorems about `Carrier` |
| `NodeProofs` | theorems about `NodeStart` and `IfIndex` |

### Plugin

`pc[c]` is the next step of the process that serves container `c` (a container is
a pod name and an incarnation). Each action is the code between two points at
which someone else can get in: one RPC, one update of a resource, one change of a
namespace. `loc` holds the locals of the loop body (the answer about the peer,
`iExist`, the iteration of the waiting loop, the interface id from
`AddGRPCWireRemote`), `out` is a history variable with the decision for each link.

* `cmdAdd`: `AddSetAlive`, then per link `AddMacvlan`, `AddGetPeer` (which branches
  to skip, same host, or other host), `AddSkip`; same host `VethExistMine`,
  `VethExistPeer`, `VethRemove`, `VethIsSkipped`, `VethMake`, `VethJoin` (the two
  ends are placed one after the other); gRPC `GrpcIsSkipped`, `GrpcWait`,
  `GrpcPoll`, `GrpcExists`, `GrpcVeth`, `GrpcRemote`, `GrpcLocal`; VXLAN `VxClean`,
  `VxMake`, `VxRegister`, `VxUpdate`.
* `cmdDel`: `DelGet`, `DelWires`, `DelClear`, per link `DelGetPeer`, `DelDown`,
  `DelRemove`, `DelSkipPeer`, `DelSkipThis` (`SkipReverse` updates two resources,
  one after the other).
* Failures: `AddApiFault`, `DelApiFault` (the API server), `RpcFault` (a call
  between daemons whose answer is lost, possibly after it was carried out).
* External: the kubelet (`StartPod`, `StartDel`, `RepeatDel`, `RemoveSandbox`) and
  the kernel (`DropNs`).

Names of pods are numbers, because the code compares them; addresses, MTUs and
log lines are left out. An interface is known by its kind and where it leads.

### GRPCWire

`wires` is the map, `obj` the heap of wire objects, `<<o, g>>` the g-th stop
channel of object `o`, `thr[o][g]` the thread started with it, `call[h]` the RPC a
goroutine serves, `store` the records, `inpod` the interfaces. A section under the
lock of the map is one action; `RemoveWireAcrosAll`, which works without it, is
four. A thread remembers the channel it waits on (`on`), because the code reads
`wire.StopC` anew at every turn of its loop while an update replaces it.
`AddGRPCWireRemote` is `RemoteCall` (update, or go on), `RemoteStatus`,
`RemoteStore` / `RemoteClean`, `RemoteClassify`, `RemoteRemove`, `RemoteMake`,
`RemoteAdd`, and `GoThread`. `Crash` takes all memory and all calls away;
`Restart`, `ReCreateGWire` and `Serve` are the start of the daemon.

`EndOf[l]` is the pod of this node at which link `l` ends: a link between two pods of
one node is a veth pair and no wire, so no two pods of a node share a wire's link id.
A container is served by one plugin at a time, and a pod's containers follow one
another. The records are kept by link id, and without these two facts about the
callers `RecordsCover` does not hold; that was found when it was proved.

`Orderly` says whether calls of the peer for one wire, and the DEL of its
container, may overlap. With `Orderly = TRUE` they follow one another, which is
what happens unless a call outlives its caller's timeout.

### Rendezvous

What the status of the resources promises, without RPCs, waiting or failures: a
container announces itself once (`Arrive`) before it decides anything, and leaves a
link to its peer (`LeaveToPeer`) only at a moment when the peer is not announced.
`Plugin!IsRendezvous` is this specification under the mapping `present[p]` = the
container the status of `p` names, `left` = the pairs of a container and a link it
has skipped or is about to skip. It implies that of two announced pods at most one
has left the link to the other, which is `NotBothSkip`.

### Carrier

One link between two nodes. A gRPC wire has an interface in the pod and a host-side
veth, which is the one that is watched and set; of a VXLAN link the interface in the
pod is both. `Poll` is one turn of `StartCarrierWatch` (`Observe` for the sample, then
`Due`); time is counted in turns, and no relation between the turns of the two nodes
is assumed, since a watcher is held up by every call it makes. `Edge` is
`ConsumeEcho` and, if the edge is no echo, the call to the peer, for which the
watcher waits. `Mark` and `Apply` are the two steps of the handler at the other end
(`SuppressEcho`, then `LinkSetUp` or `LinkSetDown`). `Timeout` lets the caller go on
while the handler, which does not look at its context, is still to come; `Refused` is
a daemon that is not there. `Crash` and `Start` take the memory away; the wires come
back from their records, the VXLAN registry does not. `sent` and `took` are history.

### NodeStart and IfIndex

`main` is the position in `main()`. A file is written by two steps, truncation and
write, with a crash possible between them; `Wanted(f)` is what the environment says
of a file. A configuration list is known by the list it was made from and by how many
meshnet plugins are chained on it. `Numbers` are the values that `Atoi` takes for a
positive number; for all others, absent ones included, the plugin reads no MTU
(`ParseMTU`). The gate (`GatePoll`, `GateGet`, `GatePut`) keeps
the copy of the node it read; `update` holds writes on their way to the API server,
which outlive the daemon that sent them; `ApiUpdate` compares versions. The gate's own
five-minute limit does not occur: it is started after the list was written and the
port opened. The deferred `Cleanup` is not an action: `main` ends by `os.Exit` or a
signal, so that it never runs. `IfIndex` is the counter with the names it gives out;
`NodeStart` composes the two, because a restart resets the counter and seeds it.

## 3. What is model-checked

| Run | Properties | What it shows |
|---|---|---|
| `plugin_lifecycle` | `LostOnlyBySkipRace`, `LostOnlyByGivingUp`, `IsRendezvous` | two pods, one or two nodes, two incarnations each, a macvlan link last, a lost call between daemons: the link works when both are up, but for one schedule; the refinement |
| `plugin_vxlan` | `VxlanUp`, `NotBothSkip`, `GoneIsDead`, `GonePeerIsSkipped`, `DelSparesOthers` | VXLAN, with a lost remote update and a repeated DEL |
| `plugin_boot` | `TypeOK`, `OneCreator`, `LostOnlyBySkipping`, `AddEnds` | three pods in a chain, incomplete node lists, one failure of the API server or of a call, fair scheduling: one creator per wire, every ADD ends |
| `wire_daemon` | `TypeOK`, `NoPanic`, `ReadyIsServed`, `RecordsCover` | two goroutines, two incarnations, a crash at any point |
| `carrier_mirror` | `TypeOK`, `LastNoticeWins`, `HeldDownOnlyByEcho`, `StableIsReported`, `Quiesces` | both overlays, two changes by the pods, one crash or timeout |
| `node_start` | `TypeOK`, `OpenIsConfigured`, `PluginSeesEnv`, `NamesApart`, `OtherTaintsStay`, `Opens`, `TornIsMended` | two crashes or errors, an upgrade to an environment without the optional variables, two changes of other plugins' lists, a foreign writer of the node, three names |

Six runs state what a comment says and TLC refutes; `findings` in `PROJECT.json`
quotes each one.

| Run | Property | The schedule |
|---|---|---|
| `plugin_veth_race` | `DeferredIsConnected` | the higher pod looks before the lower one publishes and marks its skip after the lower one asked: both ADDs succeed, no veth |
| `plugin_moved_pod` | `WireFollowsPeer` | the pod returns on another node; the peer's wire is updated except for the node address |
| `plugin_macvlan` | `GonePeerIsSkipped` | DEL dies at a macvlan link; its retry is taken for a duplicate |
| `wire_twice` | `OneForwarder` | an update of a live wire starts a second thread and stops none |
| `carrier_latch` | `UpRestores` | both pods had their interface down at once: each daemon has set its host side down for the other, and neither ever sees carrier again |
| `node_unset` | `UnsetIsLegacy` | without the optional variables the daemon removes files that were never there, takes that for an error and exits, at every start |

`LostOnlyBySkipRace` and `LostOnlyByGivingUp` say that the first of these is the
*only* way to lose a link in the instances checked: no other order of restarts,
deletions and lost calls does. For veth pairs that is so for any number of
sandboxes (`LostOnlyBySkipRaceHolds`). For gRPC wires it is proved for first
sandboxes, checked for two of each pod, and false for three: a pod whose second
sandbox comes to its peer's node gets a veth pair, for which `VethRemove` deletes the
interface of the peer's wire while the wire stays in its daemon's map; when the third
sandbox is on another node again, `AddGRPCWireRemote` finds that wire, updates it and
reports success, and the link has no interface at the peer. TLC finds the schedule
with `MaxInc = 3`; `PROJECT.json` lists it among the hazards. `HeldDownOnlyByEcho` does the same for the carrier: an
end is held down although both pods are up only if both ends are (`carrier_latch`), or
if the edge by which the other end came up was taken for an echo, because the mark
for it was still there from a change that made no difference.

Two limits of properties that pass. With incomplete node lists (`StaleNodes`) a pod
whose daemon does not know its peer's node takes the peer for dead, so that
`NotBothSkip` does not hold; `LostOnlyBySkipping` is what remains and is checked with
them. `RecordsCover` needs `Orderly`: otherwise a late call for the previous
container drops the record of the working wire.

**Bounds.** Two pods and one link show every race between two ends, since a
process looks at one link at a time; two incarnations per pod give "deleted and
returned" on both sides; the chain of three pods gives waiting on a pod that
waits. `MaxTicks` stands for the `skipStatusRetryCount` polls of the waiting loop: with two
"skip mark seen at the first poll", "at the last" and "never" all happen. One
failure per behaviour, and in `plugin_vxlan` a repeated DEL instead, after which one of
the pods comes back (`OneMishap`). In `GRPCWire` two goroutines give all
pairs of concurrent handlers (a down needs none), two objects and two stop
channels per object give update, overwrite and recreate; one pod with one link is
enough because wires of different links share only the deletion loop, which takes
them one by one, and the store, whose updates are atomic.

In `Carrier` the debounce time is one poll (three in the code, and in
`carrier_latch`): what matters is that a state seen once is not yet reported. Two
changes give a flap at one end or a change at each; initially the pods' interfaces may
be up or down, so that a link is brought up as well as taken down. One fault is a crash
of either daemon or a late call. In `NodeStart` two lists give "the first one went
away", two attempts of two tries each give every order of conflict, error and
success; the modulus is two and three names are given out, so that the counter wraps.

**Deadlock** is checked in `carrier_mirror`, where the watchers never stop. In the
other runs it is not: a cluster in which all bounds are used up, or all pods are up,
may stop, as may a node that is open.

**Symmetry.** Nodes in `Plugin`, goroutines and peer interface ids in `GRPCWire`
are interchangeable. Runs with liveness properties use none; `IsRendezvous` and
`DelSparesOthers`, which are checked under symmetry, are about single steps, and
nothing in them names a node.

**Fairness.** `plugin_boot` assumes weak fairness of each plugin process that serves
an ADD: the kubelet lets an ADD run, and each of its steps is a call that returns.
Nothing is assumed of pods being started, retried or deleted. `Carrier` assumes that
each watcher and each reassertion goes on, that a call is answered or refused (the
caller's timeout bounds it), and that a dead daemon is started again; nothing of the
pods, and nothing of the poll rates. `NodeStart` assumes that `main` goes on, that the
gate and the API server do, and that the kubelet restarts a daemon that exits;
`Opens` and `TornIsMended` are stated for environments and lists that are in order in
the end.

## 4. What is proved

All theorems hold for every topology, number of nodes, pods, incarnations,
goroutines and failures that satisfies the assumptions named in the modules
(links are symmetric and not repeated in a pod's list; bounds are naturals).

| Theorem | States | Extra assumptions |
|---|---|---|
| `PluginProofs!TypeCorrect` | `Spec => []TypeOK` | |
| `PluginProofs!GoneIsDeadHolds` | `Spec => []GoneIsDead` | `~Overlap`, no `"api"` faults |
| `PluginProofs!DelSparesOthersHolds` | `Spec => DelSparesOthers` | the same |
| `RendezvousProofs!NotBothSkipHolds` | `Spec => []NotBothSkip` | `~StaleNodes` |
| `RendezvousProofs!IsRendezvousHolds` | `Spec => IsRendezvous` | `~StaleNodes`, `~Overlap`, no `"api"` faults |
| `MarkProofs!OneCreatorHolds` | `Spec => []OneCreator` | `MaxInc = 1` |
| `MarkProofs!GonePeerIsSkippedHolds` | `Spec => []GonePeerIsSkipped` | macvlan links last (`MacvlanAtEnd`), `~Overlap`, no `"api"` faults |
| `LinkProofs!VxlanUpHolds` | `Spec => []VxlanUp` | VXLAN, `LinksApart`, `~StaleNodes`, `~Overlap`, no `"api"` faults |
| `LinkProofs!LostOnlyBySkipRaceHolds` | `Spec => []LostOnlyBySkipRace` | `LinksApart`, `MacvlanAtEnd`, `~StaleNodes`, `~Overlap`, no `"api"` faults |
| `LinkProofs!LostOnlyBySkippingHolds` | `Spec => []LostOnlyBySkipping` | `MaxInc = 1`, `LinksApart`, no pod linked to itself (`NoLoops`) |
| `LinkProofs!LostOnlyByGivingUpHolds` | `Spec => []LostOnlyByGivingUp` | `MaxInc = 1`, gRPC, `LinksApart`, `~StaleNodes` |
| `GRPCWireProofs!DaemonTypes` | `Spec => []TypeOK` | |
| `GRPCWireProofs!DaemonNeverPanics` | `Spec => []NoPanic` | |
| `GRPCWireProofs!ReadyWiresAreServed` | `Spec => []ReadyIsServed` | |
| `RecordProofs!RecordsCoverHolds` | `Spec => []RecordsCover` | `Orderly` |
| `NodeProofs!NodeTypes` | `Spec => []TypeOK` | |
| `NodeProofs!OpenIsConfiguredHolds` | `Spec => []OpenIsConfigured` | |
| `NodeProofs!PluginSeesEnvHolds` | `Spec => []PluginSeesEnv` | |
| `NodeProofs!OtherTaintsStayHolds` | `Spec => OtherTaintsStay` | |
| `NodeProofs!NamesApartHolds` | `Spec => []NamesApart` | |
| `CarrierProofs!CarrierTypes` | `Spec => []TypeOK` | |
| `CarrierProofs!LastNoticeWinsHolds` | `Spec => []LastNoticeWins` | |
| `CarrierProofs!HeldDownOnlyByEchoHolds` | `Spec => []HeldDownOnlyByEcho` | |

* **Types.** `TypeOK` of `Plugin` is not inductive: a process in the loop must be at
  a link that exists, and one that works on a link must have found a living peer
  (`InLoop`, `HasPeer`). For `GRPCWire`, `TypeInv` adds which fields of a call mean
  something at which step, and that interface numbers are never ahead of the
  counter.
* **NotBothSkip.** `cmdAdd` publishes before it looks. Only `SetAlive` makes a
  container current, and then it has skipped nothing (`NothingDecided`); only a
  `Get` that finds no living peer makes it skip, and with complete node lists
  (`NodesKnown`, `Placed`, `AliveSomewhere`) that means the peer is not current.
  With incomplete lists the statement is false (section 3).
* **DEL.** `LifeInv` says that a container past clearing is not named by its
  resource (`DeadIsDead`), that between comparison and clearing it still is
  (`ClearsItself`), and that predecessors of a started container do no more than
  repeat a DEL that finds nothing (`PredecessorsOver`). Both assumptions are
  needed: if sandboxes of a pod overlap, the next container may publish itself
  between comparison and clearing; if the first `Get` of DEL fails, DEL reports
  success and leaves the resource as it was (`meshnet.go:532`).
* **The refinement.** `MeetInv` is the invariants of the two points above and
  `PublishedIsCurrent`: from `SetAlive` to its DEL a container stays the one its
  resource names. With it every step that changes the mapped state is a step of
  `Rendezvous`: `SetAlive` is `Arrive`, `DelClear` the departure, a `Get` that finds
  no living peer is `LeaveToPeer`. The assumptions are needed for
  `PublishedIsCurrent`: with overlapping sandboxes, or after a DEL whose first
  `Get` failed, a (repeated) DEL of the old container may compare while the resource
  still names the old one and clear when the new one has announced itself, which
  then goes on with its links unannounced.
* **One creator.** `CreatorInv`: a skip mark is true, that is, the pod whose list
  it is on has left the link to the marked one, or the marked pod's ADD is over
  (`MarksAreTrue`); so whoever creates a wire goes first by name or has the
  peer's word (`MayCreate`). This holds for incomplete node lists and all
  failures, but only for the first sandbox of each pod. With a second one TLC has a
  counterexample: `SkipReverse` in the DEL of pod 1's first sandbox marks pod 2's
  list while the ADD of pod 2 is under way, pod 1's second sandbox takes the
  mark for pod 2's word, and both create the wire.
* **A gone pod is marked.** `MarkInv`: if the ADD of `d` has come past a link, or has
  found the peer alive there, then the peer is on `d`'s list (`Marked`), or some
  container of the peer still has the visit of its DEL loop to this link before it
  (`Owed`). `SkipReverse` clears marks and sets them in the same visit. A macvlan
  link that is not the last breaks the chain, because DEL dies at it and never
  visits the links after it (`plugin_macvlan`).
* **VXLAN links.** `VxInv` is about two announced containers on different nodes
  (`Live`): if each is done with the link, or at a point from which it does
  nothing to it any more (`Past`), both interfaces and both registry entries are
  right; and so are those of a container from the moment it has made
  them until it calls the peer's daemon (`Making`). Nobody gets to do nothing while
  the pair is live (`GetFindsOther`), so one of the two rebuilds the link last,
  and what it does to the peer's end is what the peer would do itself. Two more
  invariants are needed: `PeersInv`, a process knows whether the container it found
  is on its node, and `NsInv`, a container's predecessors have no namespace, so that
  whoever works towards a container that is gone fails (`RightNs`). `LinksApart`, a
  link uid belongs to one pair of pods, is needed because the registry of a node is
  looked up by it alone.
* **Veth pairs.** `NearInv` is about two announced containers on one node (`Near`),
  each of which can remove the interfaces of the other. Of the two, whoever is
  done with the link has left the pair there, or has left it to the other, which
  has the mark for it or whose name is greater (`Side`); and when both are
  done, the pair is there or the one schedule has happened (`Pair`, `Raced`). What
  makes this hard is what earlier sandboxes leave: an interface of a link to another
  node (`Leftover`), one end of a pair whose other end went with its namespace, a
  plugin process that deals with a container its peer has replaced (`Astray`). Either
  end may be stale, never both, and a stale peer always goes with a mark from its DEL,
  which is where `MarkInv` comes in. `PairsInv` (the ends of a pair name each
  other) and `HalvesInv` (an end with no other end belongs to a process that is about to
  join it) are about the namespaces alone; `PeersInv` and `NsInv` are shared with
  VXLAN.
* **First sandboxes.** `FirstInv` is the same question for all three kinds of link while no
  pod has been replaced: before the peer is announced a container has nothing at the
  link and has found it dead if it has looked (`Untouched`); after that, `VethSide`,
  `GrpcSide` and `VxSide` say for each step of the loop what is there. No marks or
  leftovers of earlier sandboxes exist, so that nothing is asked of API faults, and
  incomplete node lists are allowed: a pod that wrongly takes its peer for dead has
  skipped the link. The two halves of a gRPC wire are made by different daemons; that
  they belong together follows from `CreatorInv`, since one process makes both
  (`HalfMade`, `Made`). `LostOnlyByGivingUpHolds` adds `SkipInv`: if a link over two
  nodes is not whole, exactly one of the two has skipped it, and the loop of the other
  ran out before it saw the mark. A pod linked to itself would defer to itself for
  ever (`NoLoops`). With a third sandbox the statement is false (section 3).
* **No double close.** `StopInv`: an object in the map is filed under its own key,
  so it is filed once (`MapOK`); the channel of a ready object is open
  (`ClosedOK`); an object a deletion holds is not in the map, is held by one
  deletion only, and is still ready when it was found ready (`HeldOK`). So the
  test and the close of `RemoveWireAcrosAll` need no lock *because*
  `ExtractOneWireByPod` has taken the wire out of the map first.
* **Ready wires are served.** `ServedInv` is about all objects, not only those in
  the map: if an object is ready and its interface exists, the thread for its
  *current* stop channel is about to be started or runs, and waits on that channel
  if on any. It needs `StopInv` (that channel is open, so the thread does not
  stop) and that interfaces do not come back once gone.
* **Records.** `RecordInv` has three parts. `OrderInv`: no two calls change the same
  wire at once, and none does after the DEL of its container has begun. `EndsInv`:
  objects, calls and records agree on container, link and interface, a link has
  one record, and one that is to be replayed is on record. `CoverInv`: a wire in the map
  whose interface exists is on record with its current peer interface, or the
  call that changed it is about to write that (`Updating`); and what such a call
  has read of the wire is what the wire still has, though it reads and writes
  outside the lock.
* **Node start.** `OpenInv`: whoever can have opened the node, be it a daemon that
  died while its update was on its way, has seen the list written (`OpenedOK`); a copy of
  the node that the API server would still accept has the taints of the node
  (`FreshOK`), which is why no other taint is lost. `FilesInv`: a file is what
  the environment says from the step at which `Init` has dealt with it.
  `IndexInv`: as long as the digits last, the counter of a daemon that has seeded it is
  not behind a suffix in use.
* **Carrier.** `TypeInv` adds that an expired deadline was dealt with. `NoticeInv`,
  for behaviours without faults: a call on its way says what its end sent last, and
  there is at most one (`CallsOK`); where none is, the other host side has that state
  (`ArrivedOK`); and what the debouncer emitted last is in the watcher's hands, was
  sent, or was taken for an echo (`EmittedOK`). With `Settled` these leave an echo
  as the only reason why an end is held down alone.

Only model-checked: `AddEnds`, `StableIsReported`, `Quiesces`, `Opens`,
`TornIsMended` (liveness is out of the prover's reach). Every invariant and action
property of the passing runs is stated by a theorem; where a theorem assumes more
than the run does, the run is what there is: `LostOnlyByGivingUp` with two sandboxes of
each pod (`plugin_lifecycle`).

## 5. What is left out, and the plan

Left out of the modelled parts: conflicts when a resource is updated (the code
retries them and the retry is atomic), failing writes of wire records (logged and
dropped by the code), failing removal of a host interface inside a deletion, pcap
handles (entered and removed together with the wire, under the same lock) and the
delivery of frames from the peer, addresses and MTUs, temporary
interface names that `MakeVeth` leaves behind. `RemoteClassify` reads the map and
the store in one step.

Not modelled: frame decoding for log lines, API type registration, generated code,
the ethtool call for checksum offload.

Left out of `Carrier`: more than one link per daemon (the links share nothing but the
time of the watcher; that VXLAN links of different namespaces with one id are confused
is listed as a hazard), errors when an interface is read, a wire that is removed while
it is watched, and the switch that turns propagation off. Left out of `NodeStart`: the
contents of other plugins' lists, the rate limits of the API client, failing writes of
files (a full disk ends the daemon like a crash does).

Order of work: all modules of section 2 with their runs, the refinement of
`Rendezvous`, and the proofs of section 4 are done. What is open:

1. gRPC wires of a pod that has been replaced. `LostOnlyByGivingUp` is false for
   three sandboxes; for two it needs an invariant like `NearInv` for wires and the
   remark that a second sandbox cannot find a wire whose interface a veth pair has
   replaced.
2. VXLAN links of several topologies on one node: the registry is looked up by link
   id alone, and `LinksApart` assumes that away.
3. Liveness, which only larger instances can support further.

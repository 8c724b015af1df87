----------------------------- MODULE NodeStart -----------------------------
(***************************************************************************)
(* One node from the start of its daemon to the removal of the readiness   *)
(* taint: main, the CNI configuration it installs for the runtime and the  *)
(* plugin, and the gate that opens the node for pods.  Files are written   *)
(* in place, so that a crash, or a reader, may find one truncated.  The    *)
(* deferred Cleanup of main never runs: main ends by os.Exit or a signal.  *)
(***************************************************************************)
EXTENDS IfIndex

CONSTANTS
    NumBase,     \* configurations of other CNI plugins, in the order of names
    Envs,        \* environments that a DaemonSet gives its daemons
    Numbers,     \* the values among them that Atoi takes for a positive number
    MaxUpgrades, \* bound: restarts with another environment
    MaxBase,     \* bound: changes to the other plugins' configurations
    MaxTaints,   \* bound: changes that others make to the node object
    MaxFaults,   \* bound: crashes, and failures of calls to the API server
    Retries,     \* taintRemovalRetries: attempts before the gate gives up
    Conflicts    \* Steps of retry.DefaultRetry: tries within one attempt

ASSUME NodeStartAssumption ==
    /\ NumBase \in Nat \ {0}
    /\ \A e \in Envs : DOMAIN e = {"link", "prefix", "mtu"} /\ e.prefix # "absent"
    /\ Numbers \cap {"absent", "", "unset"} = {}
    /\ MaxUpgrades \in Nat /\ MaxBase \in Nat /\ MaxTaints \in Nat /\ MaxFaults \in Nat
    /\ Retries \in Nat \ {0} /\ Conflicts \in Nat \ {0}

VARIABLES
    main,    \* where main is; "down" when there is no daemon
    plan,    \* the configuration Init has put together, not written yet
    env,     \* the environment of the daemon
    base,    \* which of the other plugins' configurations are there and valid
    conf,    \* 00-meshnet.conflist
    file,    \* the files that hand the daemon's environment to the plugin
    taints,  \* the taints of the node
    gate,    \* the goroutine of RemoveReadinessTaintWhenReady
    update,  \* an Update of the node on its way to the API server
    budget   \* what may still happen

nodeVars == <<main, plan, env, base, conf, file, taints, gate, update, budget>>
vars == <<nodeVars, ifVars>>

-----------------------------------------------------------------------------
Starting == {"wait", "load", "link", "prefix", "mtu", "conf"}
Running  == {"seed", "listen", "go", "serve"}

\* The contents of a file: "absent", "" (empty or truncated), or a value. An
\* environment variable that is not set has the value "unset".
SideFiles == {"link", "prefix", "mtu"}
Values == {"GRPC"} \cup UNION {{e[f] : f \in SideFiles} : e \in Envs}

\* A configuration list: the one it was made from, and how many meshnet plugins
\* were chained on it. from = 0 is a list that is absent or truncated.
ConfType == [from : 0..NumBase, chained : Nat, present : BOOLEAN]
Absent    == [from |-> 0, chained |-> 0, present |-> FALSE]
Truncated == [from |-> 0, chained |-> 0, present |-> TRUE]
Chain(i, n) == [from |-> i, chained |-> n, present |-> TRUE]

\* The gate: fresh says that the node has not changed since the gate's Get.
GateType == [at : {"off", "poll", "get", "put", "sent", "done", "gaveup"},
             read : SUBSET {"readiness", "other"}, fresh : BOOLEAN,
             attempt : 1..Retries, try : 1..Conflicts]
GateOff == [at |-> "off", read |-> {}, fresh |-> FALSE, attempt |-> 1, try |-> 1]

UpdateType == [taints : SUBSET {"readiness", "other"}, fresh : BOOLEAN,
               waited : BOOLEAN]

\* TypeOK: the state has the shape the code gives it; the gate counts no more
\* attempts than taintRemovalRetries.
TypeOK ==
    /\ IfTypeOK
    /\ main \in {"down"} \cup Starting \cup Running
    /\ plan \in ConfType
    /\ env \in Envs
    /\ base \subseteq 1..NumBase
    /\ conf \in ConfType
    /\ file \in [SideFiles -> Values \cup {"absent", ""}]
    /\ taints \subseteq {"readiness", "other"}
    /\ gate \in GateType
    /\ update \subseteq UpdateType
    /\ budget \in [upgrades : 0..MaxUpgrades, base : 0..MaxBase,
                   taints : 0..MaxTaints, faults : 0..MaxFaults]

\* A node that has just joined, registered with the taint.
Init ==
    /\ IfInit
    /\ main = "down" /\ plan = Absent /\ conf = Absent
    /\ env \in Envs
    /\ base = {}
    /\ file = [f \in SideFiles |-> "absent"]
    /\ taints = {"readiness"}
    /\ gate = GateOff /\ update = {}
    /\ budget = [upgrades |-> MaxUpgrades, base |-> MaxBase,
                 taints |-> MaxTaints, faults |-> MaxFaults]

-----------------------------------------------------------------------------
(* The world around the daemon (external).                                  *)

\* Another CNI plugin writes its configuration, removes or breaks it.
BaseChanges(i) ==
    /\ budget.base > 0
    /\ budget' = [budget EXCEPT !.base = @ - 1]
    /\ base' = IF i \in base THEN base \ {i} ELSE base \cup {i}
    /\ UNCHANGED <<main, plan, env, conf, file, taints, gate, update, ifVars>>

\* Whoever changes the node makes what others have read of it stale.
Stale(us) == {[u EXCEPT !.fresh = FALSE] : u \in us}

\* Another controller sets or clears its own taint.
OtherTaint ==
    /\ budget.taints > 0
    /\ budget' = [budget EXCEPT !.taints = @ - 1]
    /\ taints' = IF "other" \in taints THEN taints \ {"other"} ELSE taints \cup {"other"}
    /\ gate' = [gate EXCEPT !.fresh = FALSE]
    /\ update' = Stale(update)
    /\ UNCHANGED <<main, plan, env, base, conf, file, ifVars>>

\* The kubelet starts the daemon, with a new environment after an upgrade.
StartDaemon(e) ==
    /\ main = "down"
    /\ \/ e = env /\ UNCHANGED budget
       \/ e # env /\ budget.upgrades > 0 /\ budget' = [budget EXCEPT !.upgrades = @ - 1]
    /\ env' = e
    /\ main' = "wait"
    /\ UNCHANGED <<plan, base, conf, file, taints, gate, update, ifVars>>

-----------------------------------------------------------------------------
(* main.                                                                    *)

\* The process ends: what it held in memory is gone, what it sent is not.
Die ==
    /\ main' = "down" /\ plan' = Absent /\ gate' = GateOff
    /\ update' = {[u EXCEPT !.waited = FALSE] : u \in update}
    /\ LoseIndex

UseFault ==
    /\ budget.faults > 0
    /\ budget' = [budget EXCEPT !.faults = @ - 1]

Crash ==
    /\ main # "down"
    /\ UseFault
    /\ Die
    /\ UNCHANGED <<env, base, conf, file, taints>>

Goto(step) == main' = step

\* Mutant: the lists of meshnet itself are not ignored; theirs comes first.
LoadConfListAny ==
    IF conf.chained > 0 THEN conf
    ELSE IF base = {} THEN Absent ELSE Chain(Min(base), 0)

\* Mutant: a list that cannot be parsed is an error, not skipped.
LoadConfListStrict ==
    IF base = {} \/ conf = Truncated THEN Absent ELSE Chain(Min(base), 0)

\* loadConfList: the first valid list that is not meshnet's own.
LoadConfList == IF base = {} THEN Absent ELSE Chain(Min(base), 0)

\* WaitForNetConfig: the list is there, or the time is up.
WaitForNetConfig ==
    /\ main = "wait"
    /\ \/ LoadConfList.present /\ Goto("load") /\ UNCHANGED <<plan, gate, update, ifVars>>
       \/ ~LoadConfList.present /\ Die
    /\ UNCHANGED <<env, base, conf, file, taints, budget>>

\* Init reads the list again, which may be gone or broken meanwhile, and puts
\* the meshnet plugin at its end.
InitLoad ==
    /\ main = "load"
    /\ \/ /\ LoadConfList.present
          /\ plan' = [LoadConfList EXCEPT !.chained = @ + 1]
          /\ Goto("link")
          /\ UNCHANGED <<gate, update, ifVars>>
       \/ ~LoadConfList.present /\ Die
    /\ UNCHANGED <<env, base, conf, file, taints, budget>>

\* ResolveInterNodeLinkType: anything but VXLAN is GRPC.
ResolveInterNodeLinkType(v) == IF v = "VXLAN" THEN "VXLAN" ELSE "GRPC"

\* What save... writes into file f; "unset" stands for removing the file.
Wanted(f) == IF f = "link" THEN ResolveInterNodeLinkType(env.link) ELSE env[f]

After == [link |-> "prefix", prefix |-> "mtu", mtu |-> "conf"]

\* saveInterNodeLinkConf, saveDatapathIfacePrefixConf, saveDefaultLinkMTUConf:
\* WriteFile truncates the file ...
InitTruncate(f) ==
    /\ main = f /\ Wanted(f) # "unset"
    /\ file[f] # ""
    /\ file' = [file EXCEPT ![f] = ""]
    /\ UNCHANGED <<main, plan, env, base, conf, taints, gate, update, budget, ifVars>>

\* ... and writes it.
InitSave(f) ==
    /\ main = f /\ Wanted(f) # "unset"
    /\ file[f] = ""
    /\ file' = [file EXCEPT ![f] = Wanted(f)]
    /\ Goto(After[f])
    /\ UNCHANGED <<plan, env, base, conf, taints, gate, update, budget, ifVars>>

\* Mutant: a variable that is not set leaves the file as it is.
InitRemoveNothing(f) ==
    /\ main = f /\ Wanted(f) = "unset"
    /\ Goto(After[f])
    /\ UNCHANGED <<plan, env, base, conf, file, taints, gate, update, budget, ifVars>>

\* removeDatapathIfacePrefixConf, removeDefaultLinkMTUConf: the variable is not
\* set and the file is removed. That there is none is an error, and main exits.
InitRemove(f) ==
    /\ main = f /\ Wanted(f) = "unset"
    /\ \/ /\ file[f] # "absent"
          /\ file' = [file EXCEPT ![f] = "absent"]
          /\ Goto(After[f])
          /\ UNCHANGED <<plan, gate, update, ifVars>>
       \/ file[f] = "absent" /\ Die /\ UNCHANGED file
    /\ UNCHANGED <<env, base, conf, taints, budget>>

\* saveConfList, in the same two steps.
InitTruncateConf ==
    /\ main = "conf" /\ conf # Truncated
    /\ conf' = Truncated
    /\ UNCHANGED <<main, plan, env, base, file, taints, gate, update, budget, ifVars>>

InitSaveConf ==
    /\ main = "conf" /\ conf = Truncated
    /\ conf' = plan /\ plan' = Absent
    /\ Goto("seed")
    /\ UNCHANGED <<env, base, file, taints, gate, update, budget, ifVars>>

Seed ==
    /\ main = "seed"
    /\ \/ SeedIndexFromHost /\ UNCHANGED budget
       \/ UseFault /\ SeedFails
    /\ Goto("listen")
    /\ UNCHANGED <<plan, env, base, conf, file, taints, gate, update>>

\* New: the clients are made and the port is opened, or main exits.
New ==
    /\ main = "listen"
    /\ \/ Goto("go") /\ UNCHANGED <<plan, gate, update, budget, ifVars>>
       \/ UseFault /\ Die
    /\ UNCHANGED <<env, base, conf, file, taints>>

\* ReconGWires, whose errors are logged; then the gate is started, and Serve.
GoServe ==
    /\ main = "go"
    /\ Goto("serve")
    /\ gate' = [gate EXCEPT !.at = "poll"]
    /\ UNCHANGED <<plan, env, base, conf, file, taints, update, budget, ifVars>>

\* Names of interfaces are handed out by the daemon that serves.
ServeName(r, p) ==
    /\ main = "serve"
    /\ GenNodeIfaceName(r, p)
    /\ UNCHANGED nodeVars

HostIface ==
    /\ \/ \E r \in Requests : MakeIface(r)
       \/ \E x \in ifaces : DropIface(x)
    /\ UNCHANGED nodeVars

-----------------------------------------------------------------------------
(* RemoveReadinessTaintWhenReady.                                           *)

Listening == main \in {"go", "serve"}

\* waitForCNIReady: the list is there and not empty, and the port is open.
GatePoll ==
    /\ gate.at = "poll"
    /\ conf.chained > 0 /\ Listening
    /\ gate' = [gate EXCEPT !.at = "get"]
    /\ UNCHANGED <<main, plan, env, base, conf, file, taints, update, budget, ifVars>>

\* removeNodeTaint: Get of the node. Without the taint there is nothing to do.
GateGet ==
    /\ gate.at = "get"
    /\ gate' = [gate EXCEPT !.at = IF "readiness" \in taints THEN "put" ELSE "done",
                            !.read = taints, !.fresh = TRUE]
    /\ UNCHANGED <<main, plan, env, base, conf, file, taints, update, budget, ifVars>>

\* Update with all taints but this one (filterTaint) is sent.
GatePut ==
    /\ gate.at = "put"
    /\ update' = update \cup {[taints |-> gate.read \ {"readiness"},
                               fresh |-> gate.fresh, waited |-> TRUE]}
    /\ gate' = [gate EXCEPT !.at = "sent"]
    /\ UNCHANGED <<main, plan, env, base, conf, file, taints, budget, ifVars>>

\* Mutants: one attempt too many, or none after an error.
AgainOnceMore(g) ==
    IF g.attempt <= Retries
    THEN [g EXCEPT !.at = "get", !.attempt = @ + 1, !.try = 1]
    ELSE [g EXCEPT !.at = "gaveup"]

AgainNever(g) == [g EXCEPT !.at = "done"]

\* The next attempt of RemoveReadinessTaint, if one is left.
Again(g) ==
    IF g.attempt < Retries
    THEN [g EXCEPT !.at = "get", !.attempt = @ + 1, !.try = 1]
    ELSE [g EXCEPT !.at = "gaveup"]

\* RetryOnConflict: Get and Update once more, or the attempt has failed.
OnConflict(g) ==
    IF g.try < Conflicts THEN [g EXCEPT !.at = "get", !.try = @ + 1] ELSE Again(g)

Answer(u, g) == gate' = IF u.waited THEN g ELSE [gate EXCEPT !.fresh = g.fresh]

\* Mutant: the version of the node is not compared.
ApiUpdateBlind(u) ==
    /\ taints' = u.taints
    /\ update' = Stale(update \ {u})
    /\ Answer(u, [gate EXCEPT !.at = "done", !.fresh = FALSE])
    /\ UNCHANGED <<main, plan, env, base, conf, file, budget, ifVars>>

\* The API server carries the Update out, unless the node has changed since the
\* Get (external).
ApiUpdate(u) ==
    /\ \/ /\ u.fresh
          /\ taints' = u.taints
          /\ update' = Stale(update \ {u})
          /\ Answer(u, [gate EXCEPT !.at = "done", !.fresh = FALSE])
       \/ /\ ~u.fresh
          /\ update' = update \ {u}
          /\ Answer(u, OnConflict(gate))
          /\ UNCHANGED taints
    /\ UNCHANGED <<main, plan, env, base, conf, file, budget, ifVars>>

\* Get fails, or Update does: refused, or carried out later all the same.
GateFault ==
    /\ gate.at \in {"get", "sent"}
    /\ UseFault
    /\ gate' = Again(gate)
    /\ \/ update' = {u \in update : ~u.waited}
       \/ /\ gate.at = "sent"
          /\ update' = {[u EXCEPT !.waited = FALSE] : u \in update}
    /\ UNCHANGED <<main, plan, env, base, conf, file, taints, ifVars>>

-----------------------------------------------------------------------------
Main ==
    \/ WaitForNetConfig \/ InitLoad
    \/ \E f \in SideFiles : InitTruncate(f) \/ InitSave(f) \/ InitRemove(f)
    \/ InitTruncateConf \/ InitSaveConf \/ Seed \/ New \/ GoServe

Gate == GatePoll \/ GateGet \/ GatePut \/ \E u \in update : ApiUpdate(u)

Next ==
    \/ Main \/ Gate \/ HostIface \/ Crash \/ GateFault \/ OtherTaint
    \/ \E r \in Requests, p \in Prefixes : ServeName(r, p)
    \/ \E e \in Envs : StartDaemon(e)
    \/ \E i \in 1..NumBase : BaseChanges(i)

\* main and the gate run, the API server answers, and the kubelet restarts a
\* daemon that has exited, however often.
Fairness ==
    /\ WF_vars(Main) /\ WF_vars(Gate)
    /\ WF_vars(\E e \in Envs : StartDaemon(e))

Spec == Init /\ [][Next]_vars /\ Fairness

-----------------------------------------------------------------------------
(* What the plugin reads on this node.                                      *)

LookupInterNodeLinkType ==
    IF file.link = "absent" THEN "GRPC" ELSE ResolveInterNodeLinkType(file.link)

\* "unset" (ok = false): no interface is left down.
LookupDatapathIfacePrefix ==
    IF file.prefix = "absent" THEN "unset" ELSE file.prefix

\* "unset" (false): no default MTU, or none that is a number.
ParseMTU(v) == IF v \in Numbers THEN v ELSE "unset"
ReadDefaultLinkMTU == ParseMTU(file.mtu)

-----------------------------------------------------------------------------
\* OpenIsConfigured: a node without the readiness taint always has meshnet's
\* list, at worst one that is being rewritten; and once the daemon has come
\* past Init, whatever crashes, upgrades and changes of the other plugins'
\* lists went before, the list names the meshnet plugin exactly once.
OpenIsConfigured ==
    /\ "readiness" \notin taints => conf.present
    /\ main \in Running => conf.chained = 1

\* PluginSeesEnv: once the daemon has come past Init the plugin reads the same
\* link type, prefix and MTU from the files that the daemon has in its
\* environment, although the files may be left over from another environment
\* or from a crash in the middle of a write.
PluginSeesEnv ==
    main \in Running =>
        /\ LookupInterNodeLinkType = ResolveInterNodeLinkType(env.link)
        /\ LookupDatapathIfacePrefix = env.prefix
        /\ ReadDefaultLinkMTU = ParseMTU(env.mtu)

\* OtherTaintsStay: the removal of the readiness taint, from a copy of the node
\* that may be stale, by a daemon that may have died since, leaves the other
\* taints as they are.
OtherTaintsStay ==
    [][("readiness" \in taints /\ "readiness" \notin taints')
          => taints' = taints \ {"readiness"}]_vars

\* A valid list for good, and no variable that is not set.
Equipped == base # {} /\ \A f \in SideFiles : Wanted(f) # "unset"

\* Opens: if the other plugins' lists are in order at last, the node is opened
\* for pods, or the gate has used up its attempts; no start ends half-way for
\* good and no stale update keeps the node closed.
Opens == <>[]Equipped => <>("readiness" \notin taints \/ gate.at = "gaveup")

\* TornIsMended: a list that a crash has left truncated is written again.
TornIsMended == <>[]Equipped => [](conf = Truncated => <>(conf.chained = 1))

-----------------------------------------------------------------------------
(* What the documentation says; TLC refutes it.                             *)

\* UnsetIsLegacy: "env unset ... legacy behaviour": a daemon without the
\* optional variables serves the node all the same.
UnsetIsLegacy ==
    <>[](base # {}) => <>("readiness" \notin taints \/ gate.at = "gaveup")
=============================================================================

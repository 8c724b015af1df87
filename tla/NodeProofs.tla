----------------------------- MODULE NodeProofs -----------------------------
(***************************************************************************)
(* Proofs about NodeStart and IfIndex for any environments, any number of  *)
(* other plugins' configurations, of requests and of names, and any number *)
(* of crashes, upgrades, retries and foreign changes of the node.          *)
(***************************************************************************)
EXTENDS NodeStart, WellFoundedInduction, TLAPS

-----------------------------------------------------------------------------
(* Least and greatest elements, which loadConfList and SeedIndexFromHost    *)
(* look for.                                                                *)

\* A set of naturals that is not empty has a least element.
LEMMA LeastExists ==
    ASSUME NEW T, T \subseteq Nat, T # {}
    PROVE  \E x \in T : \A y \in T : x <= y
<1> DEFINE R == {ss \in Nat \X Nat : ss[1] < ss[2]}
<1>1. IsWellFoundedOn(R, Nat)
  BY NatLessThanWellFounded DEF OpToRel
<1>2. PICK x \in T : \A y \in T : ~ (<<y, x>> \in R)
  <2> HIDE DEF R
  <2> QED BY <1>1, WFMin
<1>3. \A y \in T : ~(y < x)
  BY <1>2
<1> QED
  BY <1>3

\* Min of a set of naturals is one of them.
LEMMA MinIsMember ==
    ASSUME NEW T, T \subseteq Nat, T # {}
    PROVE  Min(T) \in T
<1>1. \E x \in T : \A y \in T : x <= y
  BY LeastExists
<1> QED
  BY <1>1 DEF Min

\* Max of a bounded set of naturals is one of them, and none is greater.
LEMMA MaxIsGreatest ==
    ASSUME NEW T, T \subseteq Nat, T # {}, NEW b \in Nat, \A x \in T : x <= b
    PROVE  /\ Max(T) \in T
           /\ \A y \in T : y <= Max(T)
<1> DEFINE U == {b - x : x \in T}
<1>1. U \subseteq Nat /\ U # {}
  <2>1. \A x \in T : x \in Nat /\ x <= b
    OBVIOUS
  <2>2. \A x \in T : b - x \in Nat
    BY <2>1
  <2>3. PICK x \in T : TRUE
    OBVIOUS
  <2>4. b - x \in U
    BY <2>3
  <2> QED
    BY <2>2, <2>4
<1>2. PICK u \in U : \A v \in U : u <= v
  <2> HIDE DEF U
  <2> QED BY <1>1, LeastExists
<1>3. PICK x \in T : u = b - x
  OBVIOUS
<1>4. \A y \in T : x >= y
  <2> TAKE y \in T
  <2>1. b - y \in U
    OBVIOUS
  <2>2. b - x <= b - y
    BY <1>2, <1>3, <2>1
  <2> QED
    BY <2>2
<1>5. \E m \in T : \A y \in T : m >= y
  BY <1>4
<1>6. Max(T) \in T /\ \A y \in T : Max(T) >= y
  BY <1>5 DEF Max
<1>7. Max(T) \in Nat
  BY <1>6
<1> QED
  BY <1>6, <1>7

-----------------------------------------------------------------------------
(* The names of interfaces.                                                 *)

\* What NextIndex makes of the counter fits in four digits.
LEMMA SuffixInRange ==
    ASSUME NEW n \in Nat
    PROVE  /\ n % Modulus \in 0..(Modulus - 1)
           /\ n < Modulus => n % Modulus = n
           /\ n = Modulus => n % Modulus = 0
  BY IfIndexAssumption

\* NoName is not the name of an interface.
LEMMA NoNameIsNone == NoName \notin Names
<1>1. NoName.suffix = Modulus
  BY DEF NoName
<1>2. \A x \in Names : x.suffix \in 0..(Modulus - 1)
  BY DEF Names
<1>3. Modulus \notin 0..(Modulus - 1)
  BY IfIndexAssumption
<1> QED
  BY <1>1, <1>2, <1>3

\* Max of the suffixes in use and the counter: a natural that is one of them,
\* and none is greater.
LEMMA SeedIsGreatest ==
    ASSUME IfTypeOK
    PROVE  LET top == Max({x.suffix : x \in ifaces} \cup {currId})
           IN  /\ top \in Nat
               /\ top = currId \/ \E x \in ifaces : top = x.suffix
               /\ currId <= top /\ \A x \in ifaces : x.suffix <= top
<1> DEFINE T == {x.suffix : x \in ifaces} \cup {currId}
<1>1. \A x \in ifaces : x.suffix \in 0..(Modulus - 1)
  BY DEF IfTypeOK, Names
<1>2. currId \in Nat /\ Modulus \in Nat /\ currId + Modulus \in Nat
  BY IfIndexAssumption DEF IfTypeOK
<1>3. T \subseteq Nat /\ T # {}
  BY <1>1, <1>2
<1>4. \A t \in T : t <= currId + Modulus
  BY <1>1, <1>2
<1>5. Max(T) \in T /\ \A y \in T : y <= Max(T)
  <2> HIDE DEF T
  <2> QED BY <1>2, <1>3, <1>4, MaxIsGreatest
<1> QED
  BY <1>3, <1>5

\* The steps that touch the index and the interfaces keep their types.
LEMMA GenNodeIfaceNameTypes ==
    ASSUME IfTypeOK, NEW r \in Requests, NEW p \in Prefixes, GenNodeIfaceName(r, p)
    PROVE  IfTypeOK'
<1>1. (currId + 1) % Modulus \in 0..(Modulus - 1)
  BY SuffixInRange DEF IfTypeOK
<1>2. [prefix |-> p, suffix |-> (currId + 1) % Modulus] \in Names
  BY <1>1 DEF Names
<1>3. held' \in [Requests -> Names \cup {NoName}]
  BY <1>2 DEF IfTypeOK, GenNodeIfaceName
<1>4. given' \in 0..MaxNames
  BY IfIndexAssumption DEF IfTypeOK, GenNodeIfaceName
<1> QED
  BY <1>3, <1>4 DEF IfTypeOK, GenNodeIfaceName

LEMMA HostIfaceTypes ==
    ASSUME IfTypeOK, HostIface
    PROVE  IfTypeOK'
<1>1. ASSUME NEW r \in Requests, MakeIface(r) PROVE IfTypeOK'
  <2>1. held[r] \in Names
    BY <1>1 DEF MakeIface, IfTypeOK
  <2> QED
    BY <1>1, <2>1 DEF MakeIface, IfTypeOK
<1>2. ASSUME NEW x \in ifaces, DropIface(x) PROVE IfTypeOK'
  BY <1>2 DEF DropIface, IfTypeOK
<1> QED
  BY <1>1, <1>2 DEF HostIface

LEMMA LoseIndexTypes ==
    ASSUME IfTypeOK, LoseIndex
    PROVE  IfTypeOK'
  BY DEF IfTypeOK, LoseIndex

LEMMA SeedTypes ==
    ASSUME IfTypeOK, SeedIndexFromHost \/ SeedFails
    PROVE  IfTypeOK'
<1>1. CASE SeedIndexFromHost
  <2>1. currId' \in Nat
    BY <1>1, SeedIsGreatest DEF SeedIndexFromHost
  <2>2. lapsed' \in BOOLEAN
    BY <1>1 DEF SeedIndexFromHost, IfTypeOK
  <2> QED
    BY <1>1, <2>1, <2>2 DEF SeedIndexFromHost, IfTypeOK
<1>2. CASE SeedFails
  BY <1>2 DEF SeedFails, IfTypeOK
<1> QED
  BY <1>1, <1>2

-----------------------------------------------------------------------------
(* Types.                                                                   *)

\* The assumptions about numbers, and those about environments.
LEMMA Bounds ==
    /\ NumBase \in Nat \ {0}
    /\ MaxUpgrades \in Nat /\ MaxBase \in Nat /\ MaxTaints \in Nat /\ MaxFaults \in Nat
    /\ Retries \in Nat \ {0} /\ Conflicts \in Nat \ {0}
  BY NodeStartAssumption, Zenon

LEMMA EnvValues ==
    /\ \A e \in Envs : e["prefix"] # "absent"
    /\ Numbers \cap {"absent", "", "unset"} = {}
  BY NodeStartAssumption

BudgetType == [upgrades : 0..MaxUpgrades, base : 0..MaxBase,
               taints : 0..MaxTaints, faults : 0..MaxFaults]

\* What loadConfList finds is one of the lists, with nothing chained on it.
LEMMA LoadConfListTypes ==
    ASSUME TypeOK
    PROVE  /\ LoadConfList \in ConfType
           /\ LoadConfList.chained = 0
           /\ LoadConfList.present <=> base # {}
<1>1. CASE base = {}
  BY <1>1, Bounds DEF LoadConfList, Absent, ConfType
<1>2. CASE base # {}
  <2>1. base \subseteq 1..NumBase
    BY DEF TypeOK
  <2>2. base \subseteq Nat
    BY <2>1, Bounds
  <2>3. Min(base) \in base
    BY <1>2, <2>2, MinIsMember
  <2>4. Min(base) \in 0..NumBase
    <3>1. \A m \in base : m \in 0..NumBase
      BY <2>1, Bounds
    <3> QED
      BY <2>3, <3>1
  <2> QED
    BY <1>2, <2>4 DEF LoadConfList, Chain, ConfType
<1> QED
  BY <1>1, <1>2

\* What is written into the files is a value of the environment, or GRPC.
LEMMA WantedTypes ==
    ASSUME TypeOK, NEW f \in SideFiles
    PROVE  Wanted(f) \in Values
<1>1. env \in Envs
  BY DEF TypeOK
<1>2. env[f] \in Values /\ "GRPC" \in Values
  <2> DEFINE Of(e) == {e[g] : g \in SideFiles}
  <2>1. env[f] \in Of(env)
    OBVIOUS
  <2>2. Of(env) \in {Of(e) : e \in Envs}
    BY <1>1
  <2>3. Values = {"GRPC"} \cup UNION {Of(e) : e \in Envs}
    BY Zenon DEF Values
  <2> HIDE DEF Of
  <2> QED
    BY <2>1, <2>2, <2>3
<1> QED
  BY <1>2 DEF Wanted, ResolveInterNodeLinkType

\* The end of the process keeps the types.
LEMMA DieTypes ==
    ASSUME TypeOK, Die
    PROVE  /\ IfTypeOK' /\ main' = "down" /\ plan' \in ConfType
           /\ gate' \in GateType /\ update' \subseteq UpdateType
<1>1. IfTypeOK'
  BY LoseIndexTypes DEF Die, TypeOK
<1>2. Absent \in ConfType
  BY Bounds DEF Absent, ConfType
<1>3. GateOff \in GateType
  BY Bounds DEF GateOff, GateType
<1>4. update' \subseteq UpdateType
  <2>1. \A u \in update : [u EXCEPT !.waited = FALSE] \in UpdateType
    BY DEF TypeOK, UpdateType
  <2> QED
    BY <2>1 DEF Die
<1> QED
  BY <1>1, <1>2, <1>3, <1>4 DEF Die

LEMMA UseFaultTypes ==
    ASSUME TypeOK, UseFault
    PROVE  budget' \in BudgetType
<1>1. budget \in BudgetType
  BY DEF TypeOK, BudgetType
<1>2. budget.faults \in 0..MaxFaults /\ budget.faults > 0
  BY <1>1 DEF UseFault, BudgetType
<1>3. budget.faults - 1 \in 0..MaxFaults
  BY <1>2, Bounds
<1> QED
  BY <1>1, <1>3 DEF UseFault, BudgetType

\* Another attempt, or another try within one, stays within its bound.
LEMMA AgainTypes ==
    ASSUME NEW g \in GateType
    PROVE  /\ Again(g) \in GateType /\ OnConflict(g) \in GateType
           /\ Again(g).at \in {"get", "gaveup"} /\ OnConflict(g).at \in {"get", "gaveup"}
           /\ Again(g).read = g.read /\ OnConflict(g).read = g.read
           /\ Again(g).fresh = g.fresh /\ OnConflict(g).fresh = g.fresh
<1>1. /\ g.attempt \in 1..Retries /\ g.try \in 1..Conflicts
      /\ 1 \in 1..Conflicts
  BY Bounds DEF GateType
<1>2. /\ Again(g) \in GateType /\ Again(g).at \in {"get", "gaveup"}
      /\ Again(g).read = g.read /\ Again(g).fresh = g.fresh
  <2>1. CASE g.attempt < Retries
    <3>1. g.attempt + 1 \in 1..Retries
      BY <1>1, <2>1, Bounds
    <3> QED
      BY <1>1, <2>1, <3>1 DEF Again, GateType
  <2>2. CASE ~ (g.attempt < Retries)
    BY <2>2 DEF Again, GateType
  <2> QED
    BY <2>1, <2>2
<1>3. CASE g.try < Conflicts
  <2>1. g.try + 1 \in 1..Conflicts
    BY <1>1, <1>3, Bounds
  <2>2. OnConflict(g) = [g EXCEPT !.at = "get", !.try = @ + 1]
    BY <1>3 DEF OnConflict
  <2>3. /\ OnConflict(g) \in GateType /\ OnConflict(g).at = "get"
        /\ OnConflict(g).read = g.read /\ OnConflict(g).fresh = g.fresh
    BY <2>1, <2>2 DEF GateType
  <2> QED
    BY <1>2, <2>3
<1>4. CASE ~ (g.try < Conflicts)
  BY <1>2, <1>4 DEF OnConflict
<1> QED
  BY <1>3, <1>4

LEMMA StaleTypes ==
    ASSUME NEW us, us \subseteq UpdateType
    PROVE  Stale(us) \subseteq UpdateType
  BY DEF Stale, UpdateType

\* Steps of the daemon's start keep the types.
LEMMA StartTypes ==
    ASSUME TypeOK,
           \/ WaitForNetConfig \/ InitLoad \/ InitTruncateConf \/ InitSaveConf
           \/ Seed \/ New \/ GoServe \/ Crash
    PROVE  TypeOK'
<1> USE DEF BudgetType
<1>1. CASE WaitForNetConfig
  BY <1>1, DieTypes, LoseIndexTypes DEF WaitForNetConfig, Goto, TypeOK, Starting, Running, IfTypeOK, ifVars
<1>2. CASE InitLoad
  <2>1. CASE LoadConfList.present /\ Goto("link")
                 /\ plan' = [LoadConfList EXCEPT !.chained = @ + 1]
                 /\ UNCHANGED <<gate, update, ifVars>>
    <3>1. plan' \in ConfType
      BY <2>1, LoadConfListTypes DEF ConfType
    <3> QED
      BY <1>2, <2>1, <3>1 DEF InitLoad, Goto, TypeOK, Starting, IfTypeOK, ifVars
  <2>2. CASE Die
    BY <1>2, <2>2, DieTypes DEF InitLoad, TypeOK
  <2> QED
    BY <1>2, <2>1, <2>2 DEF InitLoad
<1>3. CASE InitTruncateConf
  <2>1. Truncated \in ConfType
    BY Bounds DEF Truncated, ConfType
  <2> QED
    BY <1>3, <2>1 DEF InitTruncateConf, TypeOK, IfTypeOK, ifVars
<1>4. CASE InitSaveConf
  <2>1. Absent \in ConfType
    BY Bounds DEF Absent, ConfType
  <2> QED
    BY <1>4, <2>1 DEF InitSaveConf, Goto, TypeOK, Running, IfTypeOK, ifVars
<1>5. CASE Seed
  <2>1. IfTypeOK'
    BY <1>5, SeedTypes DEF Seed, TypeOK
  <2>2. budget' \in BudgetType
    BY <1>5, UseFaultTypes DEF Seed, TypeOK
  <2> QED
    BY <1>5, <2>1, <2>2 DEF Seed, Goto, TypeOK, Running
<1>6. CASE New
  <2>1. CASE Die
    BY <1>6, <2>1, DieTypes, UseFaultTypes DEF New, TypeOK
  <2>2. CASE Goto("go") /\ UNCHANGED <<plan, gate, update, budget, ifVars>>
    BY <1>6, <2>2 DEF New, Goto, TypeOK, Running, IfTypeOK, ifVars
  <2> QED
    BY <1>6, <2>1, <2>2 DEF New
<1>7. CASE GoServe
  <2>1. gate' \in GateType
    BY <1>7 DEF GoServe, TypeOK, GateType
  <2> QED
    BY <1>7, <2>1 DEF GoServe, Goto, TypeOK, Running, IfTypeOK, ifVars
<1>8. CASE Crash
  BY <1>8, DieTypes, UseFaultTypes DEF Crash, TypeOK
<1> QED
  BY <1>1, <1>2, <1>3, <1>4, <1>5, <1>6, <1>7, <1>8

\* The steps of main at and after a file.
LEMMA AfterSteps ==
    \A f \in SideFiles : /\ f \in {"link", "prefix", "mtu"}
                         /\ After[f] \in {"prefix", "mtu", "conf"}
  BY DEF SideFiles, After

\* Steps that write the files keep the types.
LEMMA FileTypes ==
    ASSUME TypeOK, NEW f \in SideFiles,
           InitTruncate(f) \/ InitSave(f) \/ InitRemove(f)
    PROVE  TypeOK'
<1>1. main \in {"down"} \cup Starting \cup Running /\ IfTypeOK
      /\ file \in [SideFiles -> Values \cup {"absent", ""}]
  BY DEF TypeOK
<1>2. After[f] \in Starting
  BY AfterSteps DEF Starting
<1>3. CASE InitTruncate(f)
  <2>1. file' \in [SideFiles -> Values \cup {"absent", ""}]
    BY <1>1, <1>3 DEF InitTruncate
  <2> QED
    BY <1>3, <2>1 DEF InitTruncate, TypeOK, IfTypeOK, ifVars
<1>4. CASE InitSave(f)
  <2>1. file' \in [SideFiles -> Values \cup {"absent", ""}]
    BY <1>1, <1>4, WantedTypes DEF InitSave
  <2> QED
    BY <1>2, <1>4, <2>1 DEF InitSave, Goto, TypeOK, IfTypeOK, ifVars
<1>5. CASE InitRemove(f)
  <2>1. file' \in [SideFiles -> Values \cup {"absent", ""}]
    BY <1>1, <1>5 DEF InitRemove
  <2>2. CASE Die
    BY <1>5, <2>1, <2>2, DieTypes DEF InitRemove, TypeOK
  <2>3. CASE Goto(After[f]) /\ UNCHANGED <<plan, gate, update, ifVars>>
    BY <1>2, <1>5, <2>1, <2>3 DEF InitRemove, Goto, TypeOK, IfTypeOK, ifVars
  <2> QED
    BY <1>5, <2>2, <2>3 DEF InitRemove
<1> QED
  BY <1>3, <1>4, <1>5

\* Steps of the gate and of the API server keep the types.
LEMMA GateTypes ==
    ASSUME TypeOK,
           GatePoll \/ GateGet \/ GatePut \/ GateFault \/ \E u \in update : ApiUpdate(u)
    PROVE  TypeOK'
<1>1. /\ gate \in GateType /\ taints \subseteq {"readiness", "other"}
      /\ update \subseteq UpdateType
  BY DEF TypeOK
<1>2. CASE GatePoll
  <2>1. gate' \in GateType
    BY <1>1, <1>2 DEF GatePoll, GateType
  <2> QED
    BY <1>2, <2>1 DEF GatePoll, TypeOK, IfTypeOK, ifVars
<1>3. CASE GateGet
  <2>1. gate' \in GateType
    BY <1>1, <1>3 DEF GateGet, GateType
  <2> QED
    BY <1>3, <2>1 DEF GateGet, TypeOK, IfTypeOK, ifVars
<1>4. CASE GatePut
  <2>1. gate' \in GateType
    BY <1>1, <1>4 DEF GatePut, GateType
  <2>2. [taints |-> gate.read \ {"readiness"}, fresh |-> gate.fresh, waited |-> TRUE]
          \in UpdateType
    BY <1>1 DEF GateType, UpdateType
  <2>3. update' \subseteq UpdateType
    BY <1>1, <1>4, <2>2 DEF GatePut
  <2> QED
    BY <1>4, <2>1, <2>3 DEF GatePut, TypeOK, IfTypeOK, ifVars
<1>5. CASE GateFault
  <2>1. gate' \in GateType
    BY <1>1, <1>5, AgainTypes DEF GateFault
  <2>2. \A u \in update : [u EXCEPT !.waited = FALSE] \in UpdateType
    BY <1>1 DEF UpdateType
  <2>3. update' \subseteq UpdateType
    BY <1>1, <1>5, <2>2 DEF GateFault
  <2>4. budget' \in BudgetType
    BY <1>5, UseFaultTypes DEF GateFault
  <2> QED
    BY <1>5, <2>1, <2>3, <2>4 DEF GateFault, TypeOK, BudgetType, IfTypeOK, ifVars
<1>6. ASSUME NEW u \in update, ApiUpdate(u) PROVE TypeOK'
  <2>1. /\ [gate EXCEPT !.at = "done", !.fresh = FALSE] \in GateType
        /\ [gate EXCEPT !.fresh = FALSE] \in GateType
        /\ [gate EXCEPT !.fresh = gate.fresh] \in GateType
    BY <1>1 DEF GateType
  <2>2. [gate EXCEPT !.at = "done", !.fresh = FALSE].fresh = FALSE
    BY <1>1 DEF GateType
  <2>3. gate' \in GateType
    <3>1. CASE u.fresh
      BY <1>6, <2>1, <2>2, <3>1 DEF ApiUpdate, Answer
    <3>2. CASE ~u.fresh
      <4>1. OnConflict(gate) \in GateType /\ OnConflict(gate).fresh = gate.fresh
        BY <1>1, AgainTypes
      <4> QED
        BY <1>6, <2>1, <3>2, <4>1 DEF ApiUpdate, Answer
    <3> QED
      BY <3>1, <3>2
  <2>4. update' \subseteq UpdateType
    BY <1>1, <1>6, StaleTypes DEF ApiUpdate
  <2>5. taints' \subseteq {"readiness", "other"}
    BY <1>1, <1>6 DEF ApiUpdate, UpdateType
  <2> QED
    BY <1>6, <2>3, <2>4, <2>5 DEF ApiUpdate, TypeOK, IfTypeOK, ifVars
<1> QED
  BY <1>2, <1>3, <1>4, <1>5, <1>6

\* Steps of the world around the daemon keep the types.
LEMMA WorldTypes ==
    ASSUME TypeOK,
           \/ HostIface \/ OtherTaint
           \/ \E r \in Requests, p \in Prefixes : ServeName(r, p)
           \/ \E e \in Envs : StartDaemon(e)
           \/ \E i \in 1..NumBase : BaseChanges(i)
    PROVE  TypeOK'
<1>1. budget \in BudgetType /\ gate \in GateType /\ update \subseteq UpdateType
      /\ taints \subseteq {"readiness", "other"} /\ base \subseteq 1..NumBase
  BY DEF TypeOK, BudgetType
<1>2. CASE HostIface
  BY <1>2, HostIfaceTypes DEF TypeOK, HostIface, nodeVars
<1>3. CASE OtherTaint
  <2>1. budget.taints \in 0..MaxTaints /\ budget.taints > 0
    BY <1>1, <1>3 DEF OtherTaint, BudgetType
  <2>2. budget.taints - 1 \in 0..MaxTaints
    BY <2>1, Bounds
  <2>3. budget' \in BudgetType
    BY <1>1, <1>3, <2>2 DEF OtherTaint, BudgetType
  <2>4. gate' \in GateType
    BY <1>1, <1>3 DEF OtherTaint, GateType
  <2>5. update' \subseteq UpdateType /\ taints' \subseteq {"readiness", "other"}
    BY <1>1, <1>3, StaleTypes DEF OtherTaint
  <2> QED
    BY <1>3, <2>3, <2>4, <2>5 DEF OtherTaint, TypeOK, BudgetType, IfTypeOK, ifVars
<1>4. ASSUME NEW r \in Requests, NEW p \in Prefixes, ServeName(r, p) PROVE TypeOK'
  BY <1>4, GenNodeIfaceNameTypes DEF TypeOK, ServeName, nodeVars
<1>5. ASSUME NEW e \in Envs, StartDaemon(e) PROVE TypeOK'
  <2>1. CASE UNCHANGED budget
    BY <1>5, <2>1 DEF StartDaemon, TypeOK, Starting, IfTypeOK, ifVars
  <2>2. CASE budget.upgrades > 0 /\ budget' = [budget EXCEPT !.upgrades = @ - 1]
    <3>1. budget.upgrades \in 0..MaxUpgrades
      BY <1>1 DEF BudgetType
    <3>2. budget.upgrades - 1 \in 0..MaxUpgrades
      BY <2>2, <3>1, Bounds
    <3>3. budget' \in BudgetType
      BY <1>1, <2>2, <3>2 DEF BudgetType
    <3> QED
      BY <1>5, <3>3 DEF StartDaemon, TypeOK, BudgetType, Starting, IfTypeOK, ifVars
  <2> QED
    BY <1>5, <2>1, <2>2 DEF StartDaemon
<1>6. ASSUME NEW i \in 1..NumBase, BaseChanges(i) PROVE TypeOK'
  <2>1. budget.base \in 0..MaxBase /\ budget.base > 0
    BY <1>1, <1>6 DEF BaseChanges, BudgetType
  <2>2. budget.base - 1 \in 0..MaxBase
    BY <2>1, Bounds
  <2>3. budget' \in BudgetType
    BY <1>1, <1>6, <2>2 DEF BaseChanges, BudgetType
  <2>4. base' \subseteq 1..NumBase
    BY <1>1, <1>6 DEF BaseChanges
  <2> QED
    BY <1>6, <2>3, <2>4 DEF BaseChanges, TypeOK, BudgetType, IfTypeOK, ifVars
<1> QED
  BY <1>2, <1>3, <1>4, <1>5, <1>6

LEMMA InitTypes ==
    ASSUME Init
    PROVE  TypeOK
<1>1. IfTypeOK
  <2>1. 0 \in 0..MaxNames
    BY IfIndexAssumption
  <2>2. IfInit
    BY DEF Init
  <2>3. held \in [Requests -> Names \cup {NoName}]
    BY <2>2, Zenon DEF IfInit
  <2> QED
    BY <2>1, <2>2, <2>3 DEF IfInit, IfTypeOK
<1>2. Absent \in ConfType
  BY Bounds DEF Absent, ConfType
<1>3. GateOff \in GateType
  BY Bounds DEF GateOff, GateType
<1>4. budget \in BudgetType
  BY Bounds DEF Init, BudgetType
<1> QED
  BY <1>1, <1>2, <1>3, <1>4 DEF Init, TypeOK, BudgetType

LEMMA NextTypes ==
    ASSUME TypeOK, [Next]_vars
    PROVE  TypeOK'
<1>1. CASE UNCHANGED vars
  BY <1>1 DEF vars, nodeVars, ifVars, TypeOK, IfTypeOK
<1>2. CASE Next
  BY <1>2, StartTypes, FileTypes, GateTypes, WorldTypes DEF Next, Main, Gate
<1> QED
  BY <1>1, <1>2

\* NodeTypes: the state of a node and of its daemon keeps the shape the code
\* gives it; in particular the gate makes no more attempts than
\* taintRemovalRetries, and a suffix has four digits.
THEOREM NodeTypes == Spec => []TypeOK
<1>1. Init => TypeOK
  BY InitTypes
<1>2. TypeOK /\ [Next]_vars => TypeOK'
  BY NextTypes
<1> QED
  BY <1>1, <1>2, PTL DEF Spec

-----------------------------------------------------------------------------
(* The list and the taint.                                                  *)

\* The list that Init has put together and not written yet names the plugin.
PlanOK == main \in {"link", "prefix", "mtu", "conf"} =>
            plan.present /\ plan.chained = 1

\* Past Init the list on disk names it; and there is a gate only past Init.
WrittenOK == /\ main \in Running => conf.present /\ conf.chained = 1
             /\ gate.at # "off" => main = "serve"

\* Whoever can have opened the node, or is about to, has seen the list written:
\* an update on its way may be left by a daemon that died long ago.
OpenedOK == update # {} \/ "readiness" \notin taints => conf.present

\* The gate waits for one update at most, and only where it has sent one.
WaitsOK == /\ \A u \in update : u.waited => gate.at = "sent"
           /\ \A u, v \in update : u.waited /\ v.waited => u = v

\* What has been read and is not stale is the truth.
FreshOK == /\ gate.fresh => gate.read = taints
           /\ \A u \in update : u.fresh => u.taints = taints \ {"readiness"}

OpenInv == PlanOK /\ WrittenOK /\ OpenedOK /\ WaitsOK /\ FreshOK


\* The end of the process: no gate is left, and nobody waits for the updates
\* that it has sent.
LEMMA DieOpen ==
    ASSUME TypeOK, OpenInv, Die, UNCHANGED <<conf, taints>>
    PROVE  OpenInv'
<1>1. PlanOK'
  BY DEF Die, PlanOK
<1>2. WrittenOK'
  BY DEF Die, WrittenOK, GateOff, Running
<1>3. OpenedOK'
  BY DEF Die, OpenedOK, OpenInv
<1>4. \A u \in update' : /\ u.waited = FALSE
                         /\ \E v \in update : u.fresh = v.fresh /\ u.taints = v.taints
  BY DEF Die, TypeOK, UpdateType
<1>5. WaitsOK'
  BY <1>4 DEF WaitsOK
<1>6. FreshOK'
  BY <1>4 DEF FreshOK, OpenInv, Die, GateOff
<1> QED
  BY <1>1, <1>2, <1>3, <1>5, <1>6 DEF OpenInv

\* Steps of the daemon's start.
LEMMA StartOpen ==
    ASSUME TypeOK, OpenInv,
           \/ WaitForNetConfig \/ InitLoad \/ InitTruncateConf \/ InitSaveConf
           \/ Seed \/ New \/ GoServe \/ Crash
           \/ \E f \in SideFiles : InitTruncate(f) \/ InitSave(f) \/ InitRemove(f)
    PROVE  OpenInv'
<1> USE DEF Goto
<1>1. CASE Die /\ UNCHANGED <<conf, taints>>
  BY <1>1, DieOpen
<1>2. ASSUME main' \in Starting, main \in Starting,
             UNCHANGED <<conf, taints, gate, update>>, PlanOK'
      PROVE  OpenInv'
  <2>1. WrittenOK'
    BY <1>2 DEF WrittenOK, OpenInv, Starting, Running
  <2>2. OpenedOK' /\ WaitsOK' /\ FreshOK'
    BY <1>2 DEF OpenInv, OpenedOK, WaitsOK, FreshOK
  <2> QED
    BY <1>2, <2>1, <2>2 DEF OpenInv
<1>3. CASE WaitForNetConfig /\ ~Die
  BY <1>2, <1>3 DEF WaitForNetConfig, PlanOK, Starting
<1>4. CASE InitLoad /\ ~Die
  <2>1. plan'.present /\ plan'.chained = 1
    BY <1>4, LoadConfListTypes DEF InitLoad, ConfType
  <2> QED
    BY <1>2, <1>4, <2>1 DEF InitLoad, PlanOK, Starting
<1>5. ASSUME NEW f \in SideFiles,
             InitTruncate(f) \/ InitSave(f) \/ (InitRemove(f) /\ ~Die)
      PROVE  OpenInv'
  <2>1. f \in {"link", "prefix", "mtu"} /\ After[f] \in {"prefix", "mtu", "conf"}
    BY AfterSteps
  <2>2. /\ main = f /\ main' \in {f, After[f]}
        /\ UNCHANGED <<plan, conf, taints, gate, update>>
    BY <1>5 DEF InitTruncate, InitSave, InitRemove
  <2>3. main \in {"link", "prefix", "mtu"} /\ main' \in {"link", "prefix", "mtu", "conf"}
    BY <2>1, <2>2
  <2>4. PlanOK'
    BY <2>2, <2>3 DEF PlanOK, OpenInv
  <2> QED
    BY <1>2, <2>2, <2>3, <2>4 DEF Starting
<1>6. CASE InitTruncateConf
  <2>1. gate.at = "off" /\ conf'.present /\ main' = "conf"
        /\ UNCHANGED <<plan, taints, gate, update>>
    BY <1>6 DEF InitTruncateConf, Truncated, OpenInv, WrittenOK
  <2>2. PlanOK' /\ WrittenOK' /\ OpenedOK'
    BY <1>6, <2>1 DEF InitTruncateConf, OpenInv, PlanOK, WrittenOK, OpenedOK, Running
  <2>3. WaitsOK' /\ FreshOK'
    BY <2>1 DEF OpenInv, WaitsOK, FreshOK
  <2> QED
    BY <2>2, <2>3 DEF OpenInv
<1>7. CASE InitSaveConf
  <2>1. /\ conf'.present /\ conf'.chained = 1 /\ main' = "seed"
        /\ gate.at = "off" /\ UNCHANGED <<taints, gate, update>>
    BY <1>7 DEF InitSaveConf, OpenInv, PlanOK, WrittenOK
  <2>2. PlanOK' /\ WrittenOK' /\ OpenedOK'
    BY <2>1 DEF OpenInv, PlanOK, WrittenOK, OpenedOK, Running
  <2>3. WaitsOK' /\ FreshOK'
    BY <2>1 DEF OpenInv, WaitsOK, FreshOK
  <2> QED
    BY <2>2, <2>3 DEF OpenInv
<1>8. CASE Seed \/ (New /\ ~Die)
  <2>1. /\ main \in {"seed", "listen"} /\ main' \in {"listen", "go"}
        /\ UNCHANGED <<conf, taints, gate, update>>
    BY <1>8 DEF Seed, New
  <2>2. PlanOK' /\ WrittenOK' /\ OpenedOK'
    BY <2>1 DEF OpenInv, PlanOK, WrittenOK, OpenedOK, Running
  <2>3. WaitsOK' /\ FreshOK'
    BY <2>1 DEF OpenInv, WaitsOK, FreshOK
  <2> QED
    BY <2>2, <2>3 DEF OpenInv
<1>9. CASE GoServe
  <2>1. /\ main = "go" /\ main' = "serve" /\ gate.at = "off"
        /\ gate'.read = gate.read /\ gate'.fresh = gate.fresh
        /\ UNCHANGED <<conf, taints, update>>
    BY <1>9 DEF GoServe, OpenInv, WrittenOK, TypeOK, GateType
  <2>2. PlanOK' /\ WrittenOK' /\ OpenedOK'
    BY <2>1 DEF OpenInv, PlanOK, WrittenOK, OpenedOK, Running
  <2>3. WaitsOK' /\ FreshOK'
    BY <2>1 DEF OpenInv, WaitsOK, FreshOK
  <2> QED
    BY <2>2, <2>3 DEF OpenInv
<1>10. CASE Crash
  BY <1>1, <1>10 DEF Crash
<1> QED
  BY <1>1, <1>3, <1>4, <1>5, <1>6, <1>7, <1>8, <1>9, <1>10
     DEF WaitForNetConfig, InitLoad, InitRemove, New

\* Steps of the gate and of the API server.
LEMMA GateOpen ==
    ASSUME TypeOK, OpenInv,
           GatePoll \/ GateGet \/ GatePut \/ GateFault \/ \E u \in update : ApiUpdate(u)
    PROVE  OpenInv'
<1>1. /\ gate \in GateType /\ taints \subseteq {"readiness", "other"}
      /\ update \subseteq UpdateType
  BY DEF TypeOK
<1>2. PlanOK' /\ UNCHANGED <<main, conf>>
  BY DEF GatePoll, GateGet, GatePut, GateFault, ApiUpdate, OpenInv, PlanOK
<1>3. CASE GatePoll
  <2>1. /\ gate.at = "poll" /\ gate'.at = "get" /\ gate'.fresh = gate.fresh
        /\ gate'.read = gate.read /\ UNCHANGED <<taints, update>>
    BY <1>1, <1>3 DEF GatePoll, GateType
  <2> QED
    BY <1>2, <2>1 DEF OpenInv, WrittenOK, OpenedOK, WaitsOK, FreshOK
<1>4. CASE GateGet
  <2>1. /\ gate.at = "get" /\ gate'.at # "off" /\ gate'.read = taints
        /\ UNCHANGED <<taints, update>>
    BY <1>1, <1>4 DEF GateGet, GateType
  <2> QED
    BY <1>2, <2>1 DEF OpenInv, WrittenOK, OpenedOK, WaitsOK, FreshOK
<1>5. CASE GatePut
  <2> DEFINE u == [taints |-> gate.read \ {"readiness"}, fresh |-> gate.fresh,
                   waited |-> TRUE]
  <2>1. /\ gate.at = "put" /\ gate'.at = "sent" /\ gate'.fresh = gate.fresh
        /\ gate'.read = gate.read /\ update' = update \cup {u} /\ UNCHANGED taints
    BY <1>1, <1>5 DEF GatePut, GateType
  <2>2. WrittenOK' /\ conf.present
    BY <1>2, <2>1 DEF OpenInv, WrittenOK, Running
  <2>3. OpenedOK'
    BY <1>2, <2>2 DEF OpenedOK
  <2>4. WaitsOK'
    BY <2>1 DEF OpenInv, WaitsOK
  <2>5. FreshOK'
    BY <2>1 DEF OpenInv, FreshOK
  <2> QED
    BY <1>2, <2>2, <2>3, <2>4, <2>5 DEF OpenInv
<1>6. CASE GateFault
  <2>1. /\ gate.at # "off" /\ gate'.at \in {"get", "gaveup"} /\ gate'.fresh = gate.fresh
        /\ gate'.read = gate.read /\ UNCHANGED taints
    BY <1>1, <1>6, AgainTypes DEF GateFault
  <2>2. \A u \in update' : /\ u.waited = FALSE
                           /\ \E v \in update : u.fresh = v.fresh /\ u.taints = v.taints
    BY <1>1, <1>6 DEF GateFault, UpdateType
  <2>3. WrittenOK'
    BY <1>2, <2>1 DEF OpenInv, WrittenOK
  <2>4. OpenedOK'
    BY <1>2, <2>1, <2>2 DEF OpenInv, OpenedOK
  <2>5. WaitsOK'
    BY <2>2 DEF WaitsOK
  <2>6. FreshOK'
    BY <2>1, <2>2 DEF OpenInv, FreshOK
  <2> QED
    BY <1>2, <2>3, <2>4, <2>5, <2>6 DEF OpenInv
<1>7. ASSUME NEW u \in update, ApiUpdate(u) PROVE OpenInv'
  <2>1. conf.present
    BY DEF OpenInv, OpenedOK
  <2>2. OpenedOK'
    BY <1>2, <2>1 DEF OpenedOK
  <2>3. /\ u.waited => gate.at = "sent" /\ gate'.at \in {"done", "get", "gaveup"}
        /\ ~u.waited => gate'.at = gate.at
        /\ gate'.read = gate.read
        /\ u.fresh => gate'.fresh = FALSE
        /\ ~u.fresh => gate'.fresh = gate.fresh
    <3>1. u.waited => gate.at = "sent"
      BY DEF OpenInv, WaitsOK
    <3>2. CASE u.fresh
      BY <1>1, <1>7, <3>1, <3>2 DEF ApiUpdate, Answer, GateType
    <3>3. CASE ~u.fresh
      <4>1. /\ OnConflict(gate).at \in {"get", "gaveup"}
            /\ OnConflict(gate).read = gate.read /\ OnConflict(gate).fresh = gate.fresh
        BY <1>1, AgainTypes
      <4> QED
        BY <1>1, <1>7, <3>1, <3>3, <4>1 DEF ApiUpdate, Answer, GateType
    <3> QED
      BY <3>2, <3>3
  <2>4. \A w \in update' : \E v \in update \ {u} :
            /\ w.waited = v.waited /\ w.taints = v.taints
            /\ IF u.fresh THEN w = [v EXCEPT !.fresh = FALSE] /\ w.fresh = FALSE ELSE w = v
    BY <1>1, <1>7 DEF ApiUpdate, Stale, UpdateType
  <2>5. WrittenOK'
    BY <1>2, <2>3 DEF OpenInv, WrittenOK
  <2>6. WaitsOK'
    <3>1. ASSUME NEW w \in update', w.waited PROVE gate'.at = "sent"
      <4>1. PICK v \in update \ {u} : v.waited
        BY <2>4, <3>1
      <4>2. ~u.waited /\ gate.at = "sent"
        BY <4>1 DEF OpenInv, WaitsOK
      <4> QED
        BY <2>3, <4>2
    <3>2. ASSUME NEW w \in update', NEW x \in update', w.waited, x.waited PROVE w = x
      <4>1. PICK v \in update \ {u} :
               /\ w.waited = v.waited
               /\ IF u.fresh THEN w = [v EXCEPT !.fresh = FALSE] ELSE w = v
        BY <2>4
      <4>2. PICK y \in update \ {u} :
               /\ x.waited = y.waited
               /\ IF u.fresh THEN x = [y EXCEPT !.fresh = FALSE] ELSE x = y
        BY <2>4
      <4>3. v = y
        BY <3>2, <4>1, <4>2 DEF OpenInv, WaitsOK
      <4>4. CASE u.fresh
        BY <4>1, <4>2, <4>3, <4>4, Zenon
      <4>5. CASE ~u.fresh
        BY <4>1, <4>2, <4>3, <4>5
      <4> QED
        BY <4>4, <4>5
    <3> QED
      BY <3>1, <3>2 DEF WaitsOK
  <2>7. FreshOK'
    <3>1. CASE u.fresh
      BY <2>3, <2>4, <3>1 DEF FreshOK
    <3>2. CASE ~u.fresh
      <4>1. taints' = taints
        BY <1>7, <3>2 DEF ApiUpdate
      <4> QED
        BY <2>3, <2>4, <3>2, <4>1 DEF OpenInv, FreshOK
    <3> QED
      BY <3>1, <3>2
  <2> QED
    BY <1>2, <2>2, <2>5, <2>6, <2>7 DEF OpenInv
<1> QED
  BY <1>3, <1>4, <1>5, <1>6, <1>7

\* Steps of the world around the daemon.
LEMMA WorldOpen ==
    ASSUME TypeOK, OpenInv,
           \/ HostIface \/ OtherTaint
           \/ \E r \in Requests, p \in Prefixes : ServeName(r, p)
           \/ \E e \in Envs : StartDaemon(e)
           \/ \E i \in 1..NumBase : BaseChanges(i)
    PROVE  OpenInv'
<1>1. CASE UNCHANGED <<main, plan, conf, taints, gate, update>>
  BY <1>1 DEF OpenInv, PlanOK, WrittenOK, OpenedOK, WaitsOK, FreshOK
<1>2. CASE OtherTaint
  <2>1. /\ gate'.at = gate.at /\ gate'.fresh = FALSE
        /\ UNCHANGED <<main, plan, conf>>
    BY <1>2 DEF OtherTaint, TypeOK, GateType
  <2>2. \A w \in update' : w.fresh = FALSE /\ \E v \in update : w = [v EXCEPT !.fresh = FALSE]
                                                                /\ w.waited = v.waited
    BY <1>2 DEF OtherTaint, Stale, TypeOK, UpdateType
  <2>3. ("readiness" \in taints) <=> ("readiness" \in taints')
    BY <1>2 DEF OtherTaint
  <2>4. PlanOK' /\ WrittenOK'
    BY <2>1 DEF OpenInv, PlanOK, WrittenOK
  <2>5. OpenedOK'
    BY <2>1, <2>2, <2>3 DEF OpenInv, OpenedOK
  <2>6. WaitsOK'
    <3>1. \A w \in update' : w.waited => gate'.at = "sent"
      BY <2>1, <2>2 DEF OpenInv, WaitsOK
    <3>2. ASSUME NEW w \in update', NEW x \in update', w.waited, x.waited PROVE w = x
      <4>1. PICK v \in update : w = [v EXCEPT !.fresh = FALSE] /\ w.waited = v.waited
        BY <2>2
      <4>2. PICK y \in update : x = [y EXCEPT !.fresh = FALSE] /\ x.waited = y.waited
        BY <2>2
      <4>3. v = y
        BY <3>2, <4>1, <4>2 DEF OpenInv, WaitsOK
      <4> QED
        BY <4>1, <4>2, <4>3, Zenon
    <3> QED
      BY <3>1, <3>2 DEF WaitsOK
  <2>7. FreshOK'
    BY <2>1, <2>2 DEF FreshOK
  <2> QED
    BY <2>4, <2>5, <2>6, <2>7 DEF OpenInv
<1>3. ASSUME NEW e \in Envs, StartDaemon(e) PROVE OpenInv'
  <2>1. main = "down" /\ main' = "wait" /\ UNCHANGED <<plan, conf, taints, gate, update>>
    BY <1>3 DEF StartDaemon
  <2>2. PlanOK' /\ WrittenOK'
    BY <2>1 DEF OpenInv, PlanOK, WrittenOK, Running
  <2>3. OpenedOK' /\ WaitsOK' /\ FreshOK'
    BY <2>1 DEF OpenInv, OpenedOK, WaitsOK, FreshOK
  <2> QED
    BY <2>2, <2>3 DEF OpenInv
<1> QED
  BY <1>1, <1>2, <1>3 DEF HostIface, ServeName, BaseChanges, nodeVars

LEMMA InitOpen == Init => OpenInv
  BY DEF Init, OpenInv, PlanOK, WrittenOK, OpenedOK, WaitsOK, FreshOK, GateOff, Running

LEMMA NextOpen ==
    ASSUME TypeOK, OpenInv, [Next]_vars
    PROVE  OpenInv'
<1>1. CASE UNCHANGED vars
  BY <1>1 DEF vars, nodeVars, OpenInv, PlanOK, WrittenOK, OpenedOK, WaitsOK, FreshOK
<1>2. CASE Next
  BY <1>2, StartOpen, GateOpen, WorldOpen DEF Next, Main, Gate
<1> QED
  BY <1>1, <1>2

LEMMA OpenInvariant == Spec => [](TypeOK /\ OpenInv)
<1>1. Init => TypeOK /\ OpenInv
  BY InitTypes, InitOpen
<1>2. TypeOK /\ OpenInv /\ [Next]_vars => TypeOK' /\ OpenInv'
  BY NextTypes, NextOpen
<1> QED
  BY <1>1, <1>2, PTL DEF Spec

\* OpenIsConfiguredHolds: a node without the readiness taint has meshnet's list,
\* at worst one that is being rewritten, and past Init the list names the
\* plugin exactly once, whatever crashes, upgrades, foreign changes and late
\* updates of daemons that are gone went before.
THEOREM OpenIsConfiguredHolds == Spec => []OpenIsConfigured
<1>1. TypeOK /\ OpenInv => OpenIsConfigured
  BY DEF OpenInv, WrittenOK, OpenedOK, OpenIsConfigured
<1> QED
  BY <1>1, OpenInvariant, PTL

\* OtherTaintsStayHolds: no step that removes the readiness taint touches
\* another taint, although the update was made from a copy of the node that
\* may be stale, by a daemon that may have died.
THEOREM OtherTaintsStayHolds == Spec => OtherTaintsStay
<1> DEFINE A == ("readiness" \in taints /\ "readiness" \notin taints')
                   => taints' = taints \ {"readiness"}
<1>1. ASSUME TypeOK, OpenInv, Next PROVE A
  <2>1. CASE UNCHANGED taints
    BY <2>1
  <2>2. ASSUME NEW u \in update, ApiUpdate(u) PROVE A
    <3>1. u.fresh => u.taints = taints \ {"readiness"}
      BY <1>1 DEF OpenInv, FreshOK
    <3>2. taints' = taints \/ (u.fresh /\ taints' = u.taints)
      BY <2>2 DEF ApiUpdate
    <3> QED
      BY <3>1, <3>2
  <2>3. CASE OtherTaint
    BY <2>3 DEF OtherTaint
  <2> QED
    BY <1>1, <2>1, <2>2, <2>3
       DEF Next, Main, Gate, WaitForNetConfig, InitLoad, InitTruncate, InitSave,
           InitRemove, InitTruncateConf, InitSaveConf, Seed, New, GoServe, GatePoll,
           GateGet, GatePut, HostIface, Crash, GateFault, ServeName, StartDaemon,
           BaseChanges, nodeVars
<1>2. TypeOK /\ OpenInv /\ [Next]_vars => [A]_vars
  BY <1>1
<1> QED
  BY <1>2, OpenInvariant, PTL DEF Spec, OtherTaintsStay

-----------------------------------------------------------------------------
(* The files.                                                               *)

\* What a file holds once it has been dealt with.
Content(f) == IF Wanted(f) = "unset" THEN "absent" ELSE Wanted(f)

\* The steps at which file f has been dealt with.
Past == [link |-> {"prefix", "mtu", "conf"} \cup Running,
         prefix |-> {"mtu", "conf"} \cup Running,
         mtu |-> {"conf"} \cup Running]

FilesInv == \A f \in SideFiles : main \in Past[f] => file[f] = Content(f)


\* A step that neither passes nor touches a file, in the same environment.
LEMMA SameFiles ==
    ASSUME FilesInv, UNCHANGED <<file, env>>,
           \A f \in SideFiles : main' \in Past[f] => main \in Past[f]
    PROVE  FilesInv'
<1>1. ASSUME NEW f \in SideFiles PROVE Content(f)' = Content(f)
  BY DEF Content, Wanted
<1> QED
  BY <1>1 DEF FilesInv

\* A start passes the files one after the other.
LEMMA PastSteps ==
    /\ "down" \notin Past["link"] \cup Past["prefix"] \cup Past["mtu"]
    /\ \A f \in SideFiles : /\ f \notin Past[f]
                            /\ Past[f] \cap {"down", "wait", "load", "link"} = {}
                            /\ {"conf"} \cup Running \subseteq Past[f]
                            /\ \A g \in SideFiles \ {f} : After[f] \in Past[g] => f \in Past[g]
  BY DEF Past, SideFiles, Running, After

LEMMA NextFiles ==
    ASSUME TypeOK, FilesInv, [Next]_vars
    PROVE  FilesInv'
<1>1. CASE UNCHANGED <<file, env>> /\ main' \in {main, "down", "load", "link"}
  BY <1>1, SameFiles, PastSteps
<1>2. CASE UNCHANGED <<file, env>> /\ main \in {"conf"} \cup Running
  BY <1>2, SameFiles, PastSteps
<1>3. ASSUME NEW e \in Envs, StartDaemon(e) PROVE FilesInv'
  BY <1>3, PastSteps DEF StartDaemon, FilesInv
<1>4. ASSUME NEW f \in SideFiles, InitTruncate(f) PROVE FilesInv'
  <2>1. /\ main = f /\ main' = f /\ UNCHANGED env
        /\ file' = [file EXCEPT ![f] = ""]
    BY <1>4 DEF InitTruncate
  <2>2. ASSUME NEW g \in SideFiles, main' \in Past[g] PROVE file'[g] = Content(g)'
    <3>1. g # f /\ main \in Past[g]
      BY <2>1, <2>2, PastSteps
    <3>2. file'[g] = file[g]
      BY <2>1, <3>1 DEF TypeOK
    <3>3. Content(g)' = Content(g)
      BY <2>1 DEF Content, Wanted
    <3> QED
      BY <3>1, <3>2, <3>3 DEF FilesInv
  <2> QED
    BY <2>2 DEF FilesInv
<1>5. ASSUME NEW f \in SideFiles, InitSave(f) \/ (InitRemove(f) /\ main' # "down")
      PROVE  FilesInv'
  <2>1. /\ main = f /\ main' = After[f] /\ UNCHANGED env
        /\ file' = [file EXCEPT ![f] = Content(f)]
    BY <1>5 DEF InitSave, InitRemove, Goto, Die, Content
  <2>2. ASSUME NEW g \in SideFiles, main' \in Past[g] PROVE file'[g] = Content(g)'
    <3>1. Content(g)' = Content(g)
      BY <2>1 DEF Content, Wanted
    <3>2. CASE g = f
      BY <2>1, <3>1, <3>2 DEF TypeOK
    <3>3. CASE g # f
      <4>1. main \in Past[g]
        BY <2>1, <2>2, <3>3, PastSteps
      <4>2. file'[g] = file[g]
        BY <2>1, <3>3 DEF TypeOK
      <4> QED
        BY <3>1, <4>1, <4>2 DEF FilesInv
    <3> QED
      BY <3>2, <3>3
  <2> QED
    BY <2>2 DEF FilesInv
<1>6. ASSUME NEW f \in SideFiles, InitRemove(f), main' = "down" PROVE FilesInv'
  BY <1>6, PastSteps DEF FilesInv
<1> QED
  <2>1. CASE UNCHANGED vars
    BY <1>1, <2>1 DEF vars, nodeVars
  <2>2. CASE WaitForNetConfig \/ InitLoad \/ Crash
    BY <1>1, <2>2 DEF WaitForNetConfig, InitLoad, Crash, Goto, Die
  <2>3. CASE InitTruncateConf \/ InitSaveConf \/ Seed \/ New \/ GoServe
    BY <1>2, <2>3 DEF InitTruncateConf, InitSaveConf, Seed, New, GoServe, Running
  <2>4. CASE Gate \/ GateFault \/ HostIface \/ OtherTaint
    BY <1>1, <2>4 DEF Gate, GatePoll, GateGet, GatePut, ApiUpdate, GateFault,
                      HostIface, OtherTaint, nodeVars
  <2>5. ASSUME NEW r \in Requests, NEW p \in Prefixes, ServeName(r, p) PROVE FilesInv'
    BY <1>1, <2>5 DEF ServeName, nodeVars
  <2>6. ASSUME NEW i \in 1..NumBase, BaseChanges(i) PROVE FilesInv'
    BY <1>1, <2>6 DEF BaseChanges
  <2> QED
    BY <1>3, <1>4, <1>5, <1>6, <2>1, <2>2, <2>3, <2>4, <2>5, <2>6 DEF Next, Main

\* PluginSeesEnvHolds: once the daemon has come past Init the plugin reads from
\* the files what the daemon has in its environment, whatever an earlier daemon
\* with another environment, or a crash in the middle of a write, has left in
\* them.
THEOREM PluginSeesEnvHolds == Spec => []PluginSeesEnv
<1>1. Init => FilesInv
  BY PastSteps DEF Init, FilesInv
<1>2. TypeOK /\ FilesInv /\ [Next]_vars => FilesInv'
  BY NextFiles
<1>3. ASSUME TypeOK, FilesInv PROVE PluginSeesEnv
  <2> SUFFICES ASSUME main \in Running PROVE PluginSeesEnv
    BY DEF PluginSeesEnv
  <2>1. \A f \in SideFiles : file[f] = Content(f)
    <3>1. \A f \in SideFiles : main \in Past[f]
      BY PastSteps
    <3> QED
      BY <1>3, <3>1 DEF FilesInv
  <2>2. LookupInterNodeLinkType = ResolveInterNodeLinkType(env.link)
    <3>1. Wanted("link") \in {"GRPC", "VXLAN"}
      BY DEF Wanted, ResolveInterNodeLinkType
    <3>2. file["link"] = Wanted("link")
      BY <2>1, <3>1 DEF Content, SideFiles
    <3> QED
      BY <3>1, <3>2 DEF LookupInterNodeLinkType, Wanted, ResolveInterNodeLinkType
  <2>3. LookupDatapathIfacePrefix = env.prefix
    <3>1. env["prefix"] # "absent"
      <4>1. env \in Envs
        BY <1>3 DEF TypeOK
      <4> QED
        BY <4>1, EnvValues
    <3>2. file["prefix"] = IF env["prefix"] = "unset" THEN "absent" ELSE env["prefix"]
      BY <2>1 DEF Content, Wanted, SideFiles
    <3> QED
      BY <3>1, <3>2 DEF LookupDatapathIfacePrefix
  <2>4. ReadDefaultLinkMTU = ParseMTU(env.mtu)
    <3>1. file["mtu"] = IF env["mtu"] = "unset" THEN "absent" ELSE env["mtu"]
      BY <2>1 DEF Content, Wanted, SideFiles
    <3> QED
      BY <3>1, EnvValues DEF ReadDefaultLinkMTU, ParseMTU
  <2> QED
    BY <2>2, <2>3, <2>4 DEF PluginSeesEnv
<1> QED
  BY <1>1, <1>2, <1>3, NodeTypes, PTL DEF Spec

-----------------------------------------------------------------------------
(* The index.                                                               *)

\* The names in use.
InUse == ifaces \cup {held[r] : r \in {q \in Requests : held[q] # NoName}}

\* The daemon has seeded its counter.
Seeded == main \in {"listen", "go", "serve"}

\* Until the digits are used up: neither the counter nor a name in use is ahead
\* of the number of names given, the counter of a daemon that has seeded it is
\* not behind a name in use, and suffix 0 is the last to be given.
IndexInv ==
    given > Modulus \/ lapsed \/
        /\ currId <= given
        /\ \A x \in InUse : /\ x.suffix <= given
                            /\ Seeded => x.suffix <= currId
                            /\ x.suffix = 0 => given = Modulus
        /\ NamesApart

\* What a request holds is a name in use.
LEMMA HeldInUse ==
    ASSUME NEW r \in Requests, held[r] # NoName
    PROVE  held[r] \in InUse
  BY DEF InUse

\* Names in use have suffixes of four digits.
LEMMA InUseTypes ==
    ASSUME IfTypeOK
    PROVE  InUse \subseteq Names
  BY DEF InUse, IfTypeOK

\* A step that brings no name into use and lets no two requests meet.
LEMMA FewerNames ==
    ASSUME IfTypeOK, IfTypeOK', IndexInv, InUse' \subseteq InUse, given' = given,
           lapsed => lapsed', ~lapsed' => currId' <= given,
           ~lapsed' /\ Seeded' => \A x \in InUse' : x.suffix <= currId',
           NamesApart'
    PROVE  IndexInv'
<1> SUFFICES ASSUME ~(given > Modulus), ~lapsed' PROVE IndexInv'
  BY DEF IndexInv
<1>1. \A x \in InUse : x.suffix <= given /\ (x.suffix = 0 => given = Modulus)
  BY DEF IndexInv
<1> QED
  BY <1>1 DEF IndexInv

\* A name is handed out: the counter has passed all names in use, or comes back
\* to 0, which nobody has had before.
LEMMA GenNodeIfaceNameApart ==
    ASSUME IfTypeOK, IfTypeOK', IndexInv, Seeded, Seeded',
           NEW r \in Requests, NEW p \in Prefixes, GenNodeIfaceName(r, p)
    PROVE  IndexInv'
<1> DEFINE s == (currId + 1) % Modulus
           n == [prefix |-> p, suffix |-> s]
<1>1. /\ given' = given + 1 /\ currId' = currId + 1 /\ lapsed' = lapsed
      /\ ifaces' = ifaces /\ held' = [held EXCEPT ![r] = n] /\ held[r] = NoName
  BY DEF GenNodeIfaceName
<1> SUFFICES ASSUME ~(given + 1 > Modulus), ~lapsed PROVE IndexInv'
  BY <1>1 DEF IndexInv
<1>2. given \in Nat /\ currId \in Nat /\ Modulus \in Nat /\ Modulus # 0
  BY IfIndexAssumption DEF IfTypeOK
<1>3. /\ currId <= given /\ NamesApart
      /\ \A x \in InUse : x.suffix <= currId /\ x.suffix # 0
  BY <1>2 DEF IndexInv
<1>4. given + 1 <= Modulus /\ currId + 1 <= Modulus
  BY <1>2, <1>3
<1>5. s \in 0..(Modulus - 1) /\ (s = currId + 1 \/ (s = 0 /\ currId + 1 = Modulus))
  BY <1>2, <1>4, SuffixInRange
<1>6. n \in Names /\ n.suffix = s
  BY <1>5 DEF Names
<1> HIDE DEF s
<1>7. \A x \in InUse : x.suffix \in Nat
  BY InUseTypes, <1>2 DEF Names
<1>8. n \notin InUse
  BY <1>2, <1>3, <1>5, <1>6, <1>7
<1>9. n # NoName
  BY <1>6, NoNameIsNone
<1> HIDE DEF n
<1>10. /\ held \in [Requests -> Names \cup {NoName}]
       /\ held'[r] = n /\ \A q \in Requests \ {r} : held'[q] = held[q]
  BY <1>1 DEF IfTypeOK
<1>11. InUse' \subseteq InUse \cup {n}
  BY <1>1, <1>10 DEF InUse
<1>12. s <= given + 1 /\ s <= currId + 1 /\ (s = 0 => given + 1 = Modulus)
  BY <1>2, <1>3, <1>4, <1>5
<1>13. \A x \in InUse' : /\ x.suffix <= given + 1 /\ x.suffix <= currId + 1
                         /\ x.suffix = 0 => given + 1 = Modulus
  BY <1>2, <1>3, <1>6, <1>7, <1>11, <1>12
<1>14. NamesApart'
  <2> SUFFICES ASSUME NEW q \in Requests, held'[q] # NoName
               PROVE  /\ held'[q] \notin ifaces'
                      /\ \A t \in Requests \ {q} : held'[t] # held'[q]
    BY DEF NamesApart
  <2>1. CASE q = r
    <3>1. ifaces \subseteq InUse
      BY DEF InUse
    <3>2. \A t \in Requests \ {r} : held[t] # n
      BY <1>8, <1>9, HeldInUse
    <3> QED
      BY <1>1, <1>8, <1>10, <2>1, <3>1, <3>2
  <2>2. CASE q # r
    <3>1. held'[q] = held[q] /\ held[q] \in InUse
      BY <1>10, <2>2, HeldInUse
    <3>2. held[q] \notin ifaces /\ \A t \in Requests \ {q} : held[t] # held[q]
      BY <1>2, <1>3, <1>4, <3>1 DEF NamesApart
    <3> QED
      BY <1>1, <1>8, <1>10, <3>1, <3>2
  <2> QED
    BY <2>1, <2>2
<1> QED
  BY <1>1, <1>2, <1>3, <1>13, <1>14 DEF IndexInv

\* The interface is made, or goes with its wire: no new name is in use.
LEMMA HostIfaceApart ==
    ASSUME IfTypeOK, IfTypeOK', IndexInv, HostIface
    PROVE  IndexInv'
<1>1. /\ UNCHANGED <<currId, given, lapsed>> /\ Seeded' = Seeded
  BY DEF HostIface, MakeIface, DropIface, nodeVars, Seeded
<1> SUFFICES ASSUME ~(given > Modulus), ~lapsed PROVE IndexInv'
  BY <1>1 DEF IndexInv
<1>2. /\ currId <= given /\ NamesApart
      /\ Seeded => \A x \in InUse : x.suffix <= currId
  BY DEF IndexInv
<1>3. held \in [Requests -> Names \cup {NoName}]
  BY DEF IfTypeOK
<1>4. ASSUME NEW r \in Requests, MakeIface(r) PROVE IndexInv'
  <2>1. /\ held[r] # NoName /\ ifaces' = ifaces \cup {held[r]} /\ held'[r] = NoName
        /\ \A q \in Requests \ {r} : held'[q] = held[q]
    BY <1>3, <1>4 DEF MakeIface
  <2>2. InUse' \subseteq InUse
    BY <2>1 DEF InUse
  <2>3. NamesApart'
    BY <1>2, <2>1 DEF NamesApart
  <2> QED
    BY <1>1, <1>2, <2>2, <2>3, FewerNames
<1>5. ASSUME NEW x \in ifaces, DropIface(x) PROVE IndexInv'
  <2>1. ifaces' \subseteq ifaces /\ held' = held
    BY <1>5 DEF DropIface
  <2>2. InUse' \subseteq InUse
    BY <2>1 DEF InUse
  <2>3. NamesApart'
    BY <1>2, <2>1 DEF NamesApart
  <2> QED
    BY <1>1, <1>2, <2>2, <2>3, FewerNames
<1> QED
  BY <1>4, <1>5 DEF HostIface

\* The daemon dies, and the counter is not to be used before it is seeded.
LEMMA LoseIndexApart ==
    ASSUME IfTypeOK, IfTypeOK', IndexInv, LoseIndex, ~Seeded'
    PROVE  IndexInv'
<1>1. /\ currId' = 0 /\ UNCHANGED <<given, lapsed, ifaces>>
      /\ \A q \in Requests : held'[q] = NoName \/ held'[q] = held[q]
      /\ \A q \in Requests : held'[q] # NoName => held'[q] = held[q]
  BY DEF LoseIndex
<1> SUFFICES ASSUME ~(given > Modulus), ~lapsed PROVE IndexInv'
  BY <1>1 DEF IndexInv
<1>2. InUse' \subseteq InUse
  BY <1>1 DEF InUse
<1>3. NamesApart
  BY DEF IndexInv
<1>4. NamesApart'
  BY <1>1, <1>3 DEF NamesApart
<1>5. currId' <= given
  BY <1>1 DEF IfTypeOK
<1> QED
  BY <1>1, <1>2, <1>4, <1>5, FewerNames

\* The counter is seeded: no request holds a name, or the daemon cannot know.
LEMMA SeedApart ==
    ASSUME IfTypeOK, IfTypeOK', IndexInv, SeedIndexFromHost \/ SeedFails
    PROVE  IndexInv'
<1> SUFFICES ASSUME ~(given > Modulus), ~lapsed' PROVE IndexInv'
  BY DEF IndexInv, SeedIndexFromHost, SeedFails
<1>1. /\ SeedIndexFromHost /\ ~lapsed /\ UNCHANGED <<ifaces, held, given>>
      /\ \A r \in Requests : held[r] = NoName
  BY DEF SeedIndexFromHost, SeedFails
<1>2. /\ currId' \in Nat /\ currId <= currId'
      /\ currId' = currId \/ \E x \in ifaces : currId' = x.suffix
      /\ \A x \in ifaces : x.suffix <= currId'
  BY <1>1, SeedIsGreatest DEF SeedIndexFromHost
<1>3. InUse = ifaces /\ InUse' = InUse
  BY <1>1 DEF InUse
<1>4. currId <= given /\ NamesApart /\ \A x \in InUse : x.suffix <= given
  BY <1>1 DEF IndexInv
<1>5. currId' <= given
  BY <1>2, <1>3, <1>4
<1>6. NamesApart'
  BY <1>1 DEF NamesApart
<1> QED
  BY <1>1, <1>2, <1>3, <1>5, <1>6, FewerNames

LEMMA NextApart ==
    ASSUME TypeOK, TypeOK', IndexInv, [Next]_vars
    PROVE  IndexInv'
<1> USE DEF TypeOK
<1>1. CASE UNCHANGED ifVars /\ (Seeded' => Seeded)
  <2>1. /\ UNCHANGED <<currId, given, lapsed, ifaces, held, InUse>>
        /\ NamesApart' = NamesApart
    BY <1>1 DEF ifVars, NamesApart, InUse
  <2> QED
    BY <1>1, <2>1 DEF IndexInv
<1>2. CASE LoseIndex /\ main' = "down"
  BY <1>2, LoseIndexApart DEF Seeded
<1>3. CASE Seed
  BY <1>3, SeedApart DEF Seed
<1>4. CASE HostIface
  BY <1>4, HostIfaceApart
<1>5. ASSUME NEW r \in Requests, NEW p \in Prefixes, ServeName(r, p) PROVE IndexInv'
  BY <1>5, GenNodeIfaceNameApart DEF ServeName, nodeVars, Seeded
<1>6. CASE UNCHANGED vars
  BY <1>1, <1>6 DEF vars, nodeVars, Seeded
<1>7. CASE WaitForNetConfig \/ InitLoad \/ New \/ Crash
  BY <1>1, <1>2, <1>7 DEF WaitForNetConfig, InitLoad, New, Crash, Die, Goto, Seeded
<1>8. ASSUME NEW f \in SideFiles, InitTruncate(f) \/ InitSave(f) \/ InitRemove(f)
      PROVE  IndexInv'
  <2>1. main' \in {f, After[f], "down"}
    BY <1>8 DEF InitTruncate, InitSave, InitRemove, Goto, Die
  <2>2. UNCHANGED ifVars \/ (LoseIndex /\ main' = "down")
    BY <1>8 DEF InitTruncate, InitSave, InitRemove, Die
  <2>3. f \in {"link", "prefix", "mtu"} /\ After[f] \in {"prefix", "mtu", "conf"}
    BY AfterSteps
  <2> QED
    BY <1>1, <1>2, <2>1, <2>2, <2>3 DEF Seeded
<1>9. CASE InitTruncateConf \/ InitSaveConf \/ GoServe
  BY <1>1, <1>9 DEF InitTruncateConf, InitSaveConf, GoServe, Goto, Seeded
<1>10. CASE Gate \/ GateFault \/ OtherTaint
  BY <1>1, <1>10 DEF Gate, GatePoll, GateGet, GatePut, ApiUpdate, GateFault,
                     OtherTaint, Seeded
<1>11. ASSUME NEW e \in Envs, StartDaemon(e) PROVE IndexInv'
  BY <1>1, <1>11 DEF StartDaemon, Seeded
<1>12. ASSUME NEW i \in 1..NumBase, BaseChanges(i) PROVE IndexInv'
  BY <1>1, <1>12 DEF BaseChanges, Seeded
<1> QED
  BY <1>3, <1>4, <1>5, <1>6, <1>7, <1>8, <1>9, <1>10, <1>11, <1>12 DEF Next, Main

\* NamesApartHolds: for any number of digits, a name that is handed out is
\* neither on the host nor held by another request, across restarts of the
\* daemon, until the digits are used up or a name in use was hidden from a
\* daemon when it seeded its counter.
THEOREM NamesApartHolds == Spec => []NamesApart
<1>1. Init => IndexInv
  <2> SUFFICES ASSUME Init PROVE IndexInv
    OBVIOUS
  <2>1. IfInit
    BY DEF Init
  <2>2. InUse = {} /\ currId = 0 /\ given = 0
    BY <2>1 DEF IfInit, InUse
  <2>3. NamesApart
    BY <2>1 DEF IfInit, NamesApart
  <2> QED
    BY <2>2, <2>3 DEF IndexInv
<1>2. TypeOK /\ TypeOK' /\ IndexInv /\ [Next]_vars => IndexInv'
  BY NextApart
<1>3. IndexInv => NamesApart
  BY DEF IndexInv, NamesApart
<1> QED
  BY <1>1, <1>2, <1>3, NodeTypes, PTL DEF Spec
=============================================================================

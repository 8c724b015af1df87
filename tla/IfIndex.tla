------------------------------ MODULE IfIndex ------------------------------
(***************************************************************************)
(* Names of the host-side interfaces of gRPC wires on one node.  A name is *)
(* a prefix taken from the pod and its interface, and a four-digit suffix  *)
(* from a counter.  The daemon hands the name out; the interface is made   *)
(* later, by the plugin (which asked for the name with an RPC) or by the   *)
(* daemon itself (for a wire that the peer's plugin asked for).  The       *)
(* counter is in memory: a daemon that restarts seeds it from the names on *)
(* the host.                                                               *)
(***************************************************************************)
EXTENDS Naturals, FiniteSets, FiniteSetsExt

CONSTANTS
    Prefixes,  \* first ten characters of a name
    Modulus,   \* 10000: what four digits can tell apart
    MaxNames,  \* bound: names handed out
    Requests,  \* requests for an interface that may be under way together
    Inside     \* the requests served within the daemon, which die with it

ASSUME IfIndexAssumption ==
    /\ Modulus \in Nat \ {0} /\ MaxNames \in Nat
    /\ Inside \subseteq Requests

VARIABLES
    currId,  \* indexGen.currId
    ifaces,  \* the interfaces of this kind on the host
    held,    \* per request: the name handed out whose interface is not made yet
    given,   \* history: how many names were handed out since the node booted
    lapsed   \* history: a name in use was hidden from a daemon that started:
             \* the plugin still held it, or the host's list was not readable

ifVars == <<currId, ifaces, held, given, lapsed>>

Names == [prefix : Prefixes, suffix : 0..(Modulus - 1)]
NoName == [prefix |-> "", suffix |-> Modulus]

IfTypeOK ==
    /\ currId \in Nat
    /\ ifaces \subseteq Names
    /\ held \in [Requests -> Names \cup {NoName}]
    /\ given \in 0..MaxNames
    /\ lapsed \in BOOLEAN

IfInit ==
    /\ currId = 0 /\ ifaces = {} /\ given = 0 /\ lapsed = FALSE
    /\ held = [r \in Requests |-> NoName]

-----------------------------------------------------------------------------
\* GenNodeIfaceName with NextIndex: the counter never goes back.
GenNodeIfaceName(r, p) ==
    /\ held[r] = NoName
    /\ given < MaxNames
    /\ currId' = currId + 1
    /\ held' = [held EXCEPT ![r] = [prefix |-> p, suffix |-> (currId + 1) % Modulus]]
    /\ given' = given + 1
    /\ UNCHANGED <<ifaces, lapsed>>

\* The interface is made; a name that is taken makes the request fail.
MakeIface(r) ==
    /\ held[r] # NoName
    /\ ifaces' = ifaces \cup {held[r]}
    /\ held' = [held EXCEPT ![r] = NoName]
    /\ UNCHANGED <<currId, given, lapsed>>

\* A wire is removed, with its interface.
DropIface(x) ==
    /\ ifaces' = ifaces \ {x}
    /\ UNCHANGED <<currId, held, given, lapsed>>

\* The daemon dies: the counter and the requests inside it are lost.
LoseIndex ==
    /\ currId' = 0
    /\ held' = [r \in Requests |-> IF r \in Inside THEN NoName ELSE held[r]]
    /\ UNCHANGED <<ifaces, given, lapsed>>

\* Mutant: the next name is the greatest one in use.
SeedIndexOffByOne ==
    /\ currId' = LET top == Max({x.suffix : x \in ifaces} \cup {1}) IN top - 1
    /\ lapsed' = (lapsed \/ \E r \in Requests : held[r] # NoName)
    /\ UNCHANGED <<ifaces, held, given>>

\* SeedIndexFromHost at the start of the daemon: the greatest suffix in use.
SeedIndexFromHost ==
    /\ currId' = Max({x.suffix : x \in ifaces} \cup {currId})
    /\ lapsed' = (lapsed \/ \E r \in Requests : held[r] # NoName)
    /\ UNCHANGED <<ifaces, held, given>>

\* The host's interfaces cannot be listed: a warning, and the counter stays.
SeedFails ==
    /\ lapsed' = TRUE
    /\ UNCHANGED <<currId, ifaces, held, given>>

-----------------------------------------------------------------------------
\* NamesApart: a name that is handed out is neither on the host nor held by
\* another request, across restarts of the daemon, until the four digits are
\* used up or a name in use was hidden from a daemon when it seeded its
\* counter.
NamesApart ==
    given > Modulus \/ lapsed \/
        \A r \in Requests :
            held[r] # NoName =>
                /\ held[r] \notin ifaces
                /\ \A q \in Requests \ {r} : held[q] # held[r]
=============================================================================

----------------------------- MODULE NodeAgent -----------------------------
(***************************************************************************)
(* The node agent: what the GWProxies and LoadBalancers of one service     *)
(* prefix have on one node.  Their reconcilers open the host's ports with  *)
(* ipset entries, set up a PFC tunnel and service gateway to each client   *)
(* endpoint, and undo it; the reconciler of Envoy pods adds the routes to  *)
(* the multus bridge, and that of prefixes configures the bridge and       *)
(* flushes the ipset tables.  Each has one worker and works from the       *)
(* agent's informers: an object changes here when they see it change, and  *)
(* the agent itself writes nothing but its finalizers.  A LoadBalancer and *)
(* a GWProxy are both called an owner, of a pod on this node.              *)
(***************************************************************************)
EXTENDS Naturals, Sequences, FiniteSets

CONSTANTS
    Owners,        \* GWProxies and LoadBalancers of the prefix
    Kind,          \* Kind[o]: "GWProxy" or "LoadBalancer"
    Name,          \* Name[o]: its name within its namespace
    Pools,         \* Pools[o]: <<"public">>, or <<"public", "alt">> if it has an alt address
    Aggregation,   \* Aggregation[pool]: "default", to the pool's subnet, or "host"
    Ports,         \* public ports
    FirstPorts,    \* FirstPorts[o]: those its spec has when it is created
    Endpoints,     \* client endpoints
    Idle,          \* a worker that has nothing to do
    MaxChanges,    \* bound: changes by users and by the Deployments
    MaxFaults,     \* bound: failed commands and restarts
    MaxDisturbed   \* bound: the Disturbances told apart; after more nothing is claimed

Kinds == {"GWProxy", "LoadBalancer"}

Disturbances == {"late flush",       \* the ipset tables are flushed when they have entries
                 "unlisted pod",     \* routes are removed for want of an interface the pod has
                 "joined route",     \* a route is removed although a proxy with it came after the list
                 "overlooked user",  \* a route is removed although an owner that is not listed has it
                 "kept route",       \* a route is kept for a proxy that does not have it
                 "late pod",         \* a pod's routes are added for an owner on its way out
                 "early delete",     \* an owner is deleted before it has the finalizer
                 "overtaken nudge",  \* a nudge arrives before the endpoints it is about
                 "failed command"}   \* a script fails, which nobody notices

ASSUME KindsAssumption == Kind \in [Owners -> Kinds]
ASSUME PoolsAssumption ==
    \A o \in Owners : /\ Pools[o] \in {<<"public">>, <<"public", "alt">>}
                      /\ Kind[o] = "LoadBalancer" => Pools[o] = <<"public">>
ASSUME PortsAssumption == FirstPorts \in [Owners -> SUBSET Ports]
ASSUME AggregationAssumption == Aggregation \in [{"public", "alt"} -> {"default", "host"}]
ASSUME BoundsAssumption == MaxChanges \in Nat /\ MaxFaults \in Nat /\ MaxDisturbed \in Nat

\* An owner's address of a pool stands for itself.
Address(o, pool) == <<pool, o>>
aggregateRoute(pool, address) ==
    IF Aggregation[pool] = "default" THEN <<"subnet", pool>> ELSE address
Route(o, pool) == aggregateRoute(pool, Address(o, pool))
RoutesOf(o) == {Route(o, Pools[o][i]) : i \in DOMAIN Pools[o]}
AllRoutes == UNION {RoutesOf(o) : o \in Owners}

Tasks == [of : Owners, stage : {"setup", "list", "remove", "unguard"}, final : BOOLEAN,
          left : {<<>>, <<"public">>, <<"alt">>, <<"public", "alt">>},
          doomed : SUBSET AllRoutes, found : SUBSET Endpoints, ports : SUBSET Ports]
ASSUME IdleAssumption == Idle \notin Tasks \cup Owners

VARIABLES
    owners,      \* each "none", "live", "deleting" or "gone"
    guarded,     \* the owners with this agent's finalizer
    listed,      \* those with a complete interface on this node
    pods,        \* each owner's: "none", "ready" or "deleting"
    ports,       \* the public ports in each owner's spec
    dropped,     \* a history variable: <<o, p>> if port p has been removed from o's spec
    written,     \* the endpoints each owner has tunnels to
    endpoints,   \* those that the agent's informers know
    routes, bridge, ipset,  \* in the kernel: routes, the bridge, owners' open ports
    gateways,    \* in the PFC: owners' service gateways and their tunnels
    ownerQueue, podQueue, prefixQueue,  \* objects to be reconciled
    job,         \* each kind's worker: Idle or what it does
    podJob,      \* the worker of pods: Idle or the owner of its pod
    changes, faults,
    disturbed    \* the Disturbances so far

vars == <<owners, guarded, listed, pods, ports, dropped, written, endpoints, routes, bridge, ipset,
          gateways, ownerQueue, podQueue, prefixQueue, job, podJob, changes, faults, disturbed>>
specs == <<ports, dropped>>
objects == <<owners, guarded, listed, pods, specs>>
endpointVars == <<written, endpoints>>
node == <<routes, bridge, ipset, gateways>>
queues == <<ownerQueue, podQueue, prefixQueue>>
jobs == <<job, podJob>>
counters == <<changes, faults, disturbed>>

Live(o) == owners[o] = "live"

\* A step that is one of the Disturbances ds, or of none.
Mark(ds) == disturbed' = IF Cardinality(disturbed \cup ds) > MaxDisturbed
                         THEN Disturbances ELSE disturbed \cup ds
If(condition, disturbance) == IF condition THEN {disturbance} ELSE {}

\* The agent has just started for the first time, where some owners have pods
\* already and their endpoints.
Init == /\ \E there \in SUBSET Owners :
               /\ owners = [o \in Owners |-> IF o \in there THEN "live" ELSE "none"]
               /\ pods = [o \in Owners |-> IF o \in there THEN "ready" ELSE "none"]
               /\ written = [o \in Owners |-> IF o \in there THEN Endpoints ELSE {}]
               /\ listed = there /\ ownerQueue = there /\ podQueue = there
        /\ endpoints = written
        /\ ports = FirstPorts /\ dropped = {}
        /\ guarded = {}
        /\ routes = {} /\ bridge = FALSE /\ ipset = {} /\ gateways = {}
        /\ prefixQueue = TRUE
        /\ job = [k \in Kinds |-> Idle] /\ podJob = Idle
        /\ changes = 0 /\ faults = 0 /\ disturbed = {}
-----------------------------------------------------------------------------
\* Users, the Deployments, the controller-manager, the setup-network daemon.

Counted == changes < MaxChanges /\ changes' = changes + 1

\* The agent's informer sees owner o, or pod o.  An event that the reconcilers do
\* nothing about is left out.
SeeOwner(o) == ownerQueue' = ownerQueue \cup {o} /\ UNCHANGED <<podQueue, prefixQueue>>
SeePod(o) == podQueue' = podQueue \cup {o} /\ UNCHANGED <<ownerQueue, prefixQueue>>

CreateOwner(o) ==
    /\ Counted
    /\ owners[o] = "none"
    /\ owners' = [owners EXCEPT ![o] = "live"]
    /\ SeeOwner(o)
    /\ UNCHANGED <<guarded, listed, pods, specs, endpointVars, node, jobs, faults, disturbed>>

DeleteOwner(o) ==
    /\ Counted
    /\ Live(o)
    /\ owners' = [owners EXCEPT ![o] = IF o \in guarded THEN "deleting" ELSE "gone"]
    /\ Mark(If(o \notin guarded, "early delete"))
    /\ ownerQueue' = IF o \in guarded THEN ownerQueue \cup {o} ELSE ownerQueue
    /\ UNCHANGED <<guarded, listed, pods, specs, podQueue, prefixQueue, endpointVars, node, jobs, faults>>

\* The owner's Deployment has one pod on this node at a time, which is there for
\* the agent when the setup-network daemon has annotated it.
CreatePod(o) ==
    /\ Counted
    /\ Live(o) /\ pods[o] = "none"
    /\ pods' = [pods EXCEPT ![o] = "ready"]
    /\ SeePod(o)
    /\ UNCHANGED <<owners, guarded, listed, specs, endpointVars, node, jobs, faults, disturbed>>

\* The proxy's list of interfaces is the controller-manager's.
Listable(o) == owners[o] \in {"live", "deleting"} /\ pods[o] = "ready" /\ o \notin listed

ListInterface(o) ==
    /\ Listable(o)
    /\ listed' = listed \cup {o}
    /\ SeeOwner(o)
    /\ UNCHANGED <<owners, guarded, pods, specs, endpointVars, node, jobs, counters>>

DeletePod(o) ==
    /\ pods[o] = "ready"
    /\ IF owners[o] = "gone" THEN UNCHANGED changes ELSE Counted
    /\ pods' = [pods EXCEPT ![o] = "deleting"]
    /\ UNCHANGED <<owners, guarded, listed, specs, endpointVars, node, queues, jobs, faults, disturbed>>

\* A GWProxy ceases to list the pod; a LoadBalancer goes on.
EndPod(o) ==
    /\ pods[o] = "deleting"
    /\ pods' = [pods EXCEPT ![o] = "none"]
    /\ IF Kind[o] = "GWProxy" /\ owners[o] # "gone"
       THEN listed' = listed \ {o} /\ SeeOwner(o)
       ELSE UNCHANGED <<listed, queues>>
    /\ UNCHANGED <<owners, guarded, specs, endpointVars, node, jobs, counters>>

\* An endpoint comes or goes and its owner is nudged, which another informer
\* sees, perhaps first.
ChangeEndpoint(o, e) ==
    /\ Counted
    /\ Live(o)
    /\ written' = [written EXCEPT ![o] = IF e \in @ THEN @ \ {e} ELSE @ \cup {e}]
    /\ SeeOwner(o)
    /\ UNCHANGED <<objects, endpoints, node, jobs, faults, disturbed>>

SeeEndpoints(o) ==
    /\ endpoints[o] # written[o]
    /\ endpoints' = [endpoints EXCEPT ![o] = written[o]]
    /\ UNCHANGED <<objects, written, node, queues, jobs, counters>>

\* A user or the controller-manager writes other ports to the spec.
ChangePorts(o, ps) ==
    /\ Counted
    /\ owners[o] \in {"live", "deleting"} /\ ps # ports[o]
    /\ ports' = [ports EXCEPT ![o] = ps]
    /\ dropped' = dropped \cup ({o} \X (ports[o] \ ps))
    /\ SeeOwner(o)
    /\ UNCHANGED <<owners, guarded, listed, pods, endpointVars, node, jobs, faults, disturbed>>

ChangePrefix ==
    /\ Counted
    /\ prefixQueue' = TRUE
    /\ UNCHANGED <<objects, endpointVars, node, ownerQueue, podQueue, jobs, faults, disturbed>>
-----------------------------------------------------------------------------
\* The reconcilers of GWProxies and LoadBalancers.

Faulty == faults < MaxFaults /\ faults' = faults + 1

Busy(o, stage) == job[Kind[o]] # Idle /\ job[Kind[o]].of = o /\ job[Kind[o]].stage = stage
Do(o, next) == job' = [job EXCEPT ![Kind[o]] = next]
Task(o, stage, final, left, doomed, found, ps) ==
    [of |-> o, stage |-> stage, final |-> final, left |-> left, doomed |-> doomed, found |-> found,
     ports |-> ps]

\* What the reconcilers do on the host and in the PFC: an owner with a complete
\* interface here gets gateways to the endpoints reps, a LoadBalancer's are
\* removed as far as its tunnel map still has them.  Of the addresses only the
\* public one has open ports, which are opened and closed one by one: those the
\* spec had when it was read.
HasProxy(o) == o \in listed
configureServices(o, reps) == gateways \cup ({o} \X reps)
cleanupPFC(o) == IF Kind[o] = "LoadBalancer" THEN gateways \ ({o} \X written[o]) ELSE gateways
AddIpsetEntry(o, ps) == ipset \cup ({o} \X ps)
DelIpsetEntry(o, pool, ps) == IF pool = "public" THEN ipset \ ({o} \X ps) ELSE ipset
AddMultusRoutes(o) == routes \cup RoutesOf(o)

SkipOwner(o) ==
    /\ o \in ownerQueue /\ job[Kind[o]] = Idle
    /\ owners[o] = "gone"
    /\ ownerQueue' = ownerQueue \ {o}
    /\ UNCHANGED <<objects, endpointVars, node, podQueue, prefixQueue, jobs, counters>>

\* Mutant: without a pod here there is nothing to do.
ReconcileListed(o) ==
    /\ o \in ownerQueue /\ job[Kind[o]] = Idle
    /\ Live(o)
    /\ guarded' = guarded \cup {o}
    /\ Do(o, IF HasProxy(o) THEN Task(o, "setup", FALSE, <<>>, {}, endpoints[o], ports[o]) ELSE Idle)
    /\ ownerQueue' = ownerQueue \ {o}
    /\ UNCHANGED <<owners, listed, pods, specs, endpointVars, node, podQueue, prefixQueue, podJob, counters>>

\* A live owner gets the finalizer.  Its spec and endpoints are read once.
BeginReconcile(o) ==
    /\ o \in ownerQueue /\ job[Kind[o]] = Idle
    /\ Live(o)
    /\ guarded' = guarded \cup {o}
    /\ Do(o, IF HasProxy(o) THEN Task(o, "setup", FALSE, <<>>, {}, endpoints[o], ports[o])
             ELSE Task(o, "list", FALSE, Pools[o], {}, {}, ports[o]))
    /\ Mark(If(endpoints[o] # written[o], "overtaken nudge"))
    /\ ownerQueue' = ownerQueue \ {o}
    /\ UNCHANGED <<owners, listed, pods, specs, endpointVars, node, podQueue, prefixQueue, podJob,
                   changes, faults>>

\* Mutant: the gateways are set up when the ports are opened, and not again.
SetUpPortsOnly(o) ==
    /\ Busy(o, "setup")
    /\ Do(o, Idle)
    /\ ipset' = AddIpsetEntry(o, job[Kind[o]].ports)
    /\ gateways' = IF \E p \in Ports : <<o, p>> \in ipset THEN gateways
                   ELSE configureServices(o, job[Kind[o]].found)
    /\ UNCHANGED <<objects, endpointVars, routes, bridge, queues, podJob, counters>>

\* With a pod here: configureTunnel(), configureService(), AddIpsetEntry().
SetUp(o) ==
    /\ Busy(o, "setup")
    /\ Do(o, Idle)
    /\ \/ /\ gateways' = configureServices(o, job[Kind[o]].found)
          /\ ipset' = AddIpsetEntry(o, job[Kind[o]].ports)
          /\ UNCHANGED <<faults, disturbed>>
       \/ /\ Faulty /\ Mark({"failed command"})
          /\ UNCHANGED <<gateways, ipset>>
    /\ UNCHANGED <<objects, endpointVars, routes, bridge, queues, podJob, changes>>

\* Mutant: the alt address is forgotten.
CleanUpPublic(o) ==
    /\ o \in ownerQueue /\ job[Kind[o]] = Idle
    /\ owners[o] = "deleting"
    /\ Do(o, Task(o, "list", TRUE, <<"public">>, {}, {}, ports[o]))
    /\ ownerQueue' = ownerQueue \ {o}
    /\ UNCHANGED <<objects, endpointVars, node, podQueue, prefixQueue, podJob, counters>>

\* An owner that is being deleted: cleanupPFC() if it is a LoadBalancer, and
\* cleanupLinux() for each address.
BeginCleanup(o) ==
    /\ o \in ownerQueue /\ job[Kind[o]] = Idle
    /\ owners[o] = "deleting"
    /\ gateways' = cleanupPFC(o)
    /\ Do(o, Task(o, "list", TRUE, Pools[o], {}, {}, ports[o]))
    /\ ownerQueue' = ownerQueue \ {o}
    /\ UNCHANGED <<objects, endpointVars, routes, bridge, ipset, podQueue, prefixQueue, podJob, counters>>

\* RemoveMultusRoute(): does the list of GWProxies have another one, by its
\* name, that is not being deleted and whose public address has this route?
InUse(o, pool) ==
    \E other \in Owners : /\ Kind[other] = "GWProxy" /\ Name[other] # Name[o]
                          /\ Live(other)
                          /\ aggregateRoute(pool, Address(other, "public")) = Route(o, pool)

\* Others that have the route, and those of them that have a pod here.
Sharers(o, route) == {other \in Owners \ {o} : Live(other) /\ route \in RoutesOf(other)}
Users(o, route) == {other \in Sharers(o, route) : pods[other] = "ready"}

ListProxies(o) ==
    LET doing == job[Kind[o]]
        route == Route(o, Head(doing.left))
        inUse == InUse(o, Head(doing.left)) IN
    /\ Busy(o, "list")
    /\ Do(o, Task(o, "remove", doing.final, doing.left, IF inUse THEN {} ELSE {route}, {}, doing.ports))
    /\ Mark(If(inUse /\ Sharers(o, route) = {}, "kept route"))
    /\ UNCHANGED <<objects, endpointVars, node, queues, podJob, changes, faults>>

\* RouteDel(), then DelIpsetEntry(), which knows the public address only, and
\* the next pool or, if the owner is being deleted, its finalizer.
After(doing) == LET left == Tail(doing.left) IN
                IF left # <<>> THEN Task(doing.of, "list", doing.final, left, {}, {}, doing.ports)
                ELSE IF doing.final THEN Task(doing.of, "unguard", TRUE, <<>>, {}, {}, {}) ELSE Idle

\* Mutant: the ports stay open.
RemoveRouteOnly(o) ==
    LET doing == job[Kind[o]] IN
    /\ Busy(o, "remove")
    /\ Do(o, After(doing))
    /\ routes' = routes \ doing.doomed
    /\ UNCHANGED <<objects, endpointVars, bridge, ipset, gateways, queues, podJob, counters>>

\* Mutant: an owner without a pod here is tried again.
RemoveRouteAgain(o) ==
    LET doing == job[Kind[o]] IN
    /\ Busy(o, "remove")
    /\ Do(o, After(doing))
    /\ routes' = routes \ doing.doomed
    /\ ipset' = DelIpsetEntry(o, Head(doing.left), doing.ports)
    /\ ownerQueue' = IF doing.final THEN ownerQueue ELSE ownerQueue \cup {o}
    /\ UNCHANGED <<objects, endpointVars, bridge, gateways, podQueue, prefixQueue, podJob, counters>>

RemoveRoute(o) ==
    LET doing == job[Kind[o]]
        pool == Head(doing.left)
        users == UNION {Users(o, route) : route \in doing.doomed} IN
    /\ Busy(o, "remove")
    /\ Do(o, After(doing))
    /\ \/ /\ routes' = routes \ doing.doomed
          /\ ipset' = DelIpsetEntry(o, pool, doing.ports)
          /\ Mark(If(Live(o) /\ pods[o] = "ready", "unlisted pod")
                  \cup If(users # {}, IF InUse(o, pool) THEN "joined route" ELSE "overlooked user"))
          /\ UNCHANGED faults
       \/ /\ Faulty /\ Mark({"failed command"})
          /\ UNCHANGED <<routes, ipset>>
    /\ UNCHANGED <<objects, endpointVars, bridge, gateways, queues, podJob, changes>>

UnguardOwner(o) ==
    /\ Busy(o, "unguard")
    /\ Do(o, Idle)
    /\ guarded' = guarded \ {o}
    /\ owners' = [owners EXCEPT ![o] = "gone"]
    /\ UNCHANGED <<listed, pods, specs, endpointVars, node, queues, podJob, counters>>
-----------------------------------------------------------------------------
\* The reconciler of pods.  One of a LoadBalancer that is gone is tried again and
\* again, as long as it is there.

SkipPod(o) ==
    /\ o \in podQueue /\ podJob = Idle
    /\ \/ pods[o] \in {"none", "deleting"}
       \/ Kind[o] = "GWProxy" /\ owners[o] = "gone"
    /\ podQueue' = podQueue \ {o}
    /\ UNCHANGED <<objects, endpointVars, node, ownerQueue, prefixQueue, jobs, counters>>

\* The pod and its owner are read.  Whether the owner is being deleted does not
\* matter.
BeginPod(o) ==
    /\ o \in podQueue /\ podJob = Idle
    /\ pods[o] = "ready" /\ owners[o] \in {"live", "deleting"}
    /\ podQueue' = podQueue \ {o}
    /\ podJob' = o
    /\ UNCHANGED <<objects, endpointVars, node, ownerQueue, prefixQueue, job, counters>>

\* Mutant: a route that cannot be added yet is left out.
AddRoutesOnce(o) ==
    /\ podJob = o /\ podJob' = Idle
    /\ routes' = IF bridge THEN AddMultusRoutes(o) ELSE routes
    /\ UNCHANGED <<objects, endpointVars, bridge, ipset, gateways, queues, job, counters>>

\* Mutant: the bridge is not looked up.
AddRoutesAnywhere(o) ==
    /\ podJob = o /\ podJob' = Idle
    /\ routes' = AddMultusRoutes(o)
    /\ UNCHANGED <<objects, endpointVars, bridge, ipset, gateways, queues, job, counters>>

\* AddMultusRoute() for the alt and the public address, whatever has become of
\* the pod and its owner meanwhile, or an error as long as there is no bridge.
AddRoutes(o) ==
    /\ podJob = o /\ podJob' = Idle
    /\ IF bridge
       THEN /\ routes' = AddMultusRoutes(o)
            /\ Mark(If(~Live(o), "late pod"))
            /\ UNCHANGED podQueue
       ELSE /\ podQueue' = podQueue \cup {o}
            /\ UNCHANGED <<routes, disturbed>>
    /\ UNCHANGED <<objects, endpointVars, bridge, ipset, gateways, ownerQueue, prefixQueue, job,
                   changes, faults>>

\* The reconciler of prefixes: ConfigureBridge(), ipsetSetCheck().
ConfigureBridge ==
    /\ prefixQueue
    /\ prefixQueue' = FALSE
    /\ bridge' = TRUE
    /\ ipset' = {}
    /\ Mark(If(ipset # {}, "late flush"))
    /\ UNCHANGED <<objects, endpointVars, routes, gateways, ownerQueue, podQueue, jobs, changes, faults>>

\* The agent restarts: it empties the PFC's tables, and lists every object.
Restart ==
    /\ Faulty
    /\ gateways' = {}
    /\ endpoints' = written
    /\ ownerQueue' = {o \in Owners : owners[o] \in {"live", "deleting"}}
    /\ podQueue' = {o \in Owners : pods[o] = "ready"}
    /\ prefixQueue' = TRUE
    /\ job' = [k \in Kinds |-> Idle] /\ podJob' = Idle
    /\ UNCHANGED <<objects, written, routes, bridge, ipset, changes, disturbed>>
-----------------------------------------------------------------------------
OwnerStep(o) == \/ SkipOwner(o) \/ BeginReconcile(o) \/ SetUp(o) \/ BeginCleanup(o)
                \/ ListProxies(o) \/ RemoveRoute(o) \/ UnguardOwner(o)
PodStep(o) == SkipPod(o) \/ BeginPod(o) \/ AddRoutes(o)
Daemons(o) == \/ ListInterface(o) \/ EndPod(o) \/ SeeEndpoints(o)
              \/ DeletePod(o) /\ owners[o] = "gone"

Next == \/ \E o \in Owners : \/ CreateOwner(o) \/ DeleteOwner(o) \/ CreatePod(o) \/ DeletePod(o)
                             \/ \E e \in Endpoints : ChangeEndpoint(o, e)
                             \/ \E ps \in SUBSET Ports : ChangePorts(o, ps)
                             \/ Daemons(o)
                             \/ OwnerStep(o) \/ PodStep(o)
        \/ ChangePrefix \/ ConfigureBridge \/ Restart

Spec == Init /\ [][Next]_vars

\* What can be done is done, in whatever order: the workers, the informers, the
\* daemon, the controller-manager and the garbage collector do not stop, and the
\* reconciler of prefixes is not kept waiting for ever.  Users need do nothing, nor
\* need anything fail.
FairSpec == /\ Spec
            /\ WF_vars(/\ UNCHANGED <<changes, faults>>
                       /\ \E o \in Owners : OwnerStep(o) \/ PodStep(o) \/ Daemons(o))
            /\ WF_vars(ConfigureBridge)
-----------------------------------------------------------------------------
TypeOK ==
    /\ owners \in [Owners -> {"none", "live", "deleting", "gone"}]
    /\ pods \in [Owners -> {"none", "ready", "deleting"}]
    /\ guarded \subseteq {o \in Owners : owners[o] \in {"live", "deleting"}}
    /\ listed \subseteq Owners
    /\ ports \in [Owners -> SUBSET Ports] /\ dropped \subseteq Owners \X Ports
    /\ written \in [Owners -> SUBSET Endpoints] /\ endpoints \in [Owners -> SUBSET Endpoints]
    /\ routes \subseteq AllRoutes /\ bridge \in BOOLEAN /\ (routes # {} => bridge)
    /\ ipset \subseteq Owners \X Ports /\ gateways \subseteq Owners \X Endpoints
    /\ ownerQueue \subseteq Owners /\ podQueue \subseteq Owners /\ prefixQueue \in BOOLEAN
    /\ job \in [Kinds -> {Idle} \cup Tasks] /\ \A k \in Kinds : job[k] # Idle => Kind[job[k].of] = k
    /\ podJob \in {Idle} \cup Owners
    /\ changes \in 0 .. MaxChanges /\ faults \in 0 .. MaxFaults /\ disturbed \subseteq Disturbances

\* Nobody has anything to do, nor have the informers and daemons.
Quiet == /\ ownerQueue = {} /\ podQueue = {} /\ ~prefixQueue
         /\ podJob = Idle /\ \A k \in Kinds : job[k] = Idle
         /\ endpoints = written
         /\ \A o \in Owners : /\ pods[o] # "deleting" /\ ~Listable(o)
                              /\ owners[o] = "gone" => pods[o] # "ready"

Undisturbed(ds) == disturbed \cap ds = {}

\* Whenever the agent rests, every running pod's owner has its routes: nobody
\* who shares a route, or had no pod before, has taken it away, unless it did
\* so in one of the three ways named here.
PodsHaveRoutes ==
    Quiet /\ Undisturbed({"unlisted pod", "joined route", "overlooked user"}) =>
        \A o \in Owners : Live(o) /\ pods[o] = "ready" => RoutesOf(o) \subseteq routes

\* Whenever the agent rests, every route is one of an owner that is there: the
\* last of those that share it removes it, even when they are deleted together
\* and the agent restarts in between.
RoutesHaveOwners ==
    Quiet /\ Undisturbed({"late pod", "early delete", "kept route", "failed command"}) =>
        \A r \in routes : \E o \in Owners : Live(o) /\ r \in RoutesOf(o)

\* Port p of o is to be open: it is in the spec of an owner that the agent knows
\* a pod of on this node.
Exposed(o, p) == o \in listed /\ Live(o) /\ p \in ports[o]

\* Whenever the agent rests, the ports that are to be open are, unless they have
\* been flushed, and no others are except some that were once removed from their
\* owner's spec: DelIpsetEntry() goes through those that the spec has now.
PortsMatchPods ==
    Quiet /\ Undisturbed({"failed command"}) => \A o \in Owners, p \in Ports :
        /\ Exposed(o, p) /\ Undisturbed({"late flush"}) => <<o, p>> \in ipset
        /\ <<o, p>> \in ipset => Exposed(o, p) \/ <<o, p>> \in dropped

\* An owner goes only when the agent has closed its ports, even if it restarts
\* halfway: that is what its finalizer is for.  Only ports that were removed from
\* its spec stay open after it.
GonePortsClosed ==
    Undisturbed({"failed command"}) => \A o \in Owners, p \in Ports :
        <<o, p>> \in ipset \ dropped => owners[o] \in {"live", "deleting"}

\* Whenever the agent rests, a pod has a gateway to each endpoint, although a
\* restart empties the PFC and nudges race with what they are about.
PodsHaveGateways ==
    Quiet /\ Undisturbed({"overtaken nudge", "failed command"}) =>
        \A o \in listed : Live(o) => {o} \X written[o] \subseteq gateways

\* The agent comes to rest once users, pods and endpoints do.
ComesToRest == <>[]Quiet

\* Whenever the agent rests, a route that is aggregated for several owners is
\* there as long as one of them has a pod: a route is not removed "until *all*
\* of the IPs that depend on it are gone".
SharedRoutesStay ==
    Quiet /\ Undisturbed({"unlisted pod", "joined route"}) =>
        \A o \in Owners : Live(o) /\ pods[o] = "ready" => RoutesOf(o) \subseteq routes
=============================================================================

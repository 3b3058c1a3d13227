# Verification of the EPIC resource model

The repository is a Kubernetes operator. Custom resources describe load
balancers and Gateway API proxies; the operator gives them public addresses
and tunnel IDs, runs Envoy pods for them, renders Envoy's configuration, and
sets up addresses, routes and GUE tunnels on the nodes. This directory holds
TLA+ modules of the parts that allocate things, of how changes reach the
proxies and their nodes, and of how Envoy's routes are computed, the TLC
configurations that check them, and proofs with TLAPS of the safety properties
of most of them.

Paths below are relative to the repository's root.

## 1. Inventory

### 1.1 Processes

| process | code | state | runs |
|---|---|---|---|
| controller-manager | `cmd/controller_manager.go` | the address `Allocator`, in memory only; an informer cache of every kind it reads | the webhooks and the reconcilers of ServicePrefix, LoadBalancer, GWProxy, GWRoute, GWEndpointSlice, RemoteEndpoint, Pod and Namespace |
| node-agent | `cmd/node-agent.go` | none in memory; addresses, routes, ipset, bridges and PFC tunnels of its node | the "agent" reconcilers of the same kinds |
| ad-hoc agent | `cmd/adhoc-agent.go` | as above, on a client's node | the GWProxy ad-hoc reconciler |

All processes share the objects in the Kubernetes API server, and nothing
else. They write by `Update()` (optimistic locking on `resourceVersion`) or by
`Patch()` (no locking), and they read through a cache that follows the API
server with a delay. controller-runtime runs every reconciler in goroutines of
its own: one object is never reconciled by two calls of the same reconciler,
everything else interleaves. A reconcile that returns an error is queued again.
Webhooks are HTTP requests, each with its own goroutine.

### 1.2 Components

| component | state | operations | interactions | hard | what makes it correct |
|---|---|---|---|---|---|
| tunnel ID allocation (`api/v1/epic_types.go`, `controllers/remoteendpoint_controller.go`) | `CurrentTunnelID` of the EPIC singleton | `AllocateTunnelID`, `allocateTunnelID` | called by the Pod, GWProxy and RemoteEndpoint reconcilers | stale reads, conflicts, lost answers, two conventions for one counter, overflow | no ID twice; 0 never; every caller served |
| address allocator (`internal/allocator`) | pools by name; allocations by service | `AddPrefix`, `RemovePool`, `Assign`, `AllocateFromPool`, `Unassign` | called by three reconcilers and two webhooks, without a lock | replacing a pool in use, sharing keys, ports, ignored errors | exclusive unless shared; pools and allocations agree; nothing leaks |
| address ranges (`internal/allocator/iprange.go`) | none | `First`, `Next`, `Contains`, `Overlaps`, `Size` | used by the pools | carries and ends of ranges | enumerates each address once |
| address life cycle (webhooks, `serviceprefix_controller.go`, deletion in `loadbalancer_controller.go` and `gwproxy_controller.go`) | addresses in the specs of LoadBalancers and GWProxies | admission, warm-up, deletion | allocator and API server | restarts, warm-up while webhooks run, failed creations | addresses in service unique; all returned |
| ServicePrefix (`serviceprefix_controller.go`) | finalizer, netattachdef | reconcile, delete | allocator | ignored error, order of finalizer and pool | the pool goes with the prefix |
| LoadBalancer tunnels (`remoteendpoint_controller.go`, `pod_controller.go`, `loadbalancer_controller.go`) | `GUETunnelMaps`, `ProxyInterfaces` of a LoadBalancer's spec; finalizers | endpoint and pod creation and deletion | tunnel IDs, API server | read-modify-patch of one map by two reconcilers; deletion before readiness | one tunnel per node and client; none left over |
| GWProxy tunnels (`gwproxy_controller.go`, `pod_controller.go`, `api/v1/gwproxy_types.go`) | the same of a GWProxy | the same | slices and routes through nudges | a nudge lost; a parent changed | the map covers the active endpoints |
| route and slice nudges (`gwroute_controller.go`, `gwendpointslice_controller.go`) | labels, a nudge annotation | reconcile | GWProxy reconciler | deletion order | every change reaches its proxies |
| Envoy configuration (`internal/envoy`, `internal/contour`) | none | `GWProxyToEnvoyConfig`, `preprocessHTTPRoutes`, `sortRouteRules`, `combineRouteRules` | Marin3r EnvoyConfig objects | order and merging of rules | the most specific rule wins; none is lost |
| node agent (`*_agent_controller.go`, `internal/network`, `internal/pfc`) | a node's addresses, routes, ipset, tunnels; a finalizer per node | reconcile of each kind | status written by the controller-manager | missed deletions, flushes | what is configured is what exists |
| ad-hoc agent (`gwproxy_adhoc_controller.go`) | tunnels of a client | reconcile | status of the GWProxies | as above | as above |
| namespace bootstrap (`namespace_controller.go`) | seven objects of a user namespace, in the API server | reconcile | API server | partial creation, a namespace that goes meanwhile | all in the end |
| admission of other kinds (`api/v1/*_webhook.go`) | none | defaults, duplicate checks, `ProxyLimit` | cached lists | check against a stale list | limits hold |

`PROJECT.json` lists the same components with their status and, under
"hazards", the places where each of these difficulties bites.

## 2. Modules

| module | models | kind |
|---|---|---|
| `TunnelIDSpec` | the one counter that the tunnel ID functions share | abstract specification |
| `TunnelIDs` | both functions, the API server's copy of the EPIC object, the cache | detailed specification |
| `TunnelIDs_proofs` | | theorems |
| `LocalPool` | `localpool.go`, `pool.go`: a pool as a value | operators |
| `Leases` | the promise of an allocator of exclusive things | abstract specification |
| `AllocatorCalls` | `allocator.go` over `LocalPool`: its state and its calls | actions |
| `Allocator` | the calls made by anybody | detailed specification |
| `IPRange` | `iprange.go`: the arithmetic of ranges | operators |
| `PoolRanges` | `Allocator`'s pools over `IPRange` | composition |
| `MCAllocator` | their instances | model |
| `AllocatorCalls_proofs` | | lemmas about the calls |
| `Allocator_proofs` | | theorems |
| `AddressLifecycle` | webhooks and reconcilers over `AllocatorCalls` | composition |
| `MCLifecycle` | its instances | model |
| `AddressLifecycle_proofs` | | theorems |
| `ProxyTunnels` | the reconcilers of GWRoute, GWEndpointSlice and GWProxy, and the pods of a GWProxy | detailed specification |
| `MCTunnels` | its instances | model |
| `ProxyTunnels_proofs` | | theorems |
| `LBTunnels` | the reconcilers of RemoteEndpoints, of pods and of a LoadBalancer | detailed specification |
| `MCLBTunnels` | its instances | model |
| `LBTunnels_proofs` | | theorems |
| `NodeAgent` | the node agent's reconcilers and what they set up in the kernel and the PFC | detailed specification |
| `MCNodeAgent` | its instances | model |
| `NodeAgent_proofs` | | theorems |
| `GatewayRoutes` | `internal/envoy/resource.go`: from listeners and HTTP routes to rules and clusters | operators and a specification |
| `MCGatewayRoutes` | its instances | model |
| `GatewayRoutes_proofs` | | theorems |
| `Bootstrap` | `namespace_controller.go` | detailed specification |

Operators whose comment begins with "Mutant" are plausible bugs of the
definition they precede. They are used by no specification; each is there to
be put in its place, to see that a property notices.

### 2.1 TunnelIDs

`epic` is the object in the API server, `cache` the informer's copy, `held[c]`
the copy that caller `c` works on. `Get` answers from the cache; `Write` is
accepted only if the version is still the one read. A call is one
`RetryOnConflict` loop (`AllocateTunnelID`) or one loop of three tries
(`allocateTunnelID`); `tries` counts down, and a call that gives up is an error
of the reconcile, which is queued again. `CallFails` is an error of the API
server, before or after the write was applied: `AllocateTunnelID` gives up on
it, `allocateTunnelID` tries again whatever the error. `ForeignWrite` is
another writer, `Restart` a new controller-manager. `granted` counts what each
function has returned, `wrapped` remembers that the counter has overflowed.

The two functions use the counter differently: `AllocateTunnelID` returns it
and leaves the next value behind, `allocateTunnelID` leaves behind what it
returns. `return epic.Status.CurrentTunnelID, ...` in a function whose other
operand is a call is evaluated after that call by the gc compiler; both orders
give the same value, as no call changes the copy's counter.

`TunnelIDSpec` says what the two are together, in terms of what is returned only:
one counter that never goes back. An ID is above all that the same function has
returned and below none that the other has, so that IDs come in the order of the
calls whoever makes them. It leaves open no more than `tunnelids_mixed` shows to
happen: the last ID of one function may be returned by the other once more.

### 2.2 LocalPool, AllocatorCalls and Allocator

A pool is a record of three maps; a missing entry is `{}` or `Nil`. Addresses
are numbers in the order in which `Next` walks the range. `Release` is taken
as written: it deletes the sharing key whoever else uses the address, and of
the ports it deletes those of the *other* services. `Assign` in the allocator
takes any pool that contains the address, since `poolFor` walks a map.
`Install` is `assign()`: it releases, records, and ignores the pool's refusal.
`AllocatorCalls` has the calls and leaves open who makes them: in `Allocator`
anybody, with anything; in `AddressLifecycle` the webhooks and reconcilers.
A call is one step. The code has no lock, so two calls may overlap; see
section 7.

`AddPrefix` replaces a pool whether or not it is in use. `MayReset` says
whether an instance allows the second: with `MayReset = FALSE` a prefix is
added again only when nothing is allocated from it, which is what the code
does at the first reconcile of a prefix.

`IPRange` takes addresses as sequences of bytes, with the number of a byte's
values and of an address's bytes as constants, so that small bytes carry and
overflow as large ones do. `PoolRanges` reads the addresses of a pool, which are
numbers, as such sequences: their bytes are their digits (`Bytes`, with the powers
of `IPRange`), a pool's range begins and ends with its lowest and highest address,
and `AssignNext` is the loop of `localpool.go:102`. `RangesAssumption` says that the
sets of addresses given to `AddPrefix` are ranges that `NewIPRange` makes, and
`WidthAssumption` that addresses have no more than `Length` bytes.

### 2.3 AddressLifecycle

Objects go through `absent`, `defaulting` (a proxy that has its public address
and not yet its alt address), `defaulted`, `live`, `deleting`, `freed` (address
returned, finalizer not yet removed). The reconcile of the ServicePrefix goes
through `AddPrefix` (`StartReconcile`), the lists of LoadBalancers and of
proxies (`ListLBs`, `ListProxies`), the assignments (`WarmUp`, one step each)
and its end. `Restart` empties the allocator.

What an object is called is part of the model: `FullName`, `AltName` (with a
suffix) and `WarmName`, the last being the bare name for a LoadBalancer.

A *world* fixes which objects there may be, the prefix's ranges, and which
disturbances happen: creations during the reconcile of the prefix, deletions
during it, a repeated reconcile, restarts, restarts in the middle of a
deletion, and creations that fail after `Default`. The code is right in some
worlds and wrong in others. `GoodWorld` says in which it is right: `lifecycle_good`
checks three of them (`MCLifecycle` asserts that they are such worlds), and the
theorems are about all of them.

### 2.4 ProxyTunnels

`queue` is the union of the work queues. Users' changes are steps when they
reach the informer cache, so `routes` and `slices` are cached; for the proxies,
which the reconcilers write, `proxies` is the API server's copy, `seen` the
cached one, and `news` says that they may differ or that a version with only
another annotation is on its way. The reconcile of a route or slice is one step
up to its first nudge and one step for each nudge (`nudging` is what is left to
do); that of a proxy is one step for each access to the API: `GetProxy`,
`ListEndpoints`, `Patch`, `ListChildRoutes`, `WriteEnvoyConfig`. Each may fail,
and the object is queued again; `Restart` loses all calls and queues everything.

A tunnel has two ends and an ID. `ListEndpoints` keeps those of the copy that was read
and gives the missing ones new IDs (`Fresh`: IDs that nobody holds, not even a patch
to come; that they are unique is `TunnelIDs`' matter). `Patch` replaces the whole map
by the result, whoever has written the proxy since. Also a map with the same ends and
other IDs is a new version, which queues the proxy once more. The conflict of
`RemoveProxyInfo` is a guard (`p \notin news`): its `Update()` succeeds only from the
current version. The two lists of `ActiveProxyEndpoints` are one step. Proxies exist
throughout, and a slice keeps its cluster. The patch of `addProxyTunnels` for a new
pod has no effect (its content is under a key `proxy`, `pod_controller.go:251`) and is
left out, and so is the error of a JSON patch that is to remove a map which an
`Update()` has emptied meanwhile: the reconcile fails, as it may anyhow.

Four *disturbances* are known to leave a proxy behind: a route that drops a
parent ("reparent"), a route deleted before it has a finalizer ("early
delete"), a nudge that fails after the finalizer is removed ("lost nudge"), and
the deletion of a slice. `Allowed` says which of them happen, `disturbed`
whether one has.

### 2.5 LBTunnels

A LoadBalancer has no reconciler that computes its tunnel map anew. The
reconciler of RemoteEndpoints reads the LoadBalancer (`GetLBForEndpoint`) and
patches in the tunnels of one endpoint (`AddEndpointTunnels`); that of pods does
the same for one pod (`GetLBForPod`, `AddPodTunnels`); each works on the copy it
read, and a merge patch adds to whatever the API server has by then. `lb` is the
API server's copy, `seen` the informer's. The map is `nodes` (its keys) and
`tunnels` (pairs of nodes). An endpoint's deletion is `RemoveRepInfo`, which an
`Update()` from a stale copy or any error makes a lost removal, and
`UnguardEndpoint`. `ReconcileLB` reads the LoadBalancer and `CreateDeployment`
or `UpdateDeployment` writes what was read. `ListInterface` is the
setup-network daemon, `CollectGarbage` the garbage collector. Each reconciler
has one worker; calls fail and the process restarts anywhere between.

Five *disturbances* are steps after which a map is known to be wrong: each is
recorded in `disturbed` by the step that it is, and each property names those it
does not hold after. `PairsHaveTunnels`, for one, says that missing tunnels
are all due to a patch that a reconciler made without having seen what the other
was adding or removing. The last, "missed removal", takes two pods on one host:
the first pod's tunnel from a client node is in the copy of the second one's
reconcile, and goes with the node's only endpoint before that reconcile patches
nothing; the endpoint that comes next has read a LoadBalancer without the second
pod. The instance of `lb_tunnels` has one pod and cannot reach it; the proof of
section 5 could not do without it, and TLC shows it on an instance with two pods
and six changes.

### 2.6 NodeAgent

An *owner* is a GWProxy or a LoadBalancer of one service prefix. The owner's
reconciler is `BeginReconcile` (finalizer, endpoints, is there a pod here?),
then either `SetUp` or, for each pool, `ListProxies` and `RemoveRoute`; when the
owner is being deleted, `BeginCleanup`, the same two, `UnguardOwner`. The list
and the removal are steps of their own, as the pod reconciler and
the other kind's worker run between them. The pod reconciler reads the pod and its
owner (`BeginPod`) and adds the routes later (`AddRoutes`); between the two the owner
may be cleaned up ("late pod"). `ConfigureBridge` is the ServicePrefix
reconciler: it flushes the ipset tables. `Restart` empties the PFC and leaves
routes, bridge and ipset.

The state of the node is `routes`, `bridge`, `ipset` and `gateways`. `ipset` has an
entry for each owner and open port. A reconcile opens and closes the ports that the
spec had when it was read (`ports`), one by one as `AddIpsetEntry` and
`DelIpsetEntry` do; `ChangePorts` is an update of the spec. `dropped` remembers which
ports were once removed from an owner's spec, as nobody closes those. Gateways are
told apart by owner and endpoint, and not by the interface of the owner's one pod
here. Routes are values of `aggregateRoute`: with the default aggregation the addresses of a
pool share one. `RemoveRoute` may fail without anybody's notice
("failed command"): a script's error is lost, and the finalizer removed all
the same. As in 2.5 a property names the disturbances it
does not hold after; nine kinds are told apart, at most `MaxDisturbed` of which
occur in a behaviour before nothing more is claimed of it.

### 2.7 GatewayRoutes

The operators are the functions of `resource.go` of the same names
(`combineRouteRules`, `sortRouteRules`, `ComputeHosts`, ...); the actions are
the three loops of `GWProxyToEnvoyConfig`: `routesToClusters`,
`preprocessRoutes` for each listener, `collapse` for each listener in the order
in which Go visits a map's keys, which is any, and `executeListenerTemplate`. A
host name is the sequence of its labels and a path that of its segments; a
match's headers and query parameters are sets of criteria; a rule has matches,
filters and backends. `sortRouteRules` is the insertion that
`sort.SliceStable` does on lists of at most 20: since `Less` is no strict weak
order, the algorithm matters and a mere "sorted by" would not do. `Hosts`,
`Match`, `Rule` and `Route` say what routes are made of, for the proofs; a list of
routes that is a part of `routes` is the set of their positions. The
specification of the result is stated apart from the algorithm: `RulesComplete` with
a reading of wildcards of its own (`Stands`, `Under`) and with what Envoy does with
the result. Each host name becomes the domain of a virtual host
(`resource.go:605`), and for a request Envoy takes one virtual host only, that of the
most specific domain (`Closest`), and refuses a configuration where a domain appears
twice (`NoneTwice`). The templates, which are text in the EPIC objects, are assumed to
do as that comment intends.

### 2.8 Bootstrap

`Begin` has read the namespace (`seen`) and the configuration, `maybeCreate` is
one of the seven creations, in the order of `Manifests`. An error ends the
reconcile and queues the namespace again. Objects are told apart by kind and
namespace; `EndNamespace` takes them along, all but the ClusterRoleBinding.

## 3. Runs

| run | distinct states | shows |
|---|---|---|
| `tunnelids_both` | 686,771 | see below |
| `tunnelids_mixed` | violation | an ID returned twice |
| `allocator_exclusive` | 127,708 | see below |
| `allocator_reset` | 98,321 | see below |
| `lifecycle_good` | 12,485 | see below |
| `lifecycle_window` | violation | creation during the warm-up |
| `tunnels_good` | 872,734 | see below |
| `lb_tunnels` | 822,652 | see below |
| `node_agent` | 983,305 | see below |
| `node_agent_shared` | violation | a GWProxy removes a LoadBalancer's route |
| `gateway_routes` | 220,168 | see below |
| `bootstrap` | 112,624 | see below |

**tunnelids_both.** Two callers of `AllocateTunnelID` and one of `allocateTunnelID`,
two IDs each, six counter values so that the counter overflows, one fault.
`UniquePerFunction`: no function repeats itself before the overflow. `OneCounter`
(refinement of `TunnelIDSpec` by both functions together): what the callers of either
are told never goes back, and only the last ID of the other function may come once
more. `VersionsIdentify`: a copy with the current version has the current counter.
`ZeroNeverReturned` also across the overflow. `EveryoneServed`: liveness, under the
fairness of section 4. Fewer than six values would never let the counter stand at a
value that both functions have passed; three callers are the fewest with a conflict
within one function and one between the two. The real numbers of tries (5 and 3) only
lengthen a call. No deadlock check: the system stops when everybody has been served.

**tunnelids_mixed.** One caller of each, no fault at all. p1 is given 1 and
leaves 2; r1 adds one and is given 3, leaving 3; p1 is given 3. The comment
"the returned ID will be unique" (`api/v1/epic_types.go:167`) and README.md:20
say otherwise.

**allocator_exclusive.** Three services, two ports, nobody shares, main range of two
addresses, alt range of one, or malformed ones. `Agreement` (a pool's users of an
address are the services it is allocated to), `ImplementsLeases` (refinement: no
service has another's address). Three services are one more than the pool has
addresses. `RangesWalked`: whatever is in use, `AssignNext` through the range ends
with the first address that is free, or behind the last, and a pool's capacity is the
number of its addresses (0 if it has all that the lower half of the bytes can tell
apart). Addresses have six bytes of one bit each: from 3 to 4 a carry passes two of
them, and 5 is a range of one address, written as a CIDR.

**allocator_reset.** A sharing key and one port, pools replaced in use.
`NoGhostUsers`, `NoLeak`: even then no service counts as a user of an address
it does not have, and an address allocated to nobody can be had by everybody.

**lifecycle_good.** Three worlds: proxies of a plain range with restarts and
repeated reconciles; both kinds, alt addresses, an address from outside the
range asked for by its creator, restarts and failed creations; and the same
with creations during the first reconcile. `UniqueAddresses`, `LiveKnown`,
`AddressesReturned`. Two addresses and up to three objects make every
allocation contended; the proxy of the same name in another namespace tells
full names from bare ones.

**lifecycle_window.** A prefix is reconciled again or after a restart. Between
`AddPrefix`, which installs an empty pool, and the last `Assign` the webhooks
allocate from that pool, and the address of a live proxy is given to a new one.

**tunnels_good.** One proxy, one route, one slice, two pods on one node, three changes
and one fault, all disturbances. `NothingForgotten`: until one of them occurs, proxies
are up to date whenever nobody has anything to do, although lists and copies are stale
when used and calls fail halfway. `TunnelsLeadToPods`, even after disturbances.
`StaysUpToDate`: liveness, under the fairness of section 4; once users and pods rest,
proxies come to be up to date and stay so. `RestsOrExchangesIDs`: the reconcilers come
to rest, unless two reconciles of the proxy exchange the IDs of its tunnels for ever,
which the code does not exclude (see below). Three changes let a route, a slice and a
pod change in every order around one reconcile of the proxy; pods may run from the
start. Two IDs are enough: the instance has one pair of nodes, the copy that is read
and the patch that is made from an older one have one each, and an ID that nobody
holds any more is new again; an allocation that finds both in use waits for the cache.
Two pods of one node make `RemoveProxyInfo` keep a node that the other still needs. No
deadlock check: the system stops when it is at rest.

**lb_tunnels.** Two endpoints on one client node and an ad-hoc one, one pod,
four changes by users or the Deployment, one fault. Two endpoints of a node are
the fewest for which the removal of one must keep the node for the other. The
rest is about the pod and an endpoint that do not see each other
(`PairsHaveTunnels`), removals that conflict or come too late
(`NodesHaveEndpoints`), finalizers (`OnlyAdHocStay`), overtaking reconciles of
the LoadBalancer (`DeploymentFollows`) and its deletion at any point
(`NothingOutlivesLB`). Four changes let an endpoint and the pod come, and one of
them, the ports or the LoadBalancer go or change, in every order.
`ComesToRest`: liveness. No deadlock check: the system stops when it is at rest.

**node_agent.** A GWProxy with an alt address and a LoadBalancer, aggregated to the
subnets of their pools, of which they share the public one; one endpoint, two changes,
one fault, one disturbance. The agent may start where both are in place, so that two
changes are two beyond that. `PodsHaveRoutes`, `RoutesHaveOwners`, `PortsMatchPods`,
`PodsHaveGateways`: whenever the agent rests, what is set up is what exists, but for
ports that were once removed from their owner's spec. `GonePortsClosed`: always. One
port, the proxy's at first, that comes and goes with either owner is enough, as ports
are opened and closed one by one and nothing looks at two of them; the theorems are
about any number. `ComesToRest`: liveness; an owner without a pod, a restart or a
flush must not keep the reconcilers busy. No deadlock check, as above.

**node_agent_shared.** The same instance without faults, with the property as the comment at
`api/v1/serviceprefix_types.go:130` states it. A LoadBalancer's pod has the
aggregated route; a GWProxy of the prefix is created and its reconcile, which
finds no pod here, lists the GWProxies only (`serviceprefix_types.go:153`) and
removes the route.

**gateway_routes.** All gateways of up to four listeners (three on one port, of
two protocols, with nested wildcards), lists of up to three rules of eight kinds
(584 lists), and 200 pairs of
routes whose host names and listeners overlap. `RulesComplete`: what a request finds
in the virtual host that Envoy takes is every match and backend of the routes that
have its host name by the most specific domain, and nothing else, and each backend
has a cluster. Of {`*.a`} and {`x.a`} on one listener a request for `x.a` finds the
second's rules only, and one for `y.a` the first's. This is said of each listener as it
was declared and, after `collapse`, of those that are served together, where no
domain appears twice. `RulesReached`: a rule is hidden behind an
earlier one never by the catch-all, and never in lists of path prefixes.
`RoutesServed`: each listener is served among compatible ones, in whatever order
the map is visited. Three rules are the
fewest on which an order that is not transitive goes wrong. No deadlock check:
a computation ends.

**bootstrap.** Two namespaces, three changes, one fault. `EveryNamespaceServed`:
liveness; a user namespace has its seven objects in the end, although the EPIC
object comes late, a call fails after it was applied, the process restarts, or
the namespace is deleted under the worker's hands and made again. Two namespaces
share the one ClusterRoleBinding and the one worker. No deadlock check, as above.

### Disagreements seen while modelling and not run

- A deleted slice nudges nobody (a FIXME at `gwendpointslice_controller.go:60`
  says so), and a parent that a route no longer has is not nudged: "delete slice"
  and "reparent" above. "early delete" is the same for a route whose first
  reconcile has not begun.
- A pod that goes before the cached proxy lists it stays listed in
  `ProxyInterfaces`; `RemoveProxyInfo` does nothing and the finalizer goes.
- `CurrentTunnelID` is documented as the most recently allocated ID
  (`api/v1/epic_types.go:102`, README.md:40). After `AllocateTunnelID` it is the
  next one.
- `localpool.go:28` relies on a `config.Parse` that the repository does not
  have; overlapping prefixes are accepted, and `IPRange.Overlaps` misses a range
  inside another.
- The alt address of a deleted proxy is never returned
  (`gwproxy_controller.go:95` unassigns the full name only). This is why
  `AddressesReturned` speaks of ranges without alt.
- A failed creation keeps its address under its name; after another reconcile
  of the prefix the address may be given to somebody else and to the retry.
- A LoadBalancer and a GWProxy of one namespaced name are one service to the
  allocator.
- An address that a creator specifies is not taken from the allocator.
- A deletion that overlaps even the first reconcile of a prefix may have its
  address assigned again from the list, in the name of the object's successor.
- A proxy is deleted, its address returned and given to another; before the
  finalizer is removed the controller-manager restarts. The warm-up lists both
  and assigns the address to whichever comes first; if that is the deleted one,
  its second `Unassign` makes the address of a live proxy available.
- LoadBalancers `n/x` and `m/x` are both warmed up as `x`
  (`serviceprefix_controller.go:112`); the second assignment releases the
  address of the first.

- Where a prefix is reconciled again, a LoadBalancer leaves its address behind:
  it was warmed up by its bare name and returns by its full one
  (`loadbalancer_controller.go:74`). After a restart besides, what is left
  behind makes an address in use available.

In `AddressLifecycle` the last eight happen in worlds that `GoodWorld` excludes.
None of its exclusions can be spared: TLC finds, for each, a world excluded by
it alone in which one of the three properties fails. Most break
`UniqueAddresses`: a repeated reconcile with alt addresses or with failed
creations; admissions during one reconcile of several; a deletion overtaken by a
restart; namesakes; a requested address inside the range. LoadBalancers with a
repeated reconcile break `AddressesReturned`.

Of the allocator:

- `Release` deletes the sharing key whoever else uses the address
  (`localpool.go:138`), after which the address counts as free. No caller in the
  repository passes a sharing key, so that this is not reached; the theorems
  that need it assume that nobody shares.
- `Release` deletes the ports of the other services (`localpool.go:143`): a
  later user of the address without ports is refused a port nobody has.
- `IPRange.Size` of a full /64 is 0, where the comment promises `MaxUint64`; a
  CIDR of length 0 is searched for its last address for ever.
- `parseFromTo` (`iprange.go:129`) accepts a range whose end is before its begin. Its
  pool contains no address, but `AssignNext` gives out the first one unseen. Hence
  the hypothesis `NoneReversed` of `RangesWalkedHolds`.

Of tunnels:

- A nudge that fails after a deleted route's finalizer was removed
  (`gwroute_controller.go:67`) is not repeated, as the retry finds no route:
  "lost nudge" above.
- `allocateProxyTunnels` copies the tunnels, with their IDs, from the proxy as it was
  read (`gwproxy_controller.go:330`) and replaces the map by them later (`:351`). A
  reconcile that read the proxy before its predecessor's patch reached the cache
  allocates other IDs for the same tunnels, or puts back older ones. Its patch is a
  new version, for which the proxy is queued, and if the cache is always one patch
  late two sets of IDs are exchanged without end.
- `removeRepInfo` keeps an error to itself until the finalizer is gone, when
  nothing is left to retry: "lost removal". An ad-hoc RemoteEndpoint that is
  deleted keeps its finalizer for ever (`remoteendpoint_controller.go:48`), which
  `OnlyAdHocStay` says.
- `RemovePodInfo` looks for a GWProxy whatever the pod belongs to
  (`pod_controller.go:64`): a LoadBalancer goes on listing pods that are gone.

Of the node agent:

- `RunScript` shadows the error it returns (`internal/exec/run_script.go:15`): a
  script that fails is logged and reported as a success, "failed command"
  above. And `cli_tunnel get || set` never changes an existing tunnel.
- Without the service group, prefix and account above it an owner that is being
  deleted keeps the agent's finalizer (`loadbalancer_agent_controller.go:60`).
- `DelIpsetEntry` closes the ports that the spec has now (`network.go:34`). A port
  that an update removes from the spec stays open, for a live owner and after it is
  gone, until the tables are flushed.
- The alt address has its route but no open ports; with "host" aggregation the
  alt route is compared with the other proxies' *public* addresses, and
  namesakes in other namespaces are skipped (`serviceprefix_types.go:160`).
- The deletion of a GWProxy leaves its PFC tunnels and gateways, and so does an
  endpoint that goes; `prebootNodeCleanup` is commented out (`node-agent.go:99`).

Of Envoy's configuration:

- The comment at `resource.go:712` gives an exact path the highest precedence;
  the code lets it go before a rule without path only, so that a prefix that
  comes first hides it. The comparison is not transitive either. `RulesReached`
  therefore promises no more than it does.
- With three or more listeners on one port, of which some are compatible,
  `collapse` may leave two compatible ones apart, as the order of the map has it.
- `collapse` appends the virtual hosts of one listener to those of another
  (`resource.go:498`), also if both have one of the same domain, which Envoy refuses.
  `RulesComplete` makes no claim of such listeners, and `RoutesServed` says which listeners
  are served together and not what of.
- A route with a wildcard name on a listener with a narrower wildcard is served
  for no host at all (`Narrows`). A route with a host name that is not valid, an IP
  address for one, makes the controller dereference nil (`Panics`).

Of the namespaces:

- The one ClusterRoleBinding binds the default account of the namespace that
  came first. Objects that are deleted are not made again before the next event
  of the namespace, and a change of the images in the EPIC object changes none.

## 4. Fairness

`TunnelIDs`, for `EveryoneServed`: weak
fairness of each caller's `Get`/`Update` and of `CacheSync`. A caller is a
goroutine of a reconciler; a call that failed is made again because the
reconcile returned an error and is queued again; the informer's watch delivers
every version in the end. Nothing is assumed of faults. Strong fairness is not
needed: a caller whose write conflicts with another's has lost to a caller that
got its ID, and the demand is bounded.

`ProxyTunnels`, for `StaysUpToDate` and `RestsOrExchangesIDs`: weak fairness of the
steps of each route's, slice's and proxy's reconcile, and of `Sync`. The queues'
workers take what is queued and run to the end; the watch delivers. Users, pods and
faults owe nothing, `RemoveProxyInfo` neither.

`LBTunnels`, for its `ComesToRest`: weak fairness of the workers, of the
informer, of the garbage collector, of the daemon once a pod is up and of the
kubelet once it is made. Users, deletions and faults owe nothing; faults are
bounded by `MaxFaults`.

`NodeAgent`, for its `ComesToRest`: weak fairness of all that the workers, the
informers and the daemons beside the agent do, taken together, and of
`ConfigureBridge`. Together, because none of it can go on for ever without the rest:
something that can be done is done, in whatever order, and that is enough. Without a
bridge, however, the reconcile of a pod is tried again and again, so that the
reconciler of prefixes, which has a worker of its own, must not be kept waiting. A
step that fails is none that is owed.

`Bootstrap`, for `EveryNamespaceServed`: weak fairness of `maybeCreate` and of
`Sync`, and strong fairness of a namespace's `Reconcile`. Strong, because the
one worker is in turn busy with the other namespace and each time disables it;
the work queue is first in, first out, and a failed call is put back in it.
The EPIC object may come and go; the property asks for it in the same state.

## 5. Proofs

All theorems hold for every value of the constants that the modules' named
assumptions admit.

`TunnelIDs_proofs`. The invariant `IInv` joins the types with two facts that
TLC's properties do not say: what a copy's version tells of its counter, for
the cache and every caller (`VersionsIdentify`, strengthened by "no copy is newer than the
object"), and, while the counter has not wrapped, an upper bound on what each
function has returned, in terms of the counter's present value. The bound is
what makes uniqueness inductive: a write that is accepted starts from the
current counter, so what it returns lies above everything its function has
returned. One lemma per action.

- `TypeCorrect`, `CompareAndSet`, `NoFunctionRepeatsItself`, `NeverZero`
- `FunctionsShareOneCounter`: both functions together implement `TunnelIDSpec`; the
  bound above is on both, and what a write returns is above it, or the other
  function's last
- `OneFunctionUnique`: were only one function used, all IDs would be unique;
  `tunnelids_mixed` shows that the assumption is needed

`AllocatorCalls_proofs`: what each call does to the allocator, for whoever makes
it. `CallsInv`, which every call keeps, is: types, no ghost users, and "an address
with a key has a user". `InstallGains`, `AllocateGains`, `AssignGains` and
`UnassignLoses` say what else may be different after a call: the service has
the address and the pool knows, and nobody else has lost anything. There
are no theorems, as there is no specification: the next two modules extend this one
and cite its lemmas.

`Allocator_proofs`. Three invariants: `CallsInv`;
`AInv` adds `Agreement`; `EInv` adds, for
services that do not share, that a pool in use exists, that an address in use
has a key, and that no address has two users.

- `TypeCorrect`, `NoGhosts`, `NothingLeaks`, without assumptions
- `NextIsBehind`, `AssignNextFindsFirst`, about `IPRange` and the loop of
  `AssignNext`, for bytes and addresses of any width; the second also for ranges given
  the wrong way round
- `RangesWalkedHolds`, if no range is: whatever is in use, the loop through a pool's
  range ends with the first free address, and the capacity is right
- `HalvesAgree`, if no pool is replaced in use
- `AllocatorLeases`, if besides nobody shares, which is needed:
  see `Release` under the disagreements

The loop of `AssignNext` is a recursive function of the address it stands at. That
there is one is shown by giving what it ends with (`End`); that there is
no other by looking at the last address on which two would differ, which has none
behind it to differ on. `LeastNumber` and, through it, `FirstAddress` and
`LastAddress` take the place of induction, and `IncIsNext` is about the carry.

`RangesWalkedHolds` carries that over to the numbers of `PoolRanges`. An induction up
to a given length is a statement about a set of numbers (`UpTo`, from the least
element of those outside). `Head` is what the first bytes of an address are worth:
`HeadFacts` and `SameHead` relate it to the bytes, so that numbers are ordered as
`bytes.Compare` orders their bytes (`BytesOrder`). `toInt` keeps only what a uint64
holds, which is the number modulo `Half` (`ToIntIsNumber`); the ends of a range of one
upper half differ by less than `Half`, so that only a full one is counted as 0
(`SizeOfRange`). Every pool keeps one of the ranges that were specified
(`PoolsHaveRanges`), which `RangeOf` finds again (`RangeOfFacts`).

`AddressLifecycle_proofs`, for all objects and ranges and any number of restarts
and reconciles, in the worlds of `GoodWorld`. That addresses are unique rests on
`FreeIsNobodys`: an address that a pool takes for free is used by no object.
Hence the conjuncts `UsedIsTaken`, what an object uses its pool knows of, and
`HoldersOwn`, whoever has the address is that object under one of its names.
Neither holds while the prefix is reconciled, when the pools are empty; `Awaiting`
is what the reconcile is *yet to tell* the allocator, and makes up for it.
`HeldIsTaken` is the same for what services hold: it is why an `Assign` of the
warm-up, which releases what the service held, frees nothing that somebody uses.
`HeldIsUsed` is about orderly worlds, and is what remains of `AddressesReturned`
while objects come and go. The steps fall into seven classes by what they do to
the five conjuncts of `Core` (`KeepStep`, `TakesStep`, `LosesStep`, `AssignStep`,
`RefuseStep`, `StartStep`, `RestartStep`), and each action is shown to be of one.

- `Invariant`, `AddressesUnique`, `AllocatorKnows`, `DeletedReturn`: in good worlds
- `TypesKept`: in all worlds, by an invariant of its own
- Found by it: what the worlds in which the code is right have in common, which
  is now `GoodWorld`; before, they were known by three examples.

The next three have one form. A property speaks of the time when all reconcilers
rest, which no single step preserves; the invariant `IInv` speaks of the time
before, and says of everything that is not yet as it will be *who is still to see
to it*: it is queued, in the hands of a worker, or on its way to the cache. With
empty queues and idle workers that leaves the property. Each conjunct is an
invariant of its own with a lemma `...Step` that goes through the actions which
can disturb it, and each was checked with TLC on the run's instance before.

`LBTunnels_proofs`, for all endpoints, pods, nodes, ports and placements, and any
number of changes and faults. `CacheLags`: the cached LoadBalancer is never
ahead. `RemovalsDue`, `PodsDue`, `DeploymentDue`, `NodesDue`, `TunnelsDue`: who is
yet to see to a removal, a pod, the Deployment, a node, a tunnel. `NodesUsed`: a
node in the map has an endpoint that is yet to remove it.

- `TypeCorrect`, `PairsHaveTunnelsHolds`, `NodesHaveEndpointsHolds`,
  `OnlyAdHocStayHolds`, `DeploymentFollowsHolds`, `NothingOutlivesLBHolds`
- Found by it: `TunnelsDue` was not inductive for two pods of one host, which is
  how "missed removal" came to be known.

`NodeAgent_proofs`, for all owners, pools, aggregations and endpoints.
`JobsMakeSense` and `ReadsAreFresh` say what a worker's task still tells of its
owner: what has changed since it was read has queued the owner once more.
`PortsGuarded` makes `GonePortsClosed` inductive, for each port by itself: an owner
with a port open that was never removed from its spec has the finalizer, and work on
it has not passed the public address and knows the port; `PortsKnown` says that what is
open is in the spec, or was. `RoutesOwned`
says that each route has an owner who lives, or is being deleted and has the route
among those its cleanup is yet to look at; with "host" aggregation and two pools
this is a statement about what is left of a list.

- `TypeCorrect`, `PodsHaveRoutesHolds`, `RoutesHaveOwnersHolds`,
  `PortsMatchPodsHolds`, `GonePortsClosedHolds`, `PodsHaveGatewaysHolds`
- `SharedRoutesKept`: the promise that `node_agent_shared` refutes would be kept if
  those who share a route were proxies of different names. So the disagreement has two
  causes and no third: the list has no LoadBalancers, and it leaves out namesakes in
  other namespaces with the proxy itself. `DoomedIsNext` says that what is to be removed
  is the route that was looked at, and `NoneOverlooked` is then inductive.

`ProxyTunnels_proofs`, for all proxies, routes, slices and pods, however they are
bound. `Remembered`: each proxy is *due*, being queued, behind the cache, or about
to be nudged by a route or slice that is queued or nudging, or it is *current*:
what its reconcile has found out so far, or has written, is what it would find
out now. `ParentsStay` and `SlicesStay` say what the absence of disturbances
gives. `PodsRemembered` is the part that holds even after disturbances.

- `TypeCorrect`, `NothingForgottenHolds`, `TunnelsLeadToPodsHolds`; both are about
  the ends of tunnels, whatever their IDs

`GatewayRoutes_proofs`, for all listeners, all lists of routes and every order in
which `collapse` visits the listeners. `Apart` is the heart of `RoutesServed`: two
compatible listeners are left apart only if a third is not compatible with them.
It is inductive because `compatibleListeners` is an equivalence
(`CompatibleIsEquivalence`): whatever made the listener stay is incompatible with
its equals too.

The rules are a matter of functions on lists, which are folds. The library's
induction is over operators, which the provers cannot instantiate; but an
induction up to a given length is a statement about a set of numbers (`UpTo`, from
the least element of those outside), and so the folds can be followed from
their beginnings: `FoldExists` and `UpToIsNew` make a fold's value known, and its
invariant is the set.

- `RulesCompleteHolds`: `SplitKeeps`, `CombineKeeps` and `SortKeeps` say that
  splitting, combining and sorting keep the cases; `CommonStands` compares
  `ComputeHosts` with `Stands`, label by label; `HostsServed` shows that a listener has
  a domain of a route just where `Under` has it; `Preprocessed` is the invariant that
  ties the rules of each listener to the routes. After `collapse` the same is said of the
  union of the listeners, where no domain belongs to two of them.
- `RulesReachedHolds`: the comparison is not transitive, so that the outcome is
  not sorted by it, but three relations hold of each earlier and later rule of the
  outcome: they differ by more than their backends (`Differ`), behind a catch-all
  are catch-alls only (`CatchallsLast`), and where all are bare prefixes none is
  behind a shorter (`LongestFirst`). Each is kept by an insertion
  (`InsertingKeeps`). For lists of more than 20 rules, which Go sorts in blocks, the
  theorem says nothing of the code.
- `TypeCorrect`, `RoutesServedHolds`

The assumptions are those of the modules: the kinds of objects have different
names, `Nil`, `Idle` and `None` are no records, no addresses and no services,
every name an object goes by is a service, a node is not "ad-hoc", bounds are
numbers. None limits how many objects there are or how they are placed.

Some theorems have hypotheses besides: `GoodWorld`, one tunnel ID function only,
nobody shares, no pool is replaced in use, `NoneReversed`, `SharersListed`. Each is
needed: a run or a disagreement shows what happens without it. Most are met by the
instances of section 3; the last is met where addresses are not aggregated, and where
a prefix has proxies only and no two of one name.

Every safety property that a run checks is also proved. Model-checked only is
liveness (`EveryoneServed`, `StaysUpToDate`, `RestsOrExchangesIDs`,
`EveryNamespaceServed`, the two `ComesToRest`), which is out of the prover's reach.

## 6. Plan

What comes next, in this order.

1. The life of a ServicePrefix, with its pool and netattachdef; the creation and
   deletion of GWProxies composed with `ProxyTunnels`.

## 7. Not modelled

- Overlapping calls of the allocator. Its maps have no lock; Go may stop the
  program on a concurrent write, and two overlapping allocations may both see an
  address as free. A step here is a whole call.
- Staleness of the cache in `AddressLifecycle`: lists are current.
- The metrics of `internal/allocator/stats.go`, templates, labels, DNS names,
  and what the scripts and netlink calls do inside the kernel.
- The deletion of a ServicePrefix, whose finalizer goes before its pool.
- In `ProxyTunnels`: creation and deletion of proxies, `kludgeProxy`, the
  deployment, conflicts that outlast the five tries of `RemoveProxyInfo`.
- In `LBTunnels`: the tunnel's ID (`TunnelIDs`' matter), the copy of
  `TrueIngress` that a patch carries, more than one LoadBalancer. Retries of
  `updateDeployment` are one step; conflicts that outlast five tries are faults.
- In `NodeAgent`: more than one node, since agents share nothing but the
  finalizers, of which each has its own; the interface's set-up
  (`epic_agent_controller.go`); the values of tunnels and ports, and the tunnels'
  difference from gateways.
- In `GatewayRoutes`: TCP routes beyond their passing through; the templates; the
  listeners of LoadBalancers; regular expressions in matches. Lists have up
  to 20 rules: beyond that Go's stable sort merges blocks.
- The ad-hoc agent. It runs the same commands from the same status as the node
  agent, keeps nothing and never removes a tunnel.
- The admission of other kinds. `ProxyLimit` compares one cached count.

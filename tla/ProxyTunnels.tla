---------------------------- MODULE ProxyTunnels ----------------------------
(***************************************************************************)
(* How changes of GWRoutes, GWEndpointSlices and Envoy pods reach the      *)
(* tunnel maps and the Envoy configurations of the GWProxies.  The route   *)
(* and slice reconcilers "nudge" the proxies they concern, that is, patch  *)
(* an annotation, and the reconciler of a nudged proxy reads everything    *)
(* anew.  Every reconciler takes names from a work queue, one call per     *)
(* object at a time; a failed call is queued again.  All reads go through  *)
(* the informer cache: a change by a user is a step here when it arrives   *)
(* there, and for the proxies, which the reconcilers themselves write, the *)
(* API server's copy and the cached one are kept apart.                    *)
(***************************************************************************)
EXTENDS Naturals, FiniteSets

CONSTANTS
    Proxies, Routes, Slices, Pods,   \* names of objects
    Clusters,      \* client clusters: what ties a route to slices
    ClusterOf,     \* ClusterOf[s]: the ParentRef.UID of slice s
    ClientNodes,   \* nodes that slices have endpoints on
    Owner,         \* Owner[d]: the proxy that Envoy pod d belongs to
    NodeOf,        \* NodeOf[d]: the node it runs on
    IDs,           \* tunnel IDs (a bound: one that nobody holds any more is new again)
    Nil,           \* no such object
    Allowed,       \* which of the Disturbances below happen
    MaxChanges,    \* bound: changes by users
    MaxFaults      \* bound: failed calls and restarts

Disturbances == {"reparent",       \* a route drops a parent
                 "early delete",   \* a route is deleted before it has a finalizer
                 "lost nudge",     \* a nudge fails after its route's finalizer is removed
                 "delete slice"}

ASSUME NamesAssumption == /\ Proxies \cap (Routes \cup Slices \cup Pods) = {}
                          /\ Routes \cap Slices = {}
ASSUME BindingAssumption == /\ ClusterOf \in [Slices -> Clusters]
                            /\ Owner \in [Pods -> Proxies]

\* What GWRoutes and GWEndpointSlices hold.
RouteObjects == [parents : SUBSET Proxies, backends : SUBSET Clusters,
                 guarded : BOOLEAN, deleting : BOOLEAN]
SliceObjects == [nodes : SUBSET ClientNodes, guarded : BOOLEAN, deleting : BOOLEAN]

ASSUME NilAssumption == Nil \notin RouteObjects \cup SliceObjects
ASSUME AllowedAssumption == Allowed \subseteq Disturbances
ASSUME BoundsAssumption == MaxChanges \in Nat /\ MaxFaults \in Nat

VARIABLES
    routes,    \* each Nil or one of RouteObjects
    slices,    \* each Nil or one of SliceObjects
    pods,      \* "new", "up", "deleting" or "gone"
    proxies,   \* [pods, tunnels], in the API server; tunnels have two ends and an ID
    seen,      \* the informer's copy of it
    news,      \* proxies with a version that the informer has yet to see
    config,    \* the routes that each proxy's EnvoyConfig was made from
    queue,     \* objects to be reconciled
    nudging,   \* what the reconcile of a route or slice has left to do
    stage,     \* where the reconcile of a proxy is
    copy,      \* the proxy as it has read it
    result,    \* what it has found out since
    changes, faults,
    disturbed  \* has there been a disturbance?

vars == <<routes, slices, pods, proxies, seen, news, config, queue, nudging,
          stage, copy, result, changes, faults, disturbed>>
proxyVars == <<proxies, seen, news, config>>
proxyWork == <<stage, copy, result>>
workVars == <<nudging, proxyWork>>
counters == <<changes, faults, disturbed>>

\* A step that is a disturbance, or is not, as the case may be.
Mark(disturbance, happens) ==
    /\ happens => disturbance \in Allowed
    /\ disturbed' = (disturbed \/ happens)

EpicNodes == {NodeOf[d] : d \in Pods}
Pairs == ClientNodes \X EpicNodes
Tunnels == ClientNodes \X EpicNodes \X IDs
Ends(ts) == {<<t[1], t[2]>> : t \in ts}
Nudgers == Routes \cup Slices

Live(x) == x # Nil /\ ~x.deleting
Nodes(ds) == {NodeOf[d] : d \in ds}

Resting == [left |-> {}, clusters |-> {}]
Idle(o) == nudging[o] = Resting

NoCopy == [pods |-> {}, tunnels |-> {}]

\* ActiveProxyEndpoints(): the nodes behind p's routes.
ActiveNodes(p) ==
    UNION {slices[s].nodes : s \in
        {s \in Slices : /\ Live(slices[s])
                        /\ \E r \in Routes : /\ Live(routes[r])
                                             /\ p \in routes[r].parents
                                             /\ ClusterOf[s] \in routes[r].backends}}

\* GetChildRoutes()
ChildRoutes(p) == {r \in Routes : Live(routes[r]) /\ p \in routes[r].parents}

\* ReferencingProxies(): routes that are being deleted count, too.
ReferencingProxies(s) ==
    UNION {routes[r].parents :
              r \in {r \in Routes : routes[r] # Nil /\ ClusterOf[s] \in routes[r].backends}}

\* The controller-manager has started, and some pods run.
Init == /\ routes = [r \in Routes |-> Nil]
        /\ slices = [s \in Slices |-> Nil]
        /\ pods \in [Pods -> {"new", "up"}]
        /\ proxies = [p \in Proxies |-> [pods |-> {d \in Pods : Owner[d] = p /\ pods[d] = "up"},
                                         tunnels |-> {}]]
        /\ seen = proxies
        /\ news = {}
        /\ config = [p \in Proxies |-> {}]
        /\ queue = Proxies
        /\ nudging = [o \in Nudgers |-> Resting]
        /\ stage = [p \in Proxies |-> "idle"]
        /\ copy = [p \in Proxies |-> NoCopy]
        /\ result = [p \in Proxies |-> {}]
        /\ changes = 0 /\ faults = 0 /\ disturbed = FALSE
-----------------------------------------------------------------------------
\* Users: routes and slices come, change and go.  A deleted object without a
\* finalizer is gone at once.

Counted == changes < MaxChanges /\ changes' = changes + 1

Change(o) == /\ Counted
             /\ queue' = queue \cup {o}
             /\ UNCHANGED <<pods, proxyVars, workVars, faults>>

\* (A name is not taken again while the reconcile of its late bearer goes on.)
WriteRoute(r) ==
    /\ Change(r)
    /\ \E ps \in SUBSET Proxies, cs \in SUBSET Clusters :
          \/ /\ routes[r] = Nil /\ Idle(r)
             /\ routes' = [routes EXCEPT ![r] = [parents |-> ps, backends |-> cs,
                                                 guarded |-> FALSE, deleting |-> FALSE]]
             /\ UNCHANGED disturbed
          \/ /\ Live(routes[r])
             /\ Mark("reparent", ~(routes[r].parents \subseteq ps))
             /\ routes' = [routes EXCEPT ![r].parents = ps, ![r].backends = cs]
    /\ UNCHANGED slices

DeleteRoute(r) ==
    /\ Change(r)
    /\ Live(routes[r])
    /\ Mark("early delete", ~routes[r].guarded)
    /\ routes' = IF routes[r].guarded THEN [routes EXCEPT ![r].deleting = TRUE]
                 ELSE [routes EXCEPT ![r] = Nil]
    /\ UNCHANGED slices

WriteSlice(s) ==
    /\ Change(s)
    /\ \E ns \in SUBSET ClientNodes :
          \/ /\ slices[s] = Nil
             /\ slices' = [slices EXCEPT ![s] = [nodes |-> ns, guarded |-> FALSE,
                                                 deleting |-> FALSE]]
          \/ /\ Live(slices[s])
             /\ slices' = [slices EXCEPT ![s].nodes = ns]
    /\ UNCHANGED <<routes, disturbed>>

DeleteSlice(s) ==
    /\ Change(s)
    /\ Mark("delete slice", TRUE)
    /\ Live(slices[s])
    /\ slices' = IF slices[s].guarded THEN [slices EXCEPT ![s].deleting = TRUE]
                 ELSE [slices EXCEPT ![s] = Nil]
    /\ UNCHANGED routes
-----------------------------------------------------------------------------
\* Envoy pods.  The setup-network daemon, which is not part of this
\* repository, fills in the interface of a pod that has started.

StartPod(d) == /\ Counted
               /\ pods[d] = "new"
               /\ pods' = [pods EXCEPT ![d] = "up"]
               /\ proxies' = [proxies EXCEPT ![Owner[d]].pods = @ \cup {d}]
               /\ news' = news \cup {Owner[d]}
               /\ UNCHANGED <<routes, slices, seen, config, queue, workVars, faults, disturbed>>

StopPod(d) == /\ Counted
              /\ pods[d] = "up"
              /\ pods' = [pods EXCEPT ![d] = "deleting"]
              /\ UNCHANGED <<routes, slices, proxyVars, queue, workVars, faults, disturbed>>

\* RemoveProxyInfo(), tried until its Update() is not in conflict, then
\* RemoveFinalizer.  A pod that the cached proxy does not list yet stays listed.
RemoveProxyInfo(d) ==
    LET p == Owner[d]
        left == seen[p].pods \ {d} IN
    /\ pods[d] = "deleting"
    /\ pods' = [pods EXCEPT ![d] = "gone"]
    /\ \/ /\ d \notin seen[p].pods
          /\ UNCHANGED <<proxies, news>>
       \/ /\ d \in seen[p].pods /\ p \notin news
          /\ news' = news \cup {p}
          /\ proxies' = [proxies EXCEPT ![p] =
                 [pods |-> left,
                  tunnels |-> {t \in seen[p].tunnels : t[2] = NodeOf[d] => t[2] \in Nodes(left)}]]
    /\ UNCHANGED <<routes, slices, seen, config, queue, workVars, counters>>
-----------------------------------------------------------------------------
\* The route and slice reconcilers.

\* A name without an object: Get() fails and that is all.
NothingToReconcile(o) == /\ o \in queue /\ Idle(o)
                         /\ o \in Routes => routes[o] = Nil
                         /\ o \in Slices => slices[o] = Nil
                         /\ queue' = queue \ {o}
                         /\ UNCHANGED <<routes, slices, pods, proxyVars, workVars, counters>>

\* Its own finalizer's coming or going queues the object once more.
Requeued(o, again) == IF again THEN queue ELSE queue \ {o}

\* Mutant: a new route gets its finalizer only, and that does not queue it.
ReconcileRouteTwice(r) ==
    /\ r \in queue /\ Idle(r) /\ routes[r] # Nil
    /\ nudging' = IF routes[r].guarded
                  THEN [nudging EXCEPT ![r] = [left |-> routes[r].parents, clusters |-> routes[r].backends]]
                  ELSE nudging
    /\ routes' = [routes EXCEPT ![r] = IF @.deleting THEN Nil ELSE [@ EXCEPT !.guarded = TRUE]]
    /\ queue' = Requeued(r, routes[r].deleting)
    /\ UNCHANGED <<slices, pods, proxyVars, proxyWork, counters>>

\* The reconcile of a route begins: the finalizer goes, or is made sure of.
\* Then the parents are to be nudged, then the slices of the backends.
ReconcileRoute(r) ==
    /\ r \in queue /\ Idle(r) /\ routes[r] # Nil
    /\ nudging' = [nudging EXCEPT ![r] = [left |-> routes[r].parents,
                                          clusters |-> routes[r].backends]]
    /\ \/ /\ routes[r].deleting
          /\ routes' = [routes EXCEPT ![r] = Nil]
          /\ queue' = Requeued(r, TRUE)
       \/ /\ ~routes[r].deleting
          /\ routes' = [routes EXCEPT ![r].guarded = TRUE]
          /\ queue' = Requeued(r, ~routes[r].guarded)
    /\ UNCHANGED <<slices, pods, proxyVars, proxyWork, counters>>

\* That of a slice: one that is being deleted nudges nobody.
ReconcileSlice(s) ==
    /\ s \in queue /\ Idle(s) /\ slices[s] # Nil
    /\ \/ /\ slices[s].deleting
          /\ slices' = [slices EXCEPT ![s] = Nil]
          /\ queue' = Requeued(s, TRUE)
          /\ UNCHANGED nudging
       \/ /\ ~slices[s].deleting
          /\ slices' = [slices EXCEPT ![s].guarded = TRUE]
          /\ queue' = Requeued(s, ~slices[s].guarded)
          /\ nudging' = [nudging EXCEPT ![s].left = ReferencingProxies(s)]
    /\ UNCHANGED <<routes, pods, proxyVars, proxyWork, counters>>

\* nudgeProxy(), Nudge(): the patch changes nothing but an annotation.
NudgeProxy(o, p) ==
    /\ p \in nudging[o].left
    /\ nudging' = [nudging EXCEPT ![o].left = @ \ {p}]
    /\ news' = news \cup {p}
    /\ UNCHANGED <<routes, slices, pods, proxies, seen, config, queue, proxyWork, counters>>

\* backendRefs(), when all parents have been nudged
BackendRefs(r) ==
    /\ nudging[r].left = {} /\ ~Idle(r)
    /\ nudging' = [nudging EXCEPT ![r] =
           [left |-> {s \in Slices : Live(slices[s]) /\ ClusterOf[s] \in @.clusters},
            clusters |-> {}]]
    /\ UNCHANGED <<routes, slices, pods, proxyVars, queue, proxyWork, counters>>

\* nudgeSlice()
NudgeSlice(r, s) ==
    /\ s \in nudging[r].left /\ slices[s] # Nil
    /\ nudging' = [nudging EXCEPT ![r].left = @ \ {s}]
    /\ queue' = queue \cup {s}
    /\ UNCHANGED <<routes, slices, pods, proxyVars, proxyWork, counters>>

\* The slice is gone, or the API server fails: the call is queued again.
NudgeFails(o) ==
    /\ ~Idle(o)
    /\ \/ /\ \E s \in nudging[o].left \cap Slices : slices[s] = Nil
          /\ UNCHANGED <<faults, disturbed>>
       \/ /\ faults < MaxFaults
          /\ faults' = faults + 1
          /\ Mark("lost nudge", o \in Routes /\ routes[o] = Nil)
    /\ nudging' = [nudging EXCEPT ![o] = Resting]
    /\ queue' = queue \cup {o}
    /\ UNCHANGED <<routes, slices, pods, proxyVars, proxyWork, changes>>
-----------------------------------------------------------------------------
\* The proxy reconciler, one action for each of its accesses to the API.

\* Mutant: a proxy that is being reconciled is not queued again.
SyncDropping(p) == /\ p \in news
                   /\ news' = news \ {p}
                   /\ seen' = [seen EXCEPT ![p] = proxies[p]]
                   /\ queue' = IF stage[p] = "idle" THEN queue \cup {p} ELSE queue
                   /\ UNCHANGED <<routes, slices, pods, proxies, config, workVars, counters>>

\* The informer sees the proxy's current version, and queues it.
Sync(p) == /\ p \in news
           /\ news' = news \ {p}
           /\ seen' = [seen EXCEPT ![p] = proxies[p]]
           /\ queue' = queue \cup {p}
           /\ UNCHANGED <<routes, slices, pods, proxies, config, workVars, counters>>

Advance(p, from, to, found) == /\ stage[p] = from
                               /\ stage' = [stage EXCEPT ![p] = to]
                               /\ copy' = [copy EXCEPT ![p] = NoCopy]
                               /\ result' = [result EXCEPT ![p] = found]
                               /\ UNCHANGED <<routes, slices, pods, seen, nudging, counters>>

GetProxy(p) == /\ p \in queue
               /\ stage[p] = "idle"
               /\ stage' = [stage EXCEPT ![p] = "endpoints"]
               /\ copy' = [copy EXCEPT ![p] = seen[p]]
               /\ queue' = queue \ {p}
               /\ UNCHANGED <<routes, slices, pods, proxyVars, nudging, result, counters>>

\* Mutant: the map is kept by client node only.
ListEndpointsUnpaired(p) == /\ Advance(p, "endpoints", "patch", ActiveNodes(p))
                            /\ UNCHANGED <<proxies, news, config, queue>>

\* The IDs that a proxy, a copy of one or a patch to come has.
InUse == {t[3] : t \in UNION {proxies[p].tunnels \cup seen[p].tunnels \cup copy[p].tunnels
                               \cup (IF stage[p] = "patch" THEN result[p] ELSE {}) : p \in Proxies}}

\* AllocateTunnelID(), once for each of these ends.
Fresh(ends) == {given \in [ends -> IDs \ InUse] :
                   \A e, f \in ends : given[e] = given[f] => e = f}

\* allocateProxyTunnels() makes a new map: a tunnel from each proxy pod's node
\* to each client node, the copy's where it has one, and with a new ID elsewhere.
ListEndpoints(p) ==
    LET ends == ActiveNodes(p) \X Nodes(copy[p].pods)
        kept == {t \in copy[p].tunnels : <<t[1], t[2]>> \in ends}
        new == Fresh(ends \ Ends(kept))
        given == CHOOSE f \in new : TRUE IN
    /\ stage[p] = "endpoints" /\ new # {}
    /\ Advance(p, "endpoints", "patch",
               kept \cup {<<e[1], e[2], given[e]>> : e \in ends \ Ends(kept)})
    /\ UNCHANGED <<proxies, news, config, queue>>

\* Mutant: the patch carries a nudge.
PatchNudging(p) ==
    /\ Advance(p, "patch", "routes", {})
    /\ proxies' = [proxies EXCEPT ![p].tunnels = result[p]]
    /\ news' = news \cup {p}
    /\ UNCHANGED <<config, queue>>

\* Mutant: the patch adds to the map.
PatchMerging(p) ==
    /\ Advance(p, "patch", "routes", {})
    /\ proxies' = [proxies EXCEPT ![p].tunnels = @ \cup result[p]]
    /\ news' = IF result[p] \subseteq proxies[p].tunnels THEN news ELSE news \cup {p}
    /\ UNCHANGED <<config, queue>>

\* ... and replaces the old one, whoever has written the proxy since: also by
\* one with the same ends and other IDs.
Patch(p) ==
    /\ Advance(p, "patch", "routes", {})
    /\ proxies' = [proxies EXCEPT ![p].tunnels = result[p]]
    /\ news' = IF result[p] = proxies[p].tunnels THEN news ELSE news \cup {p}
    /\ UNCHANGED <<config, queue>>

ListChildRoutes(p) == /\ Advance(p, "routes", "config", ChildRoutes(p))
                      /\ UNCHANGED <<proxies, news, config, queue>>

WriteEnvoyConfig(p) == /\ Advance(p, "config", "idle", {})
                       /\ config' = [config EXCEPT ![p] = result[p]]
                       /\ UNCHANGED <<proxies, news, queue>>

\* Any access may fail, AllocateTunnelID included.
ReconcileFails(p) == /\ stage[p] # "idle"
                     /\ faults < MaxFaults
                     /\ faults' = faults + 1
                     /\ stage' = [stage EXCEPT ![p] = "idle"]
                     /\ copy' = [copy EXCEPT ![p] = NoCopy]
                     /\ result' = [result EXCEPT ![p] = {}]
                     /\ queue' = queue \cup {p}
                     /\ UNCHANGED <<routes, slices, pods, proxyVars, nudging, changes, disturbed>>

\* The controller-manager restarts, and its informers list everything.
Restart == /\ faults < MaxFaults
           /\ faults' = faults + 1
           /\ seen' = proxies
           /\ news' = {}
           /\ queue' = Proxies \cup {r \in Routes : routes[r] # Nil} \cup {s \in Slices : slices[s] # Nil}
           /\ nudging' = [o \in Nudgers |-> Resting]
           /\ stage' = [p \in Proxies |-> "idle"]
           /\ copy' = [p \in Proxies |-> NoCopy]
           /\ result' = [p \in Proxies |-> {}]
           /\ UNCHANGED <<routes, slices, pods, proxies, config, changes, disturbed>>
-----------------------------------------------------------------------------
NudgerStep(o) == \/ NothingToReconcile(o)
                 \/ \E p \in Proxies : NudgeProxy(o, p)
                 \/ NudgeFails(o)
RouteStep(r) == \/ NudgerStep(r) \/ ReconcileRoute(r) \/ BackendRefs(r)
                \/ \E s \in Slices : NudgeSlice(r, s)
SliceStep(s) == NudgerStep(s) \/ ReconcileSlice(s)
ProxyStep(p) == \/ GetProxy(p) \/ ListEndpoints(p) \/ Patch(p)
                \/ ListChildRoutes(p) \/ WriteEnvoyConfig(p)

Next == \/ \E r \in Routes : WriteRoute(r) \/ DeleteRoute(r) \/ RouteStep(r)
        \/ \E s \in Slices : WriteSlice(s) \/ DeleteSlice(s) \/ SliceStep(s)
        \/ \E d \in Pods : StartPod(d) \/ StopPod(d) \/ RemoveProxyInfo(d)
        \/ \E p \in Proxies : Sync(p) \/ ProxyStep(p) \/ ReconcileFails(p)
        \/ Restart

Spec == Init /\ [][Next]_vars

\* The workers of each controller and the informers run; users, pods and
\* faults need not do anything.
FairSpec == /\ Spec
            /\ \A r \in Routes : WF_vars(RouteStep(r))
            /\ \A s \in Slices : WF_vars(SliceStep(s))
            /\ \A p \in Proxies : WF_vars(ProxyStep(p)) /\ WF_vars(Sync(p))
-----------------------------------------------------------------------------
TypeOK ==
    /\ routes \in [Routes -> RouteObjects \cup {Nil}]
    /\ slices \in [Slices -> SliceObjects \cup {Nil}]
    /\ pods \in [Pods -> {"new", "up", "deleting", "gone"}]
    /\ \A version \in {proxies, seen, copy} :
          version \in [Proxies -> [pods : SUBSET Pods, tunnels : SUBSET Tunnels]]
    /\ news \subseteq Proxies
    /\ config \in [Proxies -> SUBSET Routes]
    /\ queue \subseteq Proxies \cup Nudgers
    /\ nudging \in [Nudgers -> [left : SUBSET (Proxies \cup Slices), clusters : SUBSET Clusters]]
    /\ stage \in [Proxies -> {"idle", "endpoints", "patch", "routes", "config"}]
    /\ result \in [Proxies -> SUBSET (Tunnels \cup Routes)]
    /\ \A p \in Proxies : result[p] \subseteq (CASE stage[p] = "patch" -> Tunnels
                                                 [] stage[p] = "config" -> Routes
                                                 [] OTHER -> {})
    /\ changes \in 0 .. MaxChanges /\ faults \in 0 .. MaxFaults /\ disturbed \in BOOLEAN

\* Nobody has anything to do.
Quiet == /\ queue = {} /\ news = {}
         /\ \A o \in Nudgers : Idle(o)
         /\ \A p \in Proxies : stage[p] = "idle"

\* The tunnels of p join its pods' nodes to the nodes behind its routes, and
\* its EnvoyConfig was made from these routes.
UpToDate(p) == /\ Ends(proxies[p].tunnels) = ActiveNodes(p) \X Nodes(proxies[p].pods)
               /\ config[p] = ChildRoutes(p)

\* No change is forgotten: whenever all reconcilers rest, every proxy is up to
\* date, whatever changed while they ran, failed or were nudged, as long as none
\* of the Disturbances has occurred.  (What "Nudge each of them" in the
\* reconciler of routes is for.)
NothingForgotten == Quiet /\ ~disturbed => \A p \in Proxies : UpToDate(p)

\* Whenever all reconcilers rest, tunnels lead only to nodes of pods that the
\* proxy lists, even after disturbances: no reconcile that read the proxy
\* before a pod went leaves that pod's tunnels behind.
TunnelsLeadToPods ==
    Quiet => \A p \in Proxies : \A t \in proxies[p].tunnels : t[2] \in Nodes(proxies[p].pods)

\* Once users and pods rest the proxies become up to date, and stay so whatever
\* the reconcilers still do, as long as none of the Disturbances has occurred.
StaysUpToDate == <>[](disturbed \/ \A p \in Proxies : UpToDate(p))

\* A patch that is to put other IDs in place of those that tunnels with the same
\* ends have, and so no more than one that a new reconcile has to follow.
ExchangesIDs(p) == /\ stage[p] = "patch" /\ result[p] # proxies[p].tunnels
                   /\ Ends(result[p]) = Ends(proxies[p].tunnels)

\* The reconcilers come to rest once users and pods do, unless two reconciles of
\* a proxy after each other keep putting back IDs that the other one has replaced:
\* nothing else that they write keeps them busy.
RestsOrExchangesIDs == <>[]Quiet \/ []<>(\E p \in Proxies : ExchangesIDs(p))
=============================================================================

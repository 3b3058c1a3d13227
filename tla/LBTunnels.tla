----------------------------- MODULE LBTunnels -----------------------------
(***************************************************************************)
(* How the RemoteEndpoints and the Envoy pods of one LoadBalancer get      *)
(* their GUE tunnels.  Unlike a GWProxy, a LoadBalancer has no reconciler  *)
(* that computes its tunnel map anew: the reconciler of endpoints adds the *)
(* tunnels of one endpoint, that of pods those of one pod, each as a JSON  *)
(* merge patch made from a cached copy of the LoadBalancer, and a change   *)
(* of the LoadBalancer calls neither.  Every reconciler has one worker.    *)
(* Endpoints and pods change here when the change reaches the informer's   *)
(* cache; of the LoadBalancer, which the reconcilers write, the API        *)
(* server's copy and the cached one are kept apart.                        *)
(***************************************************************************)
EXTENDS Naturals, FiniteSets

CONSTANTS
    Endpoints, Pods,   \* names of RemoteEndpoints and of Envoy pods
    ClientNodes,       \* values of an endpoint's NodeAddress ...
    AdHoc,             \* ... or "", that of an ad-hoc endpoint
    NodeAddress,       \* NodeAddress[r]: the one of endpoint r
    HostIP,            \* HostIP[d]: the node that pod d will run on
    LB,                \* the LoadBalancer, as a name in the work queue
    Idle, None,        \* a worker that has nothing to do; no Deployment
    Ports,             \* values of a LoadBalancer's PublicPorts
    Allowed,           \* which of the Disturbances below happen
    MaxChanges,        \* bound: changes by users and by the Deployment
    MaxFaults          \* bound: failed calls and restarts

Disturbances == {"unlisted pod",     \* an endpoint's patch is made without a running pod
                 "unseen endpoint",  \* a pod's patch is made without a node of an endpoint
                 "revived node",     \* a pod's patch brings back a node removed since
                 "missed removal",   \* ... or leaves out a tunnel removed since
                 "lost removal"}     \* an endpoint goes without its node's removal

ASSUME NamesAssumption == Endpoints \cap Pods = {} /\ LB \notin Endpoints \cup Pods
ASSUME NodesAssumption == /\ AdHoc \notin ClientNodes
                          /\ NodeAddress \in [Endpoints -> ClientNodes \cup {AdHoc}]
ASSUME AllowedAssumption == Allowed \subseteq Disturbances
ASSUME PortsAssumption == Ports # {} /\ None \notin Ports
ASSUME BoundsAssumption == MaxChanges \in Nat /\ MaxFaults \in Nat

EpicNodes == {HostIP[d] : d \in Pods}
Versions == [phase : {"live", "deleting", "gone"}, ports : Ports \cup {None}, nodes : SUBSET ClientNodes,
             tunnels : SUBSET (ClientNodes \X EpicNodes), listed : SUBSET Pods]
EndpointJobs == [of : Endpoints, stage : {"patch", "unguard"}, copy : Versions]
PodJobs == [of : Pods, stage : {"patch"}, copy : Versions]
LBJobs == [ports : Ports]
Deployments == [owner : {LB}, ports : Ports]

ASSUME RecordsAssumption == /\ Idle \notin EndpointJobs /\ Idle \notin PodJobs /\ Idle \notin LBJobs
                            /\ None \notin Deployments

VARIABLES
    reps,        \* each endpoint: "none", "live", "deleting" or "gone"
    pods,        \* each pod: "none", "new" (no HostIP), "up", "deleting" or "gone"
    guarded,     \* pods that have the controller's finalizer
    lb,          \* [phase, ports, nodes, tunnels, listed], in the API server
    seen,        \* the informer's copy of it
    news,        \* has lb a version that the informer has yet to see?
    deployment,  \* that of the Envoy pods: None or [owner, ports]
    queue,       \* objects to be reconciled
    repJob,      \* the worker for endpoints: Idle or [of, stage, copy]
    podJob,      \* the worker for pods
    lbJob,       \* the worker for LoadBalancers: Idle or [ports]
    changes, faults,
    disturbed    \* the Disturbances so far

vars == <<reps, pods, guarded, lb, seen, news, deployment, queue,
          repJob, podJob, lbJob, changes, faults, disturbed>>
podVars == <<pods, guarded, deployment>>
lbVars == <<lb, seen, news>>
jobs == <<repJob, podJob, lbJob>>
counters == <<changes, faults, disturbed>>

Gone == [phase |-> "gone", ports |-> None, nodes |-> {}, tunnels |-> {}, listed |-> {}]

\* listActiveLBEndpoints()
ActiveEndpoints == {r \in Endpoints : reps[r] = "live"}

\* A step that is one of the Disturbances ds, or of none.
Mark(ds) == /\ ds \subseteq Allowed
            /\ disturbed' = disturbed \cup ds

\* The API server stores a version of the LoadBalancer.
Store(version) == lb' = version /\ news' = TRUE /\ UNCHANGED seen

\* The LoadBalancer has just been admitted.
Init == /\ reps = [r \in Endpoints |-> "none"]
        /\ pods = [d \in Pods |-> "none"]
        /\ guarded = {}
        /\ lb = [Gone EXCEPT !.phase = "live", !.ports = CHOOSE ps \in Ports : TRUE]
        /\ seen = lb
        /\ news = FALSE
        /\ deployment = None
        /\ queue = {LB}
        /\ repJob = Idle /\ podJob = Idle /\ lbJob = Idle
        /\ changes = 0 /\ faults = 0 /\ disturbed = {}
-----------------------------------------------------------------------------
\* Users, the Deployment, the setup-network daemon, the garbage collector.

Counted == changes < MaxChanges /\ changes' = changes + 1

\* Default(), ValidateCreate(): not without the owner, and with the finalizer.
CreateEndpoint(r) ==
    /\ Counted
    /\ reps[r] = "none" /\ seen.phase # "gone"
    /\ reps' = [reps EXCEPT ![r] = "live"]
    /\ queue' = queue \cup {r}
    /\ UNCHANGED <<podVars, lbVars, jobs, faults, disturbed>>

DeleteEndpoint(r) ==
    /\ Counted
    /\ reps[r] = "live"
    /\ reps' = [reps EXCEPT ![r] = "deleting"]
    /\ queue' = queue \cup {r}
    /\ UNCHANGED <<podVars, lbVars, jobs, faults, disturbed>>

ChangePorts ==
    /\ Counted
    /\ lb.phase = "live"
    /\ \E ps \in Ports \ {lb.ports} : Store([lb EXCEPT !.ports = ps])
    /\ UNCHANGED <<reps, podVars, queue, jobs, faults, disturbed>>

\* When its upstream clusters have been withdrawn, ValidateDelete() consents.
DeleteLB ==
    /\ Counted
    /\ lb.phase = "live"
    /\ Store([lb EXCEPT !.phase = "deleting"])
    /\ UNCHANGED <<reps, podVars, queue, jobs, faults, disturbed>>

CreatePod(d) ==
    /\ Counted
    /\ deployment # None /\ pods[d] = "none"
    /\ pods' = [pods EXCEPT ![d] = "new"]
    /\ queue' = queue \cup {d}
    /\ UNCHANGED <<reps, guarded, deployment, lbVars, jobs, faults, disturbed>>

\* The pod gets its HostIP.
StartPod(d) ==
    /\ pods[d] = "new"
    /\ pods' = [pods EXCEPT ![d] = "up"]
    /\ queue' = queue \cup {d}
    /\ UNCHANGED <<reps, guarded, deployment, lbVars, jobs, counters>>

\* A pod that has no finalizer yet is gone at once.
Ended(d) == IF d \in guarded THEN "deleting" ELSE "gone"

DeletePod(d) ==
    /\ Counted
    /\ pods[d] \in {"new", "up"}
    /\ pods' = [pods EXCEPT ![d] = Ended(d)]
    /\ queue' = queue \cup {d}
    /\ UNCHANGED <<reps, guarded, deployment, lbVars, jobs, faults, disturbed>>

\* The daemon fills in ProxyInterfaces.
ListInterface(d) ==
    /\ pods[d] = "up" /\ lb.phase # "gone" /\ d \notin lb.listed
    /\ Store([lb EXCEPT !.listed = @ \cup {d}])
    /\ UNCHANGED <<reps, podVars, queue, jobs, counters>>

\* What the LoadBalancer owns follows it, and the pods their Deployment.
OwnedDeployment == deployment # None /\ deployment.owner = LB
Garbage == lb.phase = "gone" /\ (OwnedDeployment \/ ActiveEndpoints # {})

CollectGarbage ==
    LET doomed == IF OwnedDeployment THEN {d \in Pods : pods[d] \in {"new", "up"}} ELSE {} IN
    /\ Garbage
    /\ deployment' = IF OwnedDeployment THEN None ELSE deployment
    /\ reps' = [r \in Endpoints |-> IF reps[r] = "live" THEN "deleting" ELSE reps[r]]
    /\ pods' = [d \in Pods |-> IF d \in doomed THEN Ended(d) ELSE pods[d]]
    /\ queue' = queue \cup ActiveEndpoints \cup doomed
    /\ UNCHANGED <<guarded, lbVars, jobs, counters>>

\* The informer sees the current LoadBalancer, which only its own reconciler
\* watches.
Sync == /\ news
        /\ seen' = lb /\ news' = FALSE
        /\ queue' = queue \cup {LB}
        /\ UNCHANGED <<reps, podVars, lb, jobs, counters>>
-----------------------------------------------------------------------------
\* The reconciler of endpoints.

\* Mutant: nothing to do without a LoadBalancer, either.
SkipEndpointOfNone(r) ==
    /\ r \in queue /\ repJob = Idle
    /\ reps[r] = "gone" \/ NodeAddress[r] = AdHoc \/ seen.phase = "gone"
    /\ queue' = queue \ {r}
    /\ UNCHANGED <<reps, podVars, lbVars, jobs, counters>>

\* No object, or no NodeAddress: nothing to do, even if it is being deleted.
SkipEndpoint(r) ==
    /\ r \in queue /\ repJob = Idle
    /\ reps[r] = "gone" \/ NodeAddress[r] = AdHoc
    /\ queue' = queue \ {r}
    /\ UNCHANGED <<reps, podVars, lbVars, jobs, counters>>

\* Mutant: the node goes with any of its endpoints.
RemovedAlways(r) == [lb EXCEPT !.nodes = @ \ {NodeAddress[r]},
                               !.tunnels = {t \in @ : t[1] # NodeAddress[r]}]

\* removeRepInfo(): if no other active endpoint is on its node, then the node
\* leaves the map.  An update from a stale copy is in conflict; after five of
\* them, another error, or when there is no LoadBalancer, the endpoint goes
\* all the same.
Removed(r) ==
    IF \E other \in ActiveEndpoints \ {r} : NodeAddress[other] = NodeAddress[r] THEN lb
    ELSE [lb EXCEPT !.nodes = @ \ {NodeAddress[r]},
                    !.tunnels = {t \in @ : t[1] # NodeAddress[r]}]

\* Mutant: an endpoint whose removal fails is kept.
RemoveRepInfoFirst(r) ==
    /\ r \in queue /\ repJob = Idle
    /\ reps[r] = "deleting" /\ NodeAddress[r] # AdHoc
    /\ seen.phase # "gone" /\ ~news
    /\ Store(Removed(r))
    /\ repJob' = [of |-> r, stage |-> "unguard", copy |-> Gone]
    /\ queue' = queue \ {r}
    /\ UNCHANGED <<reps, podVars, podJob, lbJob, counters>>

RemoveRepInfo(r) ==
    /\ r \in queue /\ repJob = Idle
    /\ reps[r] = "deleting" /\ NodeAddress[r] # AdHoc
    /\ \/ /\ seen.phase # "gone" /\ ~news
          /\ Store(Removed(r)) /\ UNCHANGED <<faults, disturbed>>
       \/ /\ seen.phase = "gone"
          /\ UNCHANGED <<lbVars, faults, disturbed>>
       \/ /\ news /\ Mark({"lost removal"})
          /\ UNCHANGED <<lbVars, faults>>
       \/ /\ faults < MaxFaults /\ faults' = faults + 1
          /\ Mark({"lost removal"})
          /\ UNCHANGED lbVars
    /\ repJob' = [of |-> r, stage |-> "unguard", copy |-> Gone]
    /\ queue' = queue \ {r}
    /\ UNCHANGED <<reps, podVars, podJob, lbJob, changes>>

\* RemoveFinalizer().  (What it then reports of removeRepInfo() only has the
\* name queued once more.)
UnguardEndpoint(r) ==
    /\ repJob # Idle /\ repJob.of = r /\ repJob.stage = "unguard"
    /\ reps' = [reps EXCEPT ![r] = "gone"]
    /\ repJob' = Idle
    /\ queue' = queue \cup {r}
    /\ UNCHANGED <<podVars, lbVars, podJob, lbJob, counters>>

\* The reconcile of a live endpoint gets the LoadBalancer, or will try again.
GetLBForEndpoint(r) ==
    /\ r \in queue /\ repJob = Idle
    /\ reps[r] = "live" /\ NodeAddress[r] # AdHoc
    /\ seen.phase # "gone"
    /\ repJob' = [of |-> r, stage |-> "patch", copy |-> seen]
    /\ queue' = queue \ {r}
    /\ UNCHANGED <<reps, podVars, lbVars, podJob, lbJob, counters>>

\* addProxyTunnels(): the merge patch has the endpoint's node, a tunnel from
\* each interface that the copy lists, and a new nudge.
AddEndpointTunnels(r) ==
    LET node == NodeAddress[r]
        known == repJob.copy.listed IN
    /\ repJob # Idle /\ repJob.of = r /\ repJob.stage = "patch"
    /\ lb.phase # "gone"
    /\ Store([lb EXCEPT !.nodes = @ \cup {node},
                        !.tunnels = @ \cup ({node} \X {HostIP[d] : d \in known})])
    /\ Mark(IF \E d \in Pods \ known : pods[d] = "up" THEN {"unlisted pod"} ELSE {})
    /\ repJob' = Idle
    /\ UNCHANGED <<reps, podVars, queue, podJob, lbJob, changes, faults>>
-----------------------------------------------------------------------------
\* The reconciler of pods.

\* Mutant: a pod that has the finalizer has been seen to.
SkipGuardedPod(d) ==
    /\ d \in queue /\ podJob = Idle
    /\ pods[d] = "gone" \/ (pods[d] # "deleting" /\ d \in guarded)
    /\ queue' = queue \ {d}
    /\ UNCHANGED <<reps, podVars, lbVars, jobs, counters>>

SkipPod(d) ==
    /\ d \in queue /\ podJob = Idle
    /\ pods[d] = "gone"
    /\ queue' = queue \ {d}
    /\ UNCHANGED <<reps, podVars, lbVars, jobs, counters>>

\* It is a GWProxy of the LoadBalancer's name that this gets and cleans up; no
\* such proxy lists pod d.
RemovePodInfo(d) == UNCHANGED lbVars

\* Whatever RemovePodInfo() returns is reported when the finalizer is gone.
FinalizePod(d) ==
    /\ d \in queue /\ podJob = Idle
    /\ pods[d] = "deleting"
    /\ RemovePodInfo(d)
    /\ pods' = [pods EXCEPT ![d] = "gone"]
    /\ UNCHANGED <<reps, guarded, deployment, queue, jobs, counters>>

\* Without a HostIP, or a LoadBalancer, there is only the finalizer to see to.
GuardPod(d) ==
    /\ d \in queue /\ podJob = Idle
    /\ pods[d] = "new" \/ (pods[d] = "up" /\ seen.phase = "gone")
    /\ d \notin guarded
    /\ guarded' = guarded \cup {d}
    /\ UNCHANGED <<reps, pods, deployment, lbVars, queue, jobs, counters>>

GetLBForPod(d) ==
    /\ d \in queue /\ podJob = Idle
    /\ pods[d] = "up"
    /\ guarded' = guarded \cup {d}
    /\ seen.phase # "gone"
    /\ podJob' = [of |-> d, stage |-> "patch", copy |-> seen]
    /\ queue' = queue \ {d}
    /\ UNCHANGED <<reps, pods, deployment, lbVars, repJob, lbJob, counters>>

\* Mutant: the keys of the two maps are swapped.
TunnelsSwapped(nodes, hosts) == hosts \X nodes

\* GUETunnelMaps: from client nodes to nodes of pods
Tunnels(nodes, hosts) == nodes \X hosts

\* addPodTunnels(): the merge patch has a tunnel for each node of the copy
\* that lacks one.
AddPodTunnels(d) ==
    LET host == HostIP[d]
        lacking == {n \in podJob.copy.nodes : <<n, host>> \notin podJob.copy.tunnels}
        patched == [lb EXCEPT !.nodes = @ \cup lacking,
                              !.tunnels = @ \cup Tunnels(lacking, {host})] IN
    /\ podJob # Idle /\ podJob.of = d
    /\ lb.phase # "gone"
    /\ IF lacking = {} THEN UNCHANGED lbVars ELSE Store(patched)
    /\ Mark((IF lb.nodes \subseteq podJob.copy.nodes THEN {} ELSE {"unseen endpoint"})
            \cup (IF lacking \subseteq lb.nodes THEN {} ELSE {"revived node"})
            \cup (IF {t \in podJob.copy.tunnels : t[1] \in lb.nodes /\ t[2] = host} \subseteq lb.tunnels
                  THEN {} ELSE {"missed removal"}))
    /\ podJob' = Idle
    /\ UNCHANGED <<reps, podVars, queue, repJob, lbJob, changes, faults>>
-----------------------------------------------------------------------------
\* The reconciler of LoadBalancers.

SkipLB == /\ LB \in queue /\ lbJob = Idle
          /\ seen.phase = "gone"
          /\ queue' = queue \ {LB}
          /\ UNCHANGED <<reps, podVars, lbVars, jobs, counters>>

\* Having read the objects above it, it will make a Deployment.
ReconcileLB == /\ LB \in queue /\ lbJob = Idle
               /\ seen.phase = "live"
               /\ lbJob' = [ports |-> seen.ports]
               /\ queue' = queue \ {LB}
               /\ UNCHANGED <<reps, podVars, lbVars, repJob, podJob, counters>>

\* Mutant: no SetControllerReference().
DeploymentUnowned(ps) == [owner |-> None, ports |-> ps]

DeploymentForLB(ps) == [owner |-> LB, ports |-> ps]

CreateDeployment == /\ lbJob # Idle /\ deployment = None
                    /\ deployment' = DeploymentForLB(lbJob.ports)
                    /\ lbJob' = Idle
                    /\ UNCHANGED <<reps, pods, guarded, lbVars, queue, repJob, podJob, counters>>

\* Mutant: what was created previously is left as it is.
KeepDeployment == /\ lbJob # Idle /\ deployment # None
                  /\ lbJob' = Idle
                  /\ UNCHANGED <<reps, podVars, lbVars, queue, repJob, podJob, counters>>

\* "Already exists": the new specification replaces the old one.
UpdateDeployment == /\ lbJob # Idle /\ deployment # None
                    /\ deployment' = [deployment EXCEPT !.ports = lbJob.ports]
                    /\ lbJob' = Idle
                    /\ UNCHANGED <<reps, pods, guarded, lbVars, queue, repJob, podJob, counters>>

\* Its finalizer goes, tried until the update is not in conflict.
UnguardLB == /\ LB \in queue /\ lbJob = Idle
             /\ seen.phase = "deleting" /\ ~news
             /\ Store(Gone)
             /\ queue' = queue \ {LB}
             /\ UNCHANGED <<reps, podVars, jobs, counters>>
-----------------------------------------------------------------------------
\* A patch finds no LoadBalancer: the call is queued again.
PatchFindsNothing ==
    /\ lb.phase = "gone"
    /\ \/ /\ repJob # Idle /\ repJob.stage = "patch"
          /\ queue' = queue \cup {repJob.of} /\ repJob' = Idle
          /\ UNCHANGED podJob
       \/ /\ podJob # Idle
          /\ queue' = queue \cup {podJob.of} /\ podJob' = Idle
          /\ UNCHANGED repJob
    /\ UNCHANGED <<reps, podVars, lbVars, lbJob, counters>>

\* Any call to the API fails, allocateTunnelID()'s among them.
Faulty == faults < MaxFaults /\ faults' = faults + 1

Of(job) == IF job = Idle THEN {} ELSE {job.of}

EndpointFails == /\ Faulty /\ repJob # Idle
                 /\ repJob' = Idle
                 /\ queue' = queue \cup Of(repJob)
                 /\ UNCHANGED <<reps, podVars, lbVars, podJob, lbJob, changes, disturbed>>

PodFails == /\ Faulty /\ podJob # Idle
            /\ podJob' = Idle
            /\ queue' = queue \cup Of(podJob)
            /\ UNCHANGED <<reps, podVars, lbVars, repJob, lbJob, changes, disturbed>>

LBFails == /\ Faulty /\ lbJob # Idle
           /\ lbJob' = Idle
           /\ queue' = queue \cup {LB}
           /\ UNCHANGED <<reps, podVars, lbVars, repJob, podJob, changes, disturbed>>

\* The controller-manager restarts, and its informers list everything.
Restart == /\ Faulty
           /\ seen' = lb /\ news' = FALSE
           /\ queue' = {r \in Endpoints : reps[r] \in {"live", "deleting"}}
                       \cup {d \in Pods : pods[d] \in {"new", "up", "deleting"}}
                       \cup (IF lb.phase = "gone" THEN {} ELSE {LB})
           /\ repJob' = Idle /\ podJob' = Idle /\ lbJob' = Idle
           /\ UNCHANGED <<reps, podVars, lb, changes, disturbed>>

EndpointStep(r) == \/ SkipEndpoint(r) \/ RemoveRepInfo(r) \/ UnguardEndpoint(r)
                   \/ GetLBForEndpoint(r) \/ AddEndpointTunnels(r)
PodStep(d) == SkipPod(d) \/ FinalizePod(d) \/ GuardPod(d) \/ GetLBForPod(d) \/ AddPodTunnels(d)
LBStep == SkipLB \/ ReconcileLB \/ CreateDeployment \/ UpdateDeployment \/ UnguardLB

Next == \/ \E r \in Endpoints : CreateEndpoint(r) \/ DeleteEndpoint(r) \/ EndpointStep(r)
        \/ \E d \in Pods : \/ CreatePod(d) \/ StartPod(d) \/ DeletePod(d) \/ ListInterface(d)
                           \/ PodStep(d)
        \/ ChangePorts \/ DeleteLB \/ LBStep \/ CollectGarbage \/ Sync \/ PatchFindsNothing
        \/ EndpointFails \/ PodFails \/ LBFails \/ Restart

Spec == Init /\ [][Next]_vars

\* The workers, the informer and the garbage collector run, and so does a pod
\* that was made, and the daemon beside it; users and faults may not.
FairSpec == /\ Spec
            /\ \A r \in Endpoints : WF_vars(EndpointStep(r))
            /\ \A d \in Pods : WF_vars(PodStep(d)) /\ WF_vars(StartPod(d)) /\ WF_vars(ListInterface(d))
            /\ WF_vars(LBStep) /\ WF_vars(CollectGarbage) /\ WF_vars(Sync)
            /\ WF_vars(PatchFindsNothing)
-----------------------------------------------------------------------------
TypeOK ==
    /\ reps \in [Endpoints -> {"none", "live", "deleting", "gone"}]
    /\ pods \in [Pods -> {"none", "new", "up", "deleting", "gone"}]
    /\ guarded \subseteq Pods
    /\ lb \in Versions /\ seen \in Versions /\ (~news => seen = lb)
    /\ {t[1] : t \in lb.tunnels} \subseteq lb.nodes
    /\ queue \subseteq Endpoints \cup Pods \cup {LB}
    /\ repJob \in {Idle} \cup EndpointJobs
    /\ podJob \in {Idle} \cup PodJobs
    /\ lbJob \in {Idle} \cup LBJobs
    /\ deployment \in {None} \cup Deployments
    /\ changes \in 0 .. MaxChanges /\ faults \in 0 .. MaxFaults
    /\ news \in BOOLEAN /\ disturbed \subseteq Allowed

\* Nobody has anything to do, nor has the daemon or the garbage collector.
Quiet == /\ queue = {} /\ ~news
         /\ repJob = Idle /\ podJob = Idle /\ lbJob = Idle
         /\ ~Garbage
         /\ \A d \in Pods : /\ pods[d] # "new"
                            /\ pods[d] = "up" /\ lb.phase # "gone" => d \in lb.listed

Undisturbed(ds) == disturbed \cap ds = {}

\* Whenever all reconcilers rest, there is a tunnel between every running pod
\* and every active endpoint's node, unless the two patched the LoadBalancer
\* without having seen each other, or the pod's patch relied on a tunnel that
\* had gone with an earlier endpoint of the node.  (addProxyTunnels(): "adds a tunnel from ep
\* to each node running an Envoy proxy".)
PairsHaveTunnels ==
    Quiet /\ lb.phase = "live" /\ Undisturbed({"unlisted pod", "unseen endpoint", "missed removal"}) =>
        \A r \in ActiveEndpoints, d \in Pods :
            NodeAddress[r] # AdHoc /\ pods[d] = "up" => <<NodeAddress[r], HostIP[d]>> \in lb.tunnels

\* Whenever all reconcilers rest, the nodes of the map are those of the active
\* endpoints: the last endpoint of a node takes it away, and no other does,
\* unless its removal was lost or a pod's patch undid it.
NodesHaveEndpoints ==
    Quiet /\ lb.phase = "live" /\ Undisturbed({"revived node", "lost removal"}) =>
        lb.nodes = {NodeAddress[r] : r \in ActiveEndpoints} \ {AdHoc}

\* Of the endpoints that are being deleted, only those without a NodeAddress
\* stay, whatever fails: "we want to *always* remove our finalizer".
OnlyAdHocStay ==
    Quiet => \A r \in Endpoints : reps[r] = "deleting" => NodeAddress[r] = AdHoc

\* Whenever all reconcilers rest, the Deployment is the one that the
\* LoadBalancer's last change asks for: no earlier reconcile overwrites it.
DeploymentFollows ==
    Quiet /\ lb.phase = "live" => deployment # None /\ deployment.ports = lb.ports

\* Nothing that belongs to a LoadBalancer outlives it, not even what a
\* reconciler that read it before creates after it is gone.
NothingOutlivesLB ==
    Quiet /\ lb.phase = "gone" =>
        /\ deployment = None /\ ActiveEndpoints = {}
        /\ \A d \in Pods : pods[d] \in {"none", "gone"}

\* The reconcilers come to rest, whichever of the objects goes first.
ComesToRest == <>[]Quiet
=============================================================================

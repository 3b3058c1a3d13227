-------------------------- MODULE LBTunnels_proofs --------------------------
(***************************************************************************)
(* Proofs about LBTunnels, for every set of endpoints, pods, nodes and     *)
(* ports, every placement of them, and any number of changes and faults.   *)
(* Each property holds when all reconcilers rest; the invariant says, for  *)
(* the time before, who is still to see to what is missing.                *)
(***************************************************************************)
EXTENDS LBTunnels, TLAPS

USE NamesAssumption, NodesAssumption, RecordsAssumption, PortsAssumption,
    AllowedAssumption, BoundsAssumption

\* What the worker for endpoints does for r, and who is still to see to r or d.
Patching(r) == repJob # Idle /\ repJob.of = r /\ repJob.stage = "patch"
Leaving(r) == repJob # Idle /\ repJob.of = r /\ repJob.stage = "unguard"
DueEndpoint(r) == r \in queue \/ Patching(r)
DuePod(d) == d \in queue \/ (podJob # Idle /\ podJob.of = d)

\* The cached LoadBalancer lags behind, never ahead; as long as it is there it
\* has ports.
CacheLags == /\ seen.phase = "gone" => lb.phase = "gone"
             /\ lb.phase # "gone" => lb.ports \in Ports
             /\ seen.phase # "gone" => seen.ports \in Ports

\* An endpoint that is being worked on has a node, and is there to be patched.
JobsMakeSense == \A r \in Endpoints :
    /\ Patching(r) => NodeAddress[r] # AdHoc /\ reps[r] \in {"live", "deleting"}
    /\ Leaving(r) => NodeAddress[r] # AdHoc /\ reps[r] = "deleting"

\* An endpoint that is being deleted is queued until its removal has begun.
RemovalsDue == \A r \in Endpoints :
    reps[r] = "deleting" /\ NodeAddress[r] # AdHoc => r \in queue \/ Leaving(r)

\* A pod that is being deleted is queued; one that is not has its Deployment.
PodsDue == \A d \in Pods : /\ pods[d] = "deleting" => d \in queue
                           /\ pods[d] \in {"new", "up"} => deployment # None

\* The LoadBalancer's last change is in the Deployment, in the hands of the
\* worker, queued, or on its way to the cache.
DeploymentDue ==
    lb.phase = "live" =>
        \/ news \/ LB \in queue
        \/ lbJob # Idle /\ lbJob.ports = lb.ports
        \/ lbJob = Idle /\ deployment # None /\ deployment.ports = lb.ports

\* An active endpoint that nobody is to see to has its node in the map.
NodesDue ==
    lb.phase # "gone" => \A r \in Endpoints :
        reps[r] = "live" /\ NodeAddress[r] # AdHoc => DueEndpoint(r) \/ NodeAddress[r] \in lb.nodes

\* A node in the map has an endpoint whose removal is yet to come.
NodesUsed ==
    lb.phase # "gone" /\ Undisturbed({"revived node", "lost removal"}) =>
        \A n \in lb.nodes : \E r \in Endpoints :
            NodeAddress[r] = n /\ (reps[r] = "live" \/ (reps[r] = "deleting" /\ ~Leaving(r)))

\* Where a tunnel is missing, the endpoint or the pod is yet to be seen to.
TunnelsDue ==
    lb.phase # "gone" /\ Undisturbed({"unlisted pod", "unseen endpoint", "missed removal"}) =>
        \A r \in Endpoints, d \in Pods :
            reps[r] = "live" /\ NodeAddress[r] # AdHoc /\ pods[d] = "up" =>
                DueEndpoint(r) \/ DuePod(d) \/ <<NodeAddress[r], HostIP[d]>> \in lb.tunnels

IInv == /\ TypeOK /\ CacheLags /\ JobsMakeSense
        /\ RemovalsDue /\ PodsDue /\ DeploymentDue
        /\ NodesDue /\ NodesUsed /\ TunnelsDue

-----------------------------------------------------------------------------
\* Lemmas about versions of the LoadBalancer.

Closed(v) == v \in Versions /\ {t[1] : t \in v.tunnels} \subseteq v.nodes

\* A merge patch leaves all that is there, and what it adds is well-formed.
LEMMA PatchedClosed ==
    ASSUME NEW v, Closed(v), NEW ns \in SUBSET ClientNodes, NEW ts \in SUBSET (ns \X EpicNodes)
    PROVE  Closed([v EXCEPT !.nodes = @ \cup ns, !.tunnels = @ \cup ts])
<1> DEFINE w == [v EXCEPT !.nodes = @ \cup ns, !.tunnels = @ \cup ts]
<1>1. v \in Versions
  BY DEF Closed
<1>2. /\ v.nodes \cup ns \in SUBSET ClientNodes
      /\ v.tunnels \cup ts \in SUBSET (ClientNodes \X EpicNodes)
  BY <1>1 DEF Versions
<1>3. w \in Versions /\ w.nodes = v.nodes \cup ns /\ w.tunnels = v.tunnels \cup ts
  BY <1>1, <1>2 DEF Versions
<1>4. \A t \in w.tunnels : t[1] \in w.nodes
  BY <1>3 DEF Closed
<1> QED BY <1>3, <1>4 DEF Closed

\* A node leaves the map with all of its tunnels.
LEMMA RemovedClosed ==
    ASSUME Closed(lb), NEW r \in Endpoints
    PROVE  Closed(Removed(r))
<1> DEFINE w == [lb EXCEPT !.nodes = @ \ {NodeAddress[r]},
                           !.tunnels = {t \in @ : t[1] # NodeAddress[r]}]
<1>1. w \in Versions
  BY DEF Closed, Versions
<1>2. /\ w.nodes = lb.nodes \ {NodeAddress[r]}
      /\ w.tunnels = {t \in lb.tunnels : t[1] # NodeAddress[r]}
  BY DEF Closed, Versions
<1>3. \A t \in w.tunnels : t[1] \in w.nodes
  BY <1>2 DEF Closed
<1>4. Closed(w)
  BY <1>1, <1>3 DEF Closed
<1> QED BY <1>4 DEF Removed

-----------------------------------------------------------------------------
\* TypeOK is inductive together with what the jobs and the cache are about.
TInv == TypeOK /\ CacheLags /\ JobsMakeSense

LEMMA TypeStep == ASSUME TInv, [Next]_vars PROVE TypeOK'
<1> USE DEF TInv, TypeOK, podVars, lbVars, jobs, counters, Counted, Faulty
<1>0. Closed(lb)
  BY DEF Closed
<1>1. ASSUME NEW r \in Endpoints, CreateEndpoint(r) PROVE TypeOK'
  BY <1>1 DEF CreateEndpoint
<1>2. ASSUME NEW r \in Endpoints, DeleteEndpoint(r) PROVE TypeOK'
  BY <1>2 DEF DeleteEndpoint
<1>3. ASSUME NEW r \in Endpoints, SkipEndpoint(r) PROVE TypeOK'
  BY <1>3 DEF SkipEndpoint
<1>4. ASSUME NEW r \in Endpoints, RemoveRepInfo(r) PROVE TypeOK'
  <2>1. lb' \in Versions /\ (~news' => seen' = lb') /\ {t[1] : t \in lb'.tunnels} \subseteq lb'.nodes
        /\ seen' \in Versions /\ news' \in BOOLEAN
    <3>1. \/ lb' = Removed(r) /\ news' = TRUE /\ UNCHANGED seen
          \/ UNCHANGED lbVars
      BY <1>4 DEF RemoveRepInfo, Store
    <3>2. Closed(Removed(r))
      BY <1>0, RemovedClosed
    <3>3. CASE UNCHANGED lbVars
      BY <1>0, <3>3 DEF Closed
    <3>4. CASE lb' = Removed(r) /\ news' = TRUE /\ UNCHANGED seen
      BY <3>2, <3>4 DEF Closed
    <3> QED BY <3>1, <3>3, <3>4
  <2>2. Gone \in Versions
    BY DEF Gone, Versions
  <2>3. repJob' \in {Idle} \cup EndpointJobs
    BY <1>4, <2>2 DEF RemoveRepInfo, EndpointJobs
  <2>4. /\ changes' \in 0 .. MaxChanges /\ faults' \in 0 .. MaxFaults
        /\ disturbed' \subseteq Allowed
    <3>1. UNCHANGED disturbed \/ Mark({"lost removal"})
      BY <1>4 DEF RemoveRepInfo
    <3>2. disturbed' \subseteq Allowed
      BY <3>1 DEF Mark
    <3>3. UNCHANGED faults \/ (faults < MaxFaults /\ faults' = faults + 1)
      BY <1>4 DEF RemoveRepInfo
    <3>4. faults' \in 0 .. MaxFaults
      BY <3>3
    <3> QED BY <1>4, <3>2, <3>4 DEF RemoveRepInfo
  <2>5. queue' \subseteq Endpoints \cup Pods \cup {LB}
    BY <1>4 DEF RemoveRepInfo
  <2>6. UNCHANGED <<reps, podVars, podJob, lbJob>>
    BY <1>4 DEF RemoveRepInfo
  <2> QED BY <2>1, <2>3, <2>4, <2>5, <2>6
<1>5. ASSUME NEW r \in Endpoints, UnguardEndpoint(r) PROVE TypeOK'
  BY <1>5 DEF UnguardEndpoint
<1>6. ASSUME NEW r \in Endpoints, GetLBForEndpoint(r) PROVE TypeOK'
  BY <1>6 DEF GetLBForEndpoint, EndpointJobs
<1>7. ASSUME NEW r \in Endpoints, AddEndpointTunnels(r) PROVE TypeOK'
  <2> DEFINE hosts == {HostIP[d] : d \in repJob.copy.listed}
  <2>1. NodeAddress[r] \in ClientNodes
    BY <1>7 DEF AddEndpointTunnels, JobsMakeSense, Patching
  <2>2. repJob.copy.listed \subseteq Pods
    BY <1>7 DEF AddEndpointTunnels, EndpointJobs, Versions
  <2>3. {NodeAddress[r]} \X hosts \in SUBSET ({NodeAddress[r]} \X EpicNodes)
    BY <2>2 DEF EpicNodes
  <2>4. Closed(lb') /\ news'
    <3>1. lb' = [lb EXCEPT !.nodes = @ \cup {NodeAddress[r]},
                           !.tunnels = @ \cup ({NodeAddress[r]} \X hosts)]
      BY <1>7 DEF AddEndpointTunnels, Store
    <3> HIDE DEF hosts
    <3>2. Closed([lb EXCEPT !.nodes = @ \cup {NodeAddress[r]},
                            !.tunnels = @ \cup ({NodeAddress[r]} \X hosts)])
      BY <1>0, <2>1, <2>3, PatchedClosed
    <3> QED BY <1>7, <3>1, <3>2 DEF AddEndpointTunnels, Store
  <2> QED BY <1>7, <2>4 DEF AddEndpointTunnels, Store, Mark, Closed
<1>8. ASSUME NEW d \in Pods, CreatePod(d) PROVE TypeOK'
  BY <1>8 DEF CreatePod
<1>9. ASSUME NEW d \in Pods, StartPod(d) PROVE TypeOK'
  BY <1>9 DEF StartPod
<1>10. ASSUME NEW d \in Pods, DeletePod(d) PROVE TypeOK'
  BY <1>10 DEF DeletePod, Ended
<1>11. ASSUME NEW d \in Pods, ListInterface(d) PROVE TypeOK'
  BY <1>11 DEF ListInterface, Store, Versions
<1>12. ASSUME NEW d \in Pods, SkipPod(d) PROVE TypeOK'
  BY <1>12 DEF SkipPod
<1>13. ASSUME NEW d \in Pods, FinalizePod(d) PROVE TypeOK'
  BY <1>13 DEF FinalizePod, RemovePodInfo
<1>14. ASSUME NEW d \in Pods, GuardPod(d) PROVE TypeOK'
  BY <1>14 DEF GuardPod
<1>15. ASSUME NEW d \in Pods, GetLBForPod(d) PROVE TypeOK'
  BY <1>15 DEF GetLBForPod, PodJobs
<1>16. ASSUME NEW d \in Pods, AddPodTunnels(d) PROVE TypeOK'
  <2> DEFINE lacking == {n \in podJob.copy.nodes : <<n, HostIP[d]>> \notin podJob.copy.tunnels}
  <2>1. lacking \in SUBSET ClientNodes
    BY <1>16 DEF AddPodTunnels, PodJobs, Versions
  <2>2. Tunnels(lacking, {HostIP[d]}) \in SUBSET (lacking \X EpicNodes)
    BY DEF Tunnels, EpicNodes
  <2>3. /\ Closed(lb') /\ seen' \in Versions
        /\ news' \in BOOLEAN /\ (~news' => seen' = lb')
    <3>1. \/ UNCHANGED lbVars
          \/ /\ lb' = [lb EXCEPT !.nodes = @ \cup lacking,
                                 !.tunnels = @ \cup Tunnels(lacking, {HostIP[d]})]
             /\ news' /\ news' \in BOOLEAN /\ UNCHANGED seen
      BY <1>16 DEF AddPodTunnels, Store
    <3> HIDE DEF lacking
    <3>2. Closed([lb EXCEPT !.nodes = @ \cup lacking,
                            !.tunnels = @ \cup Tunnels(lacking, {HostIP[d]})])
      BY <1>0, <2>1, <2>2, PatchedClosed
    <3> QED BY <1>0, <3>1, <3>2
  <2> QED BY <1>16, <2>3 DEF AddPodTunnels, Mark, Closed
<1>17. CASE ChangePorts
  BY <1>17 DEF ChangePorts, Store, Versions
<1>18. CASE DeleteLB
  BY <1>18 DEF DeleteLB, Store, Versions
<1>19. CASE SkipLB
  BY <1>19 DEF SkipLB
<1>20. CASE ReconcileLB
  BY <1>20 DEF ReconcileLB, CacheLags, LBJobs
<1>21. CASE CreateDeployment
  BY <1>21 DEF CreateDeployment, DeploymentForLB, Deployments, LBJobs
<1>22. CASE UpdateDeployment
  BY <1>22 DEF UpdateDeployment, Deployments, LBJobs
<1>23. CASE UnguardLB
  BY <1>23 DEF UnguardLB, Store, Gone, Versions
<1>24. CASE CollectGarbage
  <2>1. reps' \in [Endpoints -> {"none", "live", "deleting", "gone"}]
    BY <1>24 DEF CollectGarbage
  <2>2. pods' \in [Pods -> {"none", "new", "up", "deleting", "gone"}]
    BY <1>24 DEF CollectGarbage, Ended
  <2>3. queue' \subseteq Endpoints \cup Pods \cup {LB}
    BY <1>24 DEF CollectGarbage, ActiveEndpoints
  <2>4. deployment' \in {None} \cup Deployments
    BY <1>24 DEF CollectGarbage
  <2> QED BY <1>24, <2>1, <2>2, <2>3, <2>4 DEF CollectGarbage
<1>25. CASE Sync
  BY <1>25 DEF Sync
<1>26. CASE PatchFindsNothing
  BY <1>26 DEF PatchFindsNothing, EndpointJobs, PodJobs
<1>27. CASE EndpointFails
  BY <1>27 DEF EndpointFails, Of, EndpointJobs
<1>28. CASE PodFails
  BY <1>28 DEF PodFails, Of, PodJobs
<1>29. CASE LBFails
  BY <1>29 DEF LBFails
<1>30. CASE Restart
  <2>1. queue' \subseteq Endpoints \cup Pods \cup {LB}
    BY <1>30 DEF Restart
  <2>2. lb' \in Versions /\ seen' = lb' /\ {t[1] : t \in lb'.tunnels} \subseteq lb'.nodes
    BY <1>30 DEF Restart
  <2>3. UNCHANGED <<reps, podVars, changes, disturbed>> /\ news' = FALSE
    BY <1>30 DEF Restart
  <2>4. repJob' = Idle /\ podJob' = Idle /\ lbJob' = Idle /\ faults' \in 0 .. MaxFaults
    BY <1>30 DEF Restart
  <2> QED BY <2>1, <2>2, <2>3, <2>4
<1>31. CASE UNCHANGED vars
  BY <1>31 DEF vars
<1> QED
  BY <1>1, <1>2, <1>3, <1>4, <1>5, <1>6, <1>7, <1>8, <1>9, <1>10, <1>11, <1>12, <1>13, <1>14, <1>15, <1>16, <1>17, <1>18, <1>19, <1>20, <1>21, <1>22, <1>23, <1>24, <1>25, <1>26, <1>27, <1>28, <1>29, <1>30, <1>31 DEF Next, EndpointStep, PodStep, LBStep

-----------------------------------------------------------------------------
\* Which actions change a variable, or take an object from the queue.

USE DEF Next, EndpointStep, PodStep, LBStep, vars, podVars, lbVars, jobs, counters,
        CreateEndpoint, DeleteEndpoint, SkipEndpoint, RemoveRepInfo, UnguardEndpoint,
        GetLBForEndpoint, AddEndpointTunnels, CreatePod, StartPod, DeletePod, ListInterface,
        SkipPod, FinalizePod, RemovePodInfo, GuardPod, GetLBForPod, AddPodTunnels, ChangePorts,
        DeleteLB, SkipLB, ReconcileLB, CreateDeployment, UpdateDeployment, UnguardLB,
        CollectGarbage, Sync, PatchFindsNothing, EndpointFails, PodFails, LBFails, Restart

LEMMA LBSteps ==
    ASSUME [Next]_vars
    PROVE  \/ UNCHANGED lbVars
           \/ \E r \in Endpoints : RemoveRepInfo(r) \/ AddEndpointTunnels(r)
           \/ \E d \in Pods : ListInterface(d) \/ AddPodTunnels(d)
           \/ ChangePorts \/ DeleteLB \/ UnguardLB \/ Sync \/ Restart
OBVIOUS

LEMMA RepsSteps ==
    ASSUME [Next]_vars
    PROVE  \/ UNCHANGED reps
           \/ \E r \in Endpoints : CreateEndpoint(r) \/ DeleteEndpoint(r) \/ UnguardEndpoint(r)
           \/ CollectGarbage
OBVIOUS

LEMMA PodsSteps ==
    ASSUME [Next]_vars
    PROVE  \/ UNCHANGED pods
           \/ \E d \in Pods : CreatePod(d) \/ StartPod(d) \/ DeletePod(d) \/ FinalizePod(d)
           \/ CollectGarbage
OBVIOUS

LEMMA DeploymentSteps ==
    ASSUME [Next]_vars
    PROVE  UNCHANGED deployment \/ CreateDeployment \/ UpdateDeployment \/ CollectGarbage
OBVIOUS

LEMMA EndpointJobSteps ==
    ASSUME [Next]_vars
    PROVE  \/ UNCHANGED repJob
           \/ \E r \in Endpoints : \/ RemoveRepInfo(r) \/ UnguardEndpoint(r)
                                   \/ GetLBForEndpoint(r) \/ AddEndpointTunnels(r)
           \/ PatchFindsNothing \/ EndpointFails \/ Restart
OBVIOUS

LEMMA PodJobSteps ==
    ASSUME [Next]_vars
    PROVE  \/ UNCHANGED podJob
           \/ \E d \in Pods : GetLBForPod(d) \/ AddPodTunnels(d)
           \/ PatchFindsNothing \/ PodFails \/ Restart
OBVIOUS

LEMMA LBJobSteps ==
    ASSUME [Next]_vars
    PROVE  UNCHANGED lbJob \/ ReconcileLB \/ CreateDeployment \/ UpdateDeployment \/ LBFails \/ Restart
OBVIOUS

LEMMA QueueSteps ==
    ASSUME [Next]_vars, NEW x \in queue, x \notin queue'
    PROVE  \/ x \in Endpoints /\ (SkipEndpoint(x) \/ RemoveRepInfo(x) \/ GetLBForEndpoint(x))
           \/ x \in Pods /\ (SkipPod(x) \/ GetLBForPod(x))
           \/ x = LB /\ (SkipLB \/ ReconcileLB \/ UnguardLB)
           \/ Restart
<1>1. ASSUME NEW r \in Endpoints, CreateEndpoint(r) \/ DeleteEndpoint(r) \/ EndpointStep(r)
      PROVE  x \in Endpoints /\ (SkipEndpoint(x) \/ RemoveRepInfo(x) \/ GetLBForEndpoint(x))
  <2>1. x = r
    BY <1>1
  <2> QED BY <1>1, <2>1
<1>2. ASSUME NEW d \in Pods,
             CreatePod(d) \/ StartPod(d) \/ DeletePod(d) \/ ListInterface(d) \/ PodStep(d)
      PROVE  x \in Pods /\ (SkipPod(x) \/ GetLBForPod(x))
  <2>1. x = d
    BY <1>2
  <2> QED BY <1>2, <2>1
<1>3. ASSUME LBStep
      PROVE  x = LB /\ (SkipLB \/ ReconcileLB \/ UnguardLB)
  BY <1>3
<1>4. ~(ChangePorts \/ DeleteLB \/ CollectGarbage \/ Sync \/ PatchFindsNothing
        \/ EndpointFails \/ PodFails \/ LBFails \/ UNCHANGED vars)
  OBVIOUS
<1> QED BY <1>1, <1>2, <1>3, <1>4

LEMMA DisturbedGrows == ASSUME [Next]_vars PROVE disturbed \subseteq disturbed'
<1>1. \/ UNCHANGED disturbed
      \/ \E r \in Endpoints : RemoveRepInfo(r) \/ AddEndpointTunnels(r)
      \/ \E d \in Pods : AddPodTunnels(d)
  OBVIOUS
<1>2. ASSUME NEW r \in Endpoints, RemoveRepInfo(r) \/ AddEndpointTunnels(r)
      PROVE  disturbed \subseteq disturbed'
  BY <1>2 DEF Mark
<1>3. ASSUME NEW d \in Pods, AddPodTunnels(d)
      PROVE  disturbed \subseteq disturbed'
  BY <1>3 DEF Mark
<1> QED BY <1>1, <1>2, <1>3

HIDE DEF Next, EndpointStep, PodStep, LBStep, vars, podVars, lbVars, jobs, counters,
         CreateEndpoint, DeleteEndpoint, SkipEndpoint, RemoveRepInfo, UnguardEndpoint,
         GetLBForEndpoint, AddEndpointTunnels, CreatePod, StartPod, DeletePod, ListInterface,
         SkipPod, FinalizePod, RemovePodInfo, GuardPod, GetLBForPod, AddPodTunnels, ChangePorts,
         DeleteLB, SkipLB, ReconcileLB, CreateDeployment, UpdateDeployment, UnguardLB,
         CollectGarbage, Sync, PatchFindsNothing, EndpointFails, PodFails, LBFails, Restart

-----------------------------------------------------------------------------
\* What the actions do to the LoadBalancer, and to the jobs.

LEMMA VersionFields ==
    ASSUME NEW v \in Versions, NEW ns, NEW ts, NEW ls, NEW ps, NEW ph
    PROVE  /\ LET w == [v EXCEPT !.nodes = ns, !.tunnels = ts] IN
              w.phase = v.phase /\ w.ports = v.ports /\ w.nodes = ns /\ w.tunnels = ts
           /\ LET w == [v EXCEPT !.listed = ls] IN
              w.phase = v.phase /\ w.ports = v.ports /\ w.nodes = v.nodes /\ w.tunnels = v.tunnels
           /\ LET w == [v EXCEPT !.ports = ps] IN
              w.phase = v.phase /\ w.ports = ps /\ w.nodes = v.nodes /\ w.tunnels = v.tunnels
           /\ LET w == [v EXCEPT !.phase = ph] IN
              w.phase = ph /\ w.ports = v.ports /\ w.nodes = v.nodes /\ w.tunnels = v.tunnels
BY DEF Versions

LEMMA NewJobs ==
    ASSUME TypeOK
    PROVE  /\ \A r \in Endpoints : /\ [of |-> r, stage |-> "unguard", copy |-> Gone] # Idle
                                   /\ [of |-> r, stage |-> "patch", copy |-> seen] # Idle
           /\ \A d \in Pods : [of |-> d, stage |-> "patch", copy |-> seen] # Idle
           /\ \A ps \in Ports : [ports |-> ps] # Idle
<1>1. Gone \in Versions /\ seen \in Versions
  BY DEF Gone, Versions, TypeOK
<1> QED BY <1>1 DEF EndpointJobs, PodJobs, LBJobs

\* addProxyTunnels()
LEMMA AddEndpointTunnelsEffect ==
    ASSUME TypeOK, NEW r \in Endpoints, AddEndpointTunnels(r)
    PROVE  /\ lb'.phase = lb.phase /\ lb'.ports = lb.ports /\ UNCHANGED seen /\ news' = TRUE
           /\ lb'.nodes = lb.nodes \cup {NodeAddress[r]}
           /\ lb'.tunnels = lb.tunnels \cup
                              ({NodeAddress[r]} \X {HostIP[d] : d \in repJob.copy.listed})
<1>1. lb \in Versions
  BY DEF TypeOK
<1> DEFINE made == {NodeAddress[r]} \X {HostIP[d] : d \in repJob.copy.listed}
<1>2. /\ lb' = [lb EXCEPT !.nodes = @ \cup {NodeAddress[r]}, !.tunnels = @ \cup made]
      /\ UNCHANGED seen /\ news' = TRUE
  BY DEF AddEndpointTunnels, Store
<1> HIDE DEF made
<1>3. /\ lb'.phase = lb.phase /\ lb'.ports = lb.ports /\ UNCHANGED seen /\ news' = TRUE
      /\ lb'.nodes = lb.nodes \cup {NodeAddress[r]} /\ lb'.tunnels = lb.tunnels \cup made
  BY <1>1, <1>2, VersionFields
<1> QED BY <1>3 DEF made

\* addPodTunnels()
Lacking(d) == {n \in podJob.copy.nodes : <<n, HostIP[d]>> \notin podJob.copy.tunnels}

LEMMA AddPodTunnelsEffect ==
    ASSUME TypeOK, NEW d \in Pods, AddPodTunnels(d)
    PROVE  /\ lb'.phase = lb.phase /\ lb'.ports = lb.ports /\ UNCHANGED seen
           /\ (lb' = lb /\ UNCHANGED news) \/ news' = TRUE
           /\ lb'.nodes = lb.nodes \cup Lacking(d)
           /\ lb'.tunnels = lb.tunnels \cup (Lacking(d) \X {HostIP[d]})
<1>1. lb \in Versions
  BY DEF TypeOK
<1>2. CASE Lacking(d) = {}
  BY <1>2 DEF AddPodTunnels, Lacking, lbVars
<1>3. CASE Lacking(d) # {}
  <2>1. /\ lb' = [lb EXCEPT !.nodes = @ \cup Lacking(d),
                            !.tunnels = @ \cup (Lacking(d) \X {HostIP[d]})]
        /\ UNCHANGED seen /\ news' = TRUE
    BY <1>3 DEF AddPodTunnels, Lacking, Store, Tunnels
  <2> QED BY <1>1, <2>1, VersionFields
<1> QED BY <1>2, <1>3

\* removeRepInfo()
LEMMA RemoveRepInfoEffect ==
    ASSUME TypeOK, NEW r \in Endpoints, RemoveRepInfo(r)
    PROVE  /\ lb'.phase = lb.phase /\ lb'.ports = lb.ports /\ UNCHANGED seen
           /\ \/ UNCHANGED <<lb, news>>
              \/ lb' = lb /\ news' = TRUE
              \/ /\ \A other \in Endpoints \ {r} :
                       reps[other] = "live" => NodeAddress[other] # NodeAddress[r]
                 /\ lb'.nodes = lb.nodes \ {NodeAddress[r]}
                 /\ lb'.tunnels = {t \in lb.tunnels : t[1] # NodeAddress[r]}
                 /\ news' = TRUE
<1> DEFINE alone == \A other \in Endpoints \ {r} :
                       reps[other] = "live" => NodeAddress[other] # NodeAddress[r]
           w == [lb EXCEPT !.nodes = @ \ {NodeAddress[r]},
                           !.tunnels = {t \in @ : t[1] # NodeAddress[r]}]
<1>1. /\ UNCHANGED seen
      /\ \/ UNCHANGED <<lb, news>>
         \/ lb' = Removed(r) /\ news' = TRUE
  BY DEF RemoveRepInfo, Store, lbVars
<1>2. Removed(r) = IF alone THEN w ELSE lb
  BY DEF Removed, ActiveEndpoints
<1>3. /\ w.phase = lb.phase /\ w.ports = lb.ports
      /\ w.nodes = lb.nodes \ {NodeAddress[r]}
      /\ w.tunnels = {t \in lb.tunnels : t[1] # NodeAddress[r]}
  BY VersionFields DEF TypeOK
<1> QED BY <1>1, <1>2, <1>3

\* The informer's daemon, and users
LEMMA ChangeEffect ==
    ASSUME TypeOK, (\E d \in Pods : ListInterface(d)) \/ ChangePorts \/ DeleteLB
    PROVE  /\ lb.phase # "gone" /\ lb'.phase # "gone" /\ lb'.ports \in Ports \cup {lb.ports}
           /\ lb'.nodes = lb.nodes /\ lb'.tunnels = lb.tunnels
           /\ UNCHANGED seen /\ news' = TRUE
<1>1. lb \in Versions
  BY DEF TypeOK
<1>2. CASE \E d \in Pods : ListInterface(d)
  BY <1>1, <1>2, VersionFields DEF ListInterface, Store
<1>3. CASE ChangePorts
  BY <1>1, <1>3, VersionFields DEF ChangePorts, Store
<1>4. CASE DeleteLB
  BY <1>1, <1>4, VersionFields DEF DeleteLB, Store
<1> QED BY <1>2, <1>3, <1>4

\* The LoadBalancer does not come back.
LEMMA GoneForGood ==
    ASSUME TypeOK, [Next]_vars, lb'.phase # "gone"
    PROVE  lb.phase # "gone"
<1>1. ASSUME NEW r \in Endpoints, RemoveRepInfo(r) \/ AddEndpointTunnels(r) PROVE lb.phase # "gone"
  BY <1>1, RemoveRepInfoEffect, AddEndpointTunnelsEffect
<1>2. ASSUME NEW d \in Pods, AddPodTunnels(d) PROVE lb.phase # "gone"
  BY <1>2, AddPodTunnelsEffect
<1>3. CASE UnguardLB
  BY <1>3 DEF UnguardLB, Store, Gone
<1>4. CASE UNCHANGED lbVars \/ Sync \/ Restart
  BY <1>4 DEF lbVars, Sync, Restart
<1> QED BY <1>1, <1>2, <1>3, <1>4, ChangeEffect, LBSteps

LEMMA CacheLagsStep == ASSUME TypeOK, CacheLags, [Next]_vars PROVE CacheLags'
<1>1. CASE \E r \in Endpoints : RemoveRepInfo(r) \/ AddEndpointTunnels(r)
  BY <1>1, RemoveRepInfoEffect, AddEndpointTunnelsEffect DEF CacheLags
<1>2. CASE \E d \in Pods : AddPodTunnels(d)
  BY <1>2, AddPodTunnelsEffect DEF CacheLags
<1>3. CASE (\E d \in Pods : ListInterface(d)) \/ ChangePorts \/ DeleteLB
  BY <1>3, ChangeEffect DEF CacheLags
<1>4. CASE UnguardLB
  BY <1>4 DEF UnguardLB, Store, Gone, CacheLags
<1>5. CASE UNCHANGED lbVars \/ Sync \/ Restart
  BY <1>5 DEF lbVars, Sync, Restart, CacheLags
<1> QED BY <1>1, <1>2, <1>3, <1>4, <1>5, LBSteps

\* As long as an active endpoint is on a node, the map keeps the node and its
\* tunnels.
LEMMA ActiveNodesStay ==
    ASSUME TypeOK, [Next]_vars, lb'.phase # "gone", NEW r \in Endpoints, reps[r] = "live"
    PROVE  /\ NodeAddress[r] \in lb.nodes => NodeAddress[r] \in lb'.nodes
           /\ \A t \in lb.tunnels : t[1] = NodeAddress[r] => t \in lb'.tunnels
<1>1. ASSUME NEW s \in Endpoints, RemoveRepInfo(s)
      PROVE  /\ NodeAddress[r] \in lb.nodes => NodeAddress[r] \in lb'.nodes
             /\ \A t \in lb.tunnels : t[1] = NodeAddress[r] => t \in lb'.tunnels
  <2>1. reps[s] = "deleting"
    BY <1>1 DEF RemoveRepInfo
  <2>2. r # s
    BY <2>1
  <2>3. \/ lb' = lb
        \/ /\ NodeAddress[r] # NodeAddress[s]
           /\ lb'.nodes = lb.nodes \ {NodeAddress[s]}
           /\ lb'.tunnels = {t \in lb.tunnels : t[1] # NodeAddress[s]}
    BY <1>1, <2>2, RemoveRepInfoEffect
  <2> QED BY <2>3
<1>2. CASE \E s \in Endpoints : AddEndpointTunnels(s)
  BY <1>2, AddEndpointTunnelsEffect
<1>3. CASE \E d \in Pods : AddPodTunnels(d)
  BY <1>3, AddPodTunnelsEffect
<1>4. CASE (\E d \in Pods : ListInterface(d)) \/ ChangePorts \/ DeleteLB
  BY <1>4, ChangeEffect
<1>5. CASE UnguardLB
  BY <1>5 DEF UnguardLB, Store, Gone
<1>6. CASE UNCHANGED lbVars \/ Sync \/ Restart
  BY <1>6 DEF lbVars, Sync, Restart
<1> QED BY <1>1, <1>2, <1>3, <1>4, <1>5, <1>6, LBSteps

-----------------------------------------------------------------------------
\* Each part of the invariant, from one state to the next.

LEMMA JobsMakeSenseStep == ASSUME TypeOK, JobsMakeSense, [Next]_vars PROVE JobsMakeSense'
<1> SUFFICES ASSUME NEW r \in Endpoints
             PROVE  /\ Patching(r)' => NodeAddress[r] # AdHoc /\ reps'[r] \in {"live", "deleting"}
                    /\ Leaving(r)' => NodeAddress[r] # AdHoc /\ reps'[r] = "deleting"
  BY DEF JobsMakeSense, Patching, Leaving
<1> USE DEF Patching, Leaving
<1>1. CASE repJob' = Idle
  BY <1>1
<1>2. CASE \E s \in Endpoints : RemoveRepInfo(s)
  <2>1. PICK s \in Endpoints : RemoveRepInfo(s)
    BY <1>2
  <2>2. /\ repJob'.of = s /\ repJob'.stage = "unguard" /\ UNCHANGED reps
        /\ reps[s] = "deleting" /\ NodeAddress[s] # AdHoc
    BY <2>1 DEF RemoveRepInfo
  <2> QED BY <2>2
<1>3. CASE \E s \in Endpoints : GetLBForEndpoint(s)
  BY <1>3 DEF GetLBForEndpoint
<1>4. CASE UNCHANGED repJob
  <2>1. CASE UNCHANGED reps
    BY <1>4, <2>1 DEF JobsMakeSense
  <2>2. CASE \E s \in Endpoints : CreateEndpoint(s)
    BY <1>4, <2>2 DEF CreateEndpoint, JobsMakeSense, TypeOK
  <2>3. CASE \E s \in Endpoints : DeleteEndpoint(s)
    BY <1>4, <2>3 DEF DeleteEndpoint, JobsMakeSense, TypeOK
  <2>4. CASE \E s \in Endpoints : UnguardEndpoint(s)
    BY <1>4, <2>4 DEF UnguardEndpoint
  <2>5. CASE CollectGarbage
    BY <1>4, <2>5 DEF CollectGarbage, JobsMakeSense
  <2> QED BY <2>1, <2>2, <2>3, <2>4, <2>5, RepsSteps
<1>5. CASE PatchFindsNothing
  BY <1>4, <1>5 DEF PatchFindsNothing
<1> QED BY <1>1, <1>2, <1>3, <1>4, <1>5, EndpointJobSteps
        DEF UnguardEndpoint, AddEndpointTunnels, EndpointFails, Restart

LEMMA RemovalsDueStep == ASSUME TypeOK, JobsMakeSense, RemovalsDue, [Next]_vars PROVE RemovalsDue'
<1> SUFFICES ASSUME NEW r \in Endpoints, reps'[r] = "deleting", NodeAddress[r] # AdHoc,
                    r \notin queue'
             PROVE  Leaving(r)'
  BY DEF RemovalsDue, Leaving
<1>1. reps[r] = "deleting"
  BY RepsSteps DEF CreateEndpoint, DeleteEndpoint, UnguardEndpoint, CollectGarbage, ActiveEndpoints, TypeOK
<1>2. CASE r \in queue
  <2>1. RemoveRepInfo(r)
    BY <1>1, <1>2, QueueSteps DEF SkipEndpoint, GetLBForEndpoint, Restart
  <2> QED BY <2>1, NewJobs DEF RemoveRepInfo, Leaving
<1>3. CASE r \notin queue
  <2>1. Leaving(r)
    BY <1>1, <1>3 DEF RemovalsDue
  <2>2. ~UnguardEndpoint(r) /\ ~EndpointFails /\ ~Restart
    BY <1>1, <2>1 DEF UnguardEndpoint, EndpointFails, Restart, Leaving, Of
  <2>3. UNCHANGED repJob
    BY <2>1, <2>2, EndpointJobSteps
    DEF Leaving, RemoveRepInfo, GetLBForEndpoint, AddEndpointTunnels, UnguardEndpoint, PatchFindsNothing
  <2> QED BY <2>1, <2>3 DEF Leaving
<1> QED BY <1>2, <1>3

LEMMA PodsDueStep == ASSUME TypeOK, PodsDue, [Next]_vars PROVE PodsDue'
<1>1. ASSUME NEW d \in Pods, pods'[d] = "deleting", d \notin queue'
      PROVE  FALSE
  <2>1. pods[d] = "deleting"
    BY <1>1, PodsSteps DEF CreatePod, StartPod, DeletePod, FinalizePod, CollectGarbage, TypeOK
  <2>2. d \in queue
    BY <2>1 DEF PodsDue
  <2> QED BY <1>1, <2>1, <2>2, QueueSteps DEF SkipPod, GetLBForPod, Restart
<1>2. ASSUME NEW d \in Pods, pods'[d] \in {"new", "up"}
      PROVE  deployment' # None
  <2>1. CASE CollectGarbage
    BY <1>2, <2>1 DEF CollectGarbage, Ended, PodsDue, TypeOK
  <2>2. CASE ~CollectGarbage
    <3>1. deployment # None
      BY <1>2, <2>2, PodsSteps DEF CreatePod, StartPod, DeletePod, FinalizePod, Ended, PodsDue, TypeOK
    <3>2. CreateDeployment \/ UpdateDeployment => deployment' # None
      BY DEF CreateDeployment, UpdateDeployment, DeploymentForLB, TypeOK, Deployments, LBJobs
    <3> QED BY <2>2, <3>1, <3>2, DeploymentSteps
  <2> QED BY <2>1, <2>2
<1> QED BY <1>1, <1>2 DEF PodsDue

LEMMA DeploymentDueStep ==
    ASSUME TypeOK, CacheLags, DeploymentDue, [Next]_vars
    PROVE  DeploymentDue'
<1> SUFFICES ASSUME lb'.phase = "live", news' # TRUE, LB \notin queue'
             PROVE  \/ lbJob' # Idle /\ lbJob'.ports = lb'.ports
                    \/ lbJob' = Idle /\ deployment' # None /\ deployment'.ports = lb'.ports
  BY DEF DeploymentDue
<1>1. UNCHANGED lb
  BY LBSteps, RemoveRepInfoEffect, AddEndpointTunnelsEffect, AddPodTunnelsEffect, ChangeEffect
  DEF UnguardLB, Store, Sync, Restart, lbVars
<1>2. ~Sync /\ ~Restart /\ ~LBFails /\ ~CollectGarbage /\ ~UnguardLB
  BY <1>1 DEF Sync, Restart, LBFails, CollectGarbage, Garbage, UnguardLB, Store
<1>3. UNCHANGED <<seen, news>>
  BY <1>1, <1>2, LBSteps, RemoveRepInfoEffect, AddEndpointTunnelsEffect, AddPodTunnelsEffect, ChangeEffect
  DEF lbVars
<1>4. news = FALSE /\ seen = lb
  BY <1>3 DEF TypeOK
<1>5. CASE ReconcileLB
  <2>1. lbJob' = [ports |-> lb.ports] /\ lb.ports \in Ports
    BY <1>1, <1>4, <1>5 DEF ReconcileLB, CacheLags
  <2> QED BY <1>1, <2>1, NewJobs
<1>6. CASE LB \in queue /\ ~ReconcileLB
  BY <1>1, <1>2, <1>4, <1>6, QueueSteps DEF SkipLB
<1>7. CASE LB \notin queue /\ ~ReconcileLB
  <2>1. \/ lbJob # Idle /\ lbJob.ports = lb.ports
        \/ lbJob = Idle /\ deployment # None /\ deployment.ports = lb.ports
    BY <1>1, <1>4, <1>7 DEF DeploymentDue
  <2>2. CASE CreateDeployment \/ UpdateDeployment
    <3>1. lbJob.ports = lb.ports /\ lb.ports \in Ports /\ lbJob' = Idle
      BY <1>1, <2>1, <2>2 DEF CreateDeployment, UpdateDeployment, CacheLags
    <3>2. deployment' \in Deployments /\ deployment'.ports = lb.ports
      <4>1. CASE CreateDeployment
        <5>1. deployment' = [owner |-> LB, ports |-> lb.ports]
          BY <3>1, <4>1 DEF CreateDeployment, DeploymentForLB
        <5> QED BY <3>1, <5>1 DEF Deployments
      <4>2. CASE UpdateDeployment
        <5>1. deployment \in Deployments /\ deployment' = [deployment EXCEPT !.ports = lb.ports]
          BY <3>1, <4>2 DEF UpdateDeployment, TypeOK
        <5> QED BY <3>1, <5>1 DEF Deployments
      <4> QED BY <2>2, <4>1, <4>2
    <3> QED BY <1>1, <3>1, <3>2
  <2>3. CASE ~CreateDeployment /\ ~UpdateDeployment
    BY <1>1, <1>2, <1>7, <2>1, <2>3, LBJobSteps, DeploymentSteps
  <2> QED BY <2>2, <2>3
<1> QED BY <1>5, <1>6, <1>7

\* An active endpoint that nobody is to see to was one before, unless it has
\* just been seen to.
LEMMA EndpointStaysDue ==
    ASSUME TypeOK, JobsMakeSense, [Next]_vars, NEW r \in Endpoints, NodeAddress[r] # AdHoc,
           reps'[r] = "live", ~DueEndpoint(r)', lb'.phase # "gone"
    PROVE  reps[r] = "live" /\ (~DueEndpoint(r) \/ AddEndpointTunnels(r))
<1>1. r \notin queue' /\ ~Patching(r)'
  BY DEF DueEndpoint, Patching
<1>2. reps[r] = "live"
  BY <1>1, RepsSteps DEF CreateEndpoint, DeleteEndpoint, UnguardEndpoint, CollectGarbage, TypeOK
<1>3. r \notin queue
  <2> SUFFICES ASSUME r \in queue PROVE FALSE
    OBVIOUS
  <2>1. ~Restart
    BY <1>1, <1>2 DEF Restart
  <2>2. GetLBForEndpoint(r)
    BY <1>1, <1>2, <2>1, QueueSteps, NamesAssumption DEF SkipEndpoint, RemoveRepInfo
  <2>3. repJob' = [of |-> r, stage |-> "patch", copy |-> seen]
    BY <2>2 DEF GetLBForEndpoint
  <2>4. repJob' # Idle
    BY <2>3, NewJobs
  <2> QED BY <1>1, <2>3, <2>4 DEF Patching
<1>4. ASSUME Patching(r) PROVE AddEndpointTunnels(r)
  <2>1. repJob' # repJob
    BY <1>1, <1>4 DEF Patching
  <2>2. ~Restart /\ ~EndpointFails
    BY <1>1, <1>2, <1>4 DEF Restart, EndpointFails, Of, Patching
  <2>3. ~PatchFindsNothing
    BY GoneForGood DEF PatchFindsNothing
  <2>4. PICK s \in Endpoints : \/ RemoveRepInfo(s) \/ UnguardEndpoint(s)
                               \/ GetLBForEndpoint(s) \/ AddEndpointTunnels(s)
    BY <2>1, <2>2, <2>3, EndpointJobSteps
  <2> QED BY <1>4, <2>4 DEF Patching, RemoveRepInfo, UnguardEndpoint, GetLBForEndpoint, AddEndpointTunnels
<1> QED BY <1>2, <1>3, <1>4 DEF DueEndpoint

\* The same of a running pod.
LEMMA PodStaysDue ==
    ASSUME TypeOK, [Next]_vars, NEW d \in Pods,
           pods'[d] = "up", ~DuePod(d)', lb'.phase # "gone"
    PROVE  pods[d] = "up" /\ (~DuePod(d) \/ AddPodTunnels(d))
<1>1. d \notin queue' /\ ~(podJob' # Idle /\ podJob'.of = d)
  BY DEF DuePod
<1>2. pods[d] = "up"
  BY <1>1, PodsSteps DEF CreatePod, StartPod, DeletePod, FinalizePod, CollectGarbage, Ended, TypeOK
<1>3. d \notin queue
  <2> SUFFICES ASSUME d \in queue PROVE FALSE
    OBVIOUS
  <2>1. ~Restart
    BY <1>1, <1>2 DEF Restart
  <2>2. GetLBForPod(d)
    BY <1>1, <1>2, <2>1, QueueSteps DEF SkipPod
  <2>3. podJob' = [of |-> d, stage |-> "patch", copy |-> seen]
    BY <2>2 DEF GetLBForPod
  <2>4. podJob' # Idle
    BY <2>3, NewJobs
  <2> QED BY <1>1, <2>3, <2>4
<1>4. ASSUME podJob # Idle, podJob.of = d PROVE AddPodTunnels(d)
  <2>1. podJob' # podJob
    BY <1>1, <1>4
  <2>2. ~Restart /\ ~PodFails
    BY <1>1, <1>2, <1>4 DEF Restart, PodFails, Of
  <2>3. ~PatchFindsNothing
    BY GoneForGood DEF PatchFindsNothing
  <2>4. PICK e \in Pods : GetLBForPod(e) \/ AddPodTunnels(e)
    BY <2>1, <2>2, <2>3, PodJobSteps
  <2> QED BY <1>4, <2>4 DEF GetLBForPod, AddPodTunnels
<1> QED BY <1>2, <1>3, <1>4 DEF DuePod

LEMMA NodesDueStep == ASSUME TypeOK, JobsMakeSense, NodesDue, [Next]_vars PROVE NodesDue'
<1> SUFFICES ASSUME lb'.phase # "gone", NEW r \in Endpoints, reps'[r] = "live",
                    NodeAddress[r] # AdHoc, ~DueEndpoint(r)'
             PROVE  NodeAddress[r] \in lb'.nodes
  BY DEF NodesDue, DueEndpoint, Patching
<1>1. reps[r] = "live" /\ (~DueEndpoint(r) \/ AddEndpointTunnels(r))
  BY EndpointStaysDue
<1>2. CASE AddEndpointTunnels(r)
  BY <1>2, AddEndpointTunnelsEffect
<1>3. CASE ~DueEndpoint(r)
  <2>1. NodeAddress[r] \in lb.nodes
    BY <1>1, <1>3, GoneForGood DEF NodesDue
  <2> QED BY <1>1, <2>1, ActiveNodesStay
<1> QED BY <1>1, <1>2, <1>3

LEMMA TunnelsDueStep ==
    ASSUME TypeOK, JobsMakeSense, NodesDue, TunnelsDue, [Next]_vars
    PROVE  TunnelsDue'
<1> DEFINE named == {"unlisted pod", "unseen endpoint", "missed removal"}
<1> SUFFICES ASSUME lb'.phase # "gone", Undisturbed(named)',
                    NEW r \in Endpoints, NEW d \in Pods,
                    reps'[r] = "live", NodeAddress[r] # AdHoc, pods'[d] = "up",
                    ~DueEndpoint(r)', ~DuePod(d)'
             PROVE  <<NodeAddress[r], HostIP[d]>> \in lb'.tunnels
  BY DEF TunnelsDue, DueEndpoint, DuePod, Patching, Undisturbed
<1>1. reps[r] = "live" /\ (~DueEndpoint(r) \/ AddEndpointTunnels(r))
  BY EndpointStaysDue
<1>2. pods[d] = "up" /\ (~DuePod(d) \/ AddPodTunnels(d))
  BY PodStaysDue
<1>3. CASE AddEndpointTunnels(r)
  <2>1. "unlisted pod" \notin disturbed'
    BY DEF Undisturbed
  <2>2. Mark(IF \E e \in Pods \ repJob.copy.listed : pods[e] = "up" THEN {"unlisted pod"} ELSE {})
    BY <1>3 DEF AddEndpointTunnels
  <2>3. d \in repJob.copy.listed
    BY <1>2, <2>1, <2>2 DEF Mark
  <2> QED BY <1>3, <2>3, AddEndpointTunnelsEffect
<1>4. CASE AddPodTunnels(d) /\ ~DueEndpoint(r)
  <2> DEFINE n == NodeAddress[r]
             h == HostIP[d]
  <2>1. n \in lb.nodes
    BY <1>1, <1>4, GoneForGood DEF NodesDue
  <2>2. /\ lb.nodes \subseteq podJob.copy.nodes
        /\ {t \in podJob.copy.tunnels : t[1] \in lb.nodes /\ t[2] = h} \subseteq lb.tunnels
    BY <1>4 DEF AddPodTunnels, Mark, Undisturbed
  <2>3. CASE n \in Lacking(d)
    BY <1>4, <2>3, AddPodTunnelsEffect
  <2>4. CASE n \notin Lacking(d)
    <3>1. <<n, h>> \in podJob.copy.tunnels
      BY <2>1, <2>2, <2>4 DEF Lacking
    <3>2. <<n, h>> \in lb.tunnels
      BY <2>1, <2>2, <3>1
    <3> QED BY <1>4, <3>2, AddPodTunnelsEffect
  <2> QED BY <2>3, <2>4
<1>5. CASE ~DueEndpoint(r) /\ ~DuePod(d)
  <2>1. disturbed \subseteq disturbed'
    BY DisturbedGrows
  <2>2. <<NodeAddress[r], HostIP[d]>> \in lb.tunnels
    BY <1>1, <1>2, <1>5, <2>1, GoneForGood DEF TunnelsDue, Undisturbed
  <2> QED BY <1>1, <2>2, ActiveNodesStay
<1> QED BY <1>1, <1>2, <1>3, <1>4, <1>5

\* An endpoint whose removal is yet to come is one until it is begun.
Staying(r) == reps[r] = "live" \/ (reps[r] = "deleting" /\ ~Leaving(r))

LEMMA StaysUntilRemoved ==
    ASSUME TypeOK, JobsMakeSense, [Next]_vars, NEW r \in Endpoints, Staying(r), ~Staying(r)'
    PROVE  RemoveRepInfo(r)
<1>1. reps'[r] # "live" /\ (reps'[r] = "deleting" => Leaving(r)')
  BY DEF Staying, Leaving
<1>2. CASE UnguardEndpoint(r)
  BY <1>2 DEF UnguardEndpoint, JobsMakeSense, Leaving, Staying
<1>3. CASE ~UnguardEndpoint(r)
  <2>1. reps'[r] = "deleting"
    BY <1>1, <1>3, RepsSteps
    DEF Staying, CreateEndpoint, DeleteEndpoint, UnguardEndpoint, CollectGarbage, TypeOK
  <2>2. Leaving(r)' /\ ~Leaving(r)
    BY <1>1, <2>1 DEF Staying, JobsMakeSense
  <2>3. PICK s \in Endpoints : \/ RemoveRepInfo(s) \/ UnguardEndpoint(s)
                               \/ GetLBForEndpoint(s) \/ AddEndpointTunnels(s)
    BY <2>2, EndpointJobSteps DEF Leaving, PatchFindsNothing, EndpointFails, Restart
  <2>4. repJob' # Idle /\ repJob'.of = r /\ repJob'.stage = "unguard"
    BY <2>2 DEF Leaving
  <2>5. RemoveRepInfo(s)
    <3>1. ~UnguardEndpoint(s) /\ ~AddEndpointTunnels(s)
      BY <2>4 DEF UnguardEndpoint, AddEndpointTunnels
    <3>2. ASSUME GetLBForEndpoint(s) PROVE FALSE
      <4>1. repJob' = [of |-> s, stage |-> "patch", copy |-> seen]
        BY <3>2 DEF GetLBForEndpoint
      <4>2. repJob'.stage = "patch"
        BY <4>1
      <4> QED BY <2>4, <4>2
    <3> QED BY <2>3, <3>1, <3>2
  <2>6. s = r
    BY <2>4, <2>5 DEF RemoveRepInfo
  <2> QED BY <2>5, <2>6
<1> QED BY <1>2, <1>3

LEMMA NodesUsedStep ==
    ASSUME TypeOK, CacheLags, JobsMakeSense, NodesUsed, [Next]_vars
    PROVE  NodesUsed'
<1> DEFINE named == {"revived node", "lost removal"}
<1> SUFFICES ASSUME lb'.phase # "gone", Undisturbed(named)', NEW n \in lb'.nodes
             PROVE  \E r \in Endpoints : NodeAddress[r] = n /\ Staying(r)'
  BY DEF NodesUsed, Staying, Leaving, Undisturbed
<1>1. lb.phase # "gone" /\ Undisturbed(named)
  BY GoneForGood, DisturbedGrows DEF Undisturbed
<1>2. CASE n \notin lb.nodes
  <2>1. PICK r \in Endpoints : AddEndpointTunnels(r)
    <3>1. ASSUME NEW d \in Pods, AddPodTunnels(d) PROVE FALSE
      <4>1. Lacking(d) \subseteq lb.nodes
        BY <3>1 DEF AddPodTunnels, Mark, Undisturbed, Lacking
      <4> QED BY <1>2, <3>1, <4>1, AddPodTunnelsEffect
    <3>2. ASSUME UnguardLB PROVE FALSE
      <4>1. lb' = Gone
        BY <3>2 DEF UnguardLB, Store
      <4>2. lb'.phase = "gone"
        BY <4>1 DEF Gone
      <4> QED BY <4>2
    <3>3. ~(UNCHANGED lbVars \/ Sync \/ Restart)
      BY <1>2 DEF lbVars, Sync, Restart
    <3>4. ASSUME NEW r \in Endpoints, RemoveRepInfo(r) PROVE FALSE
      BY <1>2, <3>4, RemoveRepInfoEffect
    <3>5. ~((\E d \in Pods : ListInterface(d)) \/ ChangePorts \/ DeleteLB)
      BY <1>2, ChangeEffect
    <3>6. \E r \in Endpoints : RemoveRepInfo(r) \/ AddEndpointTunnels(r)
      BY <3>1, <3>2, <3>3, <3>5, LBSteps
    <3> QED BY <3>4, <3>6
  <2>2. n = NodeAddress[r]
    <3>1. lb'.nodes = lb.nodes \cup {NodeAddress[r]}
      BY <2>1, AddEndpointTunnelsEffect
    <3>2. n \in lb'.nodes
      OBVIOUS
    <3> QED BY <1>2, <3>1, <3>2
  <2>3. Patching(r) /\ UNCHANGED reps /\ repJob' = Idle
    BY <2>1 DEF AddEndpointTunnels, Patching
  <2>4. Staying(r)'
    BY <2>3 DEF JobsMakeSense, Staying, Leaving
  <2> QED BY <2>2, <2>4
<1>3. CASE n \in lb.nodes
  <2>1. PICK r \in Endpoints : NodeAddress[r] = n /\ Staying(r)
    BY <1>1, <1>3 DEF NodesUsed, Staying
  <2>2. CASE Staying(r)'
    BY <2>1, <2>2
  <2>3. CASE ~Staying(r)'
    <3>1. RemoveRepInfo(r)
      BY <2>1, <2>3, StaysUntilRemoved
    <3>2. lb' = Removed(r)
      BY <1>1, <3>1 DEF RemoveRepInfo, Store, Mark, Undisturbed, CacheLags
    <3>3. PICK other \in Endpoints \ {r} : reps[other] = "live" /\ NodeAddress[other] = n
      <4>1. CASE \E other \in ActiveEndpoints \ {r} : NodeAddress[other] = NodeAddress[r]
        BY <2>1, <4>1 DEF ActiveEndpoints
      <4>2. CASE ~ \E other \in ActiveEndpoints \ {r} : NodeAddress[other] = NodeAddress[r]
        <5>1. lb' = [lb EXCEPT !.nodes = @ \ {NodeAddress[r]},
                               !.tunnels = {t \in @ : t[1] # NodeAddress[r]}]
          BY <3>2, <4>2 DEF Removed
        <5>2. lb'.nodes = lb.nodes \ {NodeAddress[r]}
          <6>1. lb \in Versions
            BY DEF TypeOK
          <6> HIDE DEF named
          <6> QED BY <5>1, <6>1, VersionFields
        <5> QED BY <2>1, <5>2
      <4> QED BY <4>1, <4>2
    <3>4. Staying(other)'
      BY <3>1, <3>3 DEF RemoveRepInfo, Staying
    <3> QED BY <3>3, <3>4
  <2> QED BY <2>2, <2>3
<1> QED BY <1>2, <1>3

-----------------------------------------------------------------------------
LEMMA IInvInit == ASSUME Init PROVE IInv
<1> DEFINE ports == CHOOSE ps \in Ports : TRUE
<1>1. ports \in Ports
  OBVIOUS
<1>2. /\ reps = [r \in Endpoints |-> "none"] /\ pods = [d \in Pods |-> "none"] /\ guarded = {}
      /\ seen = lb /\ news = FALSE /\ deployment = None /\ queue = {LB}
      /\ repJob = Idle /\ podJob = Idle /\ lbJob = Idle
      /\ changes = 0 /\ faults = 0 /\ disturbed = {}
  BY DEF Init
<1>3. lb = [phase |-> "live", ports |-> ports, nodes |-> {}, tunnels |-> {}, listed |-> {}]
  BY DEF Init, Gone
<1> HIDE DEF ports
<1>4. lb \in Versions
  BY <1>1, <1>3 DEF Versions
<1>5. lb.nodes = {} /\ lb.tunnels = {} /\ lb.ports \in Ports
  BY <1>1, <1>3
<1>6. TypeOK
  <2>1. {t[1] : t \in lb.tunnels} \subseteq lb.nodes
    BY <1>5
  <2>2. lb \in Versions /\ seen \in Versions /\ (~news => seen = lb)
    BY <1>2, <1>4
  <2>3. changes \in 0 .. MaxChanges /\ faults \in 0 .. MaxFaults
    BY <1>2
  <2>4. /\ reps \in [Endpoints -> {"none", "live", "deleting", "gone"}]
        /\ pods \in [Pods -> {"none", "new", "up", "deleting", "gone"}]
    BY <1>2
  <2> QED BY <1>2, <2>1, <2>2, <2>3, <2>4 DEF TypeOK
<1>7. CacheLags
  BY <1>2, <1>5 DEF CacheLags
<1> QED BY <1>2, <1>5, <1>6, <1>7
        DEF IInv, JobsMakeSense, RemovalsDue, PodsDue, DeploymentDue, NodesDue, NodesUsed, TunnelsDue,
            Patching, Leaving

LEMMA IInvStep == ASSUME IInv, [Next]_vars PROVE IInv'
<1> USE DEF IInv
<1>1. TypeOK'
  BY TypeStep DEF TInv
<1> QED BY <1>1, CacheLagsStep, JobsMakeSenseStep, RemovalsDueStep, PodsDueStep,
           DeploymentDueStep, NodesDueStep, NodesUsedStep, TunnelsDueStep

\* The invariant: while a reconciler is yet to see to what is missing, it is
\* queued, being worked on, or on its way to the cache.
THEOREM Invariant == Spec => []IInv
<1>1. Init => IInv
  BY IInvInit
<1>2. IInv /\ [Next]_vars => IInv'
  BY IInvStep
<1> QED BY <1>1, <1>2, PTL DEF Spec

\* The variables have their types: every version of the LoadBalancer has tunnels
\* from nodes of its map only, and ports that were asked for.
THEOREM TypeCorrect == Spec => []TypeOK
<1>1. IInv => TypeOK
  BY DEF IInv
<1> QED BY <1>1, Invariant, PTL

\* addProxyTunnels(), addPodTunnels(): a running pod and an active endpoint's
\* node have their tunnel when the reconcilers rest, whichever came first.
THEOREM PairsHaveTunnelsHolds == Spec => []PairsHaveTunnels
<1>1. IInv => PairsHaveTunnels
  BY DEF IInv, TunnelsDue, PairsHaveTunnels, Quiet, ActiveEndpoints, DueEndpoint, DuePod, Patching
<1> QED BY <1>1, Invariant, PTL

\* removeRepInfo(): when the reconcilers rest, the map's nodes are those of the
\* active endpoints, however many share one and in whichever order they go.
THEOREM NodesHaveEndpointsHolds == Spec => []NodesHaveEndpoints
<1>1. ASSUME IInv, Quiet, lb.phase = "live", Undisturbed({"revived node", "lost removal"})
      PROVE  lb.nodes = {NodeAddress[r] : r \in ActiveEndpoints} \ {AdHoc}
  <2>1. ASSUME NEW n \in lb.nodes
        PROVE  n # AdHoc /\ \E r \in ActiveEndpoints : NodeAddress[r] = n
    <3>1. lb.nodes \subseteq ClientNodes
      BY <1>1 DEF IInv, TypeOK, Versions
    <3>2. n \in ClientNodes /\ n # AdHoc
      BY <2>1, <3>1
    <3>3. PICK r \in Endpoints : NodeAddress[r] = n /\ (reps[r] = "live" \/ reps[r] = "deleting")
      BY <1>1, <2>1 DEF IInv, NodesUsed
    <3>4. reps[r] # "deleting"
      BY <1>1, <3>2, <3>3 DEF IInv, RemovalsDue, Leaving, Quiet
    <3> QED BY <3>2, <3>3, <3>4 DEF ActiveEndpoints
  <2>2. ASSUME NEW r \in ActiveEndpoints, NodeAddress[r] # AdHoc
        PROVE  NodeAddress[r] \in lb.nodes
    BY <1>1, <2>2 DEF IInv, NodesDue, DueEndpoint, Patching, Quiet, ActiveEndpoints
  <2> QED BY <2>1, <2>2
<1>2. IInv => NodesHaveEndpoints
  BY <1>1 DEF NodesHaveEndpoints
<1> QED BY <1>2, Invariant, PTL

\* An endpoint with a node loses its finalizer in the end, whatever fails: none
\* is left behind being deleted when the reconcilers rest.
THEOREM OnlyAdHocStayHolds == Spec => []OnlyAdHocStay
<1>1. IInv => OnlyAdHocStay
  BY DEF IInv, RemovalsDue, OnlyAdHocStay, Quiet, Leaving
<1> QED BY <1>1, Invariant, PTL

\* The Deployment is the one that the last change of the LoadBalancer asks for.
THEOREM DeploymentFollowsHolds == Spec => []DeploymentFollows
<1>1. IInv => DeploymentFollows
  BY DEF IInv, DeploymentDue, DeploymentFollows, Quiet
<1> QED BY <1>1, Invariant, PTL

\* What belongs to the LoadBalancer is gone with it, even what is created late
\* by a reconcile that began before.
THEOREM NothingOutlivesLBHolds == Spec => []NothingOutlivesLB
<1>1. ASSUME IInv, Quiet, lb.phase = "gone"
      PROVE  /\ deployment = None /\ ActiveEndpoints = {}
             /\ \A d \in Pods : pods[d] \in {"none", "gone"}
  <2>1. ~OwnedDeployment /\ ActiveEndpoints = {}
    BY <1>1 DEF Quiet, Garbage
  <2>2. deployment = None
    BY <1>1, <2>1 DEF IInv, TypeOK, Deployments, OwnedDeployment
  <2>3. \A d \in Pods : pods[d] \in {"none", "gone"}
    BY <1>1, <2>2 DEF IInv, TypeOK, PodsDue, Quiet
  <2> QED BY <2>1, <2>2, <2>3
<1>2. IInv => NothingOutlivesLB
  BY <1>1 DEF NothingOutlivesLB
<1> QED BY <1>2, Invariant, PTL
=============================================================================

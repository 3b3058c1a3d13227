------------------------- MODULE ProxyTunnels_proofs -------------------------
(***************************************************************************)
(* Proofs about ProxyTunnels, for every set of objects and however they    *)
(* are bound to each other, every set of Disturbances allowed, and any     *)
(* number of changes and faults.  The invariant says, for every proxy,     *)
(* that its reconcile is due, because somebody is about to nudge it or     *)
(* it is queued, or that nothing of what it has read is stale.             *)
(***************************************************************************)
EXTENDS ProxyTunnels, TLAPS

USE NamesAssumption, BindingAssumption, NilAssumption, AllowedAssumption, BoundsAssumption

\* The informer's copy is the API server's, where nothing is yet to be seen.
CacheLags == \A p \in Proxies : p \notin news => seen[p] = proxies[p]

\* A route nudges its parents or its slices, and a slice nudges proxies.
NudgingMakesSense ==
    /\ \A r \in Routes : nudging[r].left \subseteq Proxies \/ nudging[r].left \subseteq Slices
    /\ \A s \in Slices : nudging[s].left \subseteq Proxies

\* Where nothing is disturbed a route has the parents that it is nudging.
ParentsStay == ~disturbed => \A r \in Routes :
    routes[r] # Nil => nudging[r].left \cap Proxies \subseteq routes[r].parents

\* Neither are slices deleted.
SlicesStay == ~disturbed => \A s \in Slices :
    /\ slices[s] # Nil => ~slices[s].deleting
    /\ nudging[s].left # {} => slices[s] # Nil

\* Who is yet to make p's reconciler read everything anew.
RouteNudges(r, p) == \/ p \in nudging[r].left
                     \/ r \in queue /\ routes[r] # Nil /\ p \in routes[r].parents
SliceNudges(s, p) == /\ p \in ReferencingProxies(s)
                     /\ p \in nudging[s].left \/ (s \in queue /\ slices[s] # Nil)
Awaited(p) == p \in queue \/ p \in news
Due(p) == \/ Awaited(p)
          \/ \E r \in Routes : RouteNudges(r, p)
          \/ \E s \in Slices : SliceNudges(s, p)

\* What p's reconcile has found out, or has written, is true.
EndsOf(p) == ActiveNodes(p) \X Nodes(proxies[p].pods)
Current(p) ==
    /\ stage[p] = "endpoints" => copy[p].pods = proxies[p].pods
    /\ stage[p] = "patch" => Ends(result[p]) = EndsOf(p)
    /\ stage[p] \in {"routes", "config", "idle"} => Ends(proxies[p].tunnels) = EndsOf(p)
    /\ stage[p] = "config" => result[p] = ChildRoutes(p)
    /\ stage[p] = "idle" => config[p] = ChildRoutes(p)

\* No change is forgotten on its way to the proxies.
Remembered == ~disturbed => \A p \in Proxies : Due(p) \/ Current(p)

\* What p's reconcile has found out, or has written, leads to pods it has.
LeadsTo(ts, ds) == \A t \in ts : t[2] \in Nodes(ds)
CurrentPods(p) ==
    /\ stage[p] = "endpoints" => copy[p].pods = proxies[p].pods
    /\ stage[p] = "patch" => LeadsTo(result[p], proxies[p].pods)
    /\ stage[p] \in {"routes", "config", "idle"} => LeadsTo(proxies[p].tunnels, proxies[p].pods)

\* Nor is the going of a pod, even where something is disturbed.
PodsRemembered == \A p \in Proxies : Awaited(p) \/ CurrentPods(p)

IInv == /\ TypeOK /\ CacheLags /\ NudgingMakesSense /\ ParentsStay /\ SlicesStay
        /\ Remembered /\ PodsRemembered

-----------------------------------------------------------------------------
\* Which actions change a variable, or take an object from the queue.

USE DEF Next, NudgerStep, RouteStep, SliceStep, ProxyStep, vars, proxyVars, proxyWork, workVars, counters,
        Change, Counted, WriteRoute, DeleteRoute, WriteSlice, DeleteSlice, StartPod, StopPod,
        RemoveProxyInfo, NothingToReconcile, ReconcileRoute, ReconcileSlice, NudgeProxy, BackendRefs,
        NudgeSlice, NudgeFails, Sync, Advance, GetProxy, ListEndpoints, Patch, ListChildRoutes,
        WriteEnvoyConfig, ReconcileFails, Restart

LEMMA RoutesSteps ==
    ASSUME [Next]_vars
    PROVE  UNCHANGED routes \/ \E r \in Routes : WriteRoute(r) \/ DeleteRoute(r) \/ ReconcileRoute(r)
OBVIOUS

LEMMA SlicesSteps ==
    ASSUME [Next]_vars
    PROVE  UNCHANGED slices \/ \E s \in Slices : WriteSlice(s) \/ DeleteSlice(s) \/ ReconcileSlice(s)
OBVIOUS

LEMMA NudgingSteps ==
    ASSUME [Next]_vars
    PROVE  \/ UNCHANGED nudging \/ Restart
           \/ \E r \in Routes : ReconcileRoute(r) \/ BackendRefs(r)
           \/ \E s \in Slices : ReconcileSlice(s)
           \/ \E r \in Routes, s \in Slices : NudgeSlice(r, s)
           \/ \E o \in Nudgers : NudgeFails(o) \/ \E p \in Proxies : NudgeProxy(o, p)
BY DEF Nudgers

LEMMA ProxiesSteps ==
    ASSUME [Next]_vars
    PROVE  \/ UNCHANGED proxies
           \/ \E d \in Pods : StartPod(d) \/ RemoveProxyInfo(d)
           \/ \E p \in Proxies : Patch(p)
OBVIOUS

LEMMA SeenSteps ==
    ASSUME [Next]_vars
    PROVE  UNCHANGED seen \/ Restart \/ \E p \in Proxies : Sync(p)
OBVIOUS

LEMMA NewsSteps ==
    ASSUME [Next]_vars, NEW x \in news, x \notin news'
    PROVE  Restart \/ (x \in Proxies /\ Sync(x))
<1>1. \/ UNCHANGED news \/ Restart
      \/ \E d \in Pods : StartPod(d) \/ RemoveProxyInfo(d)
      \/ \E o \in Nudgers, p \in Proxies : NudgeProxy(o, p)
      \/ \E p \in Proxies : Sync(p) \/ Patch(p)
  BY DEF Nudgers
<1> HIDE DEF Next, vars
<1>2. ASSUME NEW d \in Pods PROVE ~StartPod(d) /\ ~RemoveProxyInfo(d)
  OBVIOUS
<1>3. ASSUME NEW o \in Nudgers, NEW p \in Proxies PROVE ~NudgeProxy(o, p)
  OBVIOUS
<1>4. ASSUME NEW p \in Proxies PROVE ~Patch(p) /\ (Sync(p) => x = p)
  OBVIOUS
<1> HIDE DEF StartPod, RemoveProxyInfo, NudgeProxy, Sync, Patch, Restart
<1> QED BY <1>1, <1>2, <1>3, <1>4

LEMMA StageSteps ==
    ASSUME [Next]_vars
    PROVE  \/ UNCHANGED <<stage, copy, result, config>> \/ Restart
           \/ \E p \in Proxies : \/ GetProxy(p) \/ ListEndpoints(p) \/ Patch(p) \/ ListChildRoutes(p)
                                 \/ WriteEnvoyConfig(p) \/ ReconcileFails(p)
OBVIOUS

LEMMA QueueSteps ==
    ASSUME [Next]_vars, NEW x \in queue, x \notin queue'
    PROVE  \/ Restart
           \/ x \in Nudgers /\ NothingToReconcile(x)
           \/ x \in Routes /\ ReconcileRoute(x)
           \/ x \in Slices /\ ReconcileSlice(x)
           \/ x \in Proxies /\ GetProxy(x)
<1>1. ASSUME NEW o \in Nudgers, NudgerStep(o)
      PROVE  x = o /\ NothingToReconcile(o)
  BY <1>1
<1>2. ASSUME NEW r \in Routes, WriteRoute(r) \/ DeleteRoute(r) \/ RouteStep(r)
      PROVE  x = r /\ (NothingToReconcile(r) \/ ReconcileRoute(r))
  <2>1. r \in Nudgers
    BY DEF Nudgers
  <2>2. ~(WriteRoute(r) \/ DeleteRoute(r) \/ BackendRefs(r) \/ \E s \in Slices : NudgeSlice(r, s))
    OBVIOUS
  <2>3. CASE ReconcileRoute(r)
    BY <2>3 DEF Requeued
  <2> HIDE DEF NudgerStep, WriteRoute, DeleteRoute, BackendRefs, NudgeSlice, ReconcileRoute, NothingToReconcile
  <2> QED BY <1>1, <1>2, <2>1, <2>2, <2>3
<1>3. ASSUME NEW s \in Slices, WriteSlice(s) \/ DeleteSlice(s) \/ SliceStep(s)
      PROVE  x = s /\ (NothingToReconcile(s) \/ ReconcileSlice(s))
  <2>1. s \in Nudgers
    BY DEF Nudgers
  <2>2. ~(WriteSlice(s) \/ DeleteSlice(s))
    OBVIOUS
  <2>3. CASE ReconcileSlice(s)
    BY <2>3 DEF Requeued
  <2> HIDE DEF NudgerStep, WriteSlice, DeleteSlice, ReconcileSlice, NothingToReconcile
  <2> QED BY <1>1, <1>3, <2>1, <2>2, <2>3
<1>4. ASSUME NEW d \in Pods, StartPod(d) \/ StopPod(d) \/ RemoveProxyInfo(d)
      PROVE  FALSE
  BY <1>4
<1>5. ASSUME NEW p \in Proxies, Sync(p) \/ ProxyStep(p) \/ ReconcileFails(p)
      PROVE  x = p /\ GetProxy(p)
  BY <1>5
<1>6. ~UNCHANGED vars
  OBVIOUS
<1>7. Routes \subseteq Nudgers /\ Slices \subseteq Nudgers
  BY DEF Nudgers
<1> HIDE DEF NudgerStep, RouteStep, SliceStep, ProxyStep, vars, WriteRoute, DeleteRoute, WriteSlice,
             DeleteSlice, StartPod, StopPod, RemoveProxyInfo, NothingToReconcile, ReconcileRoute,
             ReconcileSlice, Sync, GetProxy, ReconcileFails, Restart
<1> QED BY <1>2, <1>3, <1>4, <1>5, <1>6, <1>7

LEMMA DisturbedGrows ==
    ASSUME TypeOK, [Next]_vars
    PROVE  disturbed => disturbed'
BY DEF Mark, TypeOK

HIDE DEF Next, NudgerStep, RouteStep, SliceStep, ProxyStep, vars, proxyVars, proxyWork, workVars, counters,
         Change, Counted, WriteRoute, DeleteRoute, WriteSlice, DeleteSlice, StartPod, StopPod,
         RemoveProxyInfo, NothingToReconcile, ReconcileRoute, ReconcileSlice, NudgeProxy, BackendRefs,
         NudgeSlice, NudgeFails, Sync, Advance, GetProxy, ListEndpoints, Patch, ListChildRoutes,
         WriteEnvoyConfig, ReconcileFails, Restart

-----------------------------------------------------------------------------
\* What the model's operators return.

LEMMA ActiveFacts ==
    ASSUME TypeOK, NEW p \in Proxies
    PROVE  /\ ActiveNodes(p) \subseteq ClientNodes /\ ChildRoutes(p) \subseteq Routes
           /\ \A ds \in SUBSET Pods : ActiveNodes(p) \X Nodes(ds) \subseteq Pairs
<1>1. \A s \in Slices : Live(slices[s]) => slices[s].nodes \subseteq ClientNodes
  BY DEF TypeOK, Live, SliceObjects
<1>2. ActiveNodes(p) \subseteq ClientNodes
  BY <1>1 DEF ActiveNodes
<1>3. \A ds \in SUBSET Pods : Nodes(ds) \subseteq EpicNodes
  BY DEF Nodes, EpicNodes
<1> QED BY <1>2, <1>3 DEF ChildRoutes, Pairs

LEMMA ReferencingFacts ==
    ASSUME TypeOK, NEW s \in Slices
    PROVE  ReferencingProxies(s) \subseteq Proxies
<1>1. \A r \in Routes : routes[r] # Nil => routes[r].parents \subseteq Proxies
  BY DEF TypeOK, RouteObjects
<1> QED BY <1>1 DEF ReferencingProxies

\* What the result of a proxy's reconcile is, at each stage.
Results(st) == CASE st = "patch" -> Tunnels [] st = "config" -> Routes [] OTHER -> {}
Stages == {"idle", "endpoints", "patch", "routes", "config"}
WorkTyped == /\ stage' \in [Proxies -> Stages]
             /\ copy' \in [Proxies -> [pods : SUBSET Pods, tunnels : SUBSET Tunnels]]
             /\ result' \in [Proxies -> SUBSET (Tunnels \cup Routes)]
             /\ \A q \in Proxies : result'[q] \subseteq Results(stage'[q])

LEMMA StageFacts ==
    /\ Results("idle") = {} /\ Results("endpoints") = {} /\ Results("routes") = {}
    /\ Results("config") = Routes
    /\ Results("patch") = Tunnels
    /\ \A st : Results(st) \subseteq Tunnels \cup Routes
BY DEF Results

WorkMoved(p, to, version, found) == /\ stage' = [stage EXCEPT ![p] = to]
                                    /\ copy' = [copy EXCEPT ![p] = version]
                                    /\ result' = [result EXCEPT ![p] = found]

LEMMA WorkMoves ==
    ASSUME TypeOK, NEW p \in Proxies, NEW to \in Stages, NEW found \in SUBSET Results(to),
           NEW version \in [pods : SUBSET Pods, tunnels : SUBSET Tunnels],
           WorkMoved(p, to, version, found)
    PROVE  /\ WorkTyped
           /\ stage'[p] = to /\ copy'[p] = version /\ result'[p] = found
           /\ \A q \in Proxies \ {p} : /\ stage'[q] = stage[q] /\ copy'[q] = copy[q]
                                       /\ result'[q] = result[q]
<1>1. /\ stage \in [Proxies -> Stages]
      /\ copy \in [Proxies -> [pods : SUBSET Pods, tunnels : SUBSET Tunnels]]
      /\ result \in [Proxies -> SUBSET (Tunnels \cup Routes)]
      /\ \A q \in Proxies : result[q] \subseteq Results(stage[q])
  BY DEF TypeOK, Stages, Results
<1>2. found \in SUBSET (Tunnels \cup Routes)
  BY StageFacts
<1>3. /\ stage' \in [Proxies -> Stages]
      /\ copy' \in [Proxies -> [pods : SUBSET Pods, tunnels : SUBSET Tunnels]]
      /\ result' \in [Proxies -> SUBSET (Tunnels \cup Routes)]
  BY <1>1, <1>2 DEF WorkMoved
<1>4. /\ stage'[p] = to /\ copy'[p] = version /\ result'[p] = found
      /\ \A q \in Proxies \ {p} : stage'[q] = stage[q] /\ copy'[q] = copy[q] /\ result'[q] = result[q]
  BY <1>1 DEF WorkMoved
<1>5. \A q \in Proxies : result'[q] \subseteq Results(stage'[q])
  BY <1>1, <1>4
<1> QED BY <1>3, <1>4, <1>5 DEF WorkTyped

LEMMA NoCopyFacts == NoCopy \in [pods : SUBSET Pods, tunnels : SUBSET Tunnels]
BY DEF NoCopy

\* Where a step of p's reconcile takes it.
Stepped(p, from, to) == stage[p] \in from /\ stage'[p] \in to
OthersKept(p) == \A q \in Proxies \ {p} : /\ stage'[q] = stage[q] /\ copy'[q] = copy[q]
                                          /\ result'[q] = result[q] /\ config'[q] = config[q]

LEMMA AdvanceFacts ==
    ASSUME TypeOK, NEW p \in Proxies, NEW from, NEW to \in Stages, NEW found \in SUBSET Results(to),
           Advance(p, from, to, found)
    PROVE  /\ WorkTyped /\ stage[p] = from /\ stage'[p] = to /\ result'[p] = found
           /\ \A q \in Proxies \ {p} : /\ stage'[q] = stage[q] /\ copy'[q] = copy[q]
                                       /\ result'[q] = result[q]
<1>1. stage[p] = from /\ WorkMoved(p, to, NoCopy, found)
  BY DEF Advance, WorkMoved
<1> QED BY <1>1, WorkMoves, NoCopyFacts

LEMMA GetEffect ==
    ASSUME TypeOK, NEW p \in Proxies, GetProxy(p)
    PROVE  /\ WorkTyped /\ OthersKept(p) /\ UNCHANGED <<proxies, news, config>>
           /\ Stepped(p, {"idle"}, {"endpoints"}) /\ copy'[p] = seen[p]
<1>1. /\ seen[p] \in [pods : SUBSET Pods, tunnels : SUBSET Tunnels]
      /\ stage \in [Proxies -> Stages]
      /\ copy \in [Proxies -> [pods : SUBSET Pods, tunnels : SUBSET Tunnels]]
      /\ result \in [Proxies -> SUBSET (Tunnels \cup Routes)]
      /\ \A q \in Proxies : result[q] \subseteq Results(stage[q])
  BY DEF TypeOK, Stages, Results
<1>2. /\ stage[p] = "idle" /\ stage' = [stage EXCEPT ![p] = "endpoints"]
      /\ copy' = [copy EXCEPT ![p] = seen[p]] /\ UNCHANGED <<result, proxies, news, config>>
  BY DEF GetProxy, proxyVars
<1>3. /\ stage'[p] = "endpoints" /\ copy'[p] = seen[p]
      /\ \A q \in Proxies \ {p} : stage'[q] = stage[q] /\ copy'[q] = copy[q]
      /\ stage' \in [Proxies -> Stages]
      /\ copy' \in [Proxies -> [pods : SUBSET Pods, tunnels : SUBSET Tunnels]]
  BY <1>1, <1>2 DEF Stages
<1>4. \A q \in Proxies : result'[q] \subseteq Results(stage'[q])
  BY <1>1, <1>2, <1>3, StageFacts
<1> QED BY <1>1, <1>2, <1>3, <1>4 DEF WorkTyped, OthersKept, Stepped

LEMMA EndsLead ==
    ASSUME NEW ts, NEW ns, NEW ds, Ends(ts) = ns \X Nodes(ds)
    PROVE  LeadsTo(ts, ds)
<1> SUFFICES ASSUME NEW t \in ts PROVE t[2] \in Nodes(ds)
  BY DEF LeadsTo
<1>1. <<t[1], t[2]>> \in ns \X Nodes(ds)
  BY DEF Ends
<1> QED BY <1>1

LEMMA ListEffect ==
    ASSUME TypeOK, NEW p \in Proxies, ListEndpoints(p)
    PROVE  /\ WorkTyped /\ OthersKept(p) /\ UNCHANGED <<proxies, news, config, queue>>
           /\ Stepped(p, {"endpoints"}, {"patch"})
           /\ Ends(result'[p]) = ActiveNodes(p) \X Nodes(copy[p].pods)
<1> DEFINE ends == ActiveNodes(p) \X Nodes(copy[p].pods)
           kept == {t \in copy[p].tunnels : <<t[1], t[2]>> \in ends}
           new == ends \ Ends(kept)
           given == CHOOSE f \in Fresh(new) : TRUE
           added == {<<e[1], e[2], given[e]>> : e \in new}
<1>1. ends \subseteq Pairs
  <2>1. copy[p].pods \in SUBSET Pods
    BY DEF TypeOK
  <2> QED BY <2>1, ActiveFacts
<1>2. /\ Fresh(new) # {} /\ Advance(p, "endpoints", "patch", kept \cup added)
      /\ UNCHANGED <<proxies, news, config, queue>>
  BY DEF ListEndpoints
<1>3. kept \subseteq Tunnels /\ \A t \in kept : <<t[1], t[2]>> \in ends
  BY DEF TypeOK
<1>4. given \in Fresh(new)
  BY <1>2
<1>5. given \in [new -> IDs \ InUse] /\ new = ends \ Ends(kept)
  BY <1>4 DEF Fresh
<1> HIDE DEF ends, kept, new, given
<1>6. \A e \in ends : e = <<e[1], e[2]>> /\ e[1] \in ClientNodes /\ e[2] \in EpicNodes
  BY <1>1 DEF Pairs
<1>7. added \subseteq Tunnels
  BY <1>5, <1>6 DEF Tunnels
<1>8. Ends(kept \cup added) = ends
  <2>1. Ends(kept \cup added) = Ends(kept) \cup Ends(added)
    BY DEF Ends
  <2>2. Ends(kept) \subseteq ends
    BY <1>3 DEF Ends
  <2>3. Ends(added) = new
    <3>1. ASSUME NEW t \in added PROVE <<t[1], t[2]>> \in new
      BY <1>5, <1>6
    <3>2. ASSUME NEW e \in new PROVE \E t \in added : e = <<t[1], t[2]>>
      <4>1. <<e[1], e[2], given[e]>> \in added
        OBVIOUS
      <4> QED BY <1>5, <1>6, <4>1
    <3> HIDE DEF added
    <3> QED BY <3>1, <3>2 DEF Ends
  <2> QED BY <1>5, <2>1, <2>2, <2>3
<1> HIDE DEF added
<1>9. "patch" \in Stages /\ (kept \cup added) \in SUBSET Results("patch")
  BY <1>3, <1>7, StageFacts DEF Stages
<1>10. /\ WorkTyped /\ stage[p] = "endpoints" /\ stage'[p] = "patch" /\ result'[p] = kept \cup added
       /\ \A q \in Proxies \ {p} : stage'[q] = stage[q] /\ copy'[q] = copy[q] /\ result'[q] = result[q]
  BY <1>2, <1>9, AdvanceFacts
<1> QED BY <1>2, <1>8, <1>10 DEF OthersKept, Stepped, ends

LEMMA PatchEffect ==
    ASSUME TypeOK, NEW p \in Proxies, Patch(p)
    PROVE  /\ WorkTyped /\ OthersKept(p) /\ UNCHANGED <<config, queue>> /\ news \subseteq news'
           /\ Stepped(p, {"patch"}, {"routes"})
           /\ proxies'[p].pods = proxies[p].pods /\ proxies'[p].tunnels = result[p]
           /\ \A q \in Proxies \ {p} : proxies'[q] = proxies[q]
           /\ proxies' \in [Proxies -> [pods : SUBSET Pods, tunnels : SUBSET Tunnels]]
           /\ news' \subseteq Proxies /\ (p \notin news' => proxies' = proxies)
<1>1. "routes" \in Stages /\ {} \in SUBSET Results("routes")
  BY DEF Stages
<1>2. /\ WorkTyped /\ stage'[p] = "routes" /\ stage[p] = "patch"
      /\ \A q \in Proxies \ {p} : stage'[q] = stage[q] /\ copy'[q] = copy[q] /\ result'[q] = result[q]
  BY <1>1, AdvanceFacts DEF Patch
<1>3. result[p] \subseteq Tunnels
  <2>1. result[p] \subseteq Results(stage[p])
    BY DEF TypeOK, Results
  <2> QED BY <1>2, <2>1, StageFacts
<1>4. /\ proxies \in [Proxies -> [pods : SUBSET Pods, tunnels : SUBSET Tunnels]]
      /\ proxies' = [proxies EXCEPT ![p].tunnels = result[p]]
      /\ UNCHANGED <<config, queue>>
      /\ news' = news \cup {p} \/ (news' = news /\ result[p] = proxies[p].tunnels)
  BY DEF TypeOK, Patch
<1>5. /\ proxies'[p].pods = proxies[p].pods /\ proxies'[p].tunnels = result[p]
      /\ \A q \in Proxies \ {p} : proxies'[q] = proxies[q]
  BY <1>4
<1>6. proxies' \in [Proxies -> [pods : SUBSET Pods, tunnels : SUBSET Tunnels]]
  BY <1>3, <1>4
<1>7. news \subseteq news' /\ news' \subseteq Proxies /\ (p \notin news' => result[p] = proxies[p].tunnels)
  BY <1>4 DEF TypeOK
<1>8. result[p] = proxies[p].tunnels => proxies' = proxies
  BY <1>4
<1> QED BY <1>2, <1>4, <1>5, <1>6, <1>7, <1>8 DEF OthersKept, Stepped

LEMMA ChildrenEffect ==
    ASSUME TypeOK, NEW p \in Proxies, ListChildRoutes(p)
    PROVE  /\ WorkTyped /\ OthersKept(p) /\ UNCHANGED <<proxies, news, config, queue>>
           /\ Stepped(p, {"routes"}, {"config"}) /\ result'[p] = ChildRoutes(p)
<1>1. "config" \in Stages /\ ChildRoutes(p) \in SUBSET Results("config")
  BY ActiveFacts, StageFacts DEF Stages
<1> QED BY <1>1, AdvanceFacts DEF ListChildRoutes, OthersKept, Stepped

LEMMA WriteEffect ==
    ASSUME TypeOK, NEW p \in Proxies, WriteEnvoyConfig(p)
    PROVE  /\ WorkTyped /\ OthersKept(p) /\ UNCHANGED <<proxies, news, queue>>
           /\ Stepped(p, {"config"}, {"idle"}) /\ config'[p] = result[p]
           /\ config' \in [Proxies -> SUBSET Routes]
<1>1. "idle" \in Stages /\ {} \in SUBSET Results("idle")
  BY DEF Stages
<1>2. /\ WorkTyped /\ stage'[p] = "idle" /\ stage[p] = "config"
      /\ \A q \in Proxies \ {p} : stage'[q] = stage[q] /\ copy'[q] = copy[q] /\ result'[q] = result[q]
  BY <1>1, AdvanceFacts DEF WriteEnvoyConfig
<1>3. result[p] \subseteq Routes
  <2>1. result[p] \subseteq Results(stage[p])
    BY DEF TypeOK, Results
  <2> QED BY <1>2, <2>1, StageFacts
<1>4. /\ config \in [Proxies -> SUBSET Routes] /\ config' = [config EXCEPT ![p] = result[p]]
      /\ UNCHANGED <<proxies, news, queue>>
  BY DEF TypeOK, WriteEnvoyConfig
<1> QED BY <1>2, <1>3, <1>4 DEF OthersKept, Stepped

LEMMA FailsEffect ==
    ASSUME TypeOK, NEW p \in Proxies, ReconcileFails(p)
    PROVE  /\ WorkTyped /\ OthersKept(p) /\ UNCHANGED <<proxies, news, config>>
           /\ queue' = queue \cup {p}
<1>1. "idle" \in Stages /\ {} \in SUBSET Results("idle")
  BY DEF Stages
<1>2. /\ WorkMoved(p, "idle", NoCopy, {}) /\ UNCHANGED <<proxies, news, config>>
      /\ queue' = queue \cup {p}
  BY DEF ReconcileFails, WorkMoved, proxyVars
<1> QED BY <1>1, <1>2, WorkMoves, NoCopyFacts DEF OthersKept

-----------------------------------------------------------------------------
\* TypeOK is inductive.

LEMMA WriteRouteEffect ==
    ASSUME TypeOK, NEW r \in Routes, WriteRoute(r)
    PROVE  /\ routes' \in [Routes -> RouteObjects \cup {Nil}] /\ disturbed' \in BOOLEAN
           /\ \A q \in Routes \ {r} : routes'[q] = routes[q]
           /\ (Live(routes'[r]) /\ Live(routes[r])) \/ (routes[r] = Nil /\ Idle(r))
           /\ routes'[r] # Nil /\ ~routes'[r].deleting
           /\ ~disturbed' /\ routes[r] # Nil => routes[r].parents \subseteq routes'[r].parents
<1>1. routes \in [Routes -> RouteObjects \cup {Nil}] /\ disturbed \in BOOLEAN
  BY DEF TypeOK
<1>2. PICK ps \in SUBSET Proxies, cs \in SUBSET Clusters :
          \/ /\ routes[r] = Nil /\ Idle(r)
             /\ routes' = [routes EXCEPT ![r] = [parents |-> ps, backends |-> cs,
                                                 guarded |-> FALSE, deleting |-> FALSE]]
             /\ UNCHANGED disturbed
          \/ /\ Live(routes[r])
             /\ Mark("reparent", ~(routes[r].parents \subseteq ps))
             /\ routes' = [routes EXCEPT ![r].parents = ps, ![r].backends = cs]
  BY DEF WriteRoute
<1>3. CASE routes[r] = Nil /\ Idle(r)
           /\ routes' = [routes EXCEPT ![r] = [parents |-> ps, backends |-> cs,
                                               guarded |-> FALSE, deleting |-> FALSE]]
           /\ UNCHANGED disturbed
  <2> DEFINE object == [parents |-> ps, backends |-> cs, guarded |-> FALSE, deleting |-> FALSE]
  <2>1. object \in RouteObjects /\ object.deleting = FALSE
    BY DEF RouteObjects
  <2>2. object # Nil
    BY <2>1
  <2>3. routes' = [routes EXCEPT ![r] = object]
    BY <1>3
  <2> HIDE DEF object
  <2>4. routes'[r] = object /\ \A q \in Routes \ {r} : routes'[q] = routes[q]
    BY <1>1, <2>3
  <2>5. routes' \in [Routes -> RouteObjects \cup {Nil}]
    BY <1>1, <2>1, <2>3
  <2> QED BY <1>1, <1>3, <2>1, <2>2, <2>4, <2>5
<1>4. CASE /\ Live(routes[r])
           /\ Mark("reparent", ~(routes[r].parents \subseteq ps))
           /\ routes' = [routes EXCEPT ![r].parents = ps, ![r].backends = cs]
  <2>1. routes[r] \in RouteObjects /\ ~routes[r].deleting
    BY <1>1, <1>4 DEF Live
  <2> DEFINE object == [routes[r] EXCEPT !.parents = ps, !.backends = cs]
  <2>2. /\ object \in RouteObjects /\ object.deleting = routes[r].deleting /\ object.parents = ps
    BY <2>1 DEF RouteObjects
  <2>3. object # Nil
    BY <2>2
  <2>4. routes' = [routes EXCEPT ![r] = object]
    BY <1>1, <1>4
  <2> HIDE DEF object
  <2>5. routes'[r] = object /\ \A q \in Routes \ {r} : routes'[q] = routes[q]
    BY <1>1, <2>4
  <2>6. routes' \in [Routes -> RouteObjects \cup {Nil}]
    BY <1>1, <2>2, <2>4
  <2>7. disturbed' \in BOOLEAN /\ (~disturbed' => routes[r].parents \subseteq ps)
    BY <1>1, <1>4 DEF Mark
  <2> QED BY <1>4, <2>1, <2>2, <2>3, <2>5, <2>6, <2>7 DEF Live
<1> QED BY <1>2, <1>3, <1>4

LEMMA DeleteRouteEffect ==
    ASSUME TypeOK, NEW r \in Routes, DeleteRoute(r)
    PROVE  /\ routes' \in [Routes -> RouteObjects \cup {Nil}] /\ disturbed' \in BOOLEAN
           /\ \A q \in Routes \ {r} : routes'[q] = routes[q]
           /\ Live(routes[r]) /\ ~Live(routes'[r])
           /\ ~disturbed' => routes'[r] # Nil /\ routes'[r].parents = routes[r].parents
           /\ routes'[r] = Nil \/ routes'[r].parents = routes[r].parents
<1>1. routes \in [Routes -> RouteObjects \cup {Nil}] /\ disturbed \in BOOLEAN
  BY DEF TypeOK
<1>2. routes[r] \in RouteObjects /\ Live(routes[r]) /\ Mark("early delete", ~routes[r].guarded)
  BY <1>1 DEF DeleteRoute, Live
<1>3. disturbed' \in BOOLEAN /\ (~disturbed' => routes[r].guarded)
  BY <1>1, <1>2 DEF Mark
<1> DEFINE object == [routes[r] EXCEPT !.deleting = TRUE]
<1>4. object \in RouteObjects /\ object.deleting /\ object.parents = routes[r].parents
  BY <1>2 DEF RouteObjects
<1>5. object # Nil
  BY <1>4
<1>6. routes' = [routes EXCEPT ![r] = IF routes[r].guarded THEN object ELSE Nil]
  BY <1>1 DEF DeleteRoute
<1> HIDE DEF object
<1>7. /\ routes'[r] = IF routes[r].guarded THEN object ELSE Nil
      /\ \A q \in Routes \ {r} : routes'[q] = routes[q]
      /\ routes' \in [Routes -> RouteObjects \cup {Nil}]
  BY <1>1, <1>4, <1>6
<1> QED BY <1>2, <1>3, <1>4, <1>5, <1>7 DEF Live

LEMMA ReconcileRouteEffect ==
    ASSUME TypeOK, NEW r \in Routes, ReconcileRoute(r)
    PROVE  /\ routes' \in [Routes -> RouteObjects \cup {Nil}]
           /\ nudging' \in [Nudgers -> [left : SUBSET (Proxies \cup Slices), clusters : SUBSET Clusters]]
           /\ \A q \in Routes \ {r} : routes'[q] = routes[q]
           /\ \A o \in Nudgers \ {r} : nudging'[o] = nudging[o]
           /\ routes[r] # Nil /\ Idle(r) /\ nudging'[r].left = routes[r].parents
           /\ routes[r].parents \subseteq Proxies
           /\ IF routes[r].deleting THEN routes'[r] = Nil
              ELSE /\ routes'[r] # Nil /\ ~routes'[r].deleting
                   /\ routes'[r].parents = routes[r].parents /\ routes'[r].backends = routes[r].backends
           /\ queue' \subseteq queue
<1>1. /\ routes \in [Routes -> RouteObjects \cup {Nil}]
      /\ nudging \in [Nudgers -> [left : SUBSET (Proxies \cup Slices), clusters : SUBSET Clusters]]
  BY DEF TypeOK
<1>2. r \in Nudgers /\ r \in queue /\ Idle(r) /\ routes[r] # Nil
  BY DEF ReconcileRoute, Nudgers
<1>3. routes[r] \in RouteObjects
  BY <1>1, <1>2
<1>4. routes[r].parents \subseteq Proxies /\ routes[r].backends \subseteq Clusters
  BY <1>3 DEF RouteObjects
<1> DEFINE work == [left |-> routes[r].parents, clusters |-> routes[r].backends]
<1>5. /\ work \in [left : SUBSET (Proxies \cup Slices), clusters : SUBSET Clusters]
      /\ work.left = routes[r].parents
  BY <1>4
<1>6. nudging' = [nudging EXCEPT ![r] = work]
  BY DEF ReconcileRoute
<1> HIDE DEF work
<1>7. /\ nudging' \in [Nudgers -> [left : SUBSET (Proxies \cup Slices), clusters : SUBSET Clusters]]
      /\ nudging'[r].left = routes[r].parents
      /\ \A o \in Nudgers \ {r} : nudging'[o] = nudging[o]
  BY <1>1, <1>2, <1>5, <1>6
<1> DEFINE object == [routes[r] EXCEPT !.guarded = TRUE]
<1>8. /\ object \in RouteObjects /\ object.deleting = routes[r].deleting
      /\ object.parents = routes[r].parents /\ object.backends = routes[r].backends
  BY <1>3 DEF RouteObjects
<1>9. object # Nil
  BY <1>8
<1>10. routes' = [routes EXCEPT ![r] = IF routes[r].deleting THEN Nil ELSE object]
  BY <1>1 DEF ReconcileRoute
<1> HIDE DEF object
<1>11. /\ routes'[r] = IF routes[r].deleting THEN Nil ELSE object
       /\ \A q \in Routes \ {r} : routes'[q] = routes[q]
       /\ routes' \in [Routes -> RouteObjects \cup {Nil}]
  BY <1>1, <1>8, <1>10
<1>12. queue' \subseteq queue
  BY DEF ReconcileRoute, Requeued
<1> QED BY <1>2, <1>4, <1>7, <1>8, <1>9, <1>11, <1>12

LEMMA WriteSliceEffect ==
    ASSUME TypeOK, NEW s \in Slices, WriteSlice(s)
    PROVE  /\ slices' \in [Slices -> SliceObjects \cup {Nil}]
           /\ \A q \in Slices \ {s} : slices'[q] = slices[q]
           /\ slices'[s] # Nil /\ ~slices'[s].deleting
<1>1. slices \in [Slices -> SliceObjects \cup {Nil}]
  BY DEF TypeOK
<1>2. PICK ns \in SUBSET ClientNodes :
          \/ /\ slices[s] = Nil
             /\ slices' = [slices EXCEPT ![s] = [nodes |-> ns, guarded |-> FALSE, deleting |-> FALSE]]
          \/ /\ Live(slices[s])
             /\ slices' = [slices EXCEPT ![s].nodes = ns]
  BY DEF WriteSlice
<1>3. CASE slices' = [slices EXCEPT ![s] = [nodes |-> ns, guarded |-> FALSE, deleting |-> FALSE]]
  <2> DEFINE object == [nodes |-> ns, guarded |-> FALSE, deleting |-> FALSE]
  <2>1. object \in SliceObjects /\ object.deleting = FALSE
    BY DEF SliceObjects
  <2>2. object # Nil
    BY <2>1
  <2>3. slices' = [slices EXCEPT ![s] = object]
    BY <1>3
  <2> HIDE DEF object
  <2> QED BY <1>1, <2>1, <2>2, <2>3
<1>4. CASE Live(slices[s]) /\ slices' = [slices EXCEPT ![s].nodes = ns]
  <2>1. slices[s] \in SliceObjects /\ ~slices[s].deleting
    BY <1>1, <1>4 DEF Live
  <2> DEFINE object == [slices[s] EXCEPT !.nodes = ns]
  <2>2. object \in SliceObjects /\ object.deleting = slices[s].deleting
    BY <2>1 DEF SliceObjects
  <2>3. object # Nil
    BY <2>2
  <2>4. slices' = [slices EXCEPT ![s] = object]
    BY <1>1, <1>4
  <2> HIDE DEF object
  <2> QED BY <1>1, <2>1, <2>2, <2>3, <2>4
<1> QED BY <1>2, <1>3, <1>4

LEMMA DeleteSliceEffect ==
    ASSUME TypeOK, NEW s \in Slices, DeleteSlice(s)
    PROVE  slices' \in [Slices -> SliceObjects \cup {Nil}] /\ disturbed' = TRUE
<1>1. slices \in [Slices -> SliceObjects \cup {Nil}] /\ disturbed \in BOOLEAN
  BY DEF TypeOK
<1>2. slices[s] \in SliceObjects
  BY <1>1 DEF DeleteSlice, Live
<1> DEFINE object == [slices[s] EXCEPT !.deleting = TRUE]
<1>3. object \in SliceObjects
  BY <1>2 DEF SliceObjects
<1>4. slices' = [slices EXCEPT ![s] = IF slices[s].guarded THEN object ELSE Nil]
  BY <1>1 DEF DeleteSlice
<1> HIDE DEF object
<1>5. slices' \in [Slices -> SliceObjects \cup {Nil}]
  BY <1>1, <1>3, <1>4
<1>6. disturbed' = TRUE
  BY <1>1 DEF DeleteSlice, Mark
<1> QED BY <1>5, <1>6

LEMMA ReconcileSliceEffect ==
    ASSUME TypeOK, NEW s \in Slices, ReconcileSlice(s)
    PROVE  /\ slices' \in [Slices -> SliceObjects \cup {Nil}]
           /\ nudging' \in [Nudgers -> [left : SUBSET (Proxies \cup Slices), clusters : SUBSET Clusters]]
           /\ \A q \in Slices \ {s} : slices'[q] = slices[q]
           /\ \A o \in Nudgers \ {s} : nudging'[o] = nudging[o]
           /\ slices[s] # Nil /\ Idle(s)
           /\ IF slices[s].deleting THEN slices'[s] = Nil /\ nudging' = nudging
              ELSE /\ slices'[s] # Nil /\ ~slices'[s].deleting /\ slices'[s].nodes = slices[s].nodes
                   /\ nudging'[s].left = ReferencingProxies(s)
           /\ queue' \subseteq queue
<1>1. /\ slices \in [Slices -> SliceObjects \cup {Nil}]
      /\ nudging \in [Nudgers -> [left : SUBSET (Proxies \cup Slices), clusters : SUBSET Clusters]]
  BY DEF TypeOK
<1>2. s \in Nudgers /\ Idle(s) /\ slices[s] # Nil
  BY DEF ReconcileSlice, Nudgers
<1>3. slices[s] \in SliceObjects
  BY <1>1, <1>2
<1> DEFINE object == [slices[s] EXCEPT !.guarded = TRUE]
<1>4. /\ object \in SliceObjects /\ object.deleting = slices[s].deleting
      /\ object.nodes = slices[s].nodes
  BY <1>3 DEF SliceObjects
<1>5. object # Nil
  BY <1>4
<1>6. slices' = [slices EXCEPT ![s] = IF slices[s].deleting THEN Nil ELSE object]
  BY <1>1 DEF ReconcileSlice
<1> HIDE DEF object
<1>7. /\ slices'[s] = IF slices[s].deleting THEN Nil ELSE object
      /\ \A q \in Slices \ {s} : slices'[q] = slices[q]
      /\ slices' \in [Slices -> SliceObjects \cup {Nil}]
  BY <1>1, <1>4, <1>6
<1>8. queue' \subseteq queue
  BY DEF ReconcileSlice, Requeued
<1>9. CASE slices[s].deleting
  <2>1. nudging' = nudging
    BY <1>9 DEF ReconcileSlice
  <2> QED BY <1>1, <1>2, <1>7, <1>8, <1>9, <2>1
<1>10. CASE ~slices[s].deleting
  <2>1. nudging' = [nudging EXCEPT ![s].left = ReferencingProxies(s)]
    BY <1>10 DEF ReconcileSlice
  <2>2. ReferencingProxies(s) \in SUBSET (Proxies \cup Slices)
    BY ReferencingFacts
  <2>3. /\ nudging' \in [Nudgers -> [left : SUBSET (Proxies \cup Slices), clusters : SUBSET Clusters]]
        /\ nudging'[s].left = ReferencingProxies(s)
        /\ \A o \in Nudgers \ {s} : nudging'[o] = nudging[o]
    BY <1>1, <1>2, <2>1, <2>2
  <2> QED BY <1>2, <1>4, <1>5, <1>7, <1>8, <1>10, <2>3
<1> QED BY <1>9, <1>10

Works == [left : SUBSET (Proxies \cup Slices), clusters : SUBSET Clusters]

LEMMA RestingFacts == Resting \in Works /\ Resting.left = {}
BY DEF Resting, Works

LEMMA NudgeEffect ==
    ASSUME TypeOK, NEW o \in Nudgers, NEW x, nudging' = [nudging EXCEPT ![o].left = @ \ {x}]
    PROVE  /\ nudging' \in [Nudgers -> Works]
           /\ nudging'[o].left = nudging[o].left \ {x}
           /\ \A q \in Nudgers \ {o} : nudging'[q] = nudging[q]
<1>1. nudging \in [Nudgers -> Works]
  BY DEF TypeOK, Works
<1> DEFINE work == [nudging[o] EXCEPT !.left = @ \ {x}]
<1>2. work \in Works /\ work.left = nudging[o].left \ {x}
  BY <1>1 DEF Works
<1>3. nudging' = [nudging EXCEPT ![o] = work]
  BY <1>1
<1> HIDE DEF work
<1> QED BY <1>1, <1>2, <1>3

LEMMA BackendRefsEffect ==
    ASSUME TypeOK, NEW r \in Routes, BackendRefs(r)
    PROVE  /\ nudging' \in [Nudgers -> Works]
           /\ nudging[r].left = {} /\ nudging'[r].left \subseteq Slices
           /\ \A q \in Nudgers \ {r} : nudging'[q] = nudging[q]
<1>1. nudging \in [Nudgers -> Works] /\ r \in Nudgers
  BY DEF TypeOK, Works, Nudgers
<1> DEFINE work == [left |-> {s \in Slices : Live(slices[s]) /\ ClusterOf[s] \in nudging[r].clusters},
                    clusters |-> {}]
<1>2. work \in Works /\ work.left \subseteq Slices
  BY DEF Works
<1>3. nudging' = [nudging EXCEPT ![r] = work] /\ nudging[r].left = {}
  BY <1>1 DEF BackendRefs
<1> HIDE DEF work
<1> QED BY <1>1, <1>2, <1>3

LEMMA NudgeFailsEffect ==
    ASSUME TypeOK, NEW o \in Nudgers, NudgeFails(o)
    PROVE  /\ nudging' \in [Nudgers -> Works]
           /\ \A q \in Nudgers \ {o} : nudging'[q] = nudging[q]
           /\ nudging'[o].left = {} /\ queue' = queue \cup {o}
           /\ faults' \in 0 .. MaxFaults /\ disturbed' \in BOOLEAN
           /\ \/ \E s \in nudging[o].left \cap Slices : slices[s] = Nil
              \/ o \in Routes /\ routes[o] = Nil => disturbed'
<1>1. nudging \in [Nudgers -> Works] /\ faults \in 0 .. MaxFaults /\ disturbed \in BOOLEAN
  BY DEF TypeOK, Works
<1>2. nudging' = [nudging EXCEPT ![o] = Resting] /\ queue' = queue \cup {o}
  BY DEF NudgeFails
<1>3. \/ (\E s \in nudging[o].left \cap Slices : slices[s] = Nil) /\ UNCHANGED <<faults, disturbed>>
      \/ faults < MaxFaults /\ faults' = faults + 1 /\ Mark("lost nudge", o \in Routes /\ routes[o] = Nil)
  BY DEF NudgeFails
<1>4. faults' \in 0 .. MaxFaults
  <2>1. UNCHANGED faults \/ (faults < MaxFaults /\ faults' = faults + 1)
    BY <1>3
  <2> QED BY <1>1, <2>1
<1>5. /\ disturbed' \in BOOLEAN
      /\ \/ \E s \in nudging[o].left \cap Slices : slices[s] = Nil
         \/ o \in Routes /\ routes[o] = Nil => disturbed'
  BY <1>1, <1>3 DEF Mark
<1>6. /\ nudging' \in [Nudgers -> Works] /\ nudging'[o] = Resting
      /\ \A q \in Nudgers \ {o} : nudging'[q] = nudging[q]
  BY <1>1, <1>2, RestingFacts
<1> QED BY <1>2, <1>4, <1>5, <1>6, RestingFacts

LEMMA RestartEffect ==
    ASSUME TypeOK, Restart
    PROVE  /\ WorkTyped /\ nudging' \in [Nudgers -> Works] /\ faults' \in 0 .. MaxFaults
           /\ \A o \in Nudgers : nudging'[o].left = {}
           /\ seen' = proxies /\ news' = {} /\ Proxies \subseteq queue' /\ queue' \subseteq Proxies \cup Nudgers
           /\ UNCHANGED <<routes, slices, pods, proxies, config, changes, disturbed>>
<1>1. /\ stage' = [p \in Proxies |-> "idle"] /\ copy' = [p \in Proxies |-> NoCopy]
      /\ result' = [p \in Proxies |-> {}]
  BY DEF Restart
<1>2. WorkTyped
  BY <1>1, NoCopyFacts, StageFacts DEF WorkTyped, Stages
<1>3. nudging' = [o \in Nudgers |-> Resting]
  BY DEF Restart
<1>4. nudging' \in [Nudgers -> Works] /\ \A o \in Nudgers : nudging'[o].left = {}
  BY <1>3, RestingFacts
<1>5. faults' \in 0 .. MaxFaults
  <2>1. faults \in 0 .. MaxFaults /\ faults < MaxFaults /\ faults' = faults + 1
    BY DEF Restart, TypeOK
  <2> QED BY <2>1
<1> QED BY <1>2, <1>4, <1>5 DEF Restart, Nudgers

LEMMA ChangeEffect ==
    ASSUME TypeOK, NEW o \in Nudgers, Change(o)
    PROVE  /\ changes' \in 0 .. MaxChanges /\ o \in queue' /\ queue' \subseteq Proxies \cup Nudgers
           /\ UNCHANGED <<pods, proxies, seen, news, config, nudging, stage, copy, result, faults>>
<1>1. Counted /\ changes \in 0 .. MaxChanges
  BY DEF Change, TypeOK
<1>2. changes' \in 0 .. MaxChanges
  BY <1>1 DEF Counted
<1> QED BY <1>2 DEF Change, TypeOK, proxyVars, workVars, proxyWork

\* Pods.
Versions == [Proxies -> [pods : SUBSET Pods, tunnels : SUBSET Tunnels]]

LEMMA StartPodEffect ==
    ASSUME TypeOK, NEW d \in Pods, StartPod(d)
    PROVE  /\ pods' \in [Pods -> {"new", "up", "deleting", "gone"}]
           /\ proxies' \in Versions /\ news' = news \cup {Owner[d]} /\ news' \subseteq Proxies
           /\ \A p \in Proxies \ {Owner[d]} : proxies'[p] = proxies[p]
<1>1. proxies \in Versions /\ Owner[d] \in Proxies
  BY DEF TypeOK, Versions
<1> DEFINE version == [proxies[Owner[d]] EXCEPT !.pods = @ \cup {d}]
<1>2. version \in [pods : SUBSET Pods, tunnels : SUBSET Tunnels]
  BY <1>1 DEF Versions
<1>3. proxies' = [proxies EXCEPT ![Owner[d]] = version]
  BY <1>1 DEF StartPod
<1> HIDE DEF version
<1>4. proxies' \in Versions /\ \A p \in Proxies \ {Owner[d]} : proxies'[p] = proxies[p]
  BY <1>1, <1>2, <1>3 DEF Versions
<1>5. /\ pods' \in [Pods -> {"new", "up", "deleting", "gone"}]
      /\ news' = news \cup {Owner[d]} /\ news' \subseteq Proxies
  BY <1>1 DEF TypeOK, StartPod
<1> QED BY <1>4, <1>5

LEMMA RemoveProxyInfoEffect ==
    ASSUME TypeOK, NEW d \in Pods, RemoveProxyInfo(d)
    PROVE  /\ pods' \in [Pods -> {"new", "up", "deleting", "gone"}]
           /\ proxies' \in Versions /\ news \subseteq news' /\ news' \subseteq Proxies
           /\ \A p \in Proxies : proxies'[p] = proxies[p] \/ p \in news'
<1> DEFINE p == Owner[d]
           left == seen[p].pods \ {d}
           version == [pods |-> left,
                       tunnels |-> {t \in seen[p].tunnels : t[2] = NodeOf[d] => t[2] \in Nodes(left)}]
<1>1. p \in Proxies
  OBVIOUS
<1>2. /\ proxies \in Versions /\ seen \in Versions /\ news \subseteq Proxies
      /\ pods \in [Pods -> {"new", "up", "deleting", "gone"}]
  BY DEF TypeOK, Versions
<1>3. version \in [pods : SUBSET Pods, tunnels : SUBSET Tunnels]
  BY <1>1, <1>2 DEF Versions
<1>4. \/ UNCHANGED <<proxies, news>>
      \/ news' = news \cup {p} /\ proxies' = [proxies EXCEPT ![p] = version]
  BY DEF RemoveProxyInfo
<1>5. pods' \in [Pods -> {"new", "up", "deleting", "gone"}]
  BY <1>2 DEF RemoveProxyInfo
<1> HIDE DEF p, left, version
<1>6. CASE UNCHANGED <<proxies, news>>
  BY <1>2, <1>5, <1>6
<1>7. CASE news' = news \cup {p} /\ proxies' = [proxies EXCEPT ![p] = version]
  <2>1. proxies' \in Versions
    BY <1>1, <1>2, <1>3, <1>7 DEF Versions
  <2>2. \A q \in Proxies : proxies'[q] = proxies[q] \/ q = p
    BY <1>1, <1>2, <1>7 DEF Versions
  <2> QED BY <1>1, <1>2, <1>5, <1>7, <2>1, <2>2
<1> QED BY <1>4, <1>6, <1>7

LEMMA SyncEffect ==
    ASSUME TypeOK, NEW p \in Proxies, Sync(p)
    PROVE  /\ seen' \in Versions /\ seen'[p] = proxies[p] /\ news' = news \ {p} /\ queue' = queue \cup {p}
           /\ \A q \in Proxies \ {p} : seen'[q] = seen[q]
           /\ UNCHANGED proxies
BY DEF TypeOK, Sync, Versions

LEMMA TypeStep == ASSUME TypeOK, [Next]_vars PROVE TypeOK'
<1> DEFINE Objects == /\ routes \in [Routes -> RouteObjects \cup {Nil}]
                      /\ slices \in [Slices -> SliceObjects \cup {Nil}]
                      /\ pods \in [Pods -> {"new", "up", "deleting", "gone"}]
           Caches == /\ proxies \in Versions /\ seen \in Versions /\ news \subseteq Proxies
                     /\ config \in [Proxies -> SUBSET Routes]
           Work == /\ stage \in [Proxies -> Stages]
                   /\ copy \in Versions
                   /\ result \in [Proxies -> SUBSET (Tunnels \cup Routes)]
                   /\ \A q \in Proxies : result[q] \subseteq Results(stage[q])
           Nudging == queue \subseteq Proxies \cup Nudgers /\ nudging \in [Nudgers -> Works]
           Counts == changes \in 0 .. MaxChanges /\ faults \in 0 .. MaxFaults /\ disturbed \in BOOLEAN
<1>1. Objects /\ Caches /\ Work /\ Nudging /\ Counts
  BY DEF TypeOK, Versions, Works, Results, Stages
<1>2. Objects' /\ Caches' /\ Work' /\ Nudging' /\ Counts' => TypeOK'
  BY DEF TypeOK, Versions, Works, Results, Stages
<1>3. WorkTyped => Work'
  BY DEF WorkTyped, Versions
<1>4. Routes \subseteq Nudgers /\ Slices \subseteq Nudgers
  BY DEF Nudgers
<1>5. UNCHANGED <<stage, copy, result>> => Work'
  BY <1>1
<1>6. ASSUME Counted PROVE changes' \in 0 .. MaxChanges
  BY <1>1, <1>6 DEF Counted
<1>7. ASSUME faults < MaxFaults, faults' = faults + 1 PROVE faults' \in 0 .. MaxFaults
  BY <1>1, <1>7
<1> USE DEF proxyVars, workVars, proxyWork, counters
<1> HIDE DEF Work
<1>11. ASSUME NEW r \in Routes, WriteRoute(r) PROVE Objects' /\ Caches' /\ Work' /\ Nudging' /\ Counts'
  BY <1>1, <1>3, <1>4, <1>5, <1>6, <1>7, <1>11, WriteRouteEffect, ChangeEffect
     DEF WriteRoute
<1>12. ASSUME NEW r \in Routes, DeleteRoute(r) PROVE Objects' /\ Caches' /\ Work' /\ Nudging' /\ Counts'
  BY <1>1, <1>3, <1>4, <1>5, <1>6, <1>7, <1>12, DeleteRouteEffect, ChangeEffect
     DEF DeleteRoute
<1>13. ASSUME NEW s \in Slices, WriteSlice(s) PROVE Objects' /\ Caches' /\ Work' /\ Nudging' /\ Counts'
  BY <1>1, <1>3, <1>4, <1>5, <1>6, <1>7, <1>13, WriteSliceEffect, ChangeEffect
     DEF WriteSlice
<1>14. ASSUME NEW s \in Slices, DeleteSlice(s) PROVE Objects' /\ Caches' /\ Work' /\ Nudging' /\ Counts'
  BY <1>1, <1>3, <1>4, <1>5, <1>6, <1>7, <1>14, DeleteSliceEffect, ChangeEffect
     DEF DeleteSlice
<1>15. ASSUME NEW d \in Pods, StartPod(d) PROVE Objects' /\ Caches' /\ Work' /\ Nudging' /\ Counts'
  BY <1>1, <1>3, <1>4, <1>5, <1>6, <1>7, <1>15, StartPodEffect
     DEF StartPod
<1>16. ASSUME NEW d \in Pods, StopPod(d) PROVE Objects' /\ Caches' /\ Work' /\ Nudging' /\ Counts'
  BY <1>1, <1>3, <1>4, <1>5, <1>6, <1>7, <1>16
     DEF StopPod
<1>17. ASSUME NEW d \in Pods, RemoveProxyInfo(d) PROVE Objects' /\ Caches' /\ Work' /\ Nudging' /\ Counts'
  BY <1>1, <1>3, <1>4, <1>5, <1>6, <1>7, <1>17, RemoveProxyInfoEffect
     DEF RemoveProxyInfo
<1>18. ASSUME NEW o \in Nudgers, NothingToReconcile(o) PROVE Objects' /\ Caches' /\ Work' /\ Nudging' /\ Counts'
  BY <1>1, <1>3, <1>4, <1>5, <1>6, <1>7, <1>18
     DEF NothingToReconcile
<1>19. ASSUME NEW r \in Routes, ReconcileRoute(r) PROVE Objects' /\ Caches' /\ Work' /\ Nudging' /\ Counts'
  BY <1>1, <1>3, <1>4, <1>5, <1>6, <1>7, <1>19, ReconcileRouteEffect
     DEF ReconcileRoute, Works
<1>20. ASSUME NEW s \in Slices, ReconcileSlice(s) PROVE Objects' /\ Caches' /\ Work' /\ Nudging' /\ Counts'
  BY <1>1, <1>3, <1>4, <1>5, <1>6, <1>7, <1>20, ReconcileSliceEffect
     DEF ReconcileSlice, Works
<1>21. ASSUME NEW o \in Nudgers, NEW p \in Proxies, NudgeProxy(o, p)
       PROVE  Objects' /\ Caches' /\ Work' /\ Nudging' /\ Counts'
  BY <1>1, <1>3, <1>4, <1>5, <1>6, <1>7, <1>21, NudgeEffect
     DEF NudgeProxy
<1>22. ASSUME NEW r \in Routes, BackendRefs(r) PROVE Objects' /\ Caches' /\ Work' /\ Nudging' /\ Counts'
  BY <1>1, <1>3, <1>4, <1>5, <1>6, <1>7, <1>22, BackendRefsEffect
     DEF BackendRefs
<1>23. ASSUME NEW r \in Routes, NEW s \in Slices, NudgeSlice(r, s)
       PROVE  Objects' /\ Caches' /\ Work' /\ Nudging' /\ Counts'
  <2>1. /\ nudging' = [nudging EXCEPT ![r].left = @ \ {s}] /\ queue' = queue \cup {s}
        /\ UNCHANGED <<routes, slices, pods, proxyVars, proxyWork, counters>>
    BY <1>23 DEF NudgeSlice
  <2>2. nudging' \in [Nudgers -> Works]
    BY <1>4, <2>1, NudgeEffect
  <2> QED BY <1>1, <1>4, <1>5, <2>1, <2>2
<1>24. ASSUME NEW o \in Nudgers, NudgeFails(o) PROVE Objects' /\ Caches' /\ Work' /\ Nudging' /\ Counts'
  BY <1>1, <1>3, <1>4, <1>5, <1>6, <1>7, <1>24, NudgeFailsEffect
     DEF NudgeFails
<1>25. ASSUME NEW p \in Proxies, Sync(p) PROVE Objects' /\ Caches' /\ Work' /\ Nudging' /\ Counts'
  BY <1>1, <1>3, <1>4, <1>5, <1>6, <1>7, <1>25, SyncEffect
     DEF Sync
<1>26. ASSUME NEW p \in Proxies, GetProxy(p) PROVE Objects' /\ Caches' /\ Work' /\ Nudging' /\ Counts'
  BY <1>1, <1>3, <1>4, <1>5, <1>6, <1>7, <1>26, GetEffect
     DEF GetProxy
<1>27. ASSUME NEW p \in Proxies, ListEndpoints(p) PROVE Objects' /\ Caches' /\ Work' /\ Nudging' /\ Counts'
  BY <1>1, <1>3, <1>4, <1>5, <1>6, <1>7, <1>27, ListEffect
     DEF ListEndpoints, Advance
<1>28. ASSUME NEW p \in Proxies, Patch(p) PROVE Objects' /\ Caches' /\ Work' /\ Nudging' /\ Counts'
  BY <1>1, <1>3, <1>4, <1>5, <1>6, <1>7, <1>28, PatchEffect
     DEF Patch, Advance, Versions
<1>29. ASSUME NEW p \in Proxies, ListChildRoutes(p) PROVE Objects' /\ Caches' /\ Work' /\ Nudging' /\ Counts'
  BY <1>1, <1>3, <1>4, <1>5, <1>6, <1>7, <1>29, ChildrenEffect
     DEF ListChildRoutes, Advance
<1>30. ASSUME NEW p \in Proxies, WriteEnvoyConfig(p) PROVE Objects' /\ Caches' /\ Work' /\ Nudging' /\ Counts'
  BY <1>1, <1>3, <1>4, <1>5, <1>6, <1>7, <1>30, WriteEffect
     DEF WriteEnvoyConfig, Advance
<1>31. ASSUME NEW p \in Proxies, ReconcileFails(p) PROVE Objects' /\ Caches' /\ Work' /\ Nudging' /\ Counts'
  BY <1>1, <1>3, <1>4, <1>5, <1>6, <1>7, <1>31, FailsEffect
     DEF ReconcileFails
<1>32. ASSUME Restart PROVE Objects' /\ Caches' /\ Work' /\ Nudging' /\ Counts'
  BY <1>1, <1>3, <1>4, <1>5, <1>6, <1>7, <1>32, RestartEffect
     DEF Restart
<1>33. ASSUME UNCHANGED vars PROVE Objects' /\ Caches' /\ Work' /\ Nudging' /\ Counts'
  BY <1>1, <1>3, <1>4, <1>5, <1>6, <1>7, <1>33
     DEF vars
<1> HIDE DEF Objects, Caches, Nudging, Counts
<1> QED BY <1>2, <1>4, <1>11, <1>12, <1>13, <1>14, <1>15, <1>16, <1>17, <1>18, <1>19, <1>20, <1>21, <1>22, <1>23, <1>24, <1>25, <1>26, <1>27, <1>28, <1>29, <1>30, <1>31, <1>32, <1>33
        DEF Next, NudgerStep, RouteStep, SliceStep, ProxyStep

-----------------------------------------------------------------------------
\* How each object comes to change.

LEMMA RouteTrace ==
    ASSUME TypeOK, [Next]_vars, NEW r \in Routes, routes'[r] # routes[r]
    PROVE  \/ WriteRoute(r) /\ r \in queue'
           \/ DeleteRoute(r) /\ r \in queue'
           \/ ReconcileRoute(r)
<1>1. ASSUME NEW q \in Routes, WriteRoute(q) PROVE q = r /\ r \in queue'
  BY <1>1, WriteRouteEffect DEF WriteRoute, Change
<1>2. ASSUME NEW q \in Routes, DeleteRoute(q) PROVE q = r /\ r \in queue'
  BY <1>2, DeleteRouteEffect DEF DeleteRoute, Change
<1>3. ASSUME NEW q \in Routes, ReconcileRoute(q) PROVE q = r
  BY <1>3, ReconcileRouteEffect
<1> QED BY <1>1, <1>2, <1>3, RoutesSteps

LEMMA SliceTrace ==
    ASSUME TypeOK, SlicesStay, [Next]_vars, ~disturbed', NEW s \in Slices, slices'[s] # slices[s]
    PROVE  \/ WriteSlice(s) /\ s \in queue' /\ slices'[s] # Nil /\ ~slices'[s].deleting
           \/ /\ ReconcileSlice(s) /\ slices[s] # Nil /\ slices'[s] # Nil
              /\ ~slices[s].deleting /\ ~slices'[s].deleting /\ slices'[s].nodes = slices[s].nodes
<1>1. ASSUME NEW q \in Slices, WriteSlice(q)
      PROVE  q = s /\ s \in queue' /\ slices'[s] # Nil /\ ~slices'[s].deleting
  BY <1>1, WriteSliceEffect DEF WriteSlice, Change
<1>2. ASSUME NEW q \in Slices, DeleteSlice(q) PROVE FALSE
  BY <1>2, DeleteSliceEffect
<1>3. ASSUME NEW q \in Slices, ReconcileSlice(q)
      PROVE  /\ q = s /\ slices[s] # Nil /\ slices'[s] # Nil /\ ~slices[s].deleting
             /\ ~slices'[s].deleting /\ slices'[s].nodes = slices[s].nodes
  <2>1. q = s /\ slices[s] # Nil
    BY <1>3, ReconcileSliceEffect
  <2>2. ~slices[s].deleting
    BY <2>1, DisturbedGrows DEF SlicesStay
  <2> QED BY <1>3, <2>1, <2>2, ReconcileSliceEffect
<1> QED BY <1>1, <1>2, <1>3, SlicesSteps

\* Who gets something to nudge, and who loses it.
LEMMA NudgingGrows ==
    ASSUME TypeOK, [Next]_vars, NEW o \in Nudgers
    PROVE  \/ nudging'[o].left \subseteq nudging[o].left
           \/ o \in Routes /\ (ReconcileRoute(o) \/ nudging'[o].left \subseteq Slices)
           \/ o \in Slices /\ ReconcileSlice(o)
<1>1. CASE Restart
  BY <1>1, RestartEffect
<1>2. ASSUME NEW r \in Routes, ReconcileRoute(r) \/ BackendRefs(r)
      PROVE  \/ nudging'[o] = nudging[o]
             \/ o = r /\ (ReconcileRoute(r) \/ nudging'[o].left \subseteq Slices)
  BY <1>2, ReconcileRouteEffect, BackendRefsEffect
<1>3. ASSUME NEW s \in Slices, ReconcileSlice(s) PROVE nudging'[o] = nudging[o] \/ o = s
  BY <1>3, ReconcileSliceEffect
<1>4. ASSUME NEW r \in Routes, NEW s \in Slices, NudgeSlice(r, s)
      PROVE  nudging'[o].left \subseteq nudging[o].left
  <2>1. r \in Nudgers /\ nudging' = [nudging EXCEPT ![r].left = @ \ {s}]
    BY <1>4 DEF Nudgers, NudgeSlice
  <2> QED BY <2>1, NudgeEffect
<1>5. ASSUME NEW q \in Nudgers, NudgeFails(q) PROVE nudging'[o].left \subseteq nudging[o].left
  BY <1>5, NudgeFailsEffect
<1>6. ASSUME NEW q \in Nudgers, NEW p \in Proxies, NudgeProxy(q, p)
      PROVE  nudging'[o].left \subseteq nudging[o].left
  <2>1. nudging' = [nudging EXCEPT ![q].left = @ \ {p}]
    BY <1>6 DEF NudgeProxy
  <2> QED BY <2>1, NudgeEffect
<1> QED BY <1>1, <1>2, <1>3, <1>4, <1>5, <1>6, NudgingSteps

LEMMA NudgingShrinks ==
    ASSUME TypeOK, [Next]_vars, NEW o \in Nudgers, NEW p \in Proxies,
           p \in nudging[o].left, p \notin nudging'[o].left
    PROVE  p \in queue' \/ p \in news' \/ NudgeFails(o)
<1>1. CASE Restart
  BY <1>1, RestartEffect
<1>2. ASSUME NEW q \in Nudgers, Idle(q) PROVE nudging[q].left = {}
  BY <1>2, RestingFacts DEF Idle
<1>3. ASSUME NEW r \in Routes, ReconcileRoute(r) \/ BackendRefs(r) PROVE FALSE
  <2>1. r \in Nudgers
    BY DEF Nudgers
  <2> QED BY <1>2, <1>3, <2>1, ReconcileRouteEffect, BackendRefsEffect
<1>4. ASSUME NEW s \in Slices, ReconcileSlice(s) PROVE FALSE
  <2>1. s \in Nudgers
    BY DEF Nudgers
  <2> QED BY <1>2, <1>4, <2>1, ReconcileSliceEffect
<1>5. ASSUME NEW r \in Routes, NEW s \in Slices, NudgeSlice(r, s) PROVE FALSE
  <2>1. r \in Nudgers /\ nudging' = [nudging EXCEPT ![r].left = @ \ {s}]
    BY <1>5 DEF Nudgers, NudgeSlice
  <2>2. p # s
    OBVIOUS
  <2> QED BY <2>1, <2>2, NudgeEffect
<1>6. ASSUME NEW q \in Nudgers, NudgeFails(q) PROVE q = o
  BY <1>6, NudgeFailsEffect
<1>7. ASSUME NEW q \in Nudgers, NEW x \in Proxies, NudgeProxy(q, x) PROVE p \in news'
  <2>1. nudging' = [nudging EXCEPT ![q].left = @ \ {x}] /\ news' = news \cup {x}
    BY <1>7 DEF NudgeProxy
  <2> QED BY <2>1, NudgeEffect
<1> QED BY <1>1, <1>3, <1>4, <1>5, <1>6, <1>7, NudgingSteps

\* A proxy is queued, or about to be, until its reconcile begins.
LEMMA AwaitedTrace ==
    ASSUME TypeOK, [Next]_vars, NEW p \in Proxies, Awaited(p)
    PROVE  Awaited(p)' \/ GetProxy(p)
<1>1. CASE p \in queue
  <2>1. p \notin Nudgers
    BY DEF Nudgers
  <2> QED BY <1>1, <2>1, QueueSteps, RestartEffect DEF Awaited, Nudgers
<1>2. CASE p \in news
  BY <1>2, NewsSteps, SyncEffect, RestartEffect DEF Awaited
<1> QED BY <1>1, <1>2 DEF Awaited

\* What happens to a proxy and its reconcile, if it is not queued thereby.
LEMMA ProxyTrace ==
    ASSUME TypeOK, [Next]_vars, NEW p \in Proxies, ~Awaited(p)'
    PROVE  \/ /\ stage'[p] = stage[p] /\ copy'[p] = copy[p] /\ result'[p] = result[p]
              /\ config'[p] = config[p] /\ proxies'[p] = proxies[p]
           \/ GetProxy(p) \/ ListEndpoints(p) \/ Patch(p) \/ ListChildRoutes(p) \/ WriteEnvoyConfig(p)
<1>1. ~Restart /\ ~ReconcileFails(p)
  BY RestartEffect, FailsEffect DEF Awaited
<1>2. proxies'[p] = proxies[p] \/ Patch(p)
  <2>1. ASSUME NEW d \in Pods, StartPod(d) \/ RemoveProxyInfo(d) PROVE proxies'[p] = proxies[p]
    BY <2>1, StartPodEffect, RemoveProxyInfoEffect DEF Awaited
  <2>2. ASSUME NEW q \in Proxies, Patch(q), q # p PROVE proxies'[p] = proxies[p]
    BY <2>2, PatchEffect
  <2> QED BY <2>1, <2>2, ProxiesSteps
<1>3. ASSUME NEW q \in Proxies, q # p,
             \/ GetProxy(q) \/ ListEndpoints(q) \/ Patch(q) \/ ListChildRoutes(q)
             \/ WriteEnvoyConfig(q) \/ ReconcileFails(q)
      PROVE  /\ stage'[p] = stage[p] /\ copy'[p] = copy[p] /\ result'[p] = result[p]
             /\ config'[p] = config[p]
  <2>1. OthersKept(q)
    BY <1>3, GetEffect, ListEffect, PatchEffect, ChildrenEffect, WriteEffect, FailsEffect
  <2> QED BY <1>3, <2>1 DEF OthersKept
<1> QED BY <1>1, <1>2, <1>3, StageSteps

-----------------------------------------------------------------------------
\* The parts of the invariant, one after the other.

LEMMA CacheStep == ASSUME IInv, [Next]_vars PROVE CacheLags'
<1> USE DEF IInv
<1> SUFFICES ASSUME NEW p \in Proxies, p \notin news' PROVE seen'[p] = proxies'[p]
  BY DEF CacheLags
<1>1. CASE Restart
  BY <1>1, RestartEffect
<1>2. CASE Sync(p)
  BY <1>2, SyncEffect
<1>3. CASE ~Restart /\ ~Sync(p)
  <2>1. p \notin news
    BY <1>3, NewsSteps
  <2>2. seen'[p] = seen[p]
    BY <1>3, SeenSteps, SyncEffect
  <2>3. proxies'[p] = proxies[p]
    <3>1. ASSUME NEW d \in Pods, StartPod(d) \/ RemoveProxyInfo(d) PROVE proxies'[p] = proxies[p]
      BY <3>1, StartPodEffect, RemoveProxyInfoEffect
    <3>2. ASSUME NEW q \in Proxies, Patch(q) PROVE proxies'[p] = proxies[p]
      BY <3>2, PatchEffect
    <3> QED BY <3>1, <3>2, ProxiesSteps
  <2> QED BY <2>1, <2>2, <2>3 DEF CacheLags
<1> QED BY <1>1, <1>2, <1>3

LEMMA NudgingStep == ASSUME IInv, [Next]_vars PROVE NudgingMakesSense'
<1> USE DEF IInv
<1>1. Routes \subseteq Nudgers /\ Slices \subseteq Nudgers /\ Routes \cap Slices = {}
  BY DEF Nudgers
<1>2. ASSUME NEW r \in Routes PROVE nudging'[r].left \subseteq Proxies \/ nudging'[r].left \subseteq Slices
  <2>1. CASE nudging'[r].left \subseteq nudging[r].left
    BY <2>1 DEF NudgingMakesSense
  <2> QED BY <1>1, <2>1, NudgingGrows, ReconcileRouteEffect
<1>3. ASSUME NEW s \in Slices PROVE nudging'[s].left \subseteq Proxies
  <2>1. CASE nudging'[s].left \subseteq nudging[s].left
    BY <2>1 DEF NudgingMakesSense
  <2>2. CASE ReconcileSlice(s)
    BY <2>2, ReconcileSliceEffect, ReferencingFacts DEF NudgingMakesSense
  <2> QED BY <1>1, <2>1, <2>2, NudgingGrows
<1> QED BY <1>2, <1>3 DEF NudgingMakesSense

LEMMA ParentsStep == ASSUME IInv, [Next]_vars PROVE ParentsStay'
<1> USE DEF IInv
<1> SUFFICES ASSUME ~disturbed', NEW r \in Routes, routes'[r] # Nil
             PROVE  nudging'[r].left \cap Proxies \subseteq routes'[r].parents
  BY DEF ParentsStay
<1>1. ~disturbed /\ r \in Nudgers /\ r \notin Slices /\ Proxies \cap Slices = {}
  BY DisturbedGrows DEF Nudgers
<1>2. CASE ReconcileRoute(r)
  BY <1>2, ReconcileRouteEffect
<1>3. CASE ~ReconcileRoute(r)
  <2>1. nudging'[r].left \cap Proxies \subseteq nudging[r].left \cap Proxies
    BY <1>1, <1>3, NudgingGrows
  <2>2. CASE routes'[r] = routes[r]
    BY <1>1, <2>1, <2>2 DEF ParentsStay
  <2>3. CASE WriteRoute(r)
    <3>1. CASE routes[r] = Nil
      <4>1. Idle(r)
        BY <2>3, <3>1, WriteRouteEffect DEF Live
      <4>2. nudging[r].left = {}
        BY <4>1, RestingFacts DEF Idle
      <4> QED BY <2>1, <4>2
    <3>2. CASE routes[r] # Nil
      BY <1>1, <2>1, <2>3, <3>2, WriteRouteEffect DEF ParentsStay
    <3> QED BY <3>1, <3>2
  <2>4. CASE DeleteRoute(r)
    <3>1. routes[r] # Nil /\ routes'[r].parents = routes[r].parents
      BY <2>4, DeleteRouteEffect DEF Live
    <3> QED BY <1>1, <2>1, <3>1 DEF ParentsStay
  <2> QED BY <1>3, <2>2, <2>3, <2>4, RouteTrace
<1> QED BY <1>2, <1>3

LEMMA SlicesStep == ASSUME IInv, [Next]_vars PROVE SlicesStay'
<1> USE DEF IInv
<1> SUFFICES ASSUME ~disturbed', NEW s \in Slices
             PROVE  /\ slices'[s] # Nil => ~slices'[s].deleting
                    /\ nudging'[s].left # {} => slices'[s] # Nil
  BY DEF SlicesStay
<1>1. /\ slices[s] # Nil => ~slices[s].deleting
      /\ nudging[s].left # {} => slices[s] # Nil
  BY DisturbedGrows DEF SlicesStay
<1>2. slices'[s] = slices[s] \/ (slices'[s] # Nil /\ ~slices'[s].deleting)
  BY SliceTrace
<1>3. nudging'[s].left # {} => nudging[s].left # {} \/ ReconcileSlice(s)
  <2>1. s \in Nudgers /\ s \notin Routes
    BY DEF Nudgers
  <2> QED BY <2>1, NudgingGrows
<1>4. ReconcileSlice(s) => slices[s] # Nil
  BY ReconcileSliceEffect
<1> QED BY <1>1, <1>2, <1>3, <1>4

\* What concerns p changes only if p's reconcile becomes due.
LEMMA RouteKept ==
    ASSUME IInv, [Next]_vars, ~disturbed', NEW p \in Proxies, NEW r \in Routes, ~RouteNudges(r, p)'
    PROVE  /\ (routes[r] # Nil /\ p \in routes[r].parents)
                  <=> (routes'[r] # Nil /\ p \in routes'[r].parents)
           /\ routes[r] # Nil /\ p \in routes[r].parents =>
                  /\ routes'[r].backends = routes[r].backends
                  /\ Live(routes'[r]) <=> Live(routes[r])
<1> USE DEF IInv
<1>1. CASE routes'[r] = routes[r]
  BY <1>1 DEF Live
<1>2. CASE WriteRoute(r) /\ r \in queue'
  BY <1>2, WriteRouteEffect DEF RouteNudges
<1>3. CASE DeleteRoute(r) /\ r \in queue'
  BY <1>3, DeleteRouteEffect DEF RouteNudges, Live
<1>4. CASE ReconcileRoute(r)
  <2>1. p \notin routes[r].parents
    BY <1>4, ReconcileRouteEffect DEF RouteNudges
  <2> QED BY <1>4, <2>1, ReconcileRouteEffect
<1> QED BY <1>1, <1>2, <1>3, <1>4, RouteTrace

LEMMA ViewKept ==
    ASSUME IInv, [Next]_vars, ~disturbed', NEW p \in Proxies, ~Due(p)'
    PROVE  ActiveNodes(p)' = ActiveNodes(p) /\ ChildRoutes(p)' = ChildRoutes(p)
<1> USE DEF IInv
<1> DEFINE Has(r) == Live(routes[r]) /\ p \in routes[r].parents
<1>1. ASSUME NEW r \in Routes
      PROVE  /\ Has(r)' <=> Has(r)
             /\ Has(r) => routes'[r].backends = routes[r].backends
  BY RouteKept DEF Due, Live
<1>2. ASSUME NEW s \in Slices, NEW r \in Routes, Has(r), ClusterOf[s] \in routes[r].backends
      PROVE  /\ Live(slices'[s]) <=> Live(slices[s])
             /\ Live(slices[s]) => slices'[s].nodes = slices[s].nodes
  <2>1. Has(r)' /\ ClusterOf[s] \in routes'[r].backends
    BY <1>1, <1>2
  <2>2. p \in ReferencingProxies(s)'
    BY <2>1 DEF ReferencingProxies, Live
  <2>3. ~(s \in queue' /\ slices'[s] # Nil)
    BY <2>2 DEF Due, SliceNudges
  <2> QED BY <2>3, SliceTrace DEF Live
<1>3. ChildRoutes(p)' = ChildRoutes(p)
  BY <1>1 DEF ChildRoutes
<1>4. ActiveNodes(p) = UNION {slices[s].nodes : s \in {s \in Slices : /\ Live(slices[s])
                         /\ \E r \in Routes : Has(r) /\ ClusterOf[s] \in routes[r].backends}}
  BY DEF ActiveNodes
<1>5. ActiveNodes(p)' = UNION {slices'[s].nodes : s \in {s \in Slices : /\ Live(slices'[s])
                         /\ \E r \in Routes : Has(r)' /\ ClusterOf[s] \in routes'[r].backends}}
  BY DEF ActiveNodes
<1> HIDE DEF Has
<1>6. \A s \in Slices :
         (Live(slices'[s]) /\ \E r \in Routes : Has(r)' /\ ClusterOf[s] \in routes'[r].backends)
         <=> (Live(slices[s]) /\ \E r \in Routes : Has(r) /\ ClusterOf[s] \in routes[r].backends)
  BY <1>1, <1>2
<1>7. \A s \in Slices :
         (Live(slices[s]) /\ \E r \in Routes : Has(r) /\ ClusterOf[s] \in routes[r].backends)
         => slices'[s].nodes = slices[s].nodes
  BY <1>2
<1> QED BY <1>3, <1>4, <1>5, <1>6, <1>7

LEMMA DueKept ==
    ASSUME IInv, [Next]_vars, ~disturbed', NEW p \in Proxies, Due(p)
    PROVE  Due(p)' \/ GetProxy(p)
<1> USE DEF IInv
<1>1. /\ ~disturbed /\ Proxies \cap Slices = {} /\ Routes \cap Slices = {}
      /\ Routes \subseteq Nudgers /\ Slices \subseteq Nudgers /\ Proxies \cap Nudgers = {}
  BY DisturbedGrows DEF Nudgers
<1>2. CASE Awaited(p)
  BY <1>2, AwaitedTrace DEF Due
<1>3. ASSUME NEW r \in Routes, routes[r] # Nil, p \in routes[r].parents,
             routes'[r] # routes[r]
      PROVE  RouteNudges(r, p)'
  <2>1. CASE WriteRoute(r) /\ r \in queue'
    BY <1>3, <2>1, WriteRouteEffect DEF RouteNudges
  <2>2. CASE DeleteRoute(r) /\ r \in queue'
    BY <1>3, <2>2, DeleteRouteEffect DEF RouteNudges
  <2>3. CASE ReconcileRoute(r)
    BY <1>3, <2>3, ReconcileRouteEffect DEF RouteNudges
  <2> QED BY <1>3, <2>1, <2>2, <2>3, RouteTrace
<1>4. ASSUME NEW r \in Routes, RouteNudges(r, p) PROVE Due(p)'
  <2>1. CASE p \in nudging[r].left
    <3> SUFFICES ASSUME p \notin nudging'[r].left, p \notin queue', p \notin news' PROVE RouteNudges(r, p)'
      BY DEF Due, Awaited, RouteNudges
    <3>1. NudgeFails(r)
      BY <1>1, <2>1, NudgingShrinks
    <3>2. nudging[r].left \cap Slices = {}
      BY <1>1, <2>1 DEF NudgingMakesSense
    <3>3. routes[r] # Nil /\ r \in queue'
      BY <1>1, <3>1, <3>2, NudgeFailsEffect
    <3>4. routes' = routes /\ p \in routes[r].parents
      BY <1>1, <2>1, <3>1, <3>3 DEF NudgeFails, ParentsStay
    <3> QED BY <3>3, <3>4 DEF RouteNudges
  <2>2. CASE r \in queue /\ routes[r] # Nil /\ p \in routes[r].parents
    <3>1. CASE routes'[r] # routes[r]
      BY <1>3, <2>2, <3>1 DEF Due
    <3>2. CASE routes'[r] = routes[r] /\ r \in queue'
      BY <2>2, <3>2 DEF Due, RouteNudges
    <3>3. CASE r \notin queue'
      <4>1. ~NothingToReconcile(r)
        BY <2>2 DEF NothingToReconcile
      <4>2. CASE Restart
        BY <4>2, RestartEffect DEF Due, Awaited
      <4>3. CASE ReconcileRoute(r)
        BY <2>2, <4>3, ReconcileRouteEffect DEF Due, RouteNudges
      <4> QED BY <1>1, <2>2, <3>3, <4>1, <4>2, <4>3, QueueSteps
    <3> QED BY <3>1, <3>2, <3>3
  <2> QED BY <1>4, <2>1, <2>2 DEF RouteNudges
<1>5. ASSUME NEW s \in Slices, SliceNudges(s, p) PROVE Due(p)'
  <2>1. PICK r \in Routes : routes[r] # Nil /\ p \in routes[r].parents /\ ClusterOf[s] \in routes[r].backends
    BY <1>5 DEF SliceNudges, ReferencingProxies
  <2>2. CASE routes'[r] # routes[r]
    BY <1>3, <2>1, <2>2 DEF Due
  <2>3. CASE routes'[r] = routes[r]
    <3>1. p \in ReferencingProxies(s)'
      BY <2>1, <2>3 DEF ReferencingProxies
    <3> SUFFICES ASSUME p \notin queue', p \notin news', ~Restart
                 PROVE  p \in nudging'[s].left \/ (s \in queue' /\ slices'[s] # Nil)
      BY <3>1, RestartEffect DEF Due, Awaited, SliceNudges
    <3>2. slices[s] # Nil
      BY <1>1, <1>5 DEF SliceNudges, SlicesStay
    <3>3. slices'[s] # Nil
      BY <3>2, SliceTrace
    <3>4. CASE p \in nudging[s].left
      <4>1. p \in nudging'[s].left \/ NudgeFails(s)
        BY <1>1, <3>4, NudgingShrinks
      <4> QED BY <1>1, <3>3, <4>1, NudgeFailsEffect
    <3>5. CASE s \in queue
      <4>1. s \in queue' \/ ReconcileSlice(s)
        <5>1. ~NothingToReconcile(s)
          BY <3>2 DEF NothingToReconcile
        <5> QED BY <1>1, <3>5, <5>1, QueueSteps
      <4>2. CASE ReconcileSlice(s)
        <5>1. nudging'[s].left = ReferencingProxies(s)
          BY <1>1, <3>2, <4>2, ReconcileSliceEffect DEF SlicesStay
        <5> QED BY <1>5, <5>1 DEF SliceNudges
      <4> QED BY <3>3, <4>1, <4>2
    <3> QED BY <1>5, <3>4, <3>5 DEF SliceNudges
  <2> QED BY <2>2, <2>3
<1> QED BY <1>2, <1>4, <1>5 DEF Due

LEMMA RememberedStep == ASSUME IInv, [Next]_vars PROVE Remembered'
<1> USE DEF IInv
<1> SUFFICES ASSUME ~disturbed', NEW p \in Proxies, ~Due(p)' PROVE Current(p)'
  BY DEF Remembered
<1>1. ~disturbed /\ ~Awaited(p)'
  BY DisturbedGrows DEF Due
<1>2. ActiveNodes(p)' = ActiveNodes(p) /\ ChildRoutes(p)' = ChildRoutes(p)
  BY ViewKept
<1>3. proxies'[p].pods = proxies[p].pods => EndsOf(p)' = EndsOf(p)
  BY <1>2 DEF EndsOf, Nodes
<1>4. CASE GetProxy(p)
  <2>1. p \notin news
    BY <1>1, <1>4, GetEffect DEF Awaited
  <2>2. copy'[p] = proxies'[p] /\ stage'[p] = "endpoints"
    BY <1>4, <2>1, GetEffect DEF CacheLags, Stepped
  <2> QED BY <2>2 DEF Current
<1>5. CASE ~GetProxy(p)
  <2>1. Current(p)
    BY <1>1, <1>5, DueKept DEF Remembered
  <2>2. CASE /\ stage'[p] = stage[p] /\ copy'[p] = copy[p] /\ result'[p] = result[p]
             /\ config'[p] = config[p] /\ proxies'[p] = proxies[p]
    BY <1>2, <1>3, <2>1, <2>2 DEF Current
  <2>3. CASE ListEndpoints(p)
    <3>1. /\ stage[p] = "endpoints" /\ stage'[p] = "patch" /\ proxies'[p] = proxies[p]
          /\ Ends(result'[p]) = ActiveNodes(p) \X Nodes(copy[p].pods)
      BY <2>3, ListEffect DEF Stepped
    <3>2. Ends(result'[p]) = EndsOf(p)
      BY <2>1, <3>1 DEF Current, EndsOf
    <3> QED BY <1>3, <3>1, <3>2 DEF Current
  <2>4. CASE Patch(p)
    <3>1. /\ stage[p] = "patch" /\ stage'[p] = "routes" /\ proxies'[p].pods = proxies[p].pods
          /\ proxies'[p].tunnels = result[p]
      BY <2>4, PatchEffect DEF Stepped
    <3>2. Ends(result[p]) = EndsOf(p)
      BY <2>1, <3>1 DEF Current
    <3> QED BY <1>3, <3>1, <3>2 DEF Current
  <2>5. CASE ListChildRoutes(p)
    <3>1. /\ stage[p] = "routes" /\ stage'[p] = "config" /\ proxies'[p] = proxies[p]
          /\ result'[p] = ChildRoutes(p)
      BY <2>5, ChildrenEffect DEF Stepped
    <3> QED BY <1>2, <1>3, <2>1, <3>1 DEF Current
  <2>6. CASE WriteEnvoyConfig(p)
    <3>1. /\ stage[p] = "config" /\ stage'[p] = "idle" /\ proxies'[p] = proxies[p]
          /\ config'[p] = result[p]
      BY <2>6, WriteEffect DEF Stepped
    <3> QED BY <1>2, <1>3, <2>1, <3>1 DEF Current
  <2> QED BY <1>1, <1>5, <2>2, <2>3, <2>4, <2>5, <2>6, ProxyTrace
<1> QED BY <1>4, <1>5

LEMMA PodsRememberedStep == ASSUME IInv, [Next]_vars PROVE PodsRemembered'
<1> USE DEF IInv
<1> SUFFICES ASSUME NEW p \in Proxies, ~Awaited(p)' PROVE CurrentPods(p)'
  BY DEF PodsRemembered
<1>1. CASE GetProxy(p)
  <2>1. p \notin news
    BY <1>1, GetEffect DEF Awaited
  <2>2. copy'[p] = proxies'[p] /\ stage'[p] = "endpoints"
    BY <1>1, <2>1, GetEffect DEF CacheLags, Stepped
  <2> QED BY <2>2 DEF CurrentPods
<1>2. CASE ~GetProxy(p)
  <2>1. CurrentPods(p)
    BY <1>2, AwaitedTrace DEF PodsRemembered
  <2>2. CASE /\ stage'[p] = stage[p] /\ copy'[p] = copy[p] /\ result'[p] = result[p]
             /\ config'[p] = config[p] /\ proxies'[p] = proxies[p]
    BY <2>1, <2>2 DEF CurrentPods, LeadsTo, Nodes
  <2>3. CASE ListEndpoints(p)
    <3>1. /\ stage[p] = "endpoints" /\ stage'[p] = "patch" /\ proxies'[p] = proxies[p]
          /\ Ends(result'[p]) = ActiveNodes(p) \X Nodes(copy[p].pods)
      BY <2>3, ListEffect DEF Stepped
    <3>2. LeadsTo(result'[p], proxies'[p].pods)
      BY <2>1, <3>1, EndsLead DEF CurrentPods
    <3> QED BY <3>1, <3>2 DEF CurrentPods, LeadsTo, Nodes
  <2>4. CASE Patch(p)
    <3>1. /\ stage[p] = "patch" /\ stage'[p] = "routes" /\ proxies'[p].pods = proxies[p].pods
          /\ proxies'[p].tunnels = result[p]
      BY <2>4, PatchEffect DEF Stepped
    <3>2. LeadsTo(result[p], proxies[p].pods)
      BY <2>1, <3>1 DEF CurrentPods
    <3> QED BY <3>1, <3>2 DEF CurrentPods, LeadsTo, Nodes
  <2>5. CASE ListChildRoutes(p) \/ WriteEnvoyConfig(p)
    <3>1. /\ stage[p] \in {"routes", "config"} /\ stage'[p] \in {"config", "idle"}
          /\ proxies'[p] = proxies[p]
      BY <2>5, ChildrenEffect, WriteEffect DEF Stepped
    <3> QED BY <2>1, <3>1 DEF CurrentPods, LeadsTo, Nodes
  <2> QED BY <1>2, <2>2, <2>3, <2>4, <2>5, ProxyTrace
<1> QED BY <1>1, <1>2

-----------------------------------------------------------------------------
\* The invariant, and the properties.

LEMMA IInvInit == Init => IInv
<1> SUFFICES ASSUME Init PROVE IInv
  OBVIOUS
<1>1. /\ routes = [r \in Routes |-> Nil] /\ slices = [s \in Slices |-> Nil]
      /\ pods \in [Pods -> {"new", "up"}] /\ seen = proxies /\ news = {}
      /\ proxies = [p \in Proxies |-> [pods |-> {d \in Pods : Owner[d] = p /\ pods[d] = "up"},
                                       tunnels |-> {}]]
      /\ config = [p \in Proxies |-> {}] /\ queue = Proxies
      /\ nudging = [o \in Nudgers |-> Resting]
      /\ stage = [p \in Proxies |-> "idle"] /\ copy = [p \in Proxies |-> NoCopy]
      /\ result = [p \in Proxies |-> {}] /\ changes = 0 /\ faults = 0 /\ disturbed = FALSE
  BY DEF Init
<1>2. TypeOK
  <2>1. proxies \in Versions
    BY <1>1 DEF Versions
  <2>2. copy \in Versions
    BY <1>1, NoCopyFacts DEF Versions
  <2>3. nudging \in [Nudgers -> Works]
    BY <1>1, RestingFacts
  <2>4. \A p \in Proxies : result[p] = {}
    BY <1>1
  <2>5. disturbed \in BOOLEAN
    BY <1>1
  <2>6. changes \in 0 .. MaxChanges /\ faults \in 0 .. MaxFaults
    <3>1. changes = 0 /\ faults = 0
      BY <1>1
    <3> QED BY <3>1
  <2>7. /\ routes \in [Routes -> RouteObjects \cup {Nil}]
        /\ slices \in [Slices -> SliceObjects \cup {Nil}]
        /\ pods \in [Pods -> {"new", "up", "deleting", "gone"}]
        /\ news \subseteq Proxies /\ config \in [Proxies -> SUBSET Routes]
        /\ queue \subseteq Proxies \cup Nudgers
        /\ stage \in [Proxies -> {"idle", "endpoints", "patch", "routes", "config"}]
        /\ result \in [Proxies -> SUBSET (Tunnels \cup Routes)]
    BY <1>1
  <2> QED BY <1>1, <2>1, <2>2, <2>3, <2>4, <2>5, <2>6, <2>7 DEF TypeOK, Versions, Works
<1>3. \A o \in Nudgers : nudging[o].left = {}
  BY <1>1, RestingFacts
<1>4. NudgingMakesSense /\ ParentsStay /\ SlicesStay /\ CacheLags
  BY <1>1, <1>3 DEF NudgingMakesSense, ParentsStay, SlicesStay, CacheLags, Nudgers
<1>5. Remembered /\ PodsRemembered
  BY <1>1 DEF Remembered, PodsRemembered, Due, Awaited
<1> QED BY <1>2, <1>4, <1>5 DEF IInv

LEMMA IInvStep == IInv /\ [Next]_vars => IInv'
BY TypeStep, CacheStep, NudgingStep, ParentsStep, SlicesStep, RememberedStep, PodsRememberedStep DEF IInv

\* The inductive invariant: the reconcile of every proxy is due, or what it has
\* found out is true.
THEOREM Invariant == Spec => []IInv
BY IInvInit, IInvStep, PTL DEF Spec

\* The controller-manager's objects, queues and reconciles have their types.
THEOREM TypeCorrect == Spec => []TypeOK
<1>1. IInv => TypeOK
  BY DEF IInv
<1> QED BY <1>1, Invariant, PTL

\* Whenever all reconcilers rest, and no Disturbance has occurred, every proxy
\* has the tunnels and the EnvoyConfig that its routes, slices and pods call for.
THEOREM NothingForgottenHolds == Spec => []NothingForgotten
<1>1. IInv => NothingForgotten
  <2> SUFFICES ASSUME IInv, Quiet, ~disturbed, NEW p \in Proxies PROVE UpToDate(p)
    BY DEF NothingForgotten
  <2>1. \A o \in Nudgers : nudging[o].left = {}
    BY RestingFacts DEF Quiet, Idle
  <2>2. ~Due(p)
    BY <2>1 DEF Quiet, Due, Awaited, RouteNudges, SliceNudges, Nudgers
  <2> QED BY <2>2 DEF IInv, Remembered, Current, Quiet, UpToDate, EndsOf
<1> QED BY <1>1, Invariant, PTL

\* Whenever all reconcilers rest, tunnels lead only to nodes of pods that the
\* proxy lists, whatever has occurred.
THEOREM TunnelsLeadToPodsHolds == Spec => []TunnelsLeadToPods
<1>1. IInv => TunnelsLeadToPods
  <2> SUFFICES ASSUME IInv, Quiet, NEW p \in Proxies, NEW t \in proxies[p].tunnels
               PROVE  t[2] \in Nodes(proxies[p].pods)
    BY DEF TunnelsLeadToPods
  <2>1. ~Awaited(p) /\ stage[p] = "idle"
    BY DEF Quiet, Awaited
  <2> QED BY <2>1 DEF IInv, PodsRemembered, CurrentPods, LeadsTo
<1> QED BY <1>1, Invariant, PTL
=============================================================================

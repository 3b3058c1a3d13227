-------------------------- MODULE NodeAgent_proofs --------------------------
(***************************************************************************)
(* Proofs about NodeAgent, for every set of owners, endpoints and pools    *)
(* with every aggregation, and any number of changes, faults and           *)
(* Disturbances told apart.  As in LBTunnels_proofs, the invariant says    *)
(* who is still to see to what is not yet as it will be at rest.           *)
(***************************************************************************)
EXTENDS NodeAgent, TLAPS

USE KindsAssumption, PoolsAssumption, AggregationAssumption, BoundsAssumption, PortsAssumption,
    IdleAssumption

\* What the worker of o's kind does for o.
Job(o) == job[Kind[o]]
Working(o) == Job(o) # Idle /\ Job(o).of = o
Final(o) == Working(o) /\ Job(o).final

\* The pools of o that a task may have left.
Suffixes(o) == {Pools[o]} \cup (IF Pools[o] = <<"public", "alt">> THEN {<<"alt">>} ELSE {})

\* Who is worked for has the finalizer, and is being deleted if that is what
\* the work is about.
JobsMakeSense == \A o \in Owners : Working(o) =>
    /\ o \in guarded
    /\ Job(o).final => owners[o] = "deleting"
    /\ Job(o).stage = "unguard" => Job(o).final
    /\ Job(o).stage = "setup" => ~Job(o).final
    /\ Job(o).stage \in {"list", "remove"} => Job(o).left \in Suffixes(o)

\* Who is being deleted has the finalizer, and is queued until the work begins.
DeletionsDue == \A o \in Owners : owners[o] = "deleting" =>
    o \in guarded /\ (o \in ownerQueue \/ Final(o))

\* A pod comes after its owner.
PodsAfterOwners == \A o \in Owners : owners[o] = "none" => pods[o] = "none"

\* The work for o on the public address, which has the ports, is behind it.
PortsDone(o) == \/ Busy(o, "unguard")
                \/ (Busy(o, "list") \/ Busy(o, "remove")) /\ Job(o).left = <<"alt">>

\* Who has an open port that was not dropped has the finalizer and has yet to
\* close it, with the ports that the work has read.
PortsGuarded ==
    Undisturbed({"failed command"}) => \A o \in Owners, p \in Ports : <<o, p>> \in ipset \ dropped =>
        /\ o \in guarded /\ ~PortsDone(o)
        /\ Busy(o, "list") \/ Busy(o, "remove") => p \in Job(o).ports
        /\ o \in ownerQueue \/ Working(o) \/ (o \in listed /\ Live(o))

\* What is open or has been read is in the spec, unless it was dropped.
PortsKnown == \A o \in Owners, p \in Ports :
    <<o, p>> \in ipset \/ (Working(o) /\ p \in Job(o).ports) => p \in ports[o] \/ <<o, p>> \in dropped

\* What the worker has read of o is still true, or o is queued once more.
ReadsAreFresh == \A o \in Owners :
    /\ Busy(o, "setup") => o \in ownerQueue \/ (o \in listed /\ Live(o))
    /\ Working(o) /\ Job(o).stage # "setup" /\ ~Job(o).final => o \in ownerQueue \/ o \notin listed

\* Who is to have open ports has them, unless its turn is yet to come.
PortsDue ==
    Undisturbed({"late flush", "failed command"}) => \A o \in listed :
        Live(o) => \/ o \in ownerQueue
                   \/ Busy(o, "setup") /\ ports[o] \subseteq Job(o).ports
                   \/ {o} \X ports[o] \subseteq ipset

\* The same of service gateways.
GatewaysDue ==
    Undisturbed({"overtaken nudge", "failed command"}) => \A o \in listed :
        Live(o) => \/ o \in ownerQueue
                   \/ Busy(o, "setup") /\ written[o] \subseteq Job(o).found
                   \/ {o} \X written[o] \subseteq gateways

\* The same of a pod's routes.
RoutesDue ==
    Undisturbed({"unlisted pod", "joined route", "overlooked user"}) => \A o \in Owners :
        Live(o) /\ pods[o] = "ready" => o \in podQueue \/ podJob = o \/ RoutesOf(o) \subseteq routes

\* The routes that the work for o is yet to look at or to remove.
RoutesVia(o, left) == {Route(o, left[i]) : i \in DOMAIN left}
RoutesLeft(o) == IF Busy(o, "list") THEN RoutesVia(o, Job(o).left)
                 ELSE IF Busy(o, "remove") THEN Job(o).doomed \cup RoutesVia(o, Tail(Job(o).left))
                 ELSE {}

\* o has route r, or is being deleted and yet to remove it.
Answers(o, r) == /\ r \in RoutesOf(o)
                 /\ Live(o) \/ (owners[o] = "deleting" /\ (Final(o) => r \in RoutesLeft(o)))

\* Every route has somebody to answer for it.
RoutesOwned ==
    Undisturbed({"late pod", "early delete", "kept route", "failed command"}) =>
        \A r \in routes : \E o \in Owners : Answers(o, r)

IInv == /\ TypeOK /\ JobsMakeSense /\ DeletionsDue /\ PodsAfterOwners
        /\ PortsGuarded /\ PortsKnown /\ ReadsAreFresh /\ PortsDue
        /\ GatewaysDue /\ RoutesDue /\ RoutesOwned

-----------------------------------------------------------------------------
\* What is left of an owner's pools, step by step.

LEMMA SuffixFacts ==
    ASSUME NEW o \in Owners, NEW left \in Suffixes(o)
    PROVE  /\ left \in {<<"public">>, <<"alt">>, <<"public", "alt">>}
           /\ Head(left) \in {"public", "alt"}
           /\ Head(left) = "public" <=> left # <<"alt">>
           /\ Tail(left) \in {<<>>, <<"alt">>}
           /\ Tail(left) # <<>> => Tail(left) \in Suffixes(o)
           /\ RoutesVia(o, left) = {Route(o, Head(left))} \cup RoutesVia(o, Tail(left))
           /\ RoutesVia(o, left) \subseteq RoutesOf(o)
<1>1. /\ Head(<<"public">>) = "public" /\ Tail(<<"public">>) = <<>>
      /\ Head(<<"alt">>) = "alt" /\ Tail(<<"alt">>) = <<>>
      /\ Head(<<"public", "alt">>) = "public" /\ Tail(<<"public", "alt">>) = <<"alt">>
  OBVIOUS
<1>2. <<"public">> # <<"alt">> /\ <<"public", "alt">> # <<"alt">> /\ <<"public", "alt">> # <<"public">>
  OBVIOUS
<1>3. left = Pools[o] \/ (left = <<"alt">> /\ Pools[o] = <<"public", "alt">>)
  BY DEF Suffixes
<1>4. /\ RoutesVia(o, <<>>) = {}
      /\ RoutesVia(o, <<"public">>) = {Route(o, "public")}
      /\ RoutesVia(o, <<"alt">>) = {Route(o, "alt")}
      /\ RoutesVia(o, <<"public", "alt">>) = {Route(o, "public"), Route(o, "alt")}
  BY DEF RoutesVia
<1>5. RoutesOf(o) = RoutesVia(o, Pools[o])
  BY DEF RoutesOf, RoutesVia
<1>6. Pools[o] \in {<<"public">>, <<"public", "alt">>}
  OBVIOUS
<1>7. CASE left = <<"public">>
  BY <1>1, <1>2, <1>3, <1>4, <1>5, <1>7
<1>8. CASE left = <<"alt">>
  BY <1>1, <1>2, <1>3, <1>4, <1>5, <1>8
<1>9. CASE left = <<"public", "alt">>
  BY <1>1, <1>2, <1>3, <1>4, <1>5, <1>6, <1>9 DEF Suffixes
<1> QED BY <1>3, <1>6, <1>7, <1>8, <1>9

LEMMA PoolsAreLeft ==
    ASSUME NEW o \in Owners
    PROVE  /\ Pools[o] \in Suffixes(o) /\ Pools[o] # <<"alt">>
           /\ RoutesVia(o, Pools[o]) = RoutesOf(o) /\ RoutesOf(o) \subseteq AllRoutes
           /\ RoutesVia(o, <<>>) = {}
<1>1. <<"public">> # <<"alt">> /\ <<"public", "alt">> # <<"alt">>
  OBVIOUS
<1>2. RoutesVia(o, <<>>) = {}
  BY DEF RoutesVia
<1> QED BY <1>1, <1>2 DEF Suffixes, RoutesVia, RoutesOf, AllRoutes

-----------------------------------------------------------------------------
\* Which actions change a variable, or take an owner or a pod from its queue.

USE DEF Next, OwnerStep, PodStep, Daemons, vars, objects, specs, endpointVars, node, queues, counters, jobs,
        SeeOwner, SeePod, CreateOwner, DeleteOwner, CreatePod, ListInterface, DeletePod, EndPod,
        ChangeEndpoint, SeeEndpoints, ChangePorts, ChangePrefix, SkipOwner, BeginReconcile, SetUp,
        BeginCleanup, ListProxies, RemoveRoute, UnguardOwner, SkipPod, BeginPod, AddRoutes,
        ConfigureBridge, Restart

LEMMA OwnersSteps ==
    ASSUME [Next]_vars
    PROVE  \/ UNCHANGED <<owners, guarded>>
           \/ \E o \in Owners : CreateOwner(o) \/ DeleteOwner(o) \/ BeginReconcile(o) \/ UnguardOwner(o)
<1>1. ASSUME NEW o \in Owners, CreatePod(o) \/ DeletePod(o) \/ Daemons(o) \/ PodStep(o)
             \/ (\E e \in Endpoints : ChangeEndpoint(o, e)) \/ (\E ps \in SUBSET Ports : ChangePorts(o, ps))
      PROVE  UNCHANGED <<owners, guarded>>
  BY <1>1
<1>2. ASSUME NEW o \in Owners, OwnerStep(o)
      PROVE  UNCHANGED <<owners, guarded>> \/ BeginReconcile(o) \/ UnguardOwner(o)
  BY <1>2
<1>3. ChangePrefix \/ ConfigureBridge \/ Restart \/ UNCHANGED vars => UNCHANGED <<owners, guarded>>
  OBVIOUS
<1> HIDE DEF vars, OwnerStep, PodStep, Daemons, CreateOwner, DeleteOwner, CreatePod, DeletePod,
         ChangeEndpoint, ChangePorts, ChangePrefix, SkipOwner, BeginReconcile, SetUp, BeginCleanup,
         ListProxies, RemoveRoute, UnguardOwner, SkipPod, BeginPod, AddRoutes, ConfigureBridge, Restart
<1> QED BY <1>1, <1>2, <1>3

LEMMA PodsSteps ==
    ASSUME [Next]_vars
    PROVE  UNCHANGED pods \/ \E o \in Owners : CreatePod(o) \/ DeletePod(o) \/ EndPod(o)
<1>1. ASSUME NEW o \in Owners,
             CreateOwner(o) \/ DeleteOwner(o) \/ OwnerStep(o) \/ PodStep(o)
             \/ (\E e \in Endpoints : ChangeEndpoint(o, e)) \/ (\E ps \in SUBSET Ports : ChangePorts(o, ps))
      PROVE  UNCHANGED pods
  BY <1>1
<1>2. ASSUME NEW o \in Owners, ListInterface(o) \/ SeeEndpoints(o)
      PROVE  UNCHANGED pods
  BY <1>2
<1>3. ChangePrefix \/ ConfigureBridge \/ Restart \/ UNCHANGED vars => UNCHANGED pods
  OBVIOUS
<1> HIDE DEF vars, OwnerStep, PodStep, CreateOwner, DeleteOwner, CreatePod, ListInterface,
         DeletePod, EndPod, SeeEndpoints, ChangeEndpoint, ChangePorts, ChangePrefix, SkipOwner,
         BeginReconcile, SetUp, BeginCleanup, ListProxies, RemoveRoute, UnguardOwner, SkipPod, BeginPod,
         AddRoutes, ConfigureBridge, Restart
<1> QED BY <1>1, <1>2, <1>3

LEMMA ListedSteps ==
    ASSUME [Next]_vars
    PROVE  UNCHANGED listed \/ \E o \in Owners : ListInterface(o) \/ EndPod(o)
<1>1. ASSUME NEW o \in Owners,
             CreateOwner(o) \/ DeleteOwner(o) \/ CreatePod(o) \/ DeletePod(o) \/ OwnerStep(o) \/ PodStep(o)
             \/ (\E e \in Endpoints : ChangeEndpoint(o, e)) \/ (\E ps \in SUBSET Ports : ChangePorts(o, ps))
      PROVE  UNCHANGED listed
  BY <1>1
<1>2. ASSUME NEW o \in Owners, Daemons(o)
      PROVE  UNCHANGED listed \/ ListInterface(o) \/ EndPod(o)
  BY <1>2
<1>3. ChangePrefix \/ ConfigureBridge \/ Restart \/ UNCHANGED vars => UNCHANGED listed
  OBVIOUS
<1> HIDE DEF vars, OwnerStep, PodStep, Daemons, CreateOwner, DeleteOwner, CreatePod, ListInterface,
         DeletePod, EndPod, SeeEndpoints, ChangeEndpoint, ChangePorts, ChangePrefix, SkipOwner,
         BeginReconcile, SetUp, BeginCleanup, ListProxies, RemoveRoute, UnguardOwner, SkipPod, BeginPod,
         AddRoutes, ConfigureBridge, Restart
<1> QED BY <1>1, <1>2, <1>3

LEMMA WrittenSteps ==
    ASSUME [Next]_vars
    PROVE  UNCHANGED written \/ \E o \in Owners, e \in Endpoints : ChangeEndpoint(o, e)
<1>1. ASSUME NEW o \in Owners,
             CreateOwner(o) \/ DeleteOwner(o) \/ CreatePod(o) \/ DeletePod(o) \/ Daemons(o)
             \/ (\E ps \in SUBSET Ports : ChangePorts(o, ps))
      PROVE  UNCHANGED written
  BY <1>1
<1>2. ASSUME NEW o \in Owners, OwnerStep(o) \/ PodStep(o)
      PROVE  UNCHANGED written
  BY <1>2
<1>3. ChangePrefix \/ ConfigureBridge \/ Restart \/ UNCHANGED vars => UNCHANGED written
  OBVIOUS
<1> HIDE DEF vars, OwnerStep, PodStep, Daemons, CreateOwner, DeleteOwner, CreatePod, ListInterface,
         DeletePod, EndPod, SeeEndpoints, ChangeEndpoint, ChangePorts, ChangePrefix, SkipOwner,
         BeginReconcile, SetUp, BeginCleanup, ListProxies, RemoveRoute, UnguardOwner, SkipPod, BeginPod,
         AddRoutes, ConfigureBridge, Restart
<1> QED BY <1>1, <1>2, <1>3

LEMMA PortsSteps ==
    ASSUME [Next]_vars
    PROVE  UNCHANGED <<ports, dropped>> \/ \E o \in Owners, ps \in SUBSET Ports : ChangePorts(o, ps)
<1>1. ASSUME NEW o \in Owners, OwnerStep(o) \/ PodStep(o) \/ Daemons(o)
      PROVE  UNCHANGED <<ports, dropped>>
  BY <1>1
<1>2. ASSUME NEW o \in Owners,
             CreateOwner(o) \/ DeleteOwner(o) \/ CreatePod(o) \/ DeletePod(o)
             \/ \E e \in Endpoints : ChangeEndpoint(o, e)
      PROVE  UNCHANGED <<ports, dropped>>
  BY <1>2
<1>3. ChangePrefix \/ ConfigureBridge \/ Restart \/ UNCHANGED vars => UNCHANGED <<ports, dropped>>
  OBVIOUS
<1> HIDE DEF vars, OwnerStep, PodStep, Daemons, CreateOwner, DeleteOwner, CreatePod, DeletePod,
         ChangeEndpoint, ChangePorts, ChangePrefix, ConfigureBridge, Restart
<1> QED BY <1>1, <1>2, <1>3

LEMMA IpsetSteps ==
    ASSUME [Next]_vars
    PROVE  UNCHANGED ipset \/ ConfigureBridge \/ \E o \in Owners : SetUp(o) \/ RemoveRoute(o)
<1>1. ASSUME NEW o \in Owners,
             CreateOwner(o) \/ DeleteOwner(o) \/ CreatePod(o) \/ DeletePod(o) \/ Daemons(o) \/ PodStep(o)
             \/ (\E e \in Endpoints : ChangeEndpoint(o, e)) \/ (\E ps \in SUBSET Ports : ChangePorts(o, ps))
      PROVE  UNCHANGED ipset
  BY <1>1
<1>2. ASSUME NEW o \in Owners, OwnerStep(o)
      PROVE  UNCHANGED ipset \/ SetUp(o) \/ RemoveRoute(o)
  BY <1>2
<1>3. ChangePrefix \/ Restart \/ UNCHANGED vars => UNCHANGED ipset
  OBVIOUS
<1> HIDE DEF vars, OwnerStep, PodStep, Daemons, CreateOwner, DeleteOwner, CreatePod, ListInterface,
         DeletePod, EndPod, SeeEndpoints, ChangeEndpoint, ChangePorts, ChangePrefix, SkipOwner,
         BeginReconcile, SetUp, BeginCleanup, ListProxies, RemoveRoute, UnguardOwner, SkipPod, BeginPod,
         AddRoutes, ConfigureBridge, Restart
<1> QED BY <1>1, <1>2, <1>3

LEMMA GatewaysSteps ==
    ASSUME [Next]_vars
    PROVE  UNCHANGED gateways \/ Restart \/ \E o \in Owners : SetUp(o) \/ BeginCleanup(o)
<1>1. ASSUME NEW o \in Owners,
             CreateOwner(o) \/ DeleteOwner(o) \/ CreatePod(o) \/ DeletePod(o) \/ Daemons(o) \/ PodStep(o)
             \/ (\E e \in Endpoints : ChangeEndpoint(o, e)) \/ (\E ps \in SUBSET Ports : ChangePorts(o, ps))
      PROVE  UNCHANGED gateways
  BY <1>1
<1>2. ASSUME NEW o \in Owners, OwnerStep(o)
      PROVE  UNCHANGED gateways \/ SetUp(o) \/ BeginCleanup(o)
  BY <1>2
<1>3. ChangePrefix \/ ConfigureBridge \/ UNCHANGED vars => UNCHANGED gateways
  OBVIOUS
<1> HIDE DEF vars, OwnerStep, PodStep, Daemons, CreateOwner, DeleteOwner, CreatePod, ListInterface,
         DeletePod, EndPod, SeeEndpoints, ChangeEndpoint, ChangePorts, ChangePrefix, SkipOwner,
         BeginReconcile, SetUp, BeginCleanup, ListProxies, RemoveRoute, UnguardOwner, SkipPod, BeginPod,
         AddRoutes, ConfigureBridge, Restart
<1> QED BY <1>1, <1>2, <1>3

LEMMA RoutesSteps ==
    ASSUME [Next]_vars
    PROVE  UNCHANGED routes \/ \E o \in Owners : RemoveRoute(o) \/ AddRoutes(o)
<1>1. ASSUME NEW o \in Owners,
             CreateOwner(o) \/ DeleteOwner(o) \/ CreatePod(o) \/ DeletePod(o) \/ Daemons(o)
             \/ (\E e \in Endpoints : ChangeEndpoint(o, e)) \/ (\E ps \in SUBSET Ports : ChangePorts(o, ps))
      PROVE  UNCHANGED routes
  BY <1>1
<1>2. ASSUME NEW o \in Owners, OwnerStep(o) \/ PodStep(o)
      PROVE  UNCHANGED routes \/ RemoveRoute(o) \/ AddRoutes(o)
  BY <1>2
<1>3. ChangePrefix \/ ConfigureBridge \/ Restart \/ UNCHANGED vars => UNCHANGED routes
  OBVIOUS
<1> HIDE DEF vars, OwnerStep, PodStep, Daemons, CreateOwner, DeleteOwner, CreatePod, ListInterface,
         DeletePod, EndPod, SeeEndpoints, ChangeEndpoint, ChangePorts, ChangePrefix, SkipOwner,
         BeginReconcile, SetUp, BeginCleanup, ListProxies, RemoveRoute, UnguardOwner, SkipPod, BeginPod,
         AddRoutes, ConfigureBridge, Restart
<1> QED BY <1>1, <1>2, <1>3

LEMMA JobSteps ==
    ASSUME [Next]_vars
    PROVE  \/ UNCHANGED job \/ Restart
           \/ \E o \in Owners : \/ BeginReconcile(o) \/ SetUp(o) \/ BeginCleanup(o)
                                \/ ListProxies(o) \/ RemoveRoute(o) \/ UnguardOwner(o)
<1>1. ASSUME NEW o \in Owners,
             CreateOwner(o) \/ DeleteOwner(o) \/ CreatePod(o) \/ DeletePod(o) \/ Daemons(o) \/ PodStep(o)
             \/ (\E e \in Endpoints : ChangeEndpoint(o, e)) \/ (\E ps \in SUBSET Ports : ChangePorts(o, ps))
      PROVE  UNCHANGED job
  BY <1>1
<1>2. ASSUME NEW o \in Owners, OwnerStep(o)
      PROVE  \/ UNCHANGED job
             \/ BeginReconcile(o) \/ SetUp(o) \/ BeginCleanup(o)
             \/ ListProxies(o) \/ RemoveRoute(o) \/ UnguardOwner(o)
  BY <1>2
<1>3. ChangePrefix \/ ConfigureBridge \/ UNCHANGED vars => UNCHANGED job
  OBVIOUS
<1> HIDE DEF vars, OwnerStep, PodStep, Daemons, CreateOwner, DeleteOwner, CreatePod, DeletePod,
         ChangeEndpoint, ChangePorts, ChangePrefix, SkipOwner, BeginReconcile, SetUp, BeginCleanup,
         ListProxies, RemoveRoute, UnguardOwner, SkipPod, BeginPod, AddRoutes, ConfigureBridge, Restart
<1> QED BY <1>1, <1>2, <1>3

LEMMA OwnerQueueSteps ==
    ASSUME [Next]_vars, NEW x \in ownerQueue, x \notin ownerQueue'
    PROVE  Restart \/ (x \in Owners /\ (SkipOwner(x) \/ BeginReconcile(x) \/ BeginCleanup(x)))
<1>1. ASSUME NEW o \in Owners,
             CreateOwner(o) \/ DeleteOwner(o) \/ CreatePod(o) \/ DeletePod(o) \/ Daemons(o) \/ PodStep(o)
             \/ (\E e \in Endpoints : ChangeEndpoint(o, e)) \/ (\E ps \in SUBSET Ports : ChangePorts(o, ps))
      PROVE  FALSE
  BY <1>1
<1>2. ASSUME NEW o \in Owners, OwnerStep(o)
      PROVE  x = o /\ (SkipOwner(o) \/ BeginReconcile(o) \/ BeginCleanup(o))
  BY <1>2
<1>3. ~(ChangePrefix \/ ConfigureBridge \/ UNCHANGED vars)
  OBVIOUS
<1> HIDE DEF OwnerStep, PodStep, Daemons, CreateOwner, DeleteOwner, CreatePod, DeletePod, ChangeEndpoint,
         ChangePorts, ChangePrefix, SkipOwner, BeginReconcile, BeginCleanup, SkipPod, BeginPod, AddRoutes,
         ConfigureBridge, Restart
<1> QED BY <1>1, <1>2, <1>3

LEMMA PodQueueSteps ==
    ASSUME [Next]_vars, NEW x \in podQueue, x \notin podQueue'
    PROVE  Restart \/ (x \in Owners /\ (SkipPod(x) \/ BeginPod(x)))
<1>1. ASSUME NEW o \in Owners,
             CreateOwner(o) \/ DeleteOwner(o) \/ CreatePod(o) \/ DeletePod(o) \/ Daemons(o) \/ OwnerStep(o)
             \/ (\E e \in Endpoints : ChangeEndpoint(o, e)) \/ (\E ps \in SUBSET Ports : ChangePorts(o, ps))
      PROVE  FALSE
  BY <1>1
<1>2. ASSUME NEW o \in Owners, PodStep(o)
      PROVE  x = o /\ (SkipPod(o) \/ BeginPod(o))
  BY <1>2
<1>3. ~(ChangePrefix \/ ConfigureBridge \/ UNCHANGED vars)
  OBVIOUS
<1> HIDE DEF OwnerStep, PodStep, Daemons, CreateOwner, DeleteOwner, CreatePod, DeletePod, ChangeEndpoint,
         ChangePorts, ChangePrefix, SkipOwner, BeginReconcile, BeginCleanup, SkipPod, BeginPod, AddRoutes,
         ConfigureBridge, Restart
<1> QED BY <1>1, <1>2, <1>3

LEMMA PodJobSteps ==
    ASSUME [Next]_vars, NEW x \in Owners, podJob = x, podJob' # x
    PROVE  Restart \/ AddRoutes(x)
<1>1. ASSUME NEW o \in Owners,
             CreateOwner(o) \/ DeleteOwner(o) \/ CreatePod(o) \/ DeletePod(o) \/ Daemons(o) \/ OwnerStep(o)
             \/ (\E e \in Endpoints : ChangeEndpoint(o, e)) \/ (\E ps \in SUBSET Ports : ChangePorts(o, ps))
      PROVE  FALSE
  BY <1>1
<1>2. ASSUME NEW o \in Owners, PodStep(o)
      PROVE  AddRoutes(x)
  BY <1>2
<1>3. ~(ChangePrefix \/ ConfigureBridge \/ UNCHANGED vars)
  OBVIOUS
<1> HIDE DEF OwnerStep, PodStep, Daemons, CreateOwner, DeleteOwner, CreatePod, DeletePod, ChangeEndpoint,
         ChangePorts, ChangePrefix, SkipOwner, BeginReconcile, BeginCleanup, SkipPod, BeginPod, AddRoutes,
         ConfigureBridge, Restart
<1> QED BY <1>1, <1>2, <1>3

\* A step of one of the Disturbances is remembered, and those before it.
LEMMA MarkFacts ==
    ASSUME TypeOK, NEW ds \in SUBSET Disturbances, Mark(ds)
    PROVE  disturbed \cup ds \subseteq disturbed' /\ disturbed' \subseteq Disturbances
BY DEF Mark, TypeOK

LEMMA DisturbedGrows ==
    ASSUME TypeOK, [Next]_vars
    PROVE  disturbed \subseteq disturbed' /\ disturbed' \subseteq Disturbances
<1>1. UNCHANGED disturbed \/ \E ds \in SUBSET Disturbances : Mark(ds)
  <2>1. ASSUME NEW o \in Owners PROVE DeleteOwner(o) => \E ds \in SUBSET Disturbances : Mark(ds)
    BY DEF If, Disturbances
  <2>2. ASSUME NEW o \in Owners PROVE BeginReconcile(o) => \E ds \in SUBSET Disturbances : Mark(ds)
    BY DEF If, Disturbances
  <2>3. ASSUME NEW o \in Owners, SetUp(o) PROVE UNCHANGED disturbed \/ \E ds \in SUBSET Disturbances : Mark(ds)
    BY <2>3 DEF If, Disturbances
  <2>4. ASSUME NEW o \in Owners PROVE ListProxies(o) => \E ds \in SUBSET Disturbances : Mark(ds)
    BY DEF If, Disturbances
  <2>5. ASSUME NEW o \in Owners PROVE RemoveRoute(o) => \E ds \in SUBSET Disturbances : Mark(ds)
    BY DEF If, Disturbances
  <2>6. ASSUME NEW o \in Owners, AddRoutes(o) PROVE UNCHANGED disturbed \/ \E ds \in SUBSET Disturbances : Mark(ds)
    BY <2>6 DEF If, Disturbances
  <2>7. ConfigureBridge => \E ds \in SUBSET Disturbances : Mark(ds)
    BY DEF If, Disturbances
  <2>8. \/ UNCHANGED disturbed \/ ConfigureBridge
        \/ \E o \in Owners : \/ DeleteOwner(o) \/ BeginReconcile(o) \/ SetUp(o) \/ ListProxies(o)
                             \/ RemoveRoute(o) \/ AddRoutes(o)
    <3>1. ASSUME NEW o \in Owners,
                 CreateOwner(o) \/ CreatePod(o) \/ DeletePod(o) \/ Daemons(o)
                 \/ (\E e \in Endpoints : ChangeEndpoint(o, e)) \/ (\E ps \in SUBSET Ports : ChangePorts(o, ps))
          PROVE  UNCHANGED disturbed
      BY <3>1
    <3>2. ASSUME NEW o \in Owners, OwnerStep(o) \/ PodStep(o)
          PROVE  \/ UNCHANGED disturbed
                 \/ BeginReconcile(o) \/ SetUp(o) \/ ListProxies(o) \/ RemoveRoute(o) \/ AddRoutes(o)
      BY <3>2
    <3>3. ChangePrefix \/ Restart \/ UNCHANGED vars => UNCHANGED disturbed
      OBVIOUS
    <3> HIDE DEF vars, OwnerStep, PodStep, Daemons, CreateOwner, DeleteOwner, CreatePod, DeletePod,
             ChangeEndpoint, ChangePorts, ChangePrefix, SkipOwner, BeginReconcile, SetUp, BeginCleanup,
             ListProxies, RemoveRoute, UnguardOwner, SkipPod, BeginPod, AddRoutes, ConfigureBridge, Restart
    <3> QED BY <3>1, <3>2, <3>3
  <2> HIDE DEF Next, vars, DeleteOwner, BeginReconcile, SetUp, ListProxies, RemoveRoute, AddRoutes,
               ConfigureBridge
  <2> QED BY <2>1, <2>2, <2>3, <2>4, <2>5, <2>6, <2>7, <2>8
<1> HIDE DEF Next, vars
<1> QED BY <1>1, MarkFacts DEF TypeOK

HIDE DEF Next, OwnerStep, PodStep, Daemons, vars, objects, specs, endpointVars, node, queues, counters, jobs,
         SeeOwner, SeePod, CreateOwner, DeleteOwner, CreatePod, ListInterface, DeletePod, EndPod,
         ChangeEndpoint, SeeEndpoints, ChangePorts, ChangePrefix, SkipOwner, BeginReconcile, SetUp,
         BeginCleanup, ListProxies, RemoveRoute, UnguardOwner, SkipPod, BeginPod, AddRoutes,
         ConfigureBridge, Restart

-----------------------------------------------------------------------------
\* What the actions do to the jobs.

LEMMA DoFacts ==
    ASSUME TypeOK, NEW o \in Owners, NEW next \in {Idle} \cup Tasks, Do(o, next),
           next # Idle => next.of = o
    PROVE  /\ Job(o)' = next /\ (next \in Tasks => next # Idle)
           /\ \A k \in Kinds \ {Kind[o]} : job'[k] = job[k]
           /\ job' \in [Kinds -> {Idle} \cup Tasks]
           /\ \A k \in Kinds : job'[k] # Idle => Kind[job'[k].of] = k
<1>1. Kind[o] \in Kinds
  OBVIOUS
<1>2. job \in [Kinds -> {Idle} \cup Tasks] /\ \A k \in Kinds : job[k] # Idle => Kind[job[k].of] = k
  BY DEF TypeOK
<1>3. job' = [job EXCEPT ![Kind[o]] = next]
  BY DEF Do
<1>4. job'[Kind[o]] = next /\ \A k \in Kinds \ {Kind[o]} : job'[k] = job[k]
  BY <1>1, <1>2, <1>3
<1>5. job' \in [Kinds -> {Idle} \cup Tasks]
  BY <1>1, <1>2, <1>3
<1> QED BY <1>2, <1>4, <1>5 DEF Job

\* A job that is done.
LEMMA IdleFacts ==
    ASSUME TypeOK, NEW o \in Owners, Do(o, Idle)
    PROVE  /\ Job(o)' = Idle
           /\ \A k \in Kinds \ {Kind[o]} : job'[k] = job[k]
           /\ job' \in [Kinds -> {Idle} \cup Tasks]
           /\ \A k \in Kinds : job'[k] # Idle => Kind[job'[k].of] = k
BY DoFacts

\* Where the job of o is after a step that is its own.
Moved(o, stage, final, left, doomed, found, ps) ==
    /\ Job(o)' # Idle /\ Job(o)'.of = o /\ Job(o)'.stage = stage /\ Job(o)'.final = final
    /\ Job(o)'.left = left /\ Job(o)'.doomed = doomed /\ Job(o)'.found = found
    /\ Job(o)'.ports = ps

JobsTyped == /\ job' \in [Kinds -> {Idle} \cup Tasks]
             /\ \A k \in Kinds : job'[k] # Idle => Kind[job'[k].of] = k
OthersKept(o) == \A k \in Kinds \ {Kind[o]} : job'[k] = job[k]

LEMMA BeginReconcileEffect ==
    ASSUME TypeOK, NEW o \in Owners, BeginReconcile(o)
    PROVE  /\ JobsTyped /\ OthersKept(o) /\ Job(o) = Idle
           /\ IF o \in listed THEN Moved(o, "setup", FALSE, <<>>, {}, endpoints[o], ports[o])
              ELSE Moved(o, "list", FALSE, Pools[o], {}, {}, ports[o])
<1>1. endpoints[o] \in SUBSET Endpoints /\ ports[o] \in SUBSET Ports /\ {} \in SUBSET Endpoints /\ {} \in SUBSET AllRoutes
  BY DEF TypeOK
<1>2. Pools[o] \in {<<"public">>, <<"public", "alt">>}
  OBVIOUS
<1> DEFINE setup == Task(o, "setup", FALSE, <<>>, {}, endpoints[o], ports[o])
           list == Task(o, "list", FALSE, Pools[o], {}, {}, ports[o])
<1>3. /\ setup \in Tasks /\ setup.of = o /\ setup.stage = "setup" /\ setup.final = FALSE
      /\ setup.left = <<>> /\ setup.doomed = {} /\ setup.found = endpoints[o] /\ setup.ports = ports[o]
  BY <1>1 DEF Task, Tasks
<1>4. /\ list \in Tasks /\ list.of = o /\ list.stage = "list" /\ list.final = FALSE
      /\ list.left = Pools[o] /\ list.doomed = {} /\ list.found = {} /\ list.ports = ports[o]
  BY <1>1, <1>2 DEF Task, Tasks
<1>5. Do(o, IF o \in listed THEN setup ELSE list) /\ Job(o) = Idle
  BY DEF BeginReconcile, HasProxy, Job
<1> HIDE DEF setup, list
<1> QED BY <1>3, <1>4, <1>5, DoFacts DEF Moved, JobsTyped, OthersKept

LEMMA BeginCleanupEffect ==
    ASSUME TypeOK, NEW o \in Owners, BeginCleanup(o)
    PROVE  /\ JobsTyped /\ OthersKept(o) /\ Job(o) = Idle
           /\ Moved(o, "list", TRUE, Pools[o], {}, {}, ports[o])
<1> DEFINE list == Task(o, "list", TRUE, Pools[o], {}, {}, ports[o])
<1>1. Pools[o] \in {<<"public">>, <<"public", "alt">>} /\ ports[o] \in SUBSET Ports
  BY DEF TypeOK
<1>2. /\ list \in Tasks /\ list.of = o /\ list.stage = "list" /\ list.final = TRUE
      /\ list.left = Pools[o] /\ list.doomed = {} /\ list.found = {} /\ list.ports = ports[o]
  BY <1>1 DEF Task, Tasks
<1>3. Do(o, list) /\ Job(o) = Idle
  BY DEF BeginCleanup, Job
<1> HIDE DEF list
<1> QED BY <1>2, <1>3, DoFacts DEF Moved, JobsTyped, OthersKept

LEMMA ListProxiesEffect ==
    ASSUME TypeOK, JobsMakeSense, NEW o \in Owners, ListProxies(o)
    PROVE  /\ JobsTyped /\ OthersKept(o) /\ Busy(o, "list")
           /\ Moved(o, "remove", Job(o).final, Job(o).left,
                    IF InUse(o, Head(Job(o).left)) THEN {} ELSE {Route(o, Head(Job(o).left))}, {}, Job(o).ports)
<1> DEFINE doomed == IF InUse(o, Head(Job(o).left)) THEN {} ELSE {Route(o, Head(Job(o).left))}
           task == Task(o, "remove", Job(o).final, Job(o).left, doomed, {}, Job(o).ports)
<1>1. Busy(o, "list") /\ Do(o, task)
  BY DEF ListProxies, Job
<1>2. Job(o) \in Tasks /\ Job(o).left \in Suffixes(o)
  BY <1>1 DEF Busy, Job, TypeOK, JobsMakeSense, Working
<1>3. doomed \subseteq AllRoutes
  <2>1. Route(o, Head(Job(o).left)) \in RoutesOf(o)
    BY <1>2, SuffixFacts
  <2> QED BY <2>1 DEF AllRoutes
<1> HIDE DEF doomed
<1>4. Job(o).final \in BOOLEAN /\ Job(o).ports \in SUBSET Ports /\ Job(o).left \in {<<>>, <<"public">>, <<"alt">>, <<"public", "alt">>}
  BY <1>2 DEF Tasks
<1>5. /\ task \in Tasks /\ task.of = o /\ task.stage = "remove"
      /\ task.final = Job(o).final /\ task.left = Job(o).left /\ task.doomed = doomed /\ task.found = {}
      /\ task.ports = Job(o).ports
  BY <1>3, <1>4 DEF Task, Tasks
<1> HIDE DEF task
<1>6. /\ JobsTyped /\ OthersKept(o)
      /\ Moved(o, "remove", Job(o).final, Job(o).left, doomed, {}, Job(o).ports)
  BY <1>1, <1>5, DoFacts DEF Moved, JobsTyped, OthersKept
<1> QED BY <1>1, <1>6 DEF doomed

LEMMA RemoveRouteEffect ==
    ASSUME TypeOK, JobsMakeSense, NEW o \in Owners, RemoveRoute(o)
    PROVE  /\ JobsTyped /\ OthersKept(o) /\ Busy(o, "remove")
           /\ Job(o).left \in Suffixes(o)
           /\ IF Tail(Job(o).left) # <<>> THEN Moved(o, "list", Job(o).final, Tail(Job(o).left), {}, {}, Job(o).ports)
              ELSE IF Job(o).final THEN Moved(o, "unguard", TRUE, <<>>, {}, {}, {})
              ELSE Job(o)' = Idle
<1> DEFINE left == Tail(Job(o).left)
           list == Task(o, "list", Job(o).final, left, {}, {}, Job(o).ports)
           unguard == Task(o, "unguard", TRUE, <<>>, {}, {}, {})
<1>1. /\ Busy(o, "remove")
      /\ Do(o, IF left # <<>> THEN list ELSE IF Job(o).final THEN unguard ELSE Idle)
  BY DEF RemoveRoute, Job, Busy, After
<1>2. Job(o) \in Tasks /\ Job(o).left \in Suffixes(o)
  BY <1>1 DEF Busy, Job, TypeOK, JobsMakeSense, Working
<1>3. left \in {<<>>, <<"alt">>} /\ Job(o).final \in BOOLEAN /\ Job(o).ports \in SUBSET Ports
  BY <1>2, SuffixFacts DEF Tasks
<1> HIDE DEF left
<1>4. /\ list \in Tasks /\ list.of = o /\ list.stage = "list"
      /\ list.final = Job(o).final /\ list.left = left /\ list.doomed = {} /\ list.found = {}
      /\ list.ports = Job(o).ports
  BY <1>3 DEF Task, Tasks
<1>5. /\ unguard \in Tasks /\ unguard.of = o /\ unguard.stage = "unguard"
      /\ unguard.final = TRUE /\ unguard.left = <<>> /\ unguard.doomed = {} /\ unguard.found = {}
      /\ unguard.ports = {}
  BY DEF Task, Tasks
<1> HIDE DEF list, unguard
<1>6. CASE left # <<>>
  <2>1. JobsTyped /\ OthersKept(o) /\ Moved(o, "list", Job(o).final, left, {}, {}, Job(o).ports)
    BY <1>1, <1>4, <1>6, DoFacts DEF Moved, JobsTyped, OthersKept
  <2> QED BY <1>1, <1>2, <1>6, <2>1 DEF left
<1>7. CASE left = <<>> /\ Job(o).final
  BY <1>1, <1>2, <1>5, <1>7, DoFacts DEF Moved, JobsTyped, OthersKept, left
<1>8. CASE left = <<>> /\ ~Job(o).final
  BY <1>1, <1>2, <1>8, IdleFacts DEF JobsTyped, OthersKept, left
<1> QED BY <1>6, <1>7, <1>8

LEMMA EndEffect ==
    ASSUME TypeOK, NEW o \in Owners, SetUp(o) \/ UnguardOwner(o)
    PROVE  /\ JobsTyped /\ OthersKept(o) /\ Job(o)' = Idle
           /\ SetUp(o) => Busy(o, "setup")
           /\ UnguardOwner(o) => Busy(o, "unguard")
BY IdleFacts DEF SetUp, UnguardOwner, JobsTyped, OthersKept

-----------------------------------------------------------------------------
\* TypeOK is inductive together with what the jobs are about.

LEMMA TypeStep == ASSUME TypeOK, JobsMakeSense, [Next]_vars PROVE TypeOK'
<1> USE DEF TypeOK, objects, specs, endpointVars, node, queues, counters, jobs
<1>0. disturbed' \subseteq Disturbances
  BY DisturbedGrows
<1>1. ASSUME NEW o \in Owners, CreateOwner(o) PROVE TypeOK'
  BY <1>0, <1>1 DEF CreateOwner, Counted, SeeOwner
<1>2. ASSUME NEW o \in Owners, DeleteOwner(o) PROVE TypeOK'
  <2>1. guarded \subseteq {p \in Owners : owners'[p] \in {"live", "deleting"}}
    BY <1>2 DEF DeleteOwner, Live
  <2>2. UNCHANGED <<guarded, listed, pods, specs, podQueue, prefixQueue, endpointVars, node, jobs, faults>>
    BY <1>2 DEF DeleteOwner
  <2>5. changes' \in 0 .. MaxChanges
    <3>1. Counted
      BY <1>2 DEF DeleteOwner
    <3>2. changes \in 0 .. MaxChanges
      OBVIOUS
    <3> HIDE DEF TypeOK
    <3> QED BY <3>1, <3>2 DEF Counted
  <2>4. ownerQueue' \subseteq Owners
    BY <1>2 DEF DeleteOwner
  <2>3. owners' \in [Owners -> {"none", "live", "deleting", "gone"}]
    BY <1>2 DEF DeleteOwner
  <2> QED BY <1>0, <2>1, <2>2, <2>3, <2>4, <2>5
<1>3. ASSUME NEW o \in Owners, CreatePod(o) PROVE TypeOK'
  BY <1>0, <1>3 DEF CreatePod, Counted, SeePod
<1>4. ASSUME NEW o \in Owners, DeletePod(o) PROVE TypeOK'
  BY <1>0, <1>4 DEF DeletePod, Counted
<1>5. ASSUME NEW o \in Owners, ListInterface(o) PROVE TypeOK'
  BY <1>0, <1>5 DEF ListInterface, SeeOwner
<1>6. ASSUME NEW o \in Owners, EndPod(o) PROVE TypeOK'
  BY <1>0, <1>6 DEF EndPod, SeeOwner
<1>7. ASSUME NEW o \in Owners, SeeEndpoints(o) PROVE TypeOK'
  BY <1>0, <1>7 DEF SeeEndpoints
<1>8. ASSUME NEW o \in Owners, SkipOwner(o) PROVE TypeOK'
  BY <1>0, <1>8 DEF SkipOwner
<1>9. ASSUME NEW o \in Owners, BeginReconcile(o) PROVE TypeOK'
  <2>1. JobsTyped
    BY <1>9, BeginReconcileEffect
  <2>2. guarded' \subseteq {p \in Owners : owners'[p] \in {"live", "deleting"}}
    BY <1>9 DEF BeginReconcile, Live
  <2>3. /\ UNCHANGED <<owners, listed, pods, specs, written, endpoints, routes, bridge, ipset, gateways,
                       podQueue, prefixQueue, podJob, changes, faults>>
        /\ ownerQueue' \subseteq Owners
    BY <1>9 DEF BeginReconcile
  <2> QED BY <1>0, <2>1, <2>2, <2>3 DEF JobsTyped
<1>10. ASSUME NEW o \in Owners, SetUp(o) PROVE TypeOK'
  <2>1. JobsTyped
    BY <1>10, EndEffect
  <2>2. Job(o) \in Tasks
    BY <1>10, EndEffect DEF Busy, Job
  <2>3. ipset' \subseteq Owners \X Ports /\ gateways' \subseteq Owners \X Endpoints
    <3>1. {o} \X Job(o).found \subseteq Owners \X Endpoints /\ {o} \X Job(o).ports \subseteq Owners \X Ports
      BY <2>2 DEF Tasks
    <3>2. \/ gateways' = gateways \cup ({o} \X Job(o).found) /\ ipset' = ipset \cup ({o} \X Job(o).ports)
          \/ UNCHANGED <<gateways, ipset>>
      BY <1>10 DEF SetUp, configureServices, AddIpsetEntry, Job
    <3> QED BY <3>1, <3>2
  <2>4. faults' \in 0 .. MaxFaults
    <3>1. UNCHANGED faults \/ (faults < MaxFaults /\ faults' = faults + 1)
      BY <1>10 DEF SetUp, Faulty
    <3> QED BY <3>1
  <2>5. UNCHANGED <<objects, endpointVars, routes, bridge, queues, podJob, changes>>
    BY <1>10 DEF SetUp
  <2> QED BY <1>0, <2>1, <2>3, <2>4, <2>5 DEF JobsTyped
<1>11. ASSUME NEW o \in Owners, BeginCleanup(o) PROVE TypeOK'
  <2>1. JobsTyped
    BY <1>11, BeginCleanupEffect
  <2> QED BY <1>0, <1>11, <2>1 DEF BeginCleanup, cleanupPFC, JobsTyped
<1>12. ASSUME NEW o \in Owners, ListProxies(o) PROVE TypeOK'
  <2>1. JobsTyped
    BY <1>12, ListProxiesEffect
  <2> QED BY <1>0, <1>12, <2>1 DEF ListProxies, JobsTyped
<1>13. ASSUME NEW o \in Owners, RemoveRoute(o) PROVE TypeOK'
  <2>1. JobsTyped
    BY <1>13, RemoveRouteEffect
  <2>2. ipset' \subseteq ipset /\ routes' \subseteq routes
    BY <1>13 DEF RemoveRoute, DelIpsetEntry
  <2>3. faults' \in 0 .. MaxFaults
    <3>1. UNCHANGED faults \/ (faults < MaxFaults /\ faults' = faults + 1)
      BY <1>13 DEF RemoveRoute, Faulty
    <3> QED BY <3>1
  <2>4. UNCHANGED <<objects, endpointVars, bridge, gateways, queues, podJob, changes>>
    BY <1>13 DEF RemoveRoute
  <2> QED BY <1>0, <2>1, <2>2, <2>3, <2>4 DEF JobsTyped
<1>14. ASSUME NEW o \in Owners, UnguardOwner(o) PROVE TypeOK'
  <2>1. JobsTyped
    BY <1>14, EndEffect
  <2> QED BY <1>0, <1>14, <2>1 DEF UnguardOwner, JobsTyped
<1>15. ASSUME NEW o \in Owners, SkipPod(o) PROVE TypeOK'
  BY <1>0, <1>15 DEF SkipPod
<1>16. ASSUME NEW o \in Owners, AddRoutes(o) PROVE TypeOK'
  <2>1. routes' \subseteq AllRoutes /\ (routes' # {} => bridge) /\ podQueue' \subseteq Owners
    <3>1. CASE bridge
      BY <1>16, <3>1, PoolsAreLeft DEF AddRoutes, AddMultusRoutes
    <3>2. CASE ~bridge
      BY <1>16, <3>2 DEF AddRoutes
    <3> QED BY <3>1, <3>2
  <2>2. /\ UNCHANGED <<objects, endpointVars, bridge, ipset, gateways, ownerQueue, prefixQueue, job,
                       changes, faults>>
        /\ podJob' = Idle
    BY <1>16 DEF AddRoutes
  <2> QED BY <1>0, <2>1, <2>2
<1>17. ASSUME NEW o \in Owners, NEW e \in Endpoints, ChangeEndpoint(o, e) PROVE TypeOK'
  BY <1>0, <1>17 DEF ChangeEndpoint, Counted, SeeOwner
<1>22. ASSUME NEW o \in Owners, NEW ps \in SUBSET Ports, ChangePorts(o, ps) PROVE TypeOK'
  BY <1>0, <1>22 DEF ChangePorts, Counted, SeeOwner
<1>23. ASSUME NEW o \in Owners, BeginPod(o) PROVE TypeOK'
  BY <1>0, <1>23 DEF BeginPod
<1>18. CASE ChangePrefix
  BY <1>18 DEF ChangePrefix, Counted
<1>21. CASE ConfigureBridge
  BY <1>0, <1>21 DEF ConfigureBridge
<1>19. CASE Restart
  BY <1>0, <1>19 DEF Restart, Faulty
<1>20. CASE UNCHANGED vars
  BY <1>20 DEF vars
<1> HIDE DEF TypeOK
<1> QED BY <1>1, <1>2, <1>3, <1>4, <1>5, <1>6, <1>7, <1>8, <1>9, <1>10, <1>11, <1>12, <1>13, <1>14, <1>15, <1>16, <1>17, <1>18, <1>19, <1>20, <1>21, <1>22, <1>23
        DEF Next, Daemons, OwnerStep, PodStep

-----------------------------------------------------------------------------
\* The job of one owner is changed by its own steps and by a restart only.

LEMMA JobTrace ==
    ASSUME TypeOK, JobsMakeSense, [Next]_vars, NEW o \in Owners, Working(o) \/ Working(o)'
    PROVE  \/ UNCHANGED Job(o)
           \/ Restart /\ ~Working(o)'
           \/ BeginReconcile(o) \/ SetUp(o) \/ BeginCleanup(o)
           \/ ListProxies(o) \/ RemoveRoute(o) \/ UnguardOwner(o)
<1>1. CASE UNCHANGED job
  BY <1>1 DEF Job
<1>2. CASE Restart
  BY <1>2 DEF Restart, Working, Job
<1>3. ASSUME NEW p \in Owners, p # o,
             \/ BeginReconcile(p) \/ SetUp(p) \/ BeginCleanup(p)
             \/ ListProxies(p) \/ RemoveRoute(p) \/ UnguardOwner(p)
      PROVE  UNCHANGED Job(o)
  <2>1. CASE Kind[p] # Kind[o]
    <3>1. OthersKept(p)
      BY <1>3, BeginReconcileEffect, EndEffect, BeginCleanupEffect, ListProxiesEffect, RemoveRouteEffect
    <3> QED BY <2>1, <3>1 DEF OthersKept, Job
  <2>2. CASE Kind[p] = Kind[o]
    <3>1. Job(o) = Job(p) /\ Job(o)' = Job(p)'
      BY <2>2 DEF Job
    <3>2. Job(p) = Idle \/ Job(p).of = p
      BY <1>3, BeginReconcileEffect, EndEffect, BeginCleanupEffect, ListProxiesEffect, RemoveRouteEffect
         DEF Busy, Job
    <3>3. Job(p)' = Idle \/ Job(p)'.of = p
      BY <1>3, BeginReconcileEffect, EndEffect, BeginCleanupEffect, ListProxiesEffect, RemoveRouteEffect
         DEF Moved
    <3> QED BY <1>3, <3>1, <3>2, <3>3 DEF Working
  <2> QED BY <2>1, <2>2
<1> QED BY <1>1, <1>2, <1>3, JobSteps

LEMMA SetupTrace ==
    ASSUME TypeOK, JobsMakeSense, [Next]_vars, NEW o \in Owners, Busy(o, "setup")
    PROVE  UNCHANGED Job(o) \/ Restart \/ SetUp(o)
<1>1. Working(o) /\ Job(o) # Idle /\ Job(o).stage = "setup"
  BY DEF Busy, Working, Job
<1>2. ~BeginReconcile(o) /\ ~BeginCleanup(o)
  BY <1>1, BeginReconcileEffect, BeginCleanupEffect
<1>3. ~ListProxies(o) /\ ~RemoveRoute(o)
  BY <1>1, ListProxiesEffect, RemoveRouteEffect DEF Busy, Job
<1>4. ~UnguardOwner(o)
  BY <1>1, EndEffect DEF Busy, Job
<1> QED BY <1>1, <1>2, <1>3, <1>4, JobTrace

\* Who is queued remains so until its turn comes.
LEMMA QueueTrace ==
    ASSUME TypeOK, [Next]_vars, NEW o \in Owners, o \in ownerQueue, owners[o] \in {"live", "deleting"}
    PROVE  \/ o \in ownerQueue'
           \/ Live(o) /\ BeginReconcile(o)
           \/ owners[o] = "deleting" /\ BeginCleanup(o)
BY OwnerQueueSteps DEF Restart, SkipOwner, BeginReconcile, BeginCleanup

\* Who loses the finalizer or ceases to be live does so in one of three ways.
LEMMA OwnerTrace ==
    ASSUME TypeOK, [Next]_vars, NEW o \in Owners
    PROVE  /\ owners'[o] # owners[o] =>
                 \/ CreateOwner(o) /\ owners[o] = "none" /\ owners'[o] = "live"
                 \/ DeleteOwner(o) /\ Live(o)
                    /\ owners'[o] = IF o \in guarded THEN "deleting" ELSE "gone"
                 \/ UnguardOwner(o) /\ owners'[o] = "gone"
           /\ o \in guarded /\ o \notin guarded' => UnguardOwner(o)
           /\ UnguardOwner(o) => owners'[o] = "gone"
<1>1. owners \in [Owners -> {"none", "live", "deleting", "gone"}]
  BY DEF TypeOK
<1>2. UnguardOwner(o) => owners'[o] = "gone"
  BY <1>1 DEF UnguardOwner
<1>3. ASSUME NEW p \in Owners, CreateOwner(p)
      PROVE  /\ guarded' = guarded
             /\ owners'[o] # owners[o] => p = o /\ owners[o] = "none" /\ owners'[o] = "live"
  BY <1>1, <1>3 DEF CreateOwner
<1>4. ASSUME NEW p \in Owners, DeleteOwner(p)
      PROVE  /\ guarded' = guarded
             /\ owners'[o] # owners[o] =>
                  p = o /\ Live(o) /\ owners'[o] = IF o \in guarded THEN "deleting" ELSE "gone"
  BY <1>1, <1>4 DEF DeleteOwner
<1>5. ASSUME NEW p \in Owners, BeginReconcile(p)
      PROVE  guarded \subseteq guarded' /\ owners' = owners
  BY <1>5 DEF BeginReconcile
<1>6. ASSUME NEW p \in Owners, UnguardOwner(p)
      PROVE  /\ o \in guarded /\ o \notin guarded' => p = o
             /\ owners'[o] # owners[o] => p = o
  BY <1>1, <1>6 DEF UnguardOwner
<1> QED BY <1>2, <1>3, <1>4, <1>5, <1>6, OwnersSteps

\* Who ceases to be listed or to be live is queued, if it has the finalizer.
LEMMA QueuedAfterwards ==
    ASSUME TypeOK, JobsMakeSense, [Next]_vars, NEW o \in Owners
    PROVE  /\ o \in listed /\ o \notin listed' => owners[o] = "gone" \/ o \in ownerQueue'
           /\ o \in listed' /\ o \notin listed => o \in ownerQueue'
           /\ o \in guarded /\ Live(o) /\ ~Live(o)' => o \in ownerQueue'
           /\ ~Live(o) /\ Live(o)' => o \in ownerQueue'
<1>1. /\ o \in listed /\ o \notin listed' => owners[o] = "gone" \/ o \in ownerQueue'
      /\ o \in listed' /\ o \notin listed => o \in ownerQueue'
  BY ListedSteps DEF ListInterface, EndPod, SeeOwner
<1>2. ~UnguardOwner(o) \/ ~Live(o)
  BY EndEffect DEF JobsMakeSense, Busy, Working, Job, Live
<1>3. o \in guarded /\ Live(o) /\ ~Live(o)' => o \in ownerQueue'
  BY <1>2, OwnerTrace DEF Live, DeleteOwner, CreateOwner
<1>4. ~Live(o) /\ Live(o)' => o \in ownerQueue'
  BY OwnerTrace DEF Live, CreateOwner, SeeOwner
<1> QED BY <1>1, <1>3, <1>4

-----------------------------------------------------------------------------
\* The parts of the invariant, one after the other.

LEMMA JobsStep == ASSUME IInv, [Next]_vars PROVE JobsMakeSense'
<1> USE DEF IInv
<1> SUFFICES ASSUME NEW o \in Owners, Working(o)'
             PROVE  /\ o \in guarded'
                    /\ Job(o)'.final => owners'[o] = "deleting"
                    /\ Job(o)'.stage = "unguard" => Job(o)'.final
                    /\ Job(o)'.stage = "setup" => ~Job(o)'.final
                    /\ Job(o)'.stage \in {"list", "remove"} => Job(o)'.left \in Suffixes(o)
  BY DEF JobsMakeSense, Suffixes
<1>1. CASE UNCHANGED Job(o)
  <2>1. Working(o)
    BY <1>1 DEF Working
  <2>2. ~UnguardOwner(o)
    BY <1>1, <2>1, EndEffect DEF Working
  <2> QED BY <1>1, <2>1, <2>2, OwnerTrace DEF JobsMakeSense, Live
<1>2. CASE BeginReconcile(o)
  <2>1. o \in guarded'
    BY <1>2 DEF BeginReconcile
  <2> QED BY <1>2, <2>1, BeginReconcileEffect, PoolsAreLeft DEF Moved
<1>3. CASE BeginCleanup(o)
  <2>1. o \in guarded' /\ owners'[o] = "deleting"
    BY <1>3 DEF BeginCleanup, DeletionsDue, objects
  <2> QED BY <1>3, <2>1, BeginCleanupEffect, PoolsAreLeft DEF Moved
<1>4. CASE ListProxies(o)
  <2>1. UNCHANGED <<guarded, owners>> /\ Working(o) /\ Job(o).stage = "list"
    BY <1>4, ListProxiesEffect DEF ListProxies, objects, Busy, Working, Job
  <2> QED BY <1>4, <2>1, ListProxiesEffect DEF Moved, JobsMakeSense
<1>5. CASE RemoveRoute(o)
  <2>1. UNCHANGED <<guarded, owners>> /\ Working(o) /\ Job(o).stage = "remove"
    BY <1>5, RemoveRouteEffect DEF RemoveRoute, objects, Busy, Working, Job
  <2>2. Job(o)' # Idle
    BY DEF Working
  <2>3. Job(o).left \in Suffixes(o)
    BY <1>5, RemoveRouteEffect
  <2>4. Tail(Job(o).left) # <<>> => Tail(Job(o).left) \in Suffixes(o)
    BY <2>3, SuffixFacts
  <2>5. o \in guarded /\ (Job(o).final => owners[o] = "deleting")
    BY <2>1 DEF JobsMakeSense
  <2>6. CASE Tail(Job(o).left) # <<>>
    BY <1>5, <2>1, <2>4, <2>5, <2>6, RemoveRouteEffect DEF Moved
  <2>7. CASE Tail(Job(o).left) = <<>>
    BY <1>5, <2>1, <2>2, <2>5, <2>7, RemoveRouteEffect DEF Moved
  <2> QED BY <2>6, <2>7
<1>6. CASE SetUp(o) \/ UnguardOwner(o)
  BY <1>6, EndEffect DEF Working
<1> QED BY <1>1, <1>2, <1>3, <1>4, <1>5, <1>6, JobTrace

LEMMA DeletionsStep == ASSUME IInv, [Next]_vars PROVE DeletionsDue'
<1> USE DEF IInv
<1> SUFFICES ASSUME NEW o \in Owners, owners'[o] = "deleting"
             PROVE  o \in guarded' /\ (o \in ownerQueue' \/ Final(o)')
  BY DEF DeletionsDue
<1>1. CASE owners[o] # "deleting"
  <2>1. DeleteOwner(o) /\ o \in guarded
    BY <1>1, OwnerTrace
  <2> QED BY <2>1 DEF DeleteOwner
<1>2. CASE owners[o] = "deleting" /\ o \in ownerQueue
  <2>1. o \in guarded'
    BY <1>2, OwnerTrace DEF DeletionsDue
  <2>2. o \in ownerQueue' \/ BeginCleanup(o)
    BY <1>2, QueueTrace DEF Live
  <2> QED BY <2>1, <2>2, BeginCleanupEffect DEF Moved, Final, Working
<1>3. CASE owners[o] = "deleting" /\ Final(o)
  <2>1. o \in guarded' /\ ~UnguardOwner(o)
    BY <1>3, OwnerTrace DEF DeletionsDue
  <2>2. Working(o) /\ Job(o) # Idle /\ Job(o).final /\ ~Busy(o, "setup")
    BY <1>3 DEF Final, Working, JobsMakeSense, Busy, Job
  <2>3. CASE UNCHANGED Job(o)
    BY <2>1, <2>2, <2>3 DEF Final, Working
  <2>4. CASE Restart
    BY <1>3, <2>1, <2>4 DEF Restart
  <2>5. CASE ListProxies(o) \/ RemoveRoute(o)
    BY <2>1, <2>2, <2>5, ListProxiesEffect, RemoveRouteEffect DEF Final, Working, Moved
  <2> QED BY <2>1, <2>2, <2>3, <2>4, <2>5, JobTrace, BeginReconcileEffect, BeginCleanupEffect, EndEffect
<1> QED BY <1>1, <1>2, <1>3 DEF DeletionsDue

LEMMA PodsAfterStep == ASSUME IInv, [Next]_vars PROVE PodsAfterOwners'
<1> USE DEF IInv
<1> SUFFICES ASSUME NEW o \in Owners, owners'[o] = "none" PROVE pods'[o] = "none"
  BY DEF PodsAfterOwners
<1>1. owners[o] = "none" /\ pods[o] = "none"
  BY OwnerTrace DEF PodsAfterOwners
<1>2. pods \in [Owners -> {"none", "ready", "deleting"}]
  BY DEF TypeOK
<1> QED BY <1>1, <1>2, PodsSteps DEF CreatePod, DeletePod, EndPod, Live

LEMMA PortsGuardedStep == ASSUME IInv, [Next]_vars PROVE PortsGuarded'
<1> USE DEF IInv
<1> SUFFICES ASSUME Undisturbed({"failed command"})', NEW o \in Owners, NEW p \in Ports,
                    <<o, p>> \in ipset', <<o, p>> \notin dropped'
             PROVE  /\ o \in guarded' /\ ~PortsDone(o)'
                    /\ Busy(o, "list")' \/ Busy(o, "remove")' => p \in Job(o)'.ports
                    /\ o \in ownerQueue' \/ Working(o)' \/ (o \in listed' /\ Live(o)')
  BY DEF PortsGuarded, Busy, Job
<1>1. Undisturbed({"failed command"})
  BY DisturbedGrows DEF Undisturbed
<1>2. <<o, p>> \notin dropped
  BY PortsSteps DEF ChangePorts
<1>3. o \in Owners
  OBVIOUS
<1>4. CASE <<o, p>> \notin ipset
  <2>1. SetUp(o)
    <3>1. ASSUME NEW x \in Owners, SetUp(x) PROVE x = o
      <4>1. <<o, p>> \in {x} \X job[Kind[x]].ports
        BY <1>4, <3>1 DEF SetUp, AddIpsetEntry
      <4> QED BY <4>1
    <3> QED BY <1>4, <3>1, IpsetSteps DEF ConfigureBridge, RemoveRoute, DelIpsetEntry
  <2>2. Working(o) /\ Busy(o, "setup") /\ Job(o)' = Idle
    BY <1>3, <2>1, EndEffect DEF Busy, Working, Job
  <2>3. UNCHANGED <<guarded, listed, owners, ownerQueue>>
    BY <2>1 DEF SetUp, objects, specs, queues
  <2>4. ~PortsDone(o)' /\ ~Busy(o, "list")' /\ ~Busy(o, "remove")'
    BY <2>2 DEF PortsDone, Busy, Job
  <2>5. o \in guarded /\ (o \in ownerQueue \/ (o \in listed /\ Live(o)))
    BY <1>3, <2>2 DEF JobsMakeSense, ReadsAreFresh
  <2> QED BY <2>3, <2>4, <2>5 DEF Live
<1>5. CASE <<o, p>> \in ipset
  <2>1. /\ o \in guarded /\ ~PortsDone(o) /\ owners[o] \in {"live", "deleting"}
        /\ Busy(o, "list") \/ Busy(o, "remove") => p \in Job(o).ports
    BY <1>1, <1>2, <1>5 DEF PortsGuarded, TypeOK
  <2>2. o \in guarded' /\ ~UnguardOwner(o)
    <3>1. ~UnguardOwner(o)
      BY <1>3, <2>1, EndEffect DEF PortsDone
    <3> QED BY <1>3, <2>1, <3>1, OwnerTrace
  <2>3. ~RemoveRoute(o)
    <3> SUFFICES ASSUME RemoveRoute(o) PROVE FALSE
      OBVIOUS
    <3>1. Busy(o, "remove") /\ Job(o).left \in Suffixes(o)
      BY <1>3, RemoveRouteEffect
    <3>2. Head(Job(o).left) = "public"
      BY <1>3, <2>1, <3>1, SuffixFacts DEF PortsDone
    <3>3. ~Mark({"failed command"})
      BY MarkFacts DEF Undisturbed, Disturbances
    <3>4. ipset' = ipset \ ({o} \X Job(o).ports)
      BY <3>2, <3>3 DEF RemoveRoute, DelIpsetEntry, Job
    <3> QED BY <2>1, <3>1, <3>4
  <2>4. ~PortsDone(o)'
    <3> SUFFICES ASSUME PortsDone(o)' PROVE FALSE
      OBVIOUS
    <3>1. Working(o)'
      BY DEF PortsDone, Busy, Working, Job
    <3>2. Pools[o] # <<"alt">>
      BY <1>3, PoolsAreLeft
    <3>3. ~UNCHANGED Job(o)
      BY <2>1 DEF PortsDone, Busy, Job
    <3>4. ~BeginReconcile(o) /\ ~BeginCleanup(o)
      BY <1>3, <3>2, BeginReconcileEffect, BeginCleanupEffect DEF Moved, PortsDone, Busy, Job
    <3>5. ~SetUp(o)
      BY <1>3, <3>1, EndEffect DEF Working
    <3>6. ~ListProxies(o)
      BY <1>3, <2>1, ListProxiesEffect DEF Moved, PortsDone, Busy, Job
    <3> QED BY <1>3, <2>2, <2>3, <3>1, <3>3, <3>4, <3>5, <3>6, JobTrace
  <2>6. Busy(o, "list")' \/ Busy(o, "remove")' => p \in Job(o)'.ports
    <3> SUFFICES ASSUME Busy(o, "list")' \/ Busy(o, "remove")' PROVE p \in Job(o)'.ports
      OBVIOUS
    <3>1. Working(o)' /\ (Job(o)'.stage = "list" \/ Job(o)'.stage = "remove")
      BY DEF Busy, Working, Job
    <3>2. CASE UNCHANGED Job(o)
      BY <2>1, <3>1, <3>2 DEF Busy, Working, Job
    <3>3. CASE BeginReconcile(o) \/ BeginCleanup(o)
      <4>1. p \in ports[o]
        BY <1>2, <1>5 DEF PortsKnown
      <4> QED BY <3>1, <3>3, <4>1, BeginReconcileEffect, BeginCleanupEffect DEF Moved
    <3>4. CASE ListProxies(o)
      BY <2>1, <3>4, ListProxiesEffect DEF Moved
    <3>5. ~SetUp(o)
      BY <3>1, EndEffect DEF Working
    <3> QED BY <2>2, <2>3, <3>1, <3>2, <3>3, <3>4, <3>5, JobTrace
  <2>5. o \in ownerQueue' \/ Working(o)' \/ (o \in listed' /\ Live(o)')
    <3>1. CASE o \in ownerQueue
      <4>1. o \in ownerQueue' \/ BeginReconcile(o) \/ BeginCleanup(o)
        BY <1>3, <2>1, <3>1, QueueTrace
      <4> QED BY <1>3, <4>1, BeginReconcileEffect, BeginCleanupEffect DEF Moved, Working
    <3>2. CASE Working(o)
      <4>1. CASE UNCHANGED Job(o)
        BY <3>2, <4>1 DEF Working
      <4>2. CASE Restart
        BY <1>3, <2>1, <4>2 DEF Restart
      <4>3. CASE BeginReconcile(o) \/ BeginCleanup(o) \/ ListProxies(o)
        BY <1>3, <4>3, BeginReconcileEffect, BeginCleanupEffect, ListProxiesEffect DEF Moved, Working
      <4>4. CASE SetUp(o)
        <5>1. Busy(o, "setup") /\ UNCHANGED <<owners, listed, ownerQueue>>
          BY <1>3, <4>4, EndEffect DEF SetUp, objects, specs, queues
        <5> QED BY <1>3, <5>1 DEF ReadsAreFresh, Live
      <4> QED BY <1>3, <2>2, <2>3, <3>2, <4>1, <4>2, <4>3, <4>4, JobTrace
    <3>3. CASE o \in listed /\ Live(o)
      BY <1>3, <2>1, <3>3, QueuedAfterwards DEF Live
    <3> QED BY <1>1, <1>2, <1>5, <3>1, <3>2, <3>3 DEF PortsGuarded
  <2> QED BY <2>2, <2>4, <2>5, <2>6
<1> QED BY <1>4, <1>5

LEMMA PortsKnownStep == ASSUME IInv, [Next]_vars PROVE PortsKnown'
<1> USE DEF IInv
<1> SUFFICES ASSUME NEW o \in Owners, NEW p \in Ports, <<o, p>> \notin dropped',
                    <<o, p>> \in ipset' \/ (Working(o)' /\ p \in Job(o)'.ports)
             PROVE  p \in ports'[o]
  BY DEF PortsKnown, Working, Job
<1>1. <<o, p>> \notin dropped /\ (p \in ports[o] => p \in ports'[o])
  <2>1. ASSUME NEW x \in Owners, NEW ps \in SUBSET Ports, ChangePorts(x, ps)
        PROVE  <<o, p>> \notin dropped /\ (p \in ports[o] => p \in ports'[o])
    BY <2>1 DEF ChangePorts, TypeOK
  <2> QED BY <2>1, PortsSteps
<1>2. CASE <<o, p>> \in ipset \/ (Working(o) /\ p \in Job(o).ports)
  BY <1>1, <1>2 DEF PortsKnown
<1>3. CASE <<o, p>> \in ipset' /\ <<o, p>> \notin ipset
  <2>1. ASSUME NEW x \in Owners, SetUp(x) PROVE x = o /\ p \in Job(o).ports
    <3>1. <<o, p>> \in {x} \X Job(x).ports
      BY <1>3, <2>1 DEF SetUp, AddIpsetEntry, Job
    <3> QED BY <3>1
  <2>2. SetUp(o)
    BY <1>3, <2>1, IpsetSteps DEF ConfigureBridge, RemoveRoute, DelIpsetEntry
  <2>3. Working(o)
    BY <2>2, EndEffect DEF Busy, Working, Job
  <2> QED BY <1>2, <2>1, <2>2, <2>3
<1>4. CASE Working(o)' /\ p \in Job(o)'.ports /\ ~(Working(o) /\ p \in Job(o).ports)
  <2>1. ~UNCHANGED Job(o)
    BY <1>4 DEF Working
  <2>2. CASE BeginReconcile(o) \/ BeginCleanup(o)
    BY <1>1, <1>4, <2>2, BeginReconcileEffect, BeginCleanupEffect DEF Moved
  <2>3. ~ListProxies(o)
    BY <1>4, ListProxiesEffect DEF Moved, Busy, Working, Job
  <2>4. ~RemoveRoute(o)
    <3> SUFFICES ASSUME RemoveRoute(o) PROVE FALSE
      OBVIOUS
    <3>1. Working(o)
      BY RemoveRouteEffect DEF Busy, Working, Job
    <3>2. Job(o)'.ports = Job(o).ports \/ Job(o)'.ports = {}
      BY <1>4, RemoveRouteEffect DEF Moved, Working
    <3> QED BY <1>4, <3>1, <3>2
  <2>5. ~SetUp(o) /\ ~UnguardOwner(o)
    BY <1>4, EndEffect DEF Working
  <2> QED BY <1>4, <2>1, <2>2, <2>3, <2>4, <2>5, JobTrace
<1> QED BY <1>2, <1>3, <1>4

LEMMA ReadsStep == ASSUME IInv, [Next]_vars PROVE ReadsAreFresh'
<1> USE DEF IInv
<1> SUFFICES ASSUME NEW o \in Owners, Working(o)'
             PROVE  /\ Job(o)'.stage = "setup" => o \in ownerQueue' \/ (o \in listed' /\ Live(o)')
                    /\ Job(o)'.stage # "setup" /\ ~Job(o)'.final => o \in ownerQueue' \/ o \notin listed'
  BY DEF ReadsAreFresh, Busy, Working, Job
<1>1. CASE UNCHANGED Job(o)
  <2>1. Working(o) /\ Job(o) # Idle
    BY <1>1 DEF Working
  <2>2. o \in guarded /\ owners[o] \in {"live", "deleting"}
    BY <2>1 DEF JobsMakeSense, TypeOK
  <2>3. o \in ownerQueue => o \in ownerQueue'
    BY <2>1, <2>2, QueueTrace, BeginReconcileEffect, BeginCleanupEffect
  <2>4. Job(o).stage = "setup" => o \in ownerQueue \/ (o \in listed /\ Live(o))
    BY <2>1 DEF ReadsAreFresh, Busy, Working, Job
  <2>5. Job(o).stage # "setup" /\ ~Job(o).final => o \in ownerQueue \/ o \notin listed
    BY <2>1 DEF ReadsAreFresh
  <2> QED BY <1>1, <2>2, <2>3, <2>4, <2>5, QueuedAfterwards
<1>2. CASE BeginReconcile(o)
  <2>1. UNCHANGED <<owners, listed>> /\ Live(o)
    BY <1>2 DEF BeginReconcile
  <2> QED BY <1>2, <2>1, BeginReconcileEffect DEF Moved, Live
<1>3. CASE BeginCleanup(o)
  BY <1>3, BeginCleanupEffect DEF Moved
<1>4. CASE ListProxies(o) \/ RemoveRoute(o)
  <2>1. UNCHANGED <<listed, ownerQueue>>
    BY <1>4 DEF ListProxies, RemoveRoute, objects, specs, queues
  <2>2. Working(o) /\ Job(o).stage # "setup"
    BY <1>4, ListProxiesEffect, RemoveRouteEffect DEF Busy, Working, Job
  <2>3. Job(o)'.stage # "setup" /\ (~Job(o)'.final => ~Job(o).final)
    BY <1>4, ListProxiesEffect, RemoveRouteEffect DEF Moved, Working
  <2> QED BY <2>1, <2>2, <2>3 DEF ReadsAreFresh
<1>5. CASE SetUp(o) \/ UnguardOwner(o)
  BY <1>5, EndEffect DEF Working
<1> QED BY <1>1, <1>2, <1>3, <1>4, <1>5, JobTrace

LEMMA PortsDueStep == ASSUME IInv, [Next]_vars PROVE PortsDue'
<1> USE DEF IInv
<1> SUFFICES ASSUME Undisturbed({"late flush", "failed command"})', NEW o \in listed', Live(o)',
                    o \notin ownerQueue'
             PROVE  \/ Busy(o, "setup")' /\ ports'[o] \subseteq Job(o)'.ports
                    \/ {o} \X ports'[o] \subseteq ipset'
  BY DEF PortsDue, Busy, Job
<1>1. Undisturbed({"late flush", "failed command"})
  BY DisturbedGrows DEF Undisturbed
<1>2. o \in Owners
  BY TypeStep DEF TypeOK
<1>3. o \in listed /\ Live(o)
  BY <1>2, QueuedAfterwards
<1>7. ports'[o] = ports[o]
  <2>1. ASSUME NEW x \in Owners, NEW ps \in SUBSET Ports, ChangePorts(x, ps) PROVE ports'[o] = ports[o]
    BY <1>2, <2>1 DEF ChangePorts, SeeOwner, TypeOK
  <2> QED BY <2>1, PortsSteps
<1>4. CASE o \in ownerQueue
  <2>1. BeginReconcile(o)
    BY <1>2, <1>3, <1>4, QueueTrace DEF Live
  <2> QED BY <1>2, <1>3, <1>7, <2>1, BeginReconcileEffect DEF Moved, Busy, Job
<1>5. CASE Busy(o, "setup") /\ ports[o] \subseteq Job(o).ports
  <2>2. CASE UNCHANGED Job(o)
    BY <1>5, <1>7, <2>2 DEF Busy, Job
  <2>3. CASE Restart
    BY <1>2, <1>3, <2>3 DEF Restart, Live
  <2>4. CASE SetUp(o)
    <3>1. ~Mark({"failed command"})
      BY MarkFacts DEF Undisturbed, Disturbances
    <3>2. ipset' = ipset \cup ({o} \X Job(o).ports)
      BY <2>4, <3>1 DEF SetUp, AddIpsetEntry, Job
    <3> QED BY <1>5, <1>7, <3>2
  <2> QED BY <1>2, <1>5, <2>2, <2>3, <2>4, SetupTrace
<1>6. CASE {o} \X ports[o] \subseteq ipset /\ o \notin ownerQueue
  <2>1. ConfigureBridge => ipset = {} /\ ipset' = {}
    <3> SUFFICES ASSUME ConfigureBridge, ipset # {} PROVE FALSE
      BY DEF ConfigureBridge
    <3>1. Mark({"late flush"})
      BY DEF ConfigureBridge, If
    <3> QED BY <3>1, MarkFacts DEF Undisturbed, Disturbances
  <2>2. ~RemoveRoute(o)
    <3> SUFFICES ASSUME RemoveRoute(o) PROVE FALSE
      OBVIOUS
    <3>1. Working(o) /\ Job(o).stage = "remove"
      BY <1>2, RemoveRouteEffect DEF Busy, Working, Job
    <3>2. ~Job(o).final
      BY <1>2, <1>3, <3>1 DEF JobsMakeSense, Live
    <3> QED BY <1>2, <1>3, <1>6, <3>1, <3>2 DEF ReadsAreFresh
  <2>3. UNCHANGED ipset \/ ConfigureBridge \/ \E p \in Owners : SetUp(p) \/ RemoveRoute(p)
    BY IpsetSteps
  <2>4. ASSUME NEW p \in Owners, SetUp(p) PROVE {o} \X ports[o] \subseteq ipset'
    BY <1>6, <2>4 DEF SetUp, AddIpsetEntry
  <2>5. ASSUME NEW p \in Owners, RemoveRoute(p), p # o PROVE {o} \X ports[o] \subseteq ipset'
    BY <1>6, <2>5 DEF RemoveRoute, DelIpsetEntry
  <2> QED BY <1>6, <1>7, <2>1, <2>2, <2>3, <2>4, <2>5
<1> QED BY <1>1, <1>3, <1>4, <1>5, <1>6 DEF PortsDue

LEMMA GatewaysDueStep == ASSUME IInv, [Next]_vars PROVE GatewaysDue'
<1> USE DEF IInv
<1> SUFFICES ASSUME Undisturbed({"overtaken nudge", "failed command"})', NEW o \in listed', Live(o)',
                    o \notin ownerQueue'
             PROVE  \/ Busy(o, "setup")' /\ written'[o] \subseteq Job(o)'.found
                    \/ {o} \X written'[o] \subseteq gateways'
  BY DEF GatewaysDue
<1>1. Undisturbed({"overtaken nudge", "failed command"})
  BY DisturbedGrows DEF Undisturbed
<1>2. o \in Owners
  BY TypeStep DEF TypeOK
<1>3. o \in listed /\ Live(o)
  BY <1>2, QueuedAfterwards
<1>4. written'[o] = written[o]
  <2>1. ASSUME NEW p \in Owners, NEW e \in Endpoints, ChangeEndpoint(p, e) PROVE written'[o] = written[o]
    BY <1>2, <2>1 DEF ChangeEndpoint, SeeOwner, TypeOK
  <2> QED BY <2>1, WrittenSteps
<1>5. ~Restart
  BY <1>2, <1>3 DEF Restart, Live
<1>6. CASE o \in ownerQueue
  <2>1. BeginReconcile(o)
    BY <1>2, <1>3, <1>6, QueueTrace DEF Live
  <2>2. endpoints[o] = written[o]
    <3> SUFFICES ASSUME endpoints[o] # written[o] PROVE FALSE
      OBVIOUS
    <3>1. Mark({"overtaken nudge"})
      BY <2>1 DEF BeginReconcile, If
    <3> QED BY <3>1, MarkFacts DEF Undisturbed, Disturbances
  <2> QED BY <1>2, <1>3, <1>4, <2>1, <2>2, BeginReconcileEffect DEF Moved, Busy, Job
<1>7. CASE Busy(o, "setup") /\ written[o] \subseteq Job(o).found
  <2>2. CASE UNCHANGED Job(o)
    BY <1>4, <1>7, <2>2 DEF Busy, Job
  <2>4. CASE SetUp(o)
    <3>1. ~Mark({"failed command"})
      BY MarkFacts DEF Undisturbed, Disturbances
    <3>2. gateways' = gateways \cup ({o} \X Job(o).found)
      BY <2>4, <3>1 DEF SetUp, configureServices, Job
    <3> QED BY <1>4, <1>7, <3>2
  <2> QED BY <1>2, <1>5, <1>7, <2>2, <2>4, SetupTrace
<1>8. CASE {o} \X written[o] \subseteq gateways
  <2>1. ASSUME NEW p \in Owners, SetUp(p) PROVE gateways \subseteq gateways'
    BY <2>1 DEF SetUp, configureServices
  <2>2. ASSUME NEW p \in Owners, BeginCleanup(p) PROVE {o} \X written[o] \subseteq gateways'
    <3>1. p # o
      BY <1>3, <2>2 DEF BeginCleanup, Live
    <3>2. gateways \ ({p} \X written[p]) \subseteq gateways'
      BY <2>2 DEF BeginCleanup, cleanupPFC
    <3> QED BY <1>8, <3>1, <3>2
  <2> QED BY <1>4, <1>5, <1>8, <2>1, <2>2, GatewaysSteps
<1> QED BY <1>1, <1>3, <1>6, <1>7, <1>8 DEF GatewaysDue

LEMMA RoutesDueStep == ASSUME IInv, [Next]_vars PROVE RoutesDue'
<1> USE DEF IInv
<1> SUFFICES ASSUME Undisturbed({"unlisted pod", "joined route", "overlooked user"})',
                    NEW o \in Owners, Live(o)', pods'[o] = "ready", o \notin podQueue',
                    podJob' # o
             PROVE  RoutesOf(o) \subseteq routes'
  BY DEF RoutesDue
<1>1. Undisturbed({"unlisted pod", "joined route", "overlooked user"})
  BY DisturbedGrows DEF Undisturbed
<1>2. pods \in [Owners -> {"none", "ready", "deleting"}]
  BY DEF TypeOK
<1>3. Live(o) /\ pods[o] = "ready"
  <2>1. pods[o] = "ready"
    BY <1>2, PodsSteps DEF CreatePod, SeePod, DeletePod, EndPod
  <2> QED BY <2>1, OwnerTrace DEF PodsAfterOwners, Live
<1>6. ~Restart
  BY <1>3 DEF Restart
<1>4. o \notin podQueue
  <2> SUFFICES ASSUME o \in podQueue PROVE FALSE
    OBVIOUS
  <2>1. SkipPod(o) \/ BeginPod(o)
    BY <1>6, PodQueueSteps
  <2> QED BY <1>3, <2>1 DEF SkipPod, BeginPod, Live
<1>7. CASE podJob = o
  <2>1. AddRoutes(o)
    BY <1>6, <1>7, PodJobSteps
  <2>2. bridge
    BY <2>1 DEF AddRoutes
  <2> QED BY <2>1, <2>2 DEF AddRoutes, AddMultusRoutes
<1>5. CASE RoutesOf(o) \subseteq routes
  <2>1. ASSUME NEW p \in Owners, RemoveRoute(p) PROVE RoutesOf(o) \subseteq routes'
    <3> SUFFICES ASSUME NEW r \in RoutesOf(o), r \notin routes' PROVE FALSE
      OBVIOUS
    <3> DEFINE users == UNION {Users(p, route) : route \in Job(p).doomed}
               ds == If(Live(p) /\ pods[p] = "ready", "unlisted pod")
                     \cup If(users # {}, IF InUse(p, Head(Job(p).left)) THEN "joined route"
                                         ELSE "overlooked user")
    <3>1. r \in Job(p).doomed /\ Mark(ds)
      BY <1>5, <2>1 DEF RemoveRoute, Job
    <3>2. ds \in SUBSET Disturbances
      BY DEF If, Disturbances
    <3>3. ds \cap {"unlisted pod", "joined route", "overlooked user"} # {}
      <4>1. CASE p = o
        BY <1>3, <4>1 DEF If
      <4>2. CASE p # o
        <5>1. o \in Users(p, r)
          BY <1>3, <4>2 DEF Users, Sharers
        <5>2. o \in users
          BY <3>1, <5>1
        <5> HIDE DEF users
        <5> QED BY <5>2 DEF If
      <4> QED BY <4>1, <4>2
    <3> HIDE DEF ds
    <3> QED BY <3>1, <3>2, <3>3, MarkFacts DEF Undisturbed
  <2>2. ASSUME NEW p \in Owners, AddRoutes(p) PROVE RoutesOf(o) \subseteq routes'
    BY <1>5, <2>2 DEF AddRoutes, AddMultusRoutes
  <2> QED BY <1>5, <2>1, <2>2, RoutesSteps
<1> QED BY <1>1, <1>3, <1>4, <1>5, <1>7 DEF RoutesDue

LEMMA RoutesOwnedStep == ASSUME IInv, [Next]_vars PROVE RoutesOwned'
<1> USE DEF IInv
<1> SUFFICES ASSUME Undisturbed({"late pod", "early delete", "kept route", "failed command"})',
                    NEW r \in routes'
             PROVE  \E o \in Owners : Answers(o, r)'
  BY DEF RoutesOwned
<1>1. Undisturbed({"late pod", "early delete", "kept route", "failed command"})
  BY DisturbedGrows DEF Undisturbed
<1>2. CASE r \notin routes
  <2>1. PICK p \in Owners : AddRoutes(p)
    BY <1>2, RoutesSteps DEF RemoveRoute
  <2>2. r \in RoutesOf(p) /\ UNCHANGED owners
    BY <1>2, <2>1 DEF AddRoutes, AddMultusRoutes, objects
  <2>3. Live(p)
    <3> SUFFICES ASSUME ~Live(p) PROVE FALSE
      OBVIOUS
    <3>1. bridge /\ Mark({"late pod"})
      BY <1>2, <2>1 DEF AddRoutes, If
    <3> QED BY <3>1, MarkFacts DEF Undisturbed, Disturbances
  <2> QED BY <2>2, <2>3 DEF Answers, Live
<1>3. CASE r \in routes
  <2>1. PICK o \in Owners : Answers(o, r)
    BY <1>1, <1>3 DEF RoutesOwned
  <2>2. CASE Live(o)
    <3>1. ~Final(o) /\ ~UnguardOwner(o)
      <4>1. ~Final(o)
        BY <2>2 DEF Final, JobsMakeSense, Live
      <4> QED BY <4>1, EndEffect DEF Final, JobsMakeSense, Busy, Working, Job
    <3>2. CASE DeleteOwner(o)
      <4>1. o \in guarded
        <5> SUFFICES ASSUME o \notin guarded PROVE FALSE
          OBVIOUS
        <5>1. Mark({"early delete"})
          BY <3>2 DEF DeleteOwner, If
        <5> QED BY <5>1, MarkFacts DEF Undisturbed, Disturbances
      <4>2. owners'[o] = "deleting" /\ UNCHANGED job
        BY <3>2, <4>1 DEF DeleteOwner, TypeOK, jobs
      <4> QED BY <2>1, <3>1, <4>2 DEF Answers, Final, Working, Job
    <3>3. CASE ~DeleteOwner(o)
      BY <2>1, <2>2, <3>1, <3>3, OwnerTrace DEF Answers, Live
    <3> QED BY <3>2, <3>3
  <2>3. CASE owners[o] = "deleting" /\ (Final(o) => r \in RoutesLeft(o))
    <3>1. ~Busy(o, "unguard") /\ ~UnguardOwner(o)
      <4>1. ~Busy(o, "unguard")
        BY <2>3 DEF RoutesLeft, JobsMakeSense, Final, Busy, Working, Job
      <4> QED BY <4>1, EndEffect
    <3>2. owners'[o] = "deleting" /\ ~Live(o)
      BY <2>3, <3>1, OwnerTrace DEF Live
    <3>3. CASE ~Final(o)'
      BY <2>1, <3>2, <3>3 DEF Answers
    <3>4. CASE Final(o)' /\ UNCHANGED Job(o)
      <4>1. Final(o) /\ RoutesLeft(o)' = RoutesLeft(o)
        BY <3>4 DEF Final, Working, RoutesLeft, Busy, Job
      <4> QED BY <2>1, <2>3, <3>2, <4>1 DEF Answers
    <3>5. CASE BeginCleanup(o)
      <4>1. RoutesLeft(o)' = RoutesOf(o)
        <5>1. Moved(o, "list", TRUE, Pools[o], {}, {}, ports[o])
          BY <3>5, BeginCleanupEffect
        <5>2. Busy(o, "list")' /\ Job(o)'.left = Pools[o]
          BY <5>1 DEF Moved, Busy, Job
        <5>3. RoutesLeft(o)' = RoutesVia(o, Pools[o])
          BY <5>2 DEF RoutesLeft, RoutesVia
        <5> QED BY <5>3, PoolsAreLeft
      <4> QED BY <2>1, <3>2, <4>1 DEF Answers
    <3>6. CASE Final(o)' /\ ListProxies(o)
      <4> DEFINE left == Job(o).left
                 doomed == IF InUse(o, Head(left)) THEN {} ELSE {Route(o, Head(left))}
      <4>1. /\ Busy(o, "list") /\ Moved(o, "remove", Job(o).final, left, doomed, {}, Job(o).ports)
        BY <3>6, ListProxiesEffect
      <4>2. Final(o) /\ left \in Suffixes(o)
        BY <3>6, <4>1 DEF Final, Working, Moved, Busy, Job, JobsMakeSense
      <4>3. r = Route(o, Head(left)) \/ r \in RoutesVia(o, Tail(left))
        <5>1. r \in RoutesVia(o, left)
          BY <2>3, <4>1, <4>2 DEF RoutesLeft
        <5>2. RoutesVia(o, left) = {Route(o, Head(left))} \cup RoutesVia(o, Tail(left))
          BY <4>2, SuffixFacts
        <5> QED BY <5>1, <5>2
      <4>4. RoutesLeft(o)' = doomed \cup RoutesVia(o, Tail(left))
        <5> HIDE DEF left, doomed
        <5>1. Busy(o, "remove")' /\ ~Busy(o, "list")' /\ Job(o)'.doomed = doomed /\ Job(o)'.left = left
          BY <4>1 DEF Moved, Busy, Job
        <5> QED BY <5>1 DEF RoutesLeft, RoutesVia
      <4>5. CASE r \in RoutesLeft(o)'
        BY <2>1, <3>2, <4>5 DEF Answers
      <4>6. CASE r \notin RoutesLeft(o)'
        <5>1. InUse(o, Head(left)) /\ r = Route(o, Head(left))
          BY <4>3, <4>4, <4>6
        <5>2. Sharers(o, r) # {}
          <6> SUFFICES ASSUME Sharers(o, r) = {} PROVE FALSE
            OBVIOUS
          <6>1. Mark({"kept route"})
            BY <3>6, <5>1 DEF ListProxies, If, Job
          <6> QED BY <6>1, MarkFacts DEF Undisturbed, Disturbances
        <5>3. PICK s \in Owners : Live(s) /\ r \in RoutesOf(s)
          BY <5>2 DEF Sharers
        <5>4. UNCHANGED owners
          BY <3>6 DEF ListProxies, objects
        <5> QED BY <5>3, <5>4 DEF Answers, Live
      <4> QED BY <4>5, <4>6
    <3>7. CASE Final(o)' /\ RemoveRoute(o)
      <4> DEFINE left == Job(o).left
      <4>1. Busy(o, "remove") /\ left \in Suffixes(o)
        BY <3>7, RemoveRouteEffect
      <4>2. Final(o)
        BY <3>7, <4>1, RemoveRouteEffect DEF Final, Working, Moved, Busy, Job
      <4>3. r \notin Job(o).doomed
        <5>1. ~Mark({"failed command"})
          BY MarkFacts DEF Undisturbed, Disturbances
        <5> QED BY <3>7, <5>1 DEF RemoveRoute, Job
      <4>4. r \in RoutesVia(o, Tail(left))
        <5>1. ~Busy(o, "list")
          BY <4>1 DEF Busy
        <5> QED BY <2>3, <4>1, <4>2, <4>3, <5>1 DEF RoutesLeft
      <4>5. Tail(left) # <<>>
        <5>1. RoutesVia(o, <<>>) = {}
          BY PoolsAreLeft
        <5> QED BY <4>4, <5>1
      <4>6. RoutesLeft(o)' = RoutesVia(o, Tail(left))
        <5>1. Moved(o, "list", Job(o).final, Tail(left), {}, {}, Job(o).ports)
          BY <3>7, <4>5, RemoveRouteEffect
        <5> HIDE DEF left
        <5>2. Busy(o, "list")' /\ Job(o)'.left = Tail(left)
          BY <5>1 DEF Moved, Busy, Job
        <5> QED BY <5>2 DEF RoutesLeft, RoutesVia
      <4> QED BY <2>1, <3>2, <4>4, <4>6 DEF Answers
    <3>8. Final(o)' => ~SetUp(o) /\ ~BeginReconcile(o) /\ Working(o)'
      BY <3>2, EndEffect DEF Final, Working, BeginReconcile
    <3> QED BY <3>1, <3>3, <3>4, <3>5, <3>6, <3>7, <3>8, JobTrace
  <2> QED BY <2>1, <2>2, <2>3 DEF Answers
<1> QED BY <1>2, <1>3

-----------------------------------------------------------------------------
\* The invariant, and the properties.

LEMMA IInvInit == Init => IInv
<1> SUFFICES ASSUME Init PROVE IInv
  OBVIOUS
<1>1. PICK there \in SUBSET Owners :
               /\ owners = [o \in Owners |-> IF o \in there THEN "live" ELSE "none"]
               /\ pods = [o \in Owners |-> IF o \in there THEN "ready" ELSE "none"]
               /\ written = [o \in Owners |-> IF o \in there THEN Endpoints ELSE {}]
               /\ listed = there /\ ownerQueue = there /\ podQueue = there
  BY DEF Init
<1>2. /\ endpoints = written /\ guarded = {} /\ routes = {} /\ bridge = FALSE /\ ipset = {}
      /\ gateways = {} /\ prefixQueue = TRUE /\ job = [k \in Kinds |-> Idle]
      /\ ports = FirstPorts /\ dropped = {} /\ podJob = Idle /\ changes = 0 /\ faults = 0 /\ disturbed = {}
  BY DEF Init
<1>3. TypeOK
  <2>1. /\ owners \in [Owners -> {"none", "live", "deleting", "gone"}]
        /\ pods \in [Owners -> {"none", "ready", "deleting"}]
        /\ written \in [Owners -> SUBSET Endpoints] /\ endpoints \in [Owners -> SUBSET Endpoints]
        /\ listed \subseteq Owners /\ ownerQueue \subseteq Owners /\ podQueue \subseteq Owners
    BY <1>1, <1>2
  <2>2. job \in [Kinds -> {Idle} \cup Tasks] /\ \A k \in Kinds : job[k] = Idle
    BY <1>2
  <2>3. changes \in 0 .. MaxChanges /\ faults \in 0 .. MaxFaults
    BY <1>2
  <2> QED BY <1>2, <2>1, <2>2, <2>3 DEF TypeOK
<1>4. \A o \in Owners : ~Working(o)
  BY <1>2 DEF Working, Job
<1>5. JobsMakeSense /\ DeletionsDue /\ PodsAfterOwners
  BY <1>1, <1>4 DEF JobsMakeSense, DeletionsDue, PodsAfterOwners
<1>6. PortsGuarded /\ PortsKnown /\ ReadsAreFresh /\ RoutesOwned
  BY <1>2, <1>4 DEF PortsGuarded, PortsKnown, ReadsAreFresh, RoutesOwned, Busy, Working, Job
<1>7. PortsDue /\ GatewaysDue /\ RoutesDue
  BY <1>1 DEF PortsDue, GatewaysDue, RoutesDue, Live
<1> QED BY <1>3, <1>5, <1>6, <1>7 DEF IInv

LEMMA IInvStep == IInv /\ [Next]_vars => IInv'
BY TypeStep, JobsStep, DeletionsStep, PodsAfterStep, PortsGuardedStep, PortsKnownStep, ReadsStep, PortsDueStep,
   GatewaysDueStep, RoutesDueStep, RoutesOwnedStep DEF IInv

\* The inductive invariant: whatever the agent has yet to do is queued, or is
\* what one of its workers is about.
THEOREM Invariant == Spec => []IInv
BY IInvInit, IInvStep, PTL DEF Spec

\* The agent's state has its type; there are no routes without the bridge, and
\* only an owner that is there has the finalizer.
THEOREM TypeCorrect == Spec => []TypeOK
<1>1. IInv => TypeOK
  BY DEF IInv
<1> QED BY <1>1, Invariant, PTL

\* At rest every running pod's owner has its routes, but for the three ways in
\* which RemoveMultusRoute() takes away one that somebody uses.
THEOREM PodsHaveRoutesHolds == Spec => []PodsHaveRoutes
<1>1. IInv => PodsHaveRoutes
  BY DEF IInv, PodsHaveRoutes, RoutesDue, Quiet
<1> QED BY <1>1, Invariant, PTL

\* At rest every route is one of a live owner: whoever is deleted removes its
\* routes or leaves them to one that shares them.
THEOREM RoutesHaveOwnersHolds == Spec => []RoutesHaveOwners
<1>1. ASSUME IInv, Quiet, NEW o \in Owners, NEW r, Answers(o, r)
      PROVE  Live(o) /\ r \in RoutesOf(o)
  <2>1. ~Working(o) /\ ownerQueue = {}
    BY <1>1 DEF Quiet, Working, Job
  <2> QED BY <1>1, <2>1 DEF IInv, DeletionsDue, Final, Answers
<1>2. IInv => RoutesHaveOwners
  <2> SUFFICES ASSUME IInv, Quiet, NEW r \in routes,
                      Undisturbed({"late pod", "early delete", "kept route", "failed command"})
               PROVE  \E o \in Owners : Live(o) /\ r \in RoutesOf(o)
    BY DEF RoutesHaveOwners
  <2>1. PICK o \in Owners : Answers(o, r)
    BY DEF IInv, RoutesOwned
  <2> QED BY <1>1, <2>1
<1> QED BY <1>2, Invariant, PTL

\* At rest the open ports are those of the live owners with a pod here, and some
\* that were once removed from their owner's spec.
THEOREM PortsMatchPodsHolds == Spec => []PortsMatchPods
<1>1. IInv => PortsMatchPods
  <2> SUFFICES ASSUME IInv, Quiet, Undisturbed({"failed command"}), NEW o \in Owners, NEW p \in Ports
               PROVE  /\ Exposed(o, p) /\ Undisturbed({"late flush"}) => <<o, p>> \in ipset
                      /\ <<o, p>> \in ipset => Exposed(o, p) \/ <<o, p>> \in dropped
    BY DEF PortsMatchPods
  <2>1. ~Working(o) /\ ~Busy(o, "setup") /\ o \notin ownerQueue
    BY DEF Quiet, Working, Busy, Job
  <2>2. ASSUME <<o, p>> \in ipset, <<o, p>> \notin dropped PROVE Exposed(o, p)
    BY <2>1, <2>2 DEF IInv, PortsGuarded, PortsKnown, Undisturbed, Exposed
  <2>3. ASSUME Exposed(o, p), Undisturbed({"late flush"}) PROVE <<o, p>> \in ipset
    <3>1. Undisturbed({"late flush", "failed command"})
      BY <2>3 DEF Undisturbed
    <3>2. {o} \X ports[o] \subseteq ipset
      BY <2>1, <2>3, <3>1 DEF IInv, PortsDue, Exposed
    <3> QED BY <2>3, <3>2 DEF Exposed
  <2> QED BY <2>2, <2>3
<1> QED BY <1>1, Invariant, PTL

\* No port stays open for an owner that is gone, unless it was removed from the
\* spec before: the finalizer is given up only after the work on the public
\* address.
THEOREM GonePortsClosedHolds == Spec => []GonePortsClosed
<1>1. IInv => GonePortsClosed
  BY DEF IInv, TypeOK, PortsGuarded, GonePortsClosed
<1> QED BY <1>1, Invariant, PTL

\* At rest every pod here has a gateway to each of its owner's endpoints.
THEOREM PodsHaveGatewaysHolds == Spec => []PodsHaveGateways
<1>1. IInv => PodsHaveGateways
  <2> SUFFICES ASSUME IInv, Quiet, NEW o \in listed, Live(o),
                      Undisturbed({"overtaken nudge", "failed command"})
               PROVE  {o} \X written[o] \subseteq gateways
    BY DEF PodsHaveGateways
  <2>1. o \in Owners /\ ~Busy(o, "setup") /\ o \notin ownerQueue
    BY DEF IInv, TypeOK, Quiet, Busy
  <2> QED BY <2>1 DEF IInv, GatewaysDue
<1> QED BY <1>1, Invariant, PTL

-----------------------------------------------------------------------------
\* Whom the list of proxies does not show: LoadBalancers, and the namesakes that
\* proxies have in other namespaces.

\* Owners that share a route are proxies of different names.
SharersListed == \A o, other \in Owners :
    o # other /\ RoutesOf(o) \cap RoutesOf(other) # {} => Kind[other] = "GWProxy" /\ Name[other] # Name[o]

\* What is to be removed is the route of the pool that the work has come to.
DoomedIsNext == \A o \in Owners :
    Busy(o, "remove") => Job(o).doomed \subseteq {Route(o, Head(Job(o).left))}

\* Where Disturbances are told apart, nobody has been overlooked.
NoneOverlooked == "overlooked user" \in disturbed => disturbed = Disturbances

LEMMA DoomedStep == ASSUME IInv, DoomedIsNext, [Next]_vars PROVE DoomedIsNext'
<1> USE DEF IInv
<1> SUFFICES ASSUME NEW o \in Owners, Working(o)', Job(o)'.stage = "remove"
             PROVE  Job(o)'.doomed \subseteq {Route(o, Head(Job(o)'.left))}
  BY DEF DoomedIsNext, Busy, Working, Job
<1>1. CASE UNCHANGED Job(o)
  BY <1>1 DEF DoomedIsNext, Busy, Working, Job
<1>2. CASE ListProxies(o)
  <2>1. /\ Job(o)'.left = Job(o).left
        /\ Job(o)'.doomed = IF InUse(o, Head(Job(o).left)) THEN {} ELSE {Route(o, Head(Job(o).left))}
    BY <1>2, ListProxiesEffect DEF Moved
  <2> QED BY <2>1
<1>3. ~BeginReconcile(o) /\ ~BeginCleanup(o)
  BY BeginReconcileEffect, BeginCleanupEffect DEF Moved
<1>4. ~RemoveRoute(o) /\ ~SetUp(o) /\ ~UnguardOwner(o)
  BY RemoveRouteEffect, EndEffect DEF Moved, Working
<1> QED BY <1>1, <1>2, <1>3, <1>4, JobTrace

\* A live owner that shares a route is one of those the list shows.
LEMMA SharersAreInUse ==
    ASSUME SharersListed, NEW o \in Owners, NEW pool \in {Pools[o][i] : i \in DOMAIN Pools[o]},
           NEW other \in Sharers(o, Route(o, pool))
    PROVE  InUse(o, pool)
<1>1. other \in Owners \ {o} /\ Live(other) /\ Route(o, pool) \in RoutesOf(other)
  BY DEF Sharers
<1>2. Route(o, pool) \in RoutesOf(o)
  BY DEF RoutesOf
<1>3. Kind[other] = "GWProxy" /\ Name[other] # Name[o]
  BY <1>1, <1>2 DEF SharersListed
<1>4. PICK i \in DOMAIN Pools[other] : Route(o, pool) = Route(other, Pools[other][i])
  BY <1>1 DEF RoutesOf
<1>5. pool \in {"public", "alt"} /\ Pools[other][i] \in {"public", "alt"}
  BY <1>1
<1>6. aggregateRoute(pool, Address(other, "public")) = Route(o, pool)
  BY <1>1, <1>4, <1>5 DEF Route, aggregateRoute, Address
<1> QED BY <1>1, <1>3, <1>6 DEF InUse

LEMMA OverlookedStep ==
    ASSUME SharersListed, IInv, DoomedIsNext, NoneOverlooked, [Next]_vars
    PROVE  NoneOverlooked'
<1>1. TypeOK /\ JobsMakeSense
  BY DEF IInv
<1>2. ASSUME NEW ds \in SUBSET (Disturbances \ {"overlooked user"}), Mark(ds)
      PROVE  NoneOverlooked'
  BY <1>1, <1>2 DEF NoneOverlooked, Mark, TypeOK
<1>3. CASE UNCHANGED disturbed
  BY <1>3 DEF NoneOverlooked
<1>4. ASSUME NEW o \in Owners, RemoveRoute(o)
      PROVE  NoneOverlooked'
  <2> DEFINE pool == Head(Job(o).left)
             users == UNION {Users(o, route) : route \in Job(o).doomed}
  <2>1. /\ Busy(o, "remove")
        /\ \/ Mark({"failed command"})
           \/ Mark(If(Live(o) /\ pods[o] = "ready", "unlisted pod")
                   \cup If(users # {}, IF InUse(o, pool) THEN "joined route" ELSE "overlooked user"))
    BY <1>4 DEF RemoveRoute, Job
  <2>2. users # {} => InUse(o, pool)
    <3> SUFFICES ASSUME NEW route \in Job(o).doomed, NEW other \in Users(o, route)
                 PROVE  InUse(o, pool)
      OBVIOUS
    <3>1. route = Route(o, pool)
      BY <2>1 DEF DoomedIsNext
    <3>2. pool \in {Pools[o][i] : i \in DOMAIN Pools[o]}
      <4>1. Job(o).left \in Suffixes(o)
        BY <1>1, <2>1 DEF JobsMakeSense, Busy, Working, Job
      <4> QED BY <4>1 DEF Suffixes
    <3>3. other \in Sharers(o, Route(o, pool))
      BY <3>1 DEF Users
    <3> QED BY <3>2, <3>3, SharersAreInUse
  <2>3. {"failed command"} \in SUBSET (Disturbances \ {"overlooked user"})
    BY DEF Disturbances
  <2>4. If(Live(o) /\ pods[o] = "ready", "unlisted pod")
        \cup If(users # {}, IF InUse(o, pool) THEN "joined route" ELSE "overlooked user")
        \in SUBSET (Disturbances \ {"overlooked user"})
    <3> HIDE DEF users, pool
    <3> QED BY <2>2 DEF If, Disturbances
  <2> HIDE DEF users, pool
  <2> QED BY <1>2, <2>1, <2>3, <2>4
<1>5. ASSUME NEW o \in Owners,
             DeleteOwner(o) \/ BeginReconcile(o) \/ SetUp(o) \/ ListProxies(o) \/ AddRoutes(o)
      PROVE  \/ UNCHANGED disturbed
             \/ \E ds \in SUBSET (Disturbances \ {"overlooked user"}) : Mark(ds)
  BY <1>5 DEF DeleteOwner, BeginReconcile, SetUp, ListProxies, AddRoutes, If, Disturbances
<1>6. CASE ConfigureBridge
  BY <1>2, <1>6 DEF ConfigureBridge, If, Disturbances
<1>7. \/ UNCHANGED disturbed \/ ConfigureBridge
      \/ \E o \in Owners : \/ DeleteOwner(o) \/ BeginReconcile(o) \/ SetUp(o) \/ ListProxies(o)
                           \/ RemoveRoute(o) \/ AddRoutes(o)
  BY DEF Next, OwnerStep, PodStep, Daemons, vars, objects, specs, endpointVars, node, queues, counters, jobs,
         SeeOwner, SeePod, CreateOwner, CreatePod, ListInterface, DeletePod, EndPod, ChangeEndpoint,
         SeeEndpoints, ChangePorts, ChangePrefix, SkipOwner, BeginCleanup, UnguardOwner, SkipPod, BeginPod,
         Restart
<1> QED BY <1>2, <1>3, <1>4, <1>5, <1>6, <1>7

\* Were the owners that share a route proxies of different names, every route
\* would be kept for as long as one of them has a pod: that the list shows proxies
\* only, and leaves out those of the same name, is all that RemoveMultusRoute()
\* has wrong, besides what is read too early.
THEOREM SharedRoutesKept == ASSUME SharersListed PROVE Spec => []SharedRoutesStay
<1>1. Init => DoomedIsNext /\ NoneOverlooked
  BY DEF Init, DoomedIsNext, NoneOverlooked, Busy
<1>2. DoomedIsNext /\ NoneOverlooked /\ IInv /\ [Next]_vars => (DoomedIsNext /\ NoneOverlooked)'
  BY DoomedStep, OverlookedStep
<1>3. DoomedIsNext /\ NoneOverlooked /\ IInv => SharedRoutesStay
  <2> SUFFICES ASSUME NoneOverlooked, RoutesDue, Quiet, Undisturbed({"unlisted pod", "joined route"})
               PROVE  \A o \in Owners : Live(o) /\ pods[o] = "ready" => RoutesOf(o) \subseteq routes
    BY DEF SharedRoutesStay, IInv
  <2>1. Undisturbed({"unlisted pod", "joined route", "overlooked user"})
    BY DEF Undisturbed, NoneOverlooked, Disturbances
  <2> QED BY <2>1 DEF RoutesDue, Quiet
<1> QED BY <1>1, <1>2, <1>3, Invariant, PTL DEF Spec
=============================================================================

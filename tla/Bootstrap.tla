----------------------------- MODULE Bootstrap ------------------------------
(***************************************************************************)
(* The objects that the controller-manager creates in each user namespace  *)
(* (controllers/namespace_controller.go), one after the other, each unless *)
(* there is one of its name.  Namespaces come, are relabelled and go while *)
(* the one worker of the reconciler is at it, and its copy of a namespace  *)
(* may be old.                                                             *)
(***************************************************************************)
EXTENDS Naturals, Sequences

CONSTANTS
    Namespaces,
    Cluster,     \* where objects are that are in no namespace
    Idle,        \* the worker does nothing
    MaxChanges, MaxFaults   \* how often users act, and calls fail or the process restarts

ASSUME ClusterAssumption == Cluster \notin Namespaces

VARIABLES
    namespaces,  \* each namespace in the API server: "none", "plain" or "user" by its
                 \* labels, "terminating"
    seen, news,  \* as the informer has it, and which the informer is to hear about
    config,      \* is there an EPIC object?
    objects,     \* what there is in the API server
    queue, job,  \* the namespaces to reconcile, and what is left to do for one
    changes, faults

vars == <<namespaces, seen, news, config, objects, queue, job, changes, faults>>

\* What the objects are called apart from their kind, images and rules is the
\* same everywhere; account is the namespace of the account a binding binds.
Object(kind, in, account) == [kind |-> kind, in |-> in, account |-> account]

Marin3r(n) == Object("DiscoveryService", n, n)
ServiceAccount(n) == Object("ServiceAccount", n, n)
Role(n) == Object("Role", n, n)
EDSRoleBinding(n) == Object("RoleBinding", n, n)
DefaultClusterRoleBinding(n) == Object("ClusterRoleBinding", Cluster, n)
Service(n) == Object("Service", n, n)
EDSDeployment(n) == Object("Deployment", n, n)

Manifests(n) == <<Marin3r(n), ServiceAccount(n), Role(n), EDSRoleBinding(n),
                  DefaultClusterRoleBinding(n), Service(n), EDSDeployment(n)>>

Exists(object) == \E o \in objects : o.kind = object.kind /\ o.in = object.in

Init == /\ namespaces \in [Namespaces -> {"none", "plain", "user"}]
        /\ seen = namespaces /\ news = {} /\ config = FALSE /\ objects = {}
        /\ queue = {n \in Namespaces : namespaces[n] # "none"} /\ job = Idle
        /\ changes = 0 /\ faults = 0
-----------------------------------------------------------------------------
\* Users, and the API server's own controller of namespaces.

Counted == changes < MaxChanges /\ changes' = changes + 1
Put(n, state) == namespaces' = [namespaces EXCEPT ![n] = state] /\ news' = news \cup {n}

\* A namespace is created, or its labels change.
WriteNamespace(n) ==
    /\ Counted
    /\ namespaces[n] # "terminating"
    /\ \E state \in {"plain", "user"} \ {namespaces[n]} : Put(n, state)
    /\ UNCHANGED <<seen, config, objects, queue, job, faults>>

DeleteNamespace(n) ==
    /\ Counted
    /\ namespaces[n] \in {"plain", "user"}
    /\ Put(n, "terminating")
    /\ UNCHANGED <<seen, config, objects, queue, job, faults>>

EndNamespace(n) ==
    /\ namespaces[n] = "terminating"
    /\ Put(n, "none")
    /\ objects' = {o \in objects : o.in # n}
    /\ UNCHANGED <<seen, config, queue, job, changes, faults>>

ChangeConfig ==
    /\ Counted
    /\ config' = ~config
    /\ UNCHANGED <<namespaces, seen, news, objects, queue, job, faults>>

\* The informer hears of changes, perhaps of several at once.
Sync(n) ==
    /\ n \in news
    /\ news' = news \ {n}
    /\ seen' = [seen EXCEPT ![n] = namespaces[n]]
    /\ queue' = queue \cup {n}
    /\ UNCHANGED <<namespaces, config, objects, job, changes, faults>>
-----------------------------------------------------------------------------
Faulty == faults < MaxFaults /\ faults' = faults + 1

\* No such namespace, or it is terminating, or it has not all of the labels.
SkipNamespace(n) ==
    /\ n \in queue /\ job = Idle
    /\ seen[n] # "user"
    /\ queue' = queue \ {n}
    /\ UNCHANGED <<namespaces, seen, news, config, objects, job, changes, faults>>

\* Mutant: that there is no EPIC object is no error.
BeginUnconfigured(n) ==
    /\ n \in queue /\ job = Idle
    /\ seen[n] = "user"
    /\ queue' = queue \ {n}
    /\ job' = IF config THEN [of |-> n, left |-> Manifests(n)] ELSE Idle
    /\ UNCHANGED <<namespaces, seen, news, config, objects, changes, faults>>

\* As long as there is no EPIC object this ends in an error.
Begin(n) ==
    /\ n \in queue /\ job = Idle
    /\ seen[n] = "user" /\ config
    /\ queue' = queue \ {n}
    /\ job' = [of |-> n, left |-> Manifests(n)]
    /\ UNCHANGED <<namespaces, seen, news, config, objects, changes, faults>>

\* Create() with the name of an object that exists leaves that as it is, and
\* nothing is created in a namespace that is not there or terminating.
Create(object) == objects' = IF Exists(object) THEN objects ELSE objects \cup {object}
Creatable(object) == object.in \in Namespaces => namespaces[object.in] \in {"plain", "user"}

\* An error, whether the object was created or not, ends the reconcile.
maybeCreate ==
    LET object == Head(job.left)
        left == Tail(job.left) IN
    /\ job # Idle
    /\ \/ /\ Creatable(object) /\ Create(object)
          /\ job' = IF left = <<>> THEN Idle ELSE [job EXCEPT !.left = left]
          /\ UNCHANGED <<queue, faults>>
       \/ /\ \/ ~Creatable(object) /\ UNCHANGED <<objects, faults>>
             \/ Faulty /\ UNCHANGED objects
             \/ Faulty /\ Creatable(object) /\ Create(object)
          /\ job' = Idle
          /\ queue' = queue \cup {job.of}
    /\ UNCHANGED <<namespaces, seen, news, config, changes>>

Restart ==
    /\ Faulty
    /\ job' = Idle
    /\ seen' = namespaces /\ news' = {}
    /\ queue' = {n \in Namespaces : namespaces[n] # "none"}
    /\ UNCHANGED <<namespaces, config, objects, changes>>

Reconcile(n) == SkipNamespace(n) \/ Begin(n)

Next == \/ \E n \in Namespaces : \/ WriteNamespace(n) \/ DeleteNamespace(n) \/ EndNamespace(n)
                                 \/ Sync(n) \/ Reconcile(n)
        \/ ChangeConfig \/ maybeCreate \/ Restart

Spec == Init /\ [][Next]_vars

\* The worker takes what is queued, in turn, and the informer hears of every
\* change; users, faults and the end of namespaces are left open.
FairSpec == Spec /\ WF_vars(maybeCreate)
                 /\ \A n \in Namespaces : WF_vars(Sync(n)) /\ SF_vars(Reconcile(n))
-----------------------------------------------------------------------------
\* Every user namespace has all its objects in the end, once there is an EPIC
\* object: though that comes late, calls fail halfway, the process restarts and
\* the namespace is deleted and made again under the worker's hands.
EveryNamespaceServed ==
    \A n \in Namespaces :
        (namespaces[n] = "user" /\ config) ~>
            \/ namespaces[n] # "user" \/ ~config
            \/ \A i \in DOMAIN Manifests(n) : Exists(Manifests(n)[i])
=============================================================================

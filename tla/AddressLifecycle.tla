-------------------------- MODULE AddressLifecycle --------------------------
(***************************************************************************)
(* Public addresses from admission to deletion, for one ServicePrefix.     *)
(* The webhooks of LoadBalancer and GWProxy take addresses from the        *)
(* allocator, their reconcilers return them, and the ServicePrefix         *)
(* reconciler replaces the prefix's pools and then tells the allocator     *)
(* what the existing objects use.  All run concurrently in the             *)
(* controller-manager, whose allocator lives in memory; each of their      *)
(* calls of the allocator is a step.  Reads from the informer cache are    *)
(* taken as current.  A world says which objects there may be and which    *)
(* disturbances happen: the code keeps its promises in some, not in all.   *)
(***************************************************************************)
EXTENDS AllocatorCalls

CONSTANTS
    Prefix,       \* the ServicePrefix
    Objects,      \* names of objects: [kind : {"lb", "proxy"}, ns, name]
    Requested,    \* Requested[o]: addresses, or Nil, that o's creator specifies
    Worlds        \* records [objects, specs, allowed]

Disturbances == {"admission", \* Default during the reconcile of the prefix
                 "deletion",  \* Unassign during the reconcile of the prefix
                 "resync",    \* the prefix is reconciled again
                 "restart",   \* the controller-manager restarts
                 "crash",     \* ... between Unassign and the removal of the finalizer
                 "reject"}    \* a creation fails after Default

ASSUME WorldAssumption == \A w \in Worlds : /\ w.objects \subseteq Objects
                                            /\ w.specs \subseteq PoolSpecs[Prefix]
                                            /\ w.allowed \subseteq Disturbances

\* What the allocator knows an object by: loadbalancers are warmed up by their
\* bare name.
FullName(o) == <<o.ns, o.name>>
AltName(o) == <<o.ns, o.name, "alt">>
WarmName(o) == IF o.kind = "lb" THEN <<o.name>> ELSE FullName(o)

ASSUME NamesAssumption == /\ Prefix \in Prefixes
                          /\ \A o \in Objects : /\ o.kind \in {"lb", "proxy"}
                                                /\ {FullName(o), AltName(o), WarmName(o)} \subseteq Services
ASSUME AddressAssumption == Nil \notin IP /\ \A o \in Objects : Requested[o] \subseteq IP \cup {Nil}

\* The addresses that the main and the alt ranges of a world have.
MainsOf(w) == UNION {s.main : s \in {t \in w.specs : t.main # Malformed}}
AltsOf(w) == UNION {s.alt : s \in {t \in w.specs : t.alt \notin {Malformed, Nil}}}

\* The worlds in which the code keeps its promises: nothing is returned while
\* the prefix is reconciled; nobody is admitted then unless the prefix is
\* reconciled only once; a prefix is reconciled again only where it has proxies
\* without alt addresses, all of which are created; and names and addresses
\* are not taken twice from the outset.
GoodWorld(w) ==
    /\ w.allowed \cap {"crash", "deletion"} = {}
    /\ "admission" \in w.allowed => w.allowed \cap {"restart", "resync"} = {}
    /\ "resync" \in w.allowed => /\ "reject" \notin w.allowed
                                 /\ \A o \in w.objects : o.kind = "proxy"
                                 /\ \A s \in w.specs : s.alt = Nil
    /\ \A o, p \in w.objects : o # p =>
          /\ FullName(o) # FullName(p)
          /\ o.kind = "lb" /\ p.kind = "lb" => o.name # p.name
          /\ Requested[o] \cap Requested[p] \subseteq {Nil}
    /\ MainsOf(w) \cap AltsOf(w) = {}
    /\ \A o \in w.objects : Requested[o] \cap (MainsOf(w) \cup AltsOf(w)) = {}

VARIABLES
    world,      \* where this behaviour happens: never changes
    phase,      \* of each object: absent, in admission, live, or being deleted
    spec,       \* of each object: [public, alt]
    step,       \* where the reconcile of the prefix is
    todo        \* the addresses it has listed and not yet assigned

vars == <<world, pools, allocated, phase, spec, step, todo>>

Allocator == <<pools, allocated>>

Happens(disturbance) == disturbance \in world.allowed

NoAddress == [public |-> Nil, alt |-> Nil]
Exists(o) == phase[o] \in {"live", "deleting", "freed"}

\* The reconcile of the prefix is not under way, or may be overlapped.
Permitted(disturbance) == step = "idle" \/ Happens(disturbance)

Init == /\ world \in Worlds
        /\ New
        /\ phase = [o \in Objects |-> "absent"]
        /\ spec = [o \in Objects |-> NoAddress]
        /\ step = "pending" /\ todo = {}

\* AllocateFromPool(): the address svc has already, or the next one.
Obtain(svc, n) == \/ allocated[svc] # Nil /\ UNCHANGED Allocator
                  \/ AllocateFromPool(svc, n, {}, Unshared)

\* Default(), first half.  An address that the creator specifies is not looked
\* at; if none is found the creation is refused and nothing has changed.
DefaultPublic(o) ==
    /\ o \in world.objects /\ phase[o] = "absent" /\ Permitted("admission")
    /\ \/ \E ip \in Requested[o] \ {Nil} :
             UNCHANGED Allocator /\ spec' = [spec EXCEPT ![o].public = ip]
       \/ /\ Nil \in Requested[o]
          /\ Obtain(FullName(o), Main(Prefix))
          /\ spec' = [spec EXCEPT ![o].public = allocated'[FullName(o)].ip]
    /\ phase' = [phase EXCEPT ![o] = IF o.kind = "lb" THEN "defaulted" ELSE "defaulting"]
    /\ UNCHANGED <<step, todo>>

\* Default() of a proxy, second half, which may do without.
DefaultAlt(o) ==
    LET alt == Alt(Prefix) IN
    /\ phase[o] = "defaulting"
    /\ \/ /\ Obtain(AltName(o), alt)
          /\ spec' = [spec EXCEPT ![o].alt = allocated'[AltName(o)].ip]
       \/ /\ allocated[AltName(o)] = Nil
          /\ pools[alt] # Nil => Candidates(pools[alt], {}, AltName(o), Unshared) = {}
          /\ UNCHANGED <<Allocator, spec>>
    /\ phase' = [phase EXCEPT ![o] = "defaulted"]
    /\ UNCHANGED <<step, todo>>

\* ValidateCreate() passes and the API server stores the object.
Admit(o) == /\ phase[o] = "defaulted"
            /\ phase' = [phase EXCEPT ![o] = "live"]
            /\ UNCHANGED <<Allocator, spec, step, todo>>

\* ValidateCreate() refuses (no account, too many proxies), or the API server does.
Reject(o) == /\ Happens("reject")
             /\ phase[o] = "defaulted"
             /\ phase' = [phase EXCEPT ![o] = "absent"]
             /\ spec' = [spec EXCEPT ![o] = NoAddress]
             /\ UNCHANGED <<Allocator, step, todo>>

\* A user deletes the object: it waits for the finalizer.
Delete(o) == /\ phase[o] = "live"
             /\ phase' = [phase EXCEPT ![o] = "deleting"]
             /\ UNCHANGED <<Allocator, spec, step, todo>>

\* Mutant: nothing is returned to the pool.
FreeNothing(o) == /\ phase[o] \in {"deleting", "freed"} /\ Permitted("deletion")
                  /\ phase' = [phase EXCEPT ![o] = "freed"]
                  /\ UNCHANGED <<Allocator, spec, step, todo>>

\* The reconciler of a deleted object: Unassign, again if RemoveFinalizer fails.
FreeAddress(o) ==
    /\ phase[o] \in {"deleting", "freed"} /\ Permitted("deletion")
    /\ phase' = [phase EXCEPT ![o] = "freed"]
    /\ Unassign(FullName(o)) \/ (allocated[FullName(o)] = Nil /\ UNCHANGED Allocator)
    /\ UNCHANGED <<spec, step, todo>>

\* ... and RemoveFinalizer: the object is gone.
Finalize(o) == /\ phase[o] = "freed"
               /\ phase' = [phase EXCEPT ![o] = "absent"]
               /\ spec' = [spec EXCEPT ![o] = NoAddress]
               /\ UNCHANGED <<Allocator, step, todo>>

\* The reconcile of the prefix begins: AddPrefix.
StartReconcile ==
    /\ step = "pending" \/ (step = "idle" /\ Happens("resync"))
    /\ Happens("admission") \/ \A o \in Objects : phase[o] \notin {"defaulting", "defaulted"}
    /\ Happens("deletion") \/ \A o \in Objects : phase[o] # "freed"
    /\ \E s \in world.specs : AddPrefix(Prefix, s)
    /\ step' = "list lbs"
    /\ UNCHANGED <<phase, spec, todo>>

Existing(kind) == {o \in Objects : o.kind = kind /\ Exists(o)}

\* What the objects of each kind use, by the names they are warmed up with.
LBClaims == {<<WarmName(o), spec[o].public>> : o \in Existing("lb")}
ProxyClaims == {<<WarmName(o), spec[o].public>> : o \in Existing("proxy")}
                 \cup {<<AltName(o), spec[o].alt>> : o \in {p \in Existing("proxy") : spec[p].alt # Nil}}

ListLBs == /\ step = "list lbs"
           /\ step' = "assign lbs"
           /\ todo' = LBClaims
           /\ UNCHANGED <<Allocator, phase, spec>>

\* Mutants: alt addresses are not listed, or also when there is none.
ListProxiesMainOnly ==
    /\ step = "assign lbs" /\ todo = {}
    /\ step' = "assign proxies"
    /\ todo' = {<<WarmName(o), spec[o].public>> : o \in Existing("proxy")}
    /\ UNCHANGED <<Allocator, phase, spec>>
ListProxiesUnparsed ==
    /\ step = "assign lbs" /\ todo = {}
    /\ step' = "assign proxies"
    /\ todo' = {<<AltName(o), spec[o].alt>> : o \in Existing("proxy")}
    /\ UNCHANGED <<Allocator, phase, spec>>

ListProxies ==
    /\ step = "assign lbs" /\ todo = {}
    /\ step' = "assign proxies"
    /\ todo' = ProxyClaims
    /\ UNCHANGED <<Allocator, phase, spec>>

\* Mutant: an address is listed but not assigned.
WarmUpForgetting == \E t \in todo : /\ todo' = todo \ {t}
                                    /\ UNCHANGED <<Allocator, phase, spec, step>>

\* A listed address is assigned, unless the pool refuses or no pool has it.
WarmUp ==
    \E t \in todo :
        /\ todo' = todo \ {t}
        /\ \/ Assign(t[1], t[2], {}, Unshared)
           \/ /\ \A n \in PoolNames : pools[n] # Nil /\ t[2] \in pools[n].addrs
                                        => ~Available(pools[n], t[2], {}, t[1], Unshared)
              /\ UNCHANGED Allocator
        /\ UNCHANGED <<phase, spec, step>>

EndReconcile == /\ step = "assign proxies" /\ todo = {}
                /\ step' = "idle"
                /\ UNCHANGED <<Allocator, phase, spec, todo>>

\* The allocator is empty again, admissions under way fail, deletions under way
\* begin again, and the informers cause every object to be reconciled.
Restart ==
    /\ Happens("restart")
    /\ Happens("crash") \/ \A o \in Objects : phase[o] # "freed"
    /\ pools' = [n \in PoolNames |-> Nil]
    /\ allocated' = [svc \in Services |-> Nil]
    /\ phase' = [o \in Objects |-> IF phase[o] = "freed" THEN "deleting"
                                   ELSE IF Exists(o) THEN phase[o] ELSE "absent"]
    /\ spec' = [o \in Objects |-> IF Exists(o) THEN spec[o] ELSE NoAddress]
    /\ step' = "pending" /\ todo' = {}

ObjectStep(o) == \/ DefaultPublic(o) \/ DefaultAlt(o) \/ Admit(o) \/ Reject(o)
                 \/ Delete(o) \/ FreeAddress(o) \/ Finalize(o)

Next == /\ \/ \E o \in Objects : ObjectStep(o)
           \/ StartReconcile \/ ListLBs \/ ListProxies \/ WarmUp \/ EndReconcile
           \/ Restart
        /\ UNCHANGED world

Spec == Init /\ [][Next]_vars
-----------------------------------------------------------------------------
Addresses(o) == {spec[o].public, spec[o].alt} \ {Nil}

TypeOK == /\ AllocatorOK
          /\ phase \in [Objects -> {"absent", "defaulting", "defaulted", "live", "deleting", "freed"}]
          /\ spec \in [Objects -> [public : IP \cup {Nil}, alt : IP \cup {Nil}]]
          /\ step \in {"pending", "list lbs", "assign lbs", "assign proxies", "idle"}
          /\ todo \subseteq Services \X IP
          /\ \A o \in Objects : phase[o] = "absent" <=> spec[o] = NoAddress

\* No two objects in service have an address in common: the webhooks hand out
\* what the allocator says is available, and the allocator knows, or has been
\* told again, what every object uses.
UniqueAddresses == \A o, p \in Objects :
    o # p /\ phase[o] = "live" /\ phase[p] = "live" => Addresses(o) \cap Addresses(p) = {}

\* Once the prefix has been reconciled the allocator knows every address of an
\* object in service, under a name of that object (an address from outside the
\* prefix, which only a creator can have asked for, it cannot know).
LiveKnown == step = "idle" => \A o \in Objects :
    phase[o] = "live" => \A ip \in Addresses(o) \cap UNION {pools[n].addrs : n \in {m \in PoolNames : pools[m] # Nil}} :
        \E svc \in {FullName(o), AltName(o), WarmName(o)} :
            allocated[svc] # Nil /\ allocated[svc].ip = ip

\* Where no creation is rejected, no LoadBalancer has been warmed up and there
\* are no alt addresses, an object that is gone holds none: its reconciler has
\* returned "the LB's address to its pool" (gwproxy_controller.go:94).
AddressesReturned ==
    /\ step = "idle" /\ ~Happens("reject") /\ \A s \in world.specs : s.alt = Nil
    /\ \A o \in world.objects : o.kind = "proxy" \/ ~Happens("restart")
    => \A o \in world.objects : phase[o] = "absent" => \A svc \in {FullName(o), AltName(o), WarmName(o)} :
                                                     allocated[svc] = Nil
=============================================================================

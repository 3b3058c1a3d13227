--------------------------- MODULE AllocatorCalls ---------------------------
(***************************************************************************)
(* The calls of the address allocator of the controller-manager            *)
(* (internal/allocator/allocator.go): the pools of each ServicePrefix and  *)
(* which service was given which address.  Each action is one call; calls  *)
(* that return an error, and the second AllocateFromPool of a service,     *)
(* change nothing.  Who calls is up to the modules that extend this one:   *)
(* in Allocator anybody, in AddressLifecycle webhooks and reconcilers.     *)
(***************************************************************************)
EXTENDS LocalPool

CONSTANTS
    Prefixes,     \* ServicePrefixes
    PoolSpecs,    \* PoolSpecs[sp]: the [main, alt] pairs of ranges it may specify
    Malformed,    \* a range that does not parse
    MayReset      \* whether AddPrefix may replace a pool with allocations

ASSUME PoolSpecAssumption ==
    \A sp \in Prefixes : \A s \in PoolSpecs[sp] :
        /\ s.main = Malformed \/ s.main \in SUBSET IP
        /\ s.alt \in {Malformed, Nil} \/ s.alt \in SUBSET IP

VARIABLES
    pools,        \* pool name -> Pool, or Nil
    allocated     \* service -> [pool, ip, ports, key], or Nil

\* The pool of an SP carries its name, the alt pool that name and a suffix.
Main(sp) == <<sp, "main">>
Alt(sp) == <<sp, "alt">>
PoolNames == Prefixes \X {"main", "alt"}

Alloc == [pool : PoolNames, ip : IP, ports : SUBSET Ports, key : Keys]

ASSUME RecordAssumption == /\ Nil \notin Pool /\ Nil \notin Alloc
                           /\ Nil \notin PoolNames \X IP

\* New(): without pools, and so without allocations.
New == /\ pools = [n \in PoolNames |-> Nil]
       /\ allocated = [svc \in Services |-> Nil]

Users(n) == {svc \in Services : allocated[svc] # Nil /\ allocated[svc].pool = n}

\* A fresh pool for the prefix, and for its alt range unless it has none; a
\* malformed range ends the call where it is met.
AddPrefix(sp, s) ==
    /\ MayReset \/ Users(Main(sp)) \cup Users(Alt(sp)) = {}
    /\ s.main # Malformed
    /\ pools' = [n \in PoolNames |->
                    IF n = Main(sp) THEN NewLocalPool(s.main)
                    ELSE IF n = Alt(sp) /\ s.alt \notin {Malformed, Nil} THEN NewLocalPool(s.alt)
                    ELSE pools[n]]
    /\ UNCHANGED allocated

\* ValidateDelete looks at the allocations of the main pool only.
RemovePool(sp) == /\ Users(Main(sp)) = {}
                  /\ pools' = [pools EXCEPT ![Main(sp)] = Nil]
                  /\ UNCHANGED allocated

\* The pools once svc's address, if any, has been released.
Released(svc) ==
    LET al == allocated[svc] IN
    IF al = Nil \/ pools[al.pool] = Nil THEN pools
    ELSE [pools EXCEPT ![al.pool] = Release(@, al.ip, svc)]

\* Mutant: the old address is not released.
InstallOnly(svc, al) ==
    /\ allocated' = [allocated EXCEPT ![svc] = al]
    /\ pools' = IF Available(pools[al.pool], al.ip, al.ports, svc, al.key)
                THEN [pools EXCEPT ![al.pool] = Put(@, al.ip, al.ports, svc, al.key)]
                ELSE pools

\* assign(): Unassign, then record al; the pool may still refuse it, and the
\* refusal is ignored.
Install(svc, al) ==
    LET after == Released(svc) IN
    /\ allocated' = [allocated EXCEPT ![svc] = al]
    /\ pools' = IF Available(after[al.pool], al.ip, al.ports, svc, al.key)
                THEN [after EXCEPT ![al.pool] = Put(@, al.ip, al.ports, svc, al.key)]
                ELSE after

\* Mutant: what the pool thinks of the address is not asked.
AssignUnchecked(svc, ip, ports, key) ==
    \E n \in PoolNames :
        /\ pools[n] # Nil
        /\ ip \in pools[n].addrs
        /\ Install(svc, [pool |-> n, ip |-> ip, ports |-> ports, key |-> key])

\* The pool is any one that contains ip: poolFor() walks a map.
Assign(svc, ip, ports, key) ==
    \E n \in PoolNames :
        /\ pools[n] # Nil
        /\ ip \in pools[n].addrs
        /\ Available(pools[n], ip, ports, svc, key)
        /\ Install(svc, [pool |-> n, ip |-> ip, ports |-> ports, key |-> key])

\* Mutant: the error of AssignNext() is ignored.
AllocateRegardless(svc, n, ports, key) ==
    /\ allocated[svc] = Nil
    /\ pools[n] # Nil
    /\ Candidates(pools[n], ports, svc, key) = {}
    /\ allocated' = [allocated EXCEPT ![svc] = [pool |-> n, ip |-> Nil, ports |-> ports, key |-> key]]
    /\ UNCHANGED pools

\* AssignNext() and assign() put svc on the same address: once is enough here.
AllocateFromPool(svc, n, ports, key) ==
    /\ allocated[svc] = Nil
    /\ pools[n] # Nil
    /\ \E ip \in pools[n].addrs :
        /\ IsFirst(ip, Candidates(pools[n], ports, svc, key))
        /\ Install(svc, [pool |-> n, ip |-> ip, ports |-> ports, key |-> key])

\* Mutant: the pool is not told.
UnassignQuietly(svc) == /\ allocated[svc] # Nil
                        /\ allocated' = [allocated EXCEPT ![svc] = Nil]
                        /\ UNCHANGED pools

Unassign(svc) == /\ allocated[svc] # Nil
                 /\ pools' = Released(svc)
                 /\ allocated' = [allocated EXCEPT ![svc] = Nil]
-----------------------------------------------------------------------------
\* What is always a state of the allocator.
AllocatorOK == /\ pools \in [PoolNames -> Pool \cup {Nil}]
               /\ allocated \in [Services -> Alloc \cup {Nil}]

\* The services allocated an address of a pool.
Holders(n, ip) == {svc \in Users(n) : allocated[svc].ip = ip}

\* No service is listed as a user of an address that is not its own, even
\* where pools are replaced under their allocations.
NoGhostUsers == \A n \in PoolNames : pools[n] # Nil =>
                    \A ip \in IP : pools[n].svcs[ip] \subseteq Holders(n, ip)
=============================================================================

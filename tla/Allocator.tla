----------------------------- MODULE Allocator ------------------------------
(***************************************************************************)
(* The address allocator called by anybody, at any time, with anything.    *)
(***************************************************************************)
EXTENDS AllocatorCalls

vars == <<pools, allocated>>

Init == New

Next == \/ \E sp \in Prefixes : RemovePool(sp) \/ \E s \in PoolSpecs[sp] : AddPrefix(sp, s)
        \/ \E svc \in Services, ports \in SUBSET Ports, key \in Keys :
              \/ \E ip \in IP : Assign(svc, ip, ports, key)
              \/ \E n \in PoolNames : AllocateFromPool(svc, n, ports, key)
        \/ \E svc \in Services : Unassign(svc)

Spec == Init /\ [][Next]_vars
-----------------------------------------------------------------------------
TypeOK == AllocatorOK

\* The two halves of the allocator tell the same story: a pool lists as users
\* of an address the services it is allocated to, and no others.
Agreement == \A n \in PoolNames : pools[n] # Nil =>
                 \A ip \in IP : pools[n].svcs[ip] = Holders(n, ip)

\* Nothing leaks: an address that is allocated to no service is available to
\* every service, whatever came before ("Release releases an IP so it can be
\* assigned again", localpool.go:135).
NoLeak == \A n \in PoolNames : pools[n] # Nil =>
    \A ip \in pools[n].addrs : Holders(n, ip) = {} =>
        \A svc \in Services, ports \in SUBSET Ports, key \in Keys :
            Available(pools[n], ip, ports, svc, key)

\* The promise of the allocator to services that do not share.
held == [svc \in Services |-> IF allocated[svc] = Nil THEN Nil
                              ELSE <<allocated[svc].pool, allocated[svc].ip>>]
Leases == INSTANCE Leases WITH Holder <- Services, Thing <- PoolNames \X IP, None <- Nil
ImplementsLeases == Leases!Spec
=============================================================================

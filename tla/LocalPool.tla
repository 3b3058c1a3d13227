----------------------------- MODULE LocalPool ------------------------------
(***************************************************************************)
(* A pool of addresses (internal/allocator/localpool.go, pool.go) as a     *)
(* value: which services use each address, with which sharing key and on   *)
(* which ports.  Addresses are numbers in the order in which Next() walks  *)
(* the range.                                                              *)
(***************************************************************************)
EXTENDS Naturals

CONSTANTS
    Services,   \* names services are known by to the allocator
    IP,         \* addresses, a set of numbers
    Ports,      \* service ports
    Keys,       \* sharing keys
    Unshared,   \* the key of a service that does not share: Key{Sharing: ""}
    Nil         \* nil: no key, no pool, no allocation, no owner

ASSUME IPAssumption == IP \subseteq Nat
ASSUME KeyAssumption == Unshared \in Keys
ASSUME NilAssumption == Nil \notin Services /\ Nil \notin Keys

\* addressesInUse, sharingKeys and portsInUse, an address without an entry
\* in a map having {} or Nil there.
Pool == [addrs : SUBSET IP,
         svcs  : [IP -> SUBSET Services],
         key   : [IP -> Keys \cup {Nil}],
         port  : [IP -> [Ports -> Services \cup {Nil}]]]

NewLocalPool(addrs) == [addrs |-> addrs,
                        svcs  |-> [ip \in IP |-> {}],
                        key   |-> [ip \in IP |-> Nil],
                        port  |-> [ip \in IP |-> [q \in Ports |-> Nil]]]

\* Both services share, and with the same key.
SharingOK(existing, new) == existing = new /\ new # Unshared

\* An address without a key is free; otherwise the newcomer shares it or is
\* its only user, and nobody else owns a port it asks for.
Available(p, ip, ports, svc, key) ==
    \/ p.key[ip] = Nil
    \/ /\ SharingOK(p.key[ip], key) \/ p.svcs[ip] \subseteq {svc}
       /\ \A q \in ports : p.port[ip][q] \in {Nil, svc}

\* What Assign() does to an available address.
Put(p, ip, ports, svc, key) ==
    [addrs |-> p.addrs,
     svcs  |-> [p.svcs EXCEPT ![ip] = @ \cup {svc}],
     key   |-> [p.key EXCEPT ![ip] = key],
     port  |-> [p.port EXCEPT ![ip] = [q \in Ports |-> IF q \in ports THEN svc ELSE @[q]]]]

\* Mutant: the key stays.
ReleaseKeepsKey(p, ip, svc) ==
    [p EXCEPT !.svcs[ip] = @ \ {svc},
              !.port[ip] = [q \in Ports |-> IF @[q] = svc THEN svc ELSE Nil]]

\* The key goes whoever else uses the address; of the ports, those of the
\* other services go and those of svc stay (localpool.go:143-147).
Release(p, ip, svc) ==
    [addrs |-> p.addrs,
     svcs  |-> [p.svcs EXCEPT ![ip] = @ \ {svc}],
     key   |-> [p.key EXCEPT ![ip] = Nil],
     port  |-> [p.port EXCEPT ![ip] = [q \in Ports |-> IF @[q] = svc THEN svc ELSE Nil]]]

\* The addresses AssignNext() could take, of which it takes the first.
Candidates(p, ports, svc, key) == {ip \in p.addrs : Available(p, ip, ports, svc, key)}
IsFirst(ip, ips) == ip \in ips /\ \A other \in ips : ip <= other
=============================================================================

---------------------------- MODULE MCLifecycle -----------------------------
(***************************************************************************)
(* Small instances of the life of addresses: up to three objects and one   *)
(* prefix with two public addresses and, in some, an alt address.          *)
(***************************************************************************)
EXTENDS AddressLifecycle, TLC

Proxy(ns, name) == [kind |-> "proxy", ns |-> ns, name |-> name]
LB(ns, name) == [kind |-> "lb", ns |-> ns, name |-> name]

MCObjects == {Proxy("n", "x"), Proxy("n", "y"), Proxy("m", "x"), LB("n", "z")}

MCNames == UNION {{FullName(o), AltName(o), WarmName(o)} : o \in Objects}

MCIP == 1 .. 4

Plain == [main |-> {1, 2}, alt |-> Nil]
WithAlt == [main |-> {1, 2}, alt |-> {3}]
MCPoolSpecs == Prefix :> {Plain, WithAlt}

Proxies == {Proxy("n", "x"), Proxy("n", "y"), Proxy("m", "x")}
Mixed == {Proxy("n", "x"), Proxy("n", "y"), LB("n", "z")}

\* Only the creator of LoadBalancer n/z may ask for an address: one that is in
\* no pool.
MCRequested == [o \in Objects |-> IF o = LB("n", "z") THEN {Nil, 4} ELSE {Nil}]

World(objects, s, allowed) == [objects |-> objects, specs |-> {s}, allowed |-> allowed]

\* Worlds in which the code is right: proxies of a plain prefix that nothing
\* overlaps the reconcile of; objects of both kinds and alt addresses as long as
\* the prefix is reconciled only once after each start; and creations that fail
\* at any time in a controller-manager that never restarts.
MCGoodWorlds == {World(Proxies, Plain, {"restart", "resync"}),
                 World(Mixed, WithAlt, {"restart", "reject"}),
                 World(Mixed, WithAlt, {"admission", "reject"})}

ASSUME GoodAssumption == \A w \in MCGoodWorlds : GoodWorld(w)

\* A creation between AddPrefix and the assignment of the listed addresses.
MCWindow == {World({Proxy("n", "x"), Proxy("n", "y")}, Plain, {"restart", "admission"})}
=============================================================================

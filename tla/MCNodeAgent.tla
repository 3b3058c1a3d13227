---------------------------- MODULE MCNodeAgent ----------------------------
(***************************************************************************)
(* Small instances of NodeAgent: GWProxy p1 with an alt address and        *)
(* LoadBalancer b1.  Addresses are aggregated to the subnets of their      *)
(* pools, of which they share the public one.  Port q1 is p1's at first.   *)
(***************************************************************************)
EXTENDS NodeAgent

CONSTANTS p1, b1, q1

MCKind == [o \in Owners |-> IF o = b1 THEN "LoadBalancer" ELSE "GWProxy"]
MCName == [o \in Owners |-> o]
MCPools == [o \in Owners |-> IF o = p1 THEN <<"public", "alt">> ELSE <<"public">>]
MCFirstPorts == [o \in Owners |-> IF o = p1 THEN {q1} ELSE {}]
MCSubnets == [pool \in {"public", "alt"} |-> "default"]
=============================================================================

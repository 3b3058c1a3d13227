----------------------------- MODULE MCTunnels ------------------------------
(***************************************************************************)
(* Small instances of ProxyTunnels: one cluster of endpoints, and all pods *)
(* of the proxy p1 on one node.                                            *)
(***************************************************************************)
EXTENDS ProxyTunnels

CONSTANTS p1, c1, n1

MCClusterOf == [s \in Slices |-> c1]
MCOwner == [d \in Pods |-> p1]
MCNodeOf == [d \in Pods |-> n1]
=============================================================================

---------------------------- MODULE MCLBTunnels ----------------------------
(***************************************************************************)
(* Small instances of LBTunnels: endpoints on a shared client node and an  *)
(* ad-hoc one, and pods on one node.                                       *)
(***************************************************************************)
EXTENDS LBTunnels

CONSTANTS m1, n1, ra   \* a client node, a node of the pods, the ad-hoc endpoint

MCNodeAddress == [r \in Endpoints |-> IF r = ra THEN AdHoc ELSE m1]
MCHostIP == [d \in Pods |-> n1]
=============================================================================

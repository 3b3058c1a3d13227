---------------------------- MODULE TunnelIDSpec ----------------------------
(***************************************************************************)
(* What the functions that allocate tunnel IDs are together: takers of     *)
(* values from one counter that never goes back.  A call returns an ID     *)
(* above all that the same function has returned, and below none that any  *)
(* other has: IDs come in the order of the calls, and none comes back.     *)
(* granted[f][i] counts how often function f returned ID i; there are      *)
(* Width IDs, and all this ends once the counter has wrapped around.       *)
(***************************************************************************)
EXTENDS Naturals

CONSTANTS Width, Functions

VARIABLES granted, wrapped

ID == 0 .. Width - 1
Taken(f) == {i \in ID : granted[f][i] > 0}

Init == granted = [f \in Functions |-> [i \in ID |-> 0]] /\ wrapped = FALSE

\* "CurrentTunnelID stores the most-recently-allocated tunnel ID."
Issue(f) == \E i \in ID :
    /\ wrapped' \/ \A g \in Functions : \A j \in Taken(g) : j < i \/ (j = i /\ g # f)
    /\ granted' = [granted EXCEPT ![f][i] = @ + 1]

Next == /\ wrapped => wrapped'
        /\ UNCHANGED granted \/ \E f \in Functions : Issue(f)

Spec == Init /\ [][Next]_<<granted, wrapped>>
=============================================================================

------------------------------- MODULE Leases -------------------------------
(***************************************************************************)
(* What an allocator of exclusive things promises: a holder has at most    *)
(* one thing, and gets only what nobody else has.                          *)
(***************************************************************************)
CONSTANTS Holder, Thing, None

VARIABLE held   \* held[h]: the thing h holds, or None

Init == held = [h \in Holder |-> None]

\* h gets x, giving up what it had.
Take(h, x) == /\ \A other \in Holder \ {h} : held[other] # x
              /\ held' = [held EXCEPT ![h] = x]

GiveUp(h) == held' = [held EXCEPT ![h] = None]

Next == \E h \in Holder : GiveUp(h) \/ \E x \in Thing : Take(h, x)

Spec == Init /\ [][Next]_held

\* Nobody shares.
Exclusive == \A g, h \in Holder : g # h => held[g] = None \/ held[g] # held[h]
=============================================================================

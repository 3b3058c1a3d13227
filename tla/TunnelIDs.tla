----------------------------- MODULE TunnelIDs ------------------------------
(***************************************************************************)
(* Allocation of tunnel IDs from the Status of the EPIC singleton by       *)
(* optimistic locking.  Two functions do it: v1.AllocateTunnelID, which    *)
(* the GWProxy and proxy-pod paths call (ProxyCalls), and allocateTunnelID *)
(* of the RemoteEndpoint and LoadBalancer-pod paths (LBCalls).  A caller   *)
(* reads the object through the manager's informer cache, computes the     *)
(* next value, and writes it back with Update(), which the API server      *)
(* accepts only when nobody has written the object since that version.     *)
(***************************************************************************)
EXTENDS Naturals

CONSTANTS
    ProxyCalls,   \* concurrent callers of v1.AllocateTunnelID
    LBCalls,      \* concurrent callers of controllers.allocateTunnelID
    ProxyTries,   \* retry.DefaultRetry.Steps
    LBTries,      \* "tries" in allocateTunnelID
    Width,        \* number of values of the uint32 counter
    Demand,       \* bound: IDs each caller asks for
    MaxFaults     \* bound: API errors, restarts and foreign writes

ASSUME CallsAssumption == ProxyCalls \cap LBCalls = {}
ASSUME TriesAssumption == ProxyTries \in Nat \ {0} /\ LBTries \in Nat \ {0}
ASSUME WidthAssumption == Width \in Nat /\ Width > 2
ASSUME BoundsAssumption == Demand \in Nat /\ MaxFaults \in Nat

VARIABLES
    epic,      \* the EPIC object in the API server: [ver, cur]
    cache,     \* the manager's informer copy of it
    pc,        \* what each caller does next: "get" or "update"
    held,      \* the copy each caller is working on
    tries,     \* attempts the current call of each caller has left
    want,      \* IDs each caller still has to ask for
    faults,    \* faults so far
    granted,   \* history: how often each function has returned each ID
    wrapped    \* history: the counter has overflowed

vars == <<epic, cache, pc, held, tries, want, faults, granted, wrapped>>

Callers == ProxyCalls \cup LBCalls
ID == 0 .. Width - 1
Object == [ver : Nat, cur : ID]
Function == {"AllocateTunnelID", "allocateTunnelID"}
Calls(c) == IF c \in LBCalls THEN "allocateTunnelID" ELSE "AllocateTunnelID"

\* Mutant: AllocateTunnelID without its special case for 0.
ReturnedUnadjusted(c, cur) == IF c \in LBCalls THEN (cur + 1) % Width ELSE cur

\* AllocateTunnelID steps over 0, returns the counter and leaves the next
\* value behind; nextTunnelID leaves behind the value it returns.
Returned(c, cur) == IF c \in LBCalls THEN (cur + 1) % Width
                    ELSE IF cur = 0 THEN 1 ELSE cur
NewCurrent(c, cur) == IF c \in LBCalls THEN Returned(c, cur)
                      ELSE (Returned(c, cur) + 1) % Width

Tries(c) == IF c \in LBCalls THEN LBTries ELSE ProxyTries

Init == /\ epic = [ver |-> 0, cur |-> 0]
        /\ cache = epic
        /\ pc = [c \in Callers |-> "get"]
        /\ held = [c \in Callers |-> epic]
        /\ tries = [c \in Callers |-> Tries(c)]
        /\ want = [c \in Callers |-> Demand]
        /\ faults = 0
        /\ granted = [f \in Function |-> [i \in ID |-> 0]]
        /\ wrapped = FALSE

\* Mutant: the counter read by the first attempt is kept by the next ones.
GetVersionOnly(c) == /\ pc[c] = "get" /\ want[c] > 0
                     /\ pc' = [pc EXCEPT ![c] = "update"]
                     /\ held' = [held EXCEPT ![c].ver = cache.ver]
                     /\ UNCHANGED <<epic, cache, tries, want, faults, granted, wrapped>>

\* cl.Get() answers from the cache.
Get(c) == /\ pc[c] = "get" /\ want[c] > 0
          /\ pc' = [pc EXCEPT ![c] = "update"]
          /\ held' = [held EXCEPT ![c] = cache]
          /\ UNCHANGED <<epic, cache, tries, want, faults, granted, wrapped>>

\* Mutant: the attempts run out one too late.
AgainOnceMore(c, sameCall) ==
    /\ pc' = [pc EXCEPT ![c] = "get"]
    /\ tries' = [tries EXCEPT ![c] = IF sameCall /\ @ > 0 THEN @ - 1 ELSE Tries(c)]

\* The next attempt of the same call, or the first of the call that the
\* requeued reconcile makes after this one has returned an error.
Again(c, sameCall) ==
    /\ pc' = [pc EXCEPT ![c] = "get"]
    /\ tries' = [tries EXCEPT ![c] = IF sameCall /\ @ > 1 THEN @ - 1 ELSE Tries(c)]

\* Mutant: a patch, which the API server accepts whatever the version.
WritePatched(c) ==
    /\ epic' = [ver |-> epic.ver + 1, cur |-> NewCurrent(c, held[c].cur)]
    /\ wrapped' = (wrapped \/ epic'.cur < epic.cur)

\* The write the API server makes of caller c's copy.
Write(c) ==
    /\ held[c].ver = epic.ver
    /\ epic' = [ver |-> epic.ver + 1, cur |-> NewCurrent(c, held[c].cur)]
    /\ wrapped' = (wrapped \/ epic'.cur < epic.cur)

\* Update() succeeds: the call returns the ID it computed.
UpdateSucceeds(c) ==
    /\ pc[c] = "update"
    /\ Write(c)
    /\ granted' = [granted EXCEPT ![Calls(c)][Returned(c, held[c].cur)] = @ + 1]
    /\ want' = [want EXCEPT ![c] = @ - 1]
    /\ Again(c, FALSE)
    /\ UNCHANGED <<cache, held, faults>>

\* Mutants: the conflict is taken for success, or retried with the same copy.
ConflictIgnored(c) ==
    /\ pc[c] = "update"
    /\ held[c].ver # epic.ver
    /\ granted' = [granted EXCEPT ![Calls(c)][Returned(c, held[c].cur)] = @ + 1]
    /\ want' = [want EXCEPT ![c] = @ - 1]
    /\ Again(c, FALSE)
    /\ UNCHANGED <<epic, cache, held, faults, wrapped>>
ConflictUnread(c) ==
    /\ pc[c] = "update"
    /\ held[c].ver # epic.ver
    /\ tries' = [tries EXCEPT ![c] = IF @ > 1 THEN @ - 1 ELSE Tries(c)]
    /\ UNCHANGED <<epic, cache, pc, held, want, faults, granted, wrapped>>

\* Update() reports a conflict: both functions try again.
UpdateConflicts(c) ==
    /\ pc[c] = "update"
    /\ held[c].ver # epic.ver
    /\ Again(c, TRUE)
    /\ UNCHANGED <<epic, cache, held, want, faults, granted, wrapped>>

\* Get() or Update() fails otherwise; the write may have been applied when
\* only its answer was lost.  RetryOnConflict gives up, allocateTunnelID
\* tries again whatever the error was.
CallFails(c) ==
    /\ want[c] > 0 /\ faults < MaxFaults
    /\ faults' = faults + 1
    /\ UNCHANGED <<epic, wrapped>> \/ (pc[c] = "update" /\ Write(c))
    /\ Again(c, c \in LBCalls)
    /\ UNCHANGED <<cache, held, want, granted>>

\* The informer catches up with the API server.
CacheSync == /\ cache # epic
             /\ cache' = epic
             /\ UNCHANGED <<epic, pc, held, tries, want, faults, granted, wrapped>>

\* Somebody else writes the object; the status subresource keeps CurrentTunnelID.
ForeignWrite == /\ faults < MaxFaults
                /\ faults' = faults + 1
                /\ epic' = [epic EXCEPT !.ver = @ + 1]
                /\ UNCHANGED <<cache, pc, held, tries, want, granted, wrapped>>

\* The controller-manager restarts: calls in progress are forgotten, the
\* informer lists anew.
Restart == /\ faults < MaxFaults
           /\ faults' = faults + 1
           /\ cache' = epic
           /\ pc' = [c \in Callers |-> "get"]
           /\ tries' = [c \in Callers |-> Tries(c)]
           /\ UNCHANGED <<epic, held, want, granted, wrapped>>

CallerStep(c) == Get(c) \/ UpdateSucceeds(c) \/ UpdateConflicts(c)

Next == \/ \E c \in Callers : CallerStep(c) \/ CallFails(c)
        \/ CacheSync \/ ForeignWrite \/ Restart

Spec == Init /\ [][Next]_vars

\* Each caller's goroutine and the informer run; faults need not happen.
FairSpec == Spec /\ WF_vars(CacheSync) /\ \A c \in Callers : WF_vars(CallerStep(c))
-----------------------------------------------------------------------------
TypeOK == /\ epic \in Object /\ cache \in Object
          /\ pc \in [Callers -> {"get", "update"}]
          /\ held \in [Callers -> Object]
          /\ tries \in [Callers -> Nat \ {0}]
          /\ want \in [Callers -> Nat]
          /\ faults \in Nat
          /\ granted \in [Function -> [ID -> Nat]]
          /\ wrapped \in BOOLEAN

\* How many calls of either function have returned each ID.
Issued == [i \in ID |-> granted["AllocateTunnelID"][i] + granted["allocateTunnelID"][i]]

\* No two calls of the same function return the same ID, whatever conflicts,
\* stale reads, lost answers, restarts and calls of the other function come
\* between, until the counter overflows.
UniquePerFunction == ~wrapped => \A f \in Function, i \in ID : granted[f][i] <= 1

\* No two calls at all return the same ID (until the counter overflows):
\* "If this call succeeds then the returned ID will be unique."
UniqueIDs == ~wrapped => \A i \in ID : Issued[i] <= 1

\* A caller whose copy carries the current version has the current counter:
\* what makes Update() a compare-and-set of CurrentTunnelID.
VersionsIdentify == /\ \A c \in Callers : held[c].ver = epic.ver => held[c].cur = epic.cur
                    /\ cache.ver = epic.ver => cache.cur = epic.cur

\* AllocateTunnelID never returns 0, not even when the counter overflows: the
\* adjustment of a zero counter comes before the value is taken.
ZeroNeverReturned == granted["AllocateTunnelID"][0] = 0

\* Both functions together implement one counter that never goes back, as the
\* comment on CurrentTunnelID has it: whoever of the callers of either is told an
\* ID later is told a higher one, or the other function's last one once more.
Counter == INSTANCE TunnelIDSpec WITH Functions <- Function
OneCounter == Counter!Spec

\* Every caller obtains every ID it needs: conflicts and stale reads are
\* retried until they end, and nobody waits for anybody.
EveryoneServed == <>(\A c \in Callers : want[c] = 0)
=============================================================================

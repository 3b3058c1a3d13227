-------------------------- MODULE TunnelIDs_proofs --------------------------
(***************************************************************************)
(* Proofs about TunnelIDs, for every set of callers, number of tries,      *)
(* counter width, demand and number of faults.                             *)
(***************************************************************************)
EXTENDS TunnelIDs, TLAPS

\* No copy is newer than the object, and copies of one version are equal.
NoCopyIsAhead == /\ cache.ver <= epic.ver
                 /\ \A c \in Callers : held[c].ver <= epic.ver

\* Until the counter overflows, what has been returned lies below it: at most
\* at it for allocateTunnelID, strictly below it for AllocateTunnelID.
ReturnedBelowCounter ==
    ~wrapped => \A i \in ID :
        /\ granted["allocateTunnelID"][i] > 0 => i <= epic.cur
        /\ granted["AllocateTunnelID"][i] > 0 => i < epic.cur

\* Only a caller that still wants an ID has a write to make.
UpdateIsWanted == \A c \in Callers : pc[c] = "update" => want[c] > 0

IInv == /\ TypeOK /\ UpdateIsWanted
        /\ VersionsIdentify /\ NoCopyIsAhead
        /\ ReturnedBelowCounter /\ UniquePerFunction /\ ZeroNeverReturned

USE DEF Object, Callers

\* What the two functions compute from a counter stays within its width; short
\* of an overflow it does not go below the ID returned, which is beyond
\* everything returned before.
LEMMA Computed ==
    ASSUME NEW c \in Callers, NEW cur \in ID
    PROVE  /\ Returned(c, cur) \in ID /\ NewCurrent(c, cur) \in ID
           /\ c \in LBCalls /\ NewCurrent(c, cur) >= cur =>
                /\ Returned(c, cur) = cur + 1
                /\ NewCurrent(c, cur) = cur + 1
           /\ c \notin LBCalls /\ NewCurrent(c, cur) >= cur =>
                /\ Returned(c, cur) >= cur
                /\ Returned(c, cur) # 0
                /\ NewCurrent(c, cur) = Returned(c, cur) + 1
           /\ c \notin LBCalls => Returned(c, cur) # 0
<1>1. CASE c \in LBCalls
  <2>1. CASE cur + 1 < Width
    <3>1. (cur + 1) % Width = cur + 1
      BY <2>1, WidthAssumption DEF ID
    <3> QED BY <1>1, <2>1, <3>1, WidthAssumption DEF Returned, NewCurrent, ID
  <2>2. CASE cur + 1 = Width
    <3>1. (cur + 1) % Width = 0
      BY <2>2, WidthAssumption DEF ID
    <3> QED BY <1>1, <2>2, <3>1, WidthAssumption DEF Returned, NewCurrent, ID
  <2> QED BY <2>1, <2>2, WidthAssumption DEF ID
<1>2. CASE c \notin LBCalls
  <2> DEFINE id == IF cur = 0 THEN 1 ELSE cur
  <2>1. id \in ID /\ id # 0 /\ id >= cur
    BY WidthAssumption DEF ID
  <2>2. Returned(c, cur) = id /\ NewCurrent(c, cur) = (id + 1) % Width
    BY <1>2 DEF Returned, NewCurrent
  <2> HIDE DEF id
  <2>3. CASE id + 1 < Width
    <3>1. (id + 1) % Width = id + 1
      BY <2>1, <2>3, WidthAssumption DEF ID
    <3> QED BY <1>2, <2>1, <2>2, <2>3, <3>1, WidthAssumption DEF ID
  <2>4. CASE id + 1 = Width
    <3>1. (id + 1) % Width = 0
      BY <2>4, WidthAssumption DEF ID
    <3>2. cur # 0
      BY <2>1, <2>4, WidthAssumption DEF ID, id
    <3> QED BY <1>2, <2>1, <2>2, <2>4, <3>1, <3>2, WidthAssumption DEF ID
  <2> QED BY <2>1, <2>3, <2>4, WidthAssumption DEF ID
<1> QED BY <1>1, <1>2

LEMMA InitIInv == Init => IInv
<1> SUFFICES ASSUME Init PROVE IInv
  OBVIOUS
<1> USE WidthAssumption DEF ID
<1>1. TypeOK
  <2>1. epic \in Object /\ cache \in Object /\ held \in [Callers -> Object]
    BY DEF Init
  <2>2. tries \in [Callers -> Nat \ {0}]
    BY TriesAssumption DEF Init, Tries
  <2> QED BY <2>1, <2>2, BoundsAssumption DEF Init, TypeOK
<1>2. UpdateIsWanted /\ VersionsIdentify /\ NoCopyIsAhead
  BY DEF Init, UpdateIsWanted, VersionsIdentify, NoCopyIsAhead
<1>3. ReturnedBelowCounter /\ UniquePerFunction /\ ZeroNeverReturned
  BY DEF Init, ReturnedBelowCounter, UniquePerFunction, ZeroNeverReturned, Function
<1> QED BY <1>1, <1>2, <1>3 DEF IInv

\* A new attempt leaves the callers' states well typed, and asks for a Get first.
LEMMA AgainFacts ==
    ASSUME TypeOK, UpdateIsWanted, NEW c \in Callers, NEW b \in BOOLEAN, Again(c, b)
    PROVE  /\ pc' \in [Callers -> {"get", "update"}] /\ tries' \in [Callers -> Nat \ {0}]
           /\ pc'[c] = "get"
           /\ \A d \in Callers : pc'[d] = "update" => pc[d] = "update" /\ d # c
<1>1. pc' = [pc EXCEPT ![c] = "get"] /\ pc \in [Callers -> {"get", "update"}]
  BY DEF TypeOK, Again
<1>2. Tries(c) \in Nat \ {0}
  BY TriesAssumption DEF Tries
<1>3. tries' \in [Callers -> Nat \ {0}]
  BY <1>2 DEF TypeOK, Again
<1> QED BY <1>1, <1>3

\* A successful write: the version moves on, the counter was the one the
\* caller read, and short of an overflow it only grows.
LEMMA WriteFacts ==
    ASSUME IInv, NEW c \in Callers, Write(c)
    PROVE  /\ epic' \in Object /\ epic'.ver = epic.ver + 1 /\ wrapped' \in BOOLEAN
           /\ held[c].cur = epic.cur
           /\ epic'.cur = NewCurrent(c, epic.cur)
           /\ ~wrapped' => ~wrapped /\ epic'.cur >= epic.cur
<1>1. held[c].cur = epic.cur /\ epic.cur \in ID /\ epic.ver \in Nat /\ wrapped \in BOOLEAN
  BY DEF IInv, TypeOK, VersionsIdentify, Write
<1>2. NewCurrent(c, epic.cur) \in ID
  BY <1>1, Computed
<1>3. epic' = [ver |-> epic.ver + 1, cur |-> NewCurrent(c, epic.cur)]
  BY <1>1 DEF Write
<1>4. wrapped' = (wrapped \/ epic'.cur < epic.cur)
  BY DEF Write
<1>5. wrapped' \in BOOLEAN /\ (~wrapped' => ~wrapped /\ ~(epic'.cur < epic.cur))
  BY <1>4, Zenon
<1> QED BY <1>1, <1>2, <1>3, <1>5, WidthAssumption DEF ID

\* Copies taken before a write cannot pass for the object written.
LEMMA WriteVersions ==
    ASSUME IInv, NEW c \in Callers, Write(c), UNCHANGED <<cache, held>>
    PROVE  VersionsIdentify' /\ NoCopyIsAhead'
<1>1. epic'.ver = epic.ver + 1 /\ epic.ver \in Nat
  BY WriteFacts DEF IInv, TypeOK
<1> QED BY <1>1 DEF IInv, TypeOK, VersionsIdentify, NoCopyIsAhead

\* A step that returns nothing and, short of an overflow, does not move the
\* counter back keeps the facts about the IDs returned.
LEMMA NothingReturned ==
    ASSUME IInv, TypeOK', granted' = granted,
           ~wrapped' => ~wrapped /\ epic'.cur >= epic.cur
    PROVE  ReturnedBelowCounter' /\ UniquePerFunction' /\ ZeroNeverReturned'
<1>1. /\ granted \in [Function -> [ID -> Nat]]
      /\ epic.cur \in ID /\ epic'.cur \in ID /\ ID \subseteq Nat
  BY WidthAssumption DEF IInv, TypeOK, ID
<1>2. ZeroNeverReturned' /\ UniquePerFunction'
  BY DEF IInv, UniquePerFunction, ZeroNeverReturned
<1>3. CASE wrapped'
  BY <1>2, <1>3 DEF ReturnedBelowCounter
<1>4. CASE ~wrapped'
  <2>1. \A i \in ID : /\ granted["allocateTunnelID"][i] > 0 => i <= epic.cur
                      /\ granted["AllocateTunnelID"][i] > 0 => i < epic.cur
    BY <1>4 DEF IInv, ReturnedBelowCounter
  <2>2. epic'.cur >= epic.cur
    BY <1>4
  <2>3. \A i \in ID : /\ granted'["allocateTunnelID"][i] > 0 => i <= epic'.cur
                      /\ granted'["AllocateTunnelID"][i] > 0 => i < epic'.cur
    <3> TAKE i \in ID
    <3>1. i \in Nat /\ epic.cur \in Nat /\ epic'.cur \in Nat
      BY <1>1
    <3> QED BY <2>1, <2>2, <3>1
  <2>4. ReturnedBelowCounter'
    BY <2>3, Zenon DEF ReturnedBelowCounter
  <2> QED BY <1>2, <2>4
<1> QED BY <1>3, <1>4

LEMMA GetStep == ASSUME IInv, NEW c \in Callers, Get(c) PROVE IInv'
<1>1. TypeOK' /\ UpdateIsWanted'
  BY DEF IInv, TypeOK, UpdateIsWanted, Get
<1>2. VersionsIdentify' /\ NoCopyIsAhead'
  BY DEF IInv, TypeOK, VersionsIdentify, NoCopyIsAhead, Get
<1>3. ReturnedBelowCounter' /\ UniquePerFunction' /\ ZeroNeverReturned'
  BY DEF IInv, ReturnedBelowCounter, UniquePerFunction, ZeroNeverReturned, Get
<1> QED BY <1>1, <1>2, <1>3 DEF IInv

LEMMA ConflictStep == ASSUME IInv, NEW c \in Callers, UpdateConflicts(c) PROVE IInv'
<1>1. TypeOK' /\ UpdateIsWanted'
  BY AgainFacts DEF IInv, TypeOK, UpdateIsWanted, UpdateConflicts
<1>2. VersionsIdentify' /\ NoCopyIsAhead'
  BY DEF IInv, VersionsIdentify, NoCopyIsAhead, UpdateConflicts
<1>3. ReturnedBelowCounter' /\ UniquePerFunction' /\ ZeroNeverReturned'
  BY DEF IInv, ReturnedBelowCounter, UniquePerFunction, ZeroNeverReturned, UpdateConflicts
<1> QED BY <1>1, <1>2, <1>3 DEF IInv

LEMMA FailStep == ASSUME IInv, NEW c \in Callers, CallFails(c) PROVE IInv'
<1>1. /\ pc' \in [Callers -> {"get", "update"}] /\ tries' \in [Callers -> Nat \ {0}]
      /\ \A d \in Callers : pc'[d] = "update" => pc[d] = "update"
  BY AgainFacts, (c \in LBCalls) \in BOOLEAN DEF IInv, CallFails
<1>2. UNCHANGED <<cache, held, want, granted>> /\ faults' = faults + 1
  BY DEF CallFails
<1>3. UpdateIsWanted'
  BY <1>1, <1>2 DEF IInv, UpdateIsWanted
<1>4. CASE UNCHANGED <<epic, wrapped>>
  <2>1. TypeOK'
    BY <1>1, <1>2, <1>4 DEF IInv, TypeOK
  <2>2. VersionsIdentify' /\ NoCopyIsAhead'
    BY <1>2, <1>4 DEF IInv, VersionsIdentify, NoCopyIsAhead
  <2>3. ReturnedBelowCounter' /\ UniquePerFunction' /\ ZeroNeverReturned'
    BY <1>2, <1>4 DEF IInv, ReturnedBelowCounter, UniquePerFunction, ZeroNeverReturned
  <2> QED BY <1>3, <2>1, <2>2, <2>3 DEF IInv
<1>5. CASE Write(c)
  <2>1. TypeOK'
    BY <1>1, <1>2, <1>5, WriteFacts DEF IInv, TypeOK
  <2>2. VersionsIdentify' /\ NoCopyIsAhead'
    BY <1>2, <1>5, WriteVersions
  <2>3. ReturnedBelowCounter' /\ UniquePerFunction' /\ ZeroNeverReturned'
    BY <1>2, <1>5, <2>1, WriteFacts, NothingReturned
  <2> QED BY <1>3, <2>1, <2>2, <2>3 DEF IInv
<1> QED BY <1>4, <1>5 DEF CallFails

\* What a successful call does to the counter and to the IDs returned: short of
\* an overflow its ID is beyond all that its function has returned before.
LEMMA SuccessFacts ==
    ASSUME IInv, NEW c \in Callers, UpdateSucceeds(c),
           NEW f, f = Calls(c), NEW id, id = Returned(c, epic.cur)
    PROVE  /\ f \in Function /\ id \in ID
           /\ granted' = [granted EXCEPT ![f][id] = @ + 1]
           /\ ~wrapped' => /\ ~wrapped /\ granted[f][id] = 0
                           /\ f = "allocateTunnelID" => id = epic.cur + 1 /\ epic'.cur = id
                           /\ f = "AllocateTunnelID" => id >= epic.cur /\ epic'.cur = id + 1
<1>1. /\ held[c].cur = epic.cur /\ epic'.cur = NewCurrent(c, epic.cur)
      /\ ~wrapped' => ~wrapped /\ epic'.cur >= epic.cur
  BY WriteFacts DEF UpdateSucceeds
<1>2. epic.cur \in ID /\ f \in Function /\ granted \in [Function -> [ID -> Nat]]
  BY DEF IInv, TypeOK, Calls, Function
<1>3. id \in ID
  BY <1>2, Computed
<1>4. granted' = [granted EXCEPT ![f][id] = @ + 1]
  BY <1>1 DEF UpdateSucceeds
<1>5. ASSUME ~wrapped'
      PROVE  /\ ~wrapped /\ granted[f][id] = 0
             /\ f = "allocateTunnelID" => id = epic.cur + 1 /\ epic'.cur = id
             /\ f = "AllocateTunnelID" => id >= epic.cur /\ epic'.cur = id + 1
  <2>1. ~wrapped /\ NewCurrent(c, epic.cur) >= epic.cur
    BY <1>1, <1>5
  <2>2. /\ f = "allocateTunnelID" => id = epic.cur + 1 /\ epic'.cur = id
        /\ f = "AllocateTunnelID" => id >= epic.cur /\ epic'.cur = id + 1
    BY <1>1, <1>2, <2>1, Computed DEF Calls
  <2>3. \A i \in ID : /\ granted["allocateTunnelID"][i] > 0 => i <= epic.cur
                      /\ granted["AllocateTunnelID"][i] > 0 => i < epic.cur
    BY <2>1 DEF IInv, ReturnedBelowCounter
  <2>4. ~(granted[f][id] > 0)
    BY <1>2, <1>3, <2>2, <2>3, WidthAssumption DEF Function, ID
  <2>5. granted[f][id] = 0
    BY <1>2, <1>3, <2>4
  <2> QED BY <2>1, <2>2, <2>5
<1> QED BY <1>2, <1>3, <1>4, <1>5

LEMMA SuccessStep == ASSUME IInv, NEW c \in Callers, UpdateSucceeds(c) PROVE IInv'
<1>1. PICK f, id : f = Calls(c) /\ id = Returned(c, epic.cur)
  OBVIOUS
<1>2. /\ f \in Function /\ id \in ID
      /\ granted' = [granted EXCEPT ![f][id] = @ + 1]
      /\ ~wrapped' => /\ ~wrapped /\ granted[f][id] = 0
                      /\ f = "allocateTunnelID" => id = epic.cur + 1 /\ epic'.cur = id
                      /\ f = "AllocateTunnelID" => id >= epic.cur /\ epic'.cur = id + 1
  BY <1>1, SuccessFacts
<1>3. Write(c) /\ Again(c, FALSE) /\ UNCHANGED <<cache, held, faults>>
  BY DEF UpdateSucceeds
<1>4. /\ epic' \in Object /\ wrapped' \in BOOLEAN
      /\ epic.cur \in ID /\ granted \in [Function -> [ID -> Nat]]
  BY <1>3, WriteFacts DEF IInv, TypeOK
<1>5. /\ granted' \in [Function -> [ID -> Nat]]
      /\ \A i \in ID : i # id => granted'[f][i] = granted[f][i]
      /\ granted'[f][id] = granted[f][id] + 1
      /\ \A g \in Function : g # f => granted'[g] = granted[g]
  BY <1>2, <1>4
<1>6. TypeOK' /\ UpdateIsWanted'
  <2>1. /\ pc' \in [Callers -> {"get", "update"}] /\ tries' \in [Callers -> Nat \ {0}]
        /\ \A d \in Callers : pc'[d] = "update" => pc[d] = "update" /\ d # c
    BY <1>3, AgainFacts DEF IInv
  <2>2. want' = [want EXCEPT ![c] = @ - 1] /\ want[c] > 0 /\ want \in [Callers -> Nat]
    BY DEF UpdateSucceeds, IInv, TypeOK, UpdateIsWanted
  <2>3. want' \in [Callers -> Nat]
    BY <2>2
  <2> QED BY <1>3, <1>4, <1>5, <2>1, <2>2, <2>3 DEF IInv, TypeOK, UpdateIsWanted
<1>7. VersionsIdentify' /\ NoCopyIsAhead'
  BY <1>3, WriteVersions
<1>8. ReturnedBelowCounter' /\ UniquePerFunction'
  <2> SUFFICES ASSUME ~wrapped' PROVE ReturnedBelowCounter' /\ UniquePerFunction'
    BY Zenon DEF ReturnedBelowCounter, UniquePerFunction
  <2>1. /\ ~wrapped /\ granted[f][id] = 0
        /\ f = "allocateTunnelID" => id = epic.cur + 1 /\ epic'.cur = id
        /\ f = "AllocateTunnelID" => id >= epic.cur /\ epic'.cur = id + 1
    BY <1>2
  <2>2. \A i \in ID : /\ granted["allocateTunnelID"][i] > 0 => i <= epic.cur
                      /\ granted["AllocateTunnelID"][i] > 0 => i < epic.cur
    BY <2>1 DEF IInv, ReturnedBelowCounter
  <2>3. \A g \in Function, i \in ID : granted[g][i] <= 1
    BY <2>1 DEF IInv, UniquePerFunction
  <2>4. UniquePerFunction'
    BY <1>2, <1>4, <1>5, <2>1, <2>3 DEF UniquePerFunction
  <2>5. ReturnedBelowCounter'
    <3> SUFFICES ASSUME NEW i \in ID
                 PROVE  /\ granted'["allocateTunnelID"][i] > 0 => i <= epic'.cur
                        /\ granted'["AllocateTunnelID"][i] > 0 => i < epic'.cur
      BY Zenon DEF ReturnedBelowCounter
    <3>1. i \in Nat /\ id \in Nat /\ epic.cur \in Nat /\ epic'.cur \in Nat
      BY <1>2, <1>4, WidthAssumption DEF ID
    <3>2. CASE f = "allocateTunnelID"
      BY <1>2, <1>4, <1>5, <2>1, <2>2, <3>1, <3>2 DEF Function
    <3>3. CASE f = "AllocateTunnelID"
      BY <1>2, <1>4, <1>5, <2>1, <2>2, <3>1, <3>3 DEF Function
    <3> QED BY <1>2, <3>2, <3>3 DEF Function
  <2> QED BY <2>4, <2>5
<1>9. ZeroNeverReturned'
  <2>1. f = "AllocateTunnelID" => id # 0
    BY <1>1, <1>4, Computed DEF Calls
  <2>2. 0 \in ID /\ "AllocateTunnelID" \in Function
    BY WidthAssumption DEF ID, Function
  <2> QED BY <1>2, <1>4, <1>5, <2>1, <2>2 DEF IInv, ZeroNeverReturned
<1> QED BY <1>6, <1>7, <1>8, <1>9 DEF IInv

\* The steps of the environment: the informer, other writers, a restart.
LEMMA EnvironmentStep == ASSUME IInv, CacheSync \/ ForeignWrite \/ Restart PROVE IInv'
<1>1. TypeOK' /\ UpdateIsWanted'
  <2>1. CASE CacheSync
    BY <2>1 DEF IInv, TypeOK, UpdateIsWanted, CacheSync
  <2>2. CASE ForeignWrite
    BY <2>2 DEF IInv, TypeOK, UpdateIsWanted, ForeignWrite
  <2>3. CASE Restart
    <3>1. [c \in Callers |-> Tries(c)] \in [Callers -> Nat \ {0}]
      BY TriesAssumption DEF Tries
    <3> QED BY <2>3, <3>1 DEF IInv, TypeOK, UpdateIsWanted, Restart
  <2> QED BY <2>1, <2>2, <2>3
<1>2. VersionsIdentify' /\ NoCopyIsAhead'
  BY DEF IInv, TypeOK, VersionsIdentify, NoCopyIsAhead, CacheSync, ForeignWrite, Restart
<1>3. UNCHANGED <<granted, wrapped>> /\ epic'.cur = epic.cur /\ epic.cur \in Nat
  BY WidthAssumption DEF IInv, TypeOK, ID, CacheSync, ForeignWrite, Restart
<1> QED BY <1>1, <1>2, <1>3, NothingReturned DEF IInv

LEMMA Step == IInv /\ [Next]_vars => IInv'
<1> SUFFICES ASSUME IInv, [Next]_vars PROVE IInv'
  OBVIOUS
<1>1. CASE Next
  BY <1>1, GetStep, SuccessStep, ConflictStep, FailStep, EnvironmentStep DEF Next, CallerStep
<1>2. CASE UNCHANGED vars
  BY <1>2 DEF vars, IInv, TypeOK, UpdateIsWanted, VersionsIdentify, NoCopyIsAhead,
              ReturnedBelowCounter, UniquePerFunction, ZeroNeverReturned
<1> QED BY <1>1, <1>2

LEMMA Inductive == Spec => []IInv
BY InitIInv, Step, PTL DEF Spec

\* Every variable keeps its type.
THEOREM TypeCorrect == Spec => []TypeOK
BY Inductive, PTL DEF IInv

\* epic_types.go:187, remoteendpoint_controller.go:222: Update() is a
\* compare-and-set of the counter.
THEOREM CompareAndSet == Spec => []VersionsIdentify
BY Inductive, PTL DEF IInv

\* Whatever mixture of the two functions runs, no two calls of the same one
\* return the same ID before the counter overflows.
THEOREM NoFunctionRepeatsItself == Spec => []UniquePerFunction
BY Inductive, PTL DEF IInv

\* AllocateTunnelID returns a usable ID, even past the overflow.
THEOREM NeverZero == Spec => []ZeroNeverReturned
BY Inductive, PTL DEF IInv

-----------------------------------------------------------------------------
\* With callers of one function only, the promise of uniqueness holds among all
\* calls: the other function has returned nothing.
OneFunction == LBCalls = {} \/ ProxyCalls = {}
OthersUnused == \A f \in Function : (\A c \in Callers : f # Calls(c))
                                      => \A i \in ID : granted[f][i] = 0

\* A step either returns one ID of a caller's function or returns nothing.
LEMMA StepReturns ==
    ASSUME IInv, [Next]_vars
    PROVE  \/ UNCHANGED granted /\ (wrapped => wrapped')
           \/ \E c \in Callers : UpdateSucceeds(c) /\ (wrapped => wrapped')
<1>1. CASE Next
  <2>1. ASSUME NEW c \in Callers, Write(c) PROVE wrapped => wrapped'
    BY <2>1, Zenon DEF Write
  <2>2. CASE \E c \in Callers : UpdateSucceeds(c)
    BY <2>1, <2>2 DEF UpdateSucceeds
  <2>3. CASE \E c \in Callers : Get(c) \/ UpdateConflicts(c)
    BY <2>3 DEF Get, UpdateConflicts
  <2>4. CASE \E c \in Callers : CallFails(c)
    BY <2>1, <2>4 DEF CallFails
  <2>5. CASE CacheSync \/ ForeignWrite \/ Restart
    BY <2>5 DEF CacheSync, ForeignWrite, Restart
  <2> QED BY <1>1, <2>2, <2>3, <2>4, <2>5 DEF Next, CallerStep
<1>2. CASE UNCHANGED vars
  BY <1>2 DEF vars
<1> QED BY <1>1, <1>2

LEMMA OthersStayUnused ==
    ASSUME OneFunction, IInv, OthersUnused, [Next]_vars PROVE OthersUnused'
<1>1. CASE UNCHANGED granted
  BY <1>1 DEF OthersUnused
<1>2. ASSUME NEW c \in Callers, UpdateSucceeds(c) PROVE OthersUnused'
  <2>1. PICK f, id : f = Calls(c) /\ id = Returned(c, epic.cur)
    OBVIOUS
  <2>2. f \in Function /\ id \in ID /\ granted' = [granted EXCEPT ![f][id] = @ + 1]
    BY <1>2, <2>1, SuccessFacts
  <2>3. \A g \in Function : g # f => granted'[g] = granted[g]
    BY <2>2 DEF IInv, TypeOK
  <2> QED BY <2>1, <2>2, <2>3 DEF OthersUnused
<1> QED BY <1>1, <1>2, StepReturns

LEMMA InitOthersUnused == Init => OthersUnused
BY DEF Init, OthersUnused

\* A step returns one ID of one function, above what it has returned and not below
\* what the other has (until the counter wraps), or it returns nothing.
LEMMA CounterStep ==
    ASSUME IInv, [Next]_vars
    PROVE  Counter!Next
<1> USE DEF Counter!Next, Counter!Issue, Counter!Taken, Counter!ID
<1>1. CASE UNCHANGED granted /\ (wrapped => wrapped')
  BY <1>1
<1>2. ASSUME NEW c \in Callers, UpdateSucceeds(c), wrapped => wrapped'
      PROVE  Counter!Next
  <2>1. PICK f, id : f = Calls(c) /\ id = Returned(c, epic.cur)
    OBVIOUS
  <2>2. /\ f \in Function /\ id \in ID
        /\ granted' = [granted EXCEPT ![f][id] = @ + 1]
        /\ ~wrapped' => /\ ~wrapped
                        /\ f = "allocateTunnelID" => id = epic.cur + 1
                        /\ f = "AllocateTunnelID" => id >= epic.cur
    BY <1>2, <2>1, SuccessFacts
  <2>3. epic.cur \in ID /\ ID \subseteq Nat
    BY WidthAssumption DEF IInv, TypeOK, ID
  <2>4. ASSUME ~wrapped', NEW g \in Function, NEW j \in ID, granted[g][j] > 0
        PROVE  j < id \/ (j = id /\ g # f)
    <3>1. /\ g = "allocateTunnelID" => j <= epic.cur
          /\ g = "AllocateTunnelID" => j < epic.cur
      BY <2>2, <2>4 DEF IInv, ReturnedBelowCounter
    <3> QED BY <2>2, <2>3, <2>4, <3>1 DEF Function
  <2>5. Counter!Issue(f)
    BY <2>2, <2>4 DEF ID
  <2> QED BY <1>2, <2>2, <2>5
<1> QED BY <1>1, <1>2, StepReturns

\* Both functions together are one counter that never goes back, as the comment
\* on CurrentTunnelID has it, for any number of callers of either.
THEOREM FunctionsShareOneCounter == Spec => OneCounter
<1>1. Init => Counter!Init
  BY DEF Init, Counter!Init, Counter!ID, ID
<1>2. IInv /\ [Next]_vars => [Counter!Next]_<<granted, wrapped>>
  BY CounterStep
<1> QED BY <1>1, <1>2, Inductive, PTL DEF Spec, OneCounter, Counter!Spec

\* No two calls return the same ID, for any number of callers of one function.
THEOREM OneFunctionUnique == ASSUME OneFunction PROVE Spec => []UniqueIDs
<1>1. IInv /\ OthersUnused => UniqueIDs
  <2> SUFFICES ASSUME IInv, OthersUnused, ~wrapped, NEW i \in ID PROVE Issued[i] <= 1
    BY Zenon DEF UniqueIDs
  <2>1. granted \in [Function -> [ID -> Nat]] /\ \A f \in Function : granted[f][i] <= 1
    BY DEF IInv, TypeOK, UniquePerFunction
  <2>2. granted["AllocateTunnelID"][i] = 0 \/ granted["allocateTunnelID"][i] = 0
    <3>1. CASE LBCalls = {}
      BY <3>1 DEF OthersUnused, Calls, Function
    <3>2. CASE ProxyCalls = {}
      BY <3>2 DEF OthersUnused, Calls, Function
    <3> QED BY <3>1, <3>2 DEF OneFunction
  <2> QED BY <2>1, <2>2 DEF Issued, Function
<1>2. OthersUnused /\ IInv /\ [Next]_vars => OthersUnused'
  BY OthersStayUnused
<1> QED BY <1>1, <1>2, InitOthersUnused, Inductive, PTL DEF Spec
=============================================================================

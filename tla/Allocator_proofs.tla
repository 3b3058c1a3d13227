-------------------------- MODULE Allocator_proofs --------------------------
(***************************************************************************)
(* Proofs about Allocator, for every set of services, addresses, ports,    *)
(* prefixes and range specifications, and about the ranges of its pools,   *)
(* for bytes and addresses of any width.                                   *)
(***************************************************************************)
EXTENDS PoolRanges, AllocatorCalls_proofs, FiniteSetTheorems, WellFoundedInduction

LEMMA InitCallsInv == Init => CallsInv
BY DEF Init, New, CallsInv, AllocatorOK, NoGhostUsers, KeyMeansUser

LEMMA NextCallsInv == CallsInv /\ [Next]_vars => CallsInv'
<1> SUFFICES ASSUME CallsInv, [Next]_vars PROVE CallsInv'
  OBVIOUS
<1>1. CASE UNCHANGED vars
  BY <1>1 DEF vars, CallsInv, AllocatorOK, NoGhostUsers, KeyMeansUser, Holders, Users
<1>2. CASE \E sp \in Prefixes : RemovePool(sp)
  BY <1>2, RemovePoolStep
<1>3. CASE \E sp \in Prefixes : \E s \in PoolSpecs[sp] : AddPrefix(sp, s)
  BY <1>3, AddPrefixStep
<1>4. CASE \E svc \in Services, ports \in SUBSET Ports, key \in Keys :
              \/ \E ip \in IP : Assign(svc, ip, ports, key)
              \/ \E n \in PoolNames : AllocateFromPool(svc, n, ports, key)
  <2>1. PICK svc \in Services, ports \in SUBSET Ports, key \in Keys :
              \/ \E ip \in IP : Assign(svc, ip, ports, key)
              \/ \E n \in PoolNames : AllocateFromPool(svc, n, ports, key)
    BY <1>4
  <2>2. PICK n \in PoolNames, ip \in IP :
              /\ pools[n] # Nil /\ Available(pools[n], ip, ports, svc, key)
              /\ Install(svc, [pool |-> n, ip |-> ip, ports |-> ports, key |-> key])
    BY <2>1, AssignIsInstall DEF CallsInv
  <2> QED BY <2>2, InstallStep
<1>5. CASE \E svc \in Services : Unassign(svc)
  BY <1>5, UnassignStep
<1> QED BY <1>1, <1>2, <1>3, <1>4, <1>5 DEF Next

LEMMA Invariance == Spec => []CallsInv
<1> QED BY InitCallsInv, NextCallsInv, PTL DEF Spec

\* The allocator's state keeps its types, even where pools are replaced under
\* their allocations.
THEOREM TypeCorrect == Spec => []TypeOK
<1>1. CallsInv => TypeOK
  BY DEF CallsInv, TypeOK
<1> QED BY <1>1, Invariance, PTL

\* A pool never counts a service as a user of an address that the allocator
\* did not give it: Unassign and re-assignment leave no entry behind.
THEOREM NoGhosts == Spec => []NoGhostUsers
<1>1. CallsInv => NoGhostUsers
  BY DEF CallsInv
<1> QED BY <1>1, Invariance, PTL

\* An address given to nobody can be given to anybody: no sequence of
\* AddPrefix, Assign, AllocateFromPool and Unassign leaks an address.
THEOREM NothingLeaks == Spec => []NoLeak
<1>1. CallsInv => NoLeak
  <2> SUFFICES ASSUME CallsInv, NEW n \in PoolNames, pools[n] # Nil, NEW ip \in pools[n].addrs,
                      Holders(n, ip) = {},
                      NEW svc \in Services, NEW ports \in SUBSET Ports, NEW key \in Keys
               PROVE  Available(pools[n], ip, ports, svc, key)
    BY DEF NoLeak
  <2>1. ip \in IP
    BY DEF CallsInv, AllocatorOK, Pool
  <2>2. pools[n].svcs[ip] = {}
    BY <2>1 DEF CallsInv, NoGhostUsers
  <2>3. pools[n].key[ip] = Nil
    BY <2>1, <2>2 DEF CallsInv, KeyMeansUser
  <2> QED BY <2>3 DEF Available
<1> QED BY <1>1, Invariance, PTL

-----------------------------------------------------------------------------
\* Where AddPrefix never replaces a pool that has allocations, a pool and the
\* allocations in it agree exactly, and a service that does not share an
\* address is alone on it.

\* A service's pool exists.
PoolsInUseExist == \A n \in PoolNames : Users(n) # {} => pools[n] # Nil

\* An address with a user has a key (not so where users share: Release()).
UserMeansKey == \A n \in PoolNames : pools[n] # Nil =>
                    \A ip \in IP : pools[n].svcs[ip] # {} => pools[n].key[ip] # Nil

\* Nobody has a neighbour.
Alone == \A s, t \in Services :
            s # t /\ allocated[s] # Nil /\ allocated[t] # Nil
                => allocated[s].pool # allocated[t].pool \/ allocated[s].ip # allocated[t].ip

AInv == CallsInv /\ Agreement
EInv == AInv /\ PoolsInUseExist /\ UserMeansKey /\ Alone

\* A pool that AddPrefix replaces or creates is a new one, and had no users.
LEMMA FreshPools ==
    ASSUME MayReset = FALSE, NEW sp \in Prefixes, NEW s \in PoolSpecs[sp], AddPrefix(sp, s),
           AllocatorOK, NEW n \in PoolNames
    PROVE  \/ pools'[n] = pools[n]
           \/ Users(n) = {} /\ \E addrs \in SUBSET IP : pools'[n] = NewLocalPool(addrs)
<1>1. s.main \in SUBSET IP /\ (s.alt \in {Malformed, Nil} \/ s.alt \in SUBSET IP)
  BY PoolSpecAssumption DEF AddPrefix
<1>2. pools' = [m \in PoolNames |->
                  IF m = Main(sp) THEN NewLocalPool(s.main)
                  ELSE IF m = Alt(sp) /\ s.alt \notin {Malformed, Nil} THEN NewLocalPool(s.alt)
                  ELSE pools[m]]
  BY DEF AddPrefix
<1>3. Users(Main(sp)) = {} /\ Users(Alt(sp)) = {}
  BY DEF AddPrefix
<1>4. CASE n = Main(sp)
  BY <1>1, <1>2, <1>3, <1>4
<1>5. CASE n # Main(sp) /\ n = Alt(sp) /\ s.alt \notin {Malformed, Nil}
  BY <1>1, <1>2, <1>3, <1>5
<1>6. CASE n # Main(sp) /\ ~(n = Alt(sp) /\ s.alt \notin {Malformed, Nil})
  BY <1>2, <1>6
<1> QED BY <1>4, <1>5, <1>6

\* Who holds an address after a change to the allocation of svc.
LEMMA HoldersAfter ==
    ASSUME AllocatorOK, NEW svc \in Services,
           \A t \in Services \ {svc} : allocated'[t] = allocated[t],
           NEW n \in PoolNames, NEW ip \in IP
    PROVE  Holders(n, ip)' = IF Holds(svc, n, ip)' THEN Holders(n, ip) \cup {svc}
                                                   ELSE Holders(n, ip) \ {svc}
<1>1. ASSUME NEW t \in Services
      PROVE  /\ t \in Holders(n, ip) <=> Holds(t, n, ip)
             /\ t \in Holders(n, ip)' <=> Holds(t, n, ip)'
             /\ t # svc => (Holds(t, n, ip)' <=> Holds(t, n, ip))
  BY DEF Holders, Users, Holds
<1>2. Holders(n, ip) \subseteq Services /\ Holders(n, ip)' \subseteq Services
  BY DEF Holders, Users
<1> QED BY <1>1, <1>2

LEMMA InstallAgreement ==
    ASSUME AInv, NEW svc \in Services, NEW n \in PoolNames, NEW ip \in IP,
           NEW ports \in SUBSET Ports, NEW key \in Keys,
           pools[n] # Nil, Available(pools[n], ip, ports, svc, key),
           Install(svc, [pool |-> n, ip |-> ip, ports |-> ports, key |-> key])
    PROVE  Agreement'
<1> USE DEF AInv, CallsInv
<1> DEFINE al == [pool |-> n, ip |-> ip, ports |-> ports, key |-> key]
<1>1. /\ allocated' = [allocated EXCEPT ![svc] = al] /\ al \in Alloc /\ al # Nil
      /\ \A m \in PoolNames : pools'[m] # Nil => AfterInstall(svc, n, ip, key, m)
  BY RecordAssumption, InstallFacts DEF Alloc
<1> SUFFICES ASSUME NEW m \in PoolNames, pools'[m] # Nil, NEW i \in IP
             PROVE  pools'[m].svcs[i] = Holders(m, i)'
  BY DEF Agreement
<1>2. pools[m] # Nil /\ pools[m].svcs[i] = Holders(m, i)
  BY <1>1 DEF Agreement, AfterInstall
<1>3. pools'[m].svcs[i] = IF m = n /\ i = ip THEN pools[m].svcs[i] \cup {svc}
                          ELSE IF Holds(svc, m, i) THEN pools[m].svcs[i] \ {svc}
                          ELSE pools[m].svcs[i]
  BY <1>1 DEF AfterInstall
<1>4. /\ allocated'[svc] = al
      /\ \A t \in Services \ {svc} : allocated'[t] = allocated[t]
  BY <1>1 DEF AllocatorOK
<1>5. Holders(m, i)' = IF Holds(svc, m, i)' THEN Holders(m, i) \cup {svc} ELSE Holders(m, i) \ {svc}
  BY <1>4, HoldersAfter
<1>6. Holds(svc, m, i)' <=> (m = n /\ i = ip)
  BY <1>1, <1>4 DEF Holds
<1>7. svc \in Holders(m, i) <=> Holds(svc, m, i)
  BY DEF Holders, Users, Holds
<1> QED BY <1>2, <1>3, <1>5, <1>6, <1>7

LEMMA UnassignAgreement ==
    ASSUME AInv, NEW svc \in Services, Unassign(svc)
    PROVE  Agreement'
<1> USE DEF AInv, CallsInv
<1>1. pools' = Released(svc) /\ allocated' = [allocated EXCEPT ![svc] = Nil]
  BY DEF Unassign
<1> SUFFICES ASSUME NEW m \in PoolNames, pools'[m] # Nil, NEW i \in IP
             PROVE  pools'[m].svcs[i] = Holders(m, i)'
  BY DEF Agreement
<1>2. pools[m] # Nil
  BY <1>1, ReleasedFacts
<1>3. pools[m].svcs[i] = Holders(m, i)
  BY <1>2 DEF Agreement
<1>4. pools'[m].svcs[i] = IF Holds(svc, m, i) THEN pools[m].svcs[i] \ {svc} ELSE pools[m].svcs[i]
  BY <1>1, <1>2, ReleasedFacts
<1>5. Holders(m, i)' = Holders(m, i) \ {svc}
  <2>1. ~Holds(svc, m, i)' /\ \A t \in Services \ {svc} : allocated'[t] = allocated[t]
    BY <1>1 DEF AllocatorOK, Holds
  <2> QED BY <2>1, HoldersAfter
<1>6. svc \in Holders(m, i) <=> Holds(svc, m, i)
  BY DEF Holders, Users, Holds
<1> QED BY <1>3, <1>4, <1>5, <1>6

LEMMA NextAgreement ==
    ASSUME MayReset = FALSE, AInv, [Next]_vars
    PROVE  Agreement'
<1>1. CASE UNCHANGED vars
  BY <1>1 DEF vars, AInv, Agreement, Holders, Users
<1>2. CASE \E sp \in Prefixes : RemovePool(sp)
  BY <1>2 DEF RemovePool, AInv, CallsInv, AllocatorOK, Agreement, Holders, Users
<1>3. ASSUME NEW sp \in Prefixes, NEW s \in PoolSpecs[sp], AddPrefix(sp, s)
      PROVE  Agreement'
  <2> SUFFICES ASSUME NEW m \in PoolNames, pools'[m] # Nil, NEW i \in IP
               PROVE  pools'[m].svcs[i] = Holders(m, i)'
    BY DEF Agreement
  <2>1. Holders(m, i)' = Holders(m, i)
    BY <1>3 DEF AddPrefix, Holders, Users
  <2>2. CASE pools'[m] = pools[m]
    BY <2>1, <2>2 DEF AInv, Agreement
  <2>3. CASE Users(m) = {} /\ \E addrs \in SUBSET IP : pools'[m] = NewLocalPool(addrs)
    BY <2>1, <2>3 DEF Holders, NewLocalPool
  <2> QED BY <1>3, <2>2, <2>3, FreshPools DEF AInv, CallsInv
<1>4. CASE \E svc \in Services, ports \in SUBSET Ports, key \in Keys :
              \/ \E ip \in IP : Assign(svc, ip, ports, key)
              \/ \E n \in PoolNames : AllocateFromPool(svc, n, ports, key)
  <2>1. PICK svc \in Services, ports \in SUBSET Ports, key \in Keys :
              \/ \E ip \in IP : Assign(svc, ip, ports, key)
              \/ \E n \in PoolNames : AllocateFromPool(svc, n, ports, key)
    BY <1>4
  <2>2. PICK n \in PoolNames, ip \in IP :
              /\ pools[n] # Nil /\ Available(pools[n], ip, ports, svc, key)
              /\ Install(svc, [pool |-> n, ip |-> ip, ports |-> ports, key |-> key])
    BY <2>1, AssignIsInstall DEF AInv, CallsInv
  <2> QED BY <2>2, InstallAgreement
<1>5. CASE \E svc \in Services : Unassign(svc)
  BY <1>5, UnassignAgreement
<1> QED BY <1>1, <1>2, <1>3, <1>4, <1>5 DEF Next

\* What a pool says of an address and what the allocations say are the same.
THEOREM HalvesAgree == ASSUME MayReset = FALSE
                       PROVE  Spec => []Agreement
<1>1. Init => AInv
  BY InitCallsInv DEF AInv, Agreement, Init, New
<1>2. AInv /\ [Next]_vars => AInv'
  BY NextCallsInv, NextAgreement DEF AInv
<1>3. AInv => Agreement
  BY DEF AInv
<1> QED BY <1>1, <1>2, <1>3, PTL DEF Spec

-----------------------------------------------------------------------------
\* An address that is available to svc is nobody else's.
LEMMA AvailableIsFree ==
    ASSUME Keys = {Unshared}, EInv, NEW svc \in Services, NEW n \in PoolNames, NEW ip \in IP,
           NEW ports \in SUBSET Ports, NEW key \in Keys,
           pools[n] # Nil, Available(pools[n], ip, ports, svc, key)
    PROVE  Holders(n, ip) \subseteq {svc}
<1>1. pools[n].svcs[ip] = Holders(n, ip)
  BY DEF EInv, AInv, Agreement
<1>2. pools[n].svcs[ip] = {} \/ pools[n].svcs[ip] \subseteq {svc}
  BY DEF Available, SharingOK, EInv, UserMeansKey
<1> QED BY <1>1, <1>2

\* The user of an address is its only user.
LEMMA OnlyUser ==
    ASSUME EInv, NEW svc \in Services, NEW n \in PoolNames, NEW ip \in IP,
           pools[n] # Nil, Holds(svc, n, ip)
    PROVE  pools[n].svcs[ip] \subseteq {svc}
<1>1. pools[n].svcs[ip] = Holders(n, ip)
  BY DEF EInv, AInv, Agreement
<1>2. ASSUME NEW t \in Holders(n, ip) PROVE t = svc
  <2>1. t \in Services /\ allocated[t] # Nil /\ allocated[t].pool = n /\ allocated[t].ip = ip
    BY <1>2 DEF Holders, Users
  <2> QED BY <2>1 DEF Holds, EInv, Alone
<1> QED BY <1>1, <1>2

\* assign() removes no pool.
LEMMA InstallKeepsPools ==
    ASSUME AllocatorOK, NEW svc \in Services, NEW n \in PoolNames, NEW ip \in IP,
           NEW ports \in SUBSET Ports, NEW key \in Keys,
           Install(svc, [pool |-> n, ip |-> ip, ports |-> ports, key |-> key]),
           NEW m \in PoolNames, pools[m] # Nil, pools[n] # Nil
    PROVE  pools'[m] # Nil
<1> DEFINE after == Released(svc)
<1>1. after \in [PoolNames -> Pool \cup {Nil}] /\ after[m] \in Pool /\ after[n] \in Pool
  BY ReleasedFacts
<1>2. Put(after[n], ip, ports, svc, key) \in Pool
  BY <1>1, PutFacts
<1>3. \/ pools' = [after EXCEPT ![n] = Put(@, ip, ports, svc, key)]
      \/ pools' = after
  BY DEF Install
<1> HIDE DEF after
<1>4. pools'[m] \in Pool
  BY <1>1, <1>2, <1>3
<1> QED BY <1>4, RecordAssumption

LEMMA InstallAlone ==
    ASSUME Keys = {Unshared}, EInv, NEW svc \in Services, NEW n \in PoolNames, NEW ip \in IP,
           NEW ports \in SUBSET Ports, NEW key \in Keys,
           pools[n] # Nil, Available(pools[n], ip, ports, svc, key),
           Install(svc, [pool |-> n, ip |-> ip, ports |-> ports, key |-> key])
    PROVE  PoolsInUseExist' /\ UserMeansKey' /\ Alone'
<1> DEFINE al == [pool |-> n, ip |-> ip, ports |-> ports, key |-> key]
<1> USE DEF EInv, AInv, CallsInv
<1>1. /\ allocated' = [allocated EXCEPT ![svc] = al] /\ AllocatorOK'
      /\ \A m \in PoolNames : pools'[m] # Nil => AfterInstall(svc, n, ip, key, m)
  BY InstallFacts
<1>2. /\ allocated'[svc] = al
      /\ \A t \in Services \ {svc} : allocated'[t] = allocated[t]
  BY <1>1 DEF AllocatorOK
<1>3. Holders(n, ip) \subseteq {svc}
  BY AvailableIsFree
<1>4. Alone'
  <2> SUFFICES ASSUME NEW s \in Services, NEW t \in Services, s # t,
                      allocated'[s] # Nil, allocated'[t] # Nil
               PROVE  \/ allocated'[s].pool # allocated'[t].pool
                      \/ allocated'[s].ip # allocated'[t].ip
    BY DEF Alone
  <2>1. CASE s # svc /\ t # svc
    BY <1>2, <2>1 DEF Alone
  <2>2. ASSUME NEW u \in Services \ {svc}, allocated[u] # Nil
        PROVE  ~(allocated[u].pool = n /\ allocated[u].ip = ip)
    BY <1>3, <2>2 DEF Holders, Users
  <2>3. CASE s = svc
    BY <1>2, <2>2, <2>3
  <2>4. CASE t = svc
    BY <1>2, <2>2, <2>4
  <2> QED BY <2>1, <2>3, <2>4
<1>5. PoolsInUseExist'
  <2> SUFFICES ASSUME NEW m \in PoolNames, NEW t \in Services, allocated'[t] # Nil,
                      allocated'[t].pool = m
               PROVE  pools'[m] # Nil
    BY DEF PoolsInUseExist, Users
  <2>1. pools[m] # Nil
    BY <1>2 DEF PoolsInUseExist, Users
  <2> QED BY <2>1, InstallKeepsPools
<1>6. UserMeansKey'
  <2> SUFFICES ASSUME NEW m \in PoolNames, pools'[m] # Nil, NEW i \in IP,
                      pools'[m].svcs[i] # {}
               PROVE  pools'[m].key[i] # Nil
    BY DEF UserMeansKey
  <2>1. /\ pools[m] # Nil
        /\ pools'[m].svcs[i] = IF m = n /\ i = ip THEN pools[m].svcs[i] \cup {svc}
                               ELSE IF Holds(svc, m, i) THEN pools[m].svcs[i] \ {svc}
                               ELSE pools[m].svcs[i]
        /\ pools'[m].key[i] = IF m = n /\ i = ip THEN key
                              ELSE IF Holds(svc, m, i) THEN Nil
                              ELSE pools[m].key[i]
    BY <1>1 DEF AfterInstall
  <2>2. Holds(svc, m, i) => pools[m].svcs[i] \subseteq {svc}
    BY <2>1, OnlyUser
  <2>3. pools[m].svcs[i] # {} => pools[m].key[i] # Nil
    BY <2>1 DEF UserMeansKey
  <2>4. key # Nil
    BY NilAssumption
  <2> QED BY <2>1, <2>2, <2>3, <2>4
<1> QED BY <1>4, <1>5, <1>6

LEMMA UnassignAlone ==
    ASSUME EInv, NEW svc \in Services, Unassign(svc)
    PROVE  PoolsInUseExist' /\ UserMeansKey' /\ Alone'
<1> USE DEF EInv, AInv, CallsInv
<1>1. pools' = Released(svc) /\ allocated' = [allocated EXCEPT ![svc] = Nil]
  BY DEF Unassign
<1>2. /\ allocated'[svc] = Nil
      /\ \A t \in Services \ {svc} : allocated'[t] = allocated[t]
  BY <1>1 DEF AllocatorOK
<1>3. Alone'
  BY <1>2 DEF Alone
<1>4. \A m \in PoolNames : pools[m] # Nil <=> pools'[m] # Nil
  BY <1>1, ReleasedFacts, RecordAssumption
<1>5. PoolsInUseExist'
  BY <1>2, <1>4 DEF PoolsInUseExist, Users
<1>6. UserMeansKey'
  <2> SUFFICES ASSUME NEW m \in PoolNames, pools'[m] # Nil, NEW i \in IP,
                      pools'[m].svcs[i] # {}
               PROVE  pools'[m].key[i] # Nil
    BY DEF UserMeansKey
  <2>1. pools[m] # Nil
    BY <1>4
  <2>2. /\ pools'[m].svcs[i] = IF Holds(svc, m, i) THEN pools[m].svcs[i] \ {svc} ELSE pools[m].svcs[i]
        /\ pools'[m].key[i] = IF Holds(svc, m, i) THEN Nil ELSE pools[m].key[i]
    BY <1>1, <2>1, ReleasedFacts
  <2>3. Holds(svc, m, i) => pools[m].svcs[i] \subseteq {svc}
    BY <2>1, OnlyUser
  <2> QED BY <2>1, <2>2, <2>3 DEF UserMeansKey
<1> QED BY <1>3, <1>5, <1>6

LEMMA NextAlone ==
    ASSUME MayReset = FALSE, Keys = {Unshared}, EInv, [Next]_vars
    PROVE  PoolsInUseExist' /\ UserMeansKey' /\ Alone'
<1>1. CASE UNCHANGED vars
  BY <1>1 DEF vars, EInv, PoolsInUseExist, UserMeansKey, Alone, Users
<1>2. ASSUME NEW sp \in Prefixes, RemovePool(sp)
      PROVE  PoolsInUseExist' /\ UserMeansKey' /\ Alone'
  <2>1. /\ allocated' = allocated /\ pools' = [pools EXCEPT ![Main(sp)] = Nil]
        /\ Users(Main(sp)) = {}
    BY <1>2 DEF RemovePool
  <2>2. Alone' /\ \A n : Users(n)' = Users(n)
    BY <2>1 DEF EInv, Alone, Users
  <2>3. \A n \in PoolNames : pools'[n] = IF n = Main(sp) THEN Nil ELSE pools[n]
    BY <2>1 DEF EInv, AInv, CallsInv, AllocatorOK
  <2>4. PoolsInUseExist'
    BY <2>1, <2>2, <2>3 DEF EInv, PoolsInUseExist
  <2>5. UserMeansKey'
    BY <2>3 DEF EInv, UserMeansKey
  <2> QED BY <2>2, <2>4, <2>5
<1>3. ASSUME NEW sp \in Prefixes, NEW s \in PoolSpecs[sp], AddPrefix(sp, s)
      PROVE  PoolsInUseExist' /\ UserMeansKey' /\ Alone'
  <2>1. allocated' = allocated
    BY <1>3 DEF AddPrefix
  <2>2. Alone' /\ \A n : Users(n)' = Users(n)
    BY <2>1 DEF EInv, Alone, Users
  <2>3. ASSUME NEW n \in PoolNames
        PROVE  \/ pools'[n] = pools[n]
               \/ Users(n) = {} /\ \E addrs \in SUBSET IP : pools'[n] = NewLocalPool(addrs)
    BY <1>3, FreshPools DEF EInv, AInv, CallsInv
  <2>4. PoolsInUseExist'
    <3> SUFFICES ASSUME NEW n \in PoolNames, Users(n) # {}
                 PROVE  pools'[n] # Nil
      BY <2>2 DEF PoolsInUseExist
    <3> QED BY <2>3 DEF EInv, PoolsInUseExist
  <2>5. UserMeansKey'
    <3> SUFFICES ASSUME NEW n \in PoolNames, pools'[n] # Nil, NEW i \in IP,
                        pools'[n].svcs[i] # {}
                 PROVE  pools'[n].key[i] # Nil
      BY DEF UserMeansKey
    <3>1. \A addrs : NewLocalPool(addrs).svcs[i] = {}
      BY DEF NewLocalPool
    <3>2. pools'[n] = pools[n]
      BY <2>3, <3>1
    <3> QED BY <3>2 DEF EInv, UserMeansKey
  <2> QED BY <2>2, <2>4, <2>5
<1>4. CASE \E svc \in Services, ports \in SUBSET Ports, key \in Keys :
              \/ \E ip \in IP : Assign(svc, ip, ports, key)
              \/ \E n \in PoolNames : AllocateFromPool(svc, n, ports, key)
  <2>1. PICK svc \in Services, ports \in SUBSET Ports, key \in Keys :
              \/ \E ip \in IP : Assign(svc, ip, ports, key)
              \/ \E n \in PoolNames : AllocateFromPool(svc, n, ports, key)
    BY <1>4
  <2>2. PICK n \in PoolNames, ip \in IP :
              /\ pools[n] # Nil /\ Available(pools[n], ip, ports, svc, key)
              /\ Install(svc, [pool |-> n, ip |-> ip, ports |-> ports, key |-> key])
    BY <2>1, AssignIsInstall DEF EInv, AInv, CallsInv
  <2> QED BY <2>2, InstallAlone
<1>5. CASE \E svc \in Services : Unassign(svc)
  BY <1>5, UnassignAlone
<1> QED BY <1>1, <1>2, <1>3, <1>4, <1>5 DEF Next

LEMMA ExclusiveInvariance == ASSUME MayReset = FALSE, Keys = {Unshared}
                             PROVE  Spec => []EInv
<1>1. Init => EInv
  BY InitCallsInv DEF EInv, AInv, Agreement, PoolsInUseExist, UserMeansKey, Alone, Users, Init, New
<1>2. EInv /\ [Next]_vars => EInv'
  BY NextCallsInv, NextAgreement, NextAlone DEF EInv, AInv
<1> QED BY <1>1, <1>2, PTL DEF Spec

\* Every step of the allocator gives an address up, or takes one that nobody
\* has: without sharing keys it implements Leases.
THEOREM AllocatorLeases == ASSUME MayReset = FALSE, Keys = {Unshared}
                           PROVE  Spec => ImplementsLeases
<1>1. Init => Leases!Init
  BY DEF Init, New, Leases!Init, held
<1>2. EInv /\ [Next]_vars => [Leases!Next]_held
  <2> SUFFICES ASSUME EInv, [Next]_vars
               PROVE  Leases!Next \/ held' = held
    OBVIOUS
  <2>1. CASE UNCHANGED allocated
    BY <2>1 DEF held
  <2>2. CASE \E svc \in Services, ports \in SUBSET Ports, key \in Keys :
                \/ \E ip \in IP : Assign(svc, ip, ports, key)
                \/ \E n \in PoolNames : AllocateFromPool(svc, n, ports, key)
    <3>1. PICK svc \in Services, ports \in SUBSET Ports, key \in Keys :
                \/ \E ip \in IP : Assign(svc, ip, ports, key)
                \/ \E n \in PoolNames : AllocateFromPool(svc, n, ports, key)
      BY <2>2
    <3>2. PICK n \in PoolNames, ip \in IP :
                /\ pools[n] # Nil /\ Available(pools[n], ip, ports, svc, key)
                /\ Install(svc, [pool |-> n, ip |-> ip, ports |-> ports, key |-> key])
      BY <3>1, AssignIsInstall DEF EInv, AInv, CallsInv
    <3> DEFINE al == [pool |-> n, ip |-> ip, ports |-> ports, key |-> key]
    <3>3. allocated' = [allocated EXCEPT ![svc] = al] /\ al # Nil
      BY <3>2, RecordAssumption DEF Install, Alloc
    <3>4. Holders(n, ip) \subseteq {svc}
      BY <3>2, AvailableIsFree
    <3>5. held' = [held EXCEPT ![svc] = <<n, ip>>]
      <4>1. /\ allocated'[svc] = al
            /\ \A t \in Services \ {svc} : allocated'[t] = allocated[t]
        BY <3>3 DEF EInv, AInv, CallsInv, AllocatorOK
      <4>2. al.pool = n /\ al.ip = ip
        OBVIOUS
      <4> HIDE DEF al
      <4>3. \A t \in Services : held'[t] = IF t = svc THEN <<n, ip>> ELSE held[t]
        BY <3>3, <4>1, <4>2 DEF held
      <4>4. held' = [t \in Services |-> held'[t]] /\ held = [t \in Services |-> held[t]]
        BY DEF held
      <4> HIDE DEF held
      <4> QED BY <4>3, <4>4
    <3>6. \A t \in Services \ {svc} : held[t] # <<n, ip>>
      <4> SUFFICES ASSUME NEW t \in Services \ {svc}, held[t] = <<n, ip>>
                   PROVE  FALSE
        OBVIOUS
      <4>1. allocated[t] # Nil
        BY RecordAssumption DEF held
      <4>2. allocated[t].pool = n /\ allocated[t].ip = ip
        BY <4>1 DEF held
      <4> QED BY <3>4, <4>1, <4>2 DEF Holders, Users
    <3> QED BY <3>5, <3>6 DEF Leases!Next, Leases!Take
  <2>3. CASE \E svc \in Services : Unassign(svc)
    <3>1. PICK svc \in Services : allocated' = [allocated EXCEPT ![svc] = Nil]
      BY <2>3 DEF Unassign
    <3>2. held' = [held EXCEPT ![svc] = Nil]
      BY <3>1 DEF held, EInv, AInv, CallsInv, AllocatorOK
    <3> QED BY <3>1, <3>2 DEF Leases!Next, Leases!GiveUp
  <2> QED BY <2>1, <2>2, <2>3 DEF Next, vars, AddPrefix, RemovePool
<1> QED BY <1>1, <1>2, ExclusiveInvariance, PTL DEF Spec, ImplementsLeases, Leases!Spec
-----------------------------------------------------------------------------
\* The ranges.

USE BytesAssumption, NoAddressAssumption

\* Every set of numbers has a least one.
LEMMA LeastNumber ==
    ASSUME NEW S \in SUBSET Nat, S # {}
    PROVE  \E n \in S : \A m \in S : n <= m
<1>1. IsWellFoundedOn(OpToRel(<, Nat), Nat)
  BY NatLessThanWellFounded
<1>2. PICK n \in S : \A m \in S : ~(<<m, n>> \in OpToRel(<, Nat))
  BY <1>1, WFMin
<1>3. \A m, k \in Nat : <<m, k>> \in OpToRel(<, Nat) <=> m < k
  BY DEF OpToRel
<1>4. \A m \in S : m \in Nat /\ n \in Nat /\ ~(m < n)
  BY <1>2, <1>3
<1>5. \A m \in S : n <= m
  BY <1>4
<1> QED BY <1>5

LEMMA ByteFacts ==
    /\ Length \in Nat /\ Length >= 1 /\ Byte \in Nat /\ Byte >= 2
    /\ \A a \in Ranges!Address, i \in 1 .. Length : a[i] \in Nat /\ a[i] <= Byte - 1
BY DEF Ranges!Address

LEMMA SameBytes ==
    ASSUME NEW a \in Ranges!Address, NEW b \in Ranges!Address,
           \A i \in 1 .. Length : a[i] = b[i]
    PROVE  a = b
BY DEF Ranges!Address

\* Different addresses differ first at some byte.
LEMMA FirstDifference ==
    ASSUME NEW a \in Ranges!Address, NEW b \in Ranges!Address, a # b
    PROVE  \E i \in 1 .. Length : a[i] # b[i] /\ \A j \in 1 .. i - 1 : a[j] = b[j]
<1> DEFINE S == {i \in 1 .. Length : a[i] # b[i]}
<1>1. S # {} /\ S \in SUBSET Nat
  BY SameBytes, ByteFacts
<1>2. PICK i \in S : \A j \in S : i <= j
  <2> HIDE DEF S
  <2> QED BY <1>1, LeastNumber
<1>3. i \in 1 .. Length /\ a[i] # b[i]
  BY <1>2
<1>4. \A j \in 1 .. i - 1 : a[j] = b[j]
  BY <1>2, ByteFacts
<1> QED BY <1>3, <1>4

\* bytes.Compare() orders the addresses.
LEMMA UptoOrders ==
    /\ \A a \in Ranges!Address : Ranges!Upto(a, a)
    /\ \A a, b \in Ranges!Address : Ranges!Upto(a, b) /\ Ranges!Upto(b, a) => a = b
    /\ \A a, b, c \in Ranges!Address : Ranges!Upto(a, b) /\ Ranges!Upto(b, c) => Ranges!Upto(a, c)
    /\ \A a, b \in Ranges!Address : Ranges!Upto(a, b) \/ Ranges!Upto(b, a)
<1>1. \A a \in Ranges!Address : Ranges!Upto(a, a)
  BY DEF Ranges!Upto
<1>2. ASSUME NEW a \in Ranges!Address, NEW b \in Ranges!Address,
             Ranges!Upto(a, b), Ranges!Upto(b, a), a # b
      PROVE  FALSE
  <2>1. PICK i \in 1 .. Length : a[i] < b[i] /\ \A j \in 1 .. i - 1 : a[j] = b[j]
    BY <1>2 DEF Ranges!Upto
  <2>2. PICK k \in 1 .. Length : b[k] < a[k] /\ \A j \in 1 .. k - 1 : b[j] = a[j]
    BY <1>2 DEF Ranges!Upto
  <2>3. i = k \/ i \in 1 .. k - 1 \/ k \in 1 .. i - 1
    BY ByteFacts
  <2> QED BY <2>1, <2>2, <2>3, ByteFacts
<1>3. ASSUME NEW a \in Ranges!Address, NEW b \in Ranges!Address, NEW c \in Ranges!Address,
             Ranges!Upto(a, b), Ranges!Upto(b, c)
      PROVE  Ranges!Upto(a, c)
  <2>1. CASE a = b \/ b = c
    BY <1>3, <2>1
  <2>2. CASE a # b /\ b # c
    <3>1. PICK i \in 1 .. Length : a[i] < b[i] /\ \A j \in 1 .. i - 1 : a[j] = b[j]
      BY <1>3, <2>2 DEF Ranges!Upto
    <3>2. PICK k \in 1 .. Length : b[k] < c[k] /\ \A j \in 1 .. k - 1 : b[j] = c[j]
      BY <1>3, <2>2 DEF Ranges!Upto
    <3>3. CASE i <= k
      <4>1. a[i] < c[i]
        <5>1. i = k \/ i \in 1 .. k - 1
          BY <3>3, ByteFacts
        <5> QED BY <3>1, <3>2, <5>1, ByteFacts
      <4>2. \A j \in 1 .. i - 1 : a[j] = c[j]
        BY <3>1, <3>2, <3>3, ByteFacts
      <4> QED BY <4>1, <4>2 DEF Ranges!Upto
    <3>4. CASE k < i
      <4>1. a[k] < c[k]
        <5>1. k \in 1 .. i - 1
          BY <3>4, ByteFacts
        <5> QED BY <3>1, <3>2, <5>1, ByteFacts
      <4>2. \A j \in 1 .. k - 1 : a[j] = c[j]
        BY <3>1, <3>2, <3>4, ByteFacts
      <4> QED BY <4>1, <4>2 DEF Ranges!Upto
    <3> QED BY <3>3, <3>4, ByteFacts
  <2> QED BY <2>1, <2>2
<1>4. ASSUME NEW a \in Ranges!Address, NEW b \in Ranges!Address, a # b
      PROVE  Ranges!Upto(a, b) \/ Ranges!Upto(b, a)
  <2>1. PICK i \in 1 .. Length : a[i] # b[i] /\ \A j \in 1 .. i - 1 : a[j] = b[j]
    BY <1>4, FirstDifference
  <2>2. a[i] < b[i] \/ b[i] < a[i]
    BY <2>1, ByteFacts
  <2> QED BY <2>1, <2>2 DEF Ranges!Upto
<1> QED BY <1>1, <1>2, <1>3, <1>4

\* Every set of addresses has a first one.
LEMMA FirstAddress ==
    ASSUME NEW S \in SUBSET Ranges!Address, S # {}
    PROVE  \E m \in S : \A a \in S : Ranges!Upto(m, a)
<1> DEFINE Same(a, b, i) == \A j \in 1 .. i : a[j] = b[j]
           Before(a, b, i) == \E k \in 1 .. i : a[k] < b[k] /\ Same(a, b, k - 1)
           Best(i) == {m \in S : \A a \in S : Same(a, m, i) \/ Before(m, a, i)}
           Bad == {i \in 0 .. Length : Best(i) = {}}
<1>0. /\ \A i, m : m \in Best(i) <=> m \in S /\ \A a \in S : Same(a, m, i) \/ Before(m, a, i)
      /\ \A i : i \in Bad <=> i \in 0 .. Length /\ Best(i) = {}
      /\ \A i : Best(i) \subseteq S
  OBVIOUS
<1> HIDE DEF Best, Bad
<1>1. Bad = {}
  <2> SUFFICES ASSUME Bad # {} PROVE FALSE
    OBVIOUS
  <2>1. PICK b \in Bad : \A i \in Bad : b <= i
    <3>1. Bad \in SUBSET Nat
      BY <1>0, ByteFacts
    <3> QED BY <3>1, LeastNumber
  <2>2. b # 0
    <3>1. \A a, m \in S : Same(a, m, 0)
      OBVIOUS
    <3>2. Best(0) # {}
      BY <1>0, <3>1
    <3> QED BY <1>0, <2>1, <3>2
  <2>3. b \in 1 .. Length /\ b - 1 \in 0 .. Length /\ b - 1 \notin Bad
    <3>1. b \in 0 .. Length
      BY <1>0, <2>1
    <3>2. b \in 1 .. Length /\ b - 1 \in 0 .. Length /\ ~(b <= b - 1)
      BY <2>2, <3>1, ByteFacts
    <3> QED BY <2>1, <3>2
  <2>4. Best(b - 1) # {}
    BY <1>0, <2>3
  <2> DEFINE V == {m[b] : m \in Best(b - 1)}
  <2>5. V # {} /\ V \in SUBSET Nat
    <3>1. \A m \in Best(b - 1) : m[b] \in Nat
      BY <1>0, <2>3, ByteFacts
    <3> QED BY <2>4, <3>1
  <2>6. PICK v \in V : \A w \in V : v <= w
    <3> HIDE DEF V
    <3> QED BY <2>5, LeastNumber
  <2>7. PICK m \in Best(b - 1) : m[b] = v
    BY <2>6
  <2>8. \A a \in Best(b - 1) : m[b] <= a[b]
    BY <2>6, <2>7
  <2> HIDE DEF V
  <2>9. ASSUME NEW a \in S PROVE Same(a, m, b) \/ Before(m, a, b)
    <3>1. Same(a, m, b - 1) \/ Before(m, a, b - 1)
      BY <1>0, <2>7
    <3>2. CASE Before(m, a, b - 1)
      <4>1. PICK k \in 1 .. b - 1 : m[k] < a[k] /\ Same(m, a, k - 1)
        BY <3>2
      <4>2. k \in 1 .. b
        BY <2>3, ByteFacts
      <4> QED BY <4>1, <4>2
    <3>3. CASE Same(a, m, b - 1)
      <4>1. a \in Best(b - 1)
        <5> SUFFICES ASSUME NEW c \in S PROVE Same(c, a, b - 1) \/ Before(a, c, b - 1)
          BY <1>0
        <5>1. CASE Same(c, m, b - 1)
          BY <3>3, <5>1
        <5>2. CASE Before(m, c, b - 1)
          <6>1. PICK k \in 1 .. b - 1 : m[k] < c[k] /\ Same(m, c, k - 1)
            BY <5>2
          <6>2. a[k] = m[k] /\ Same(a, c, k - 1)
            BY <2>3, <3>3, <6>1, ByteFacts
          <6> QED BY <6>1, <6>2
        <5> QED BY <1>0, <2>7, <5>1, <5>2
      <4>2. m[b] <= a[b]
        BY <2>8, <4>1
      <4>3. m[b] = a[b] \/ m[b] < a[b]
        BY <1>0, <2>3, <2>7, <4>2, ByteFacts
      <4>4. CASE m[b] = a[b]
        BY <2>3, <3>3, <4>4, ByteFacts
      <4>5. CASE m[b] < a[b]
        <5>1. Same(m, a, b - 1)
          BY <3>3
        <5> QED BY <2>3, <4>5, <5>1, ByteFacts
      <4> QED BY <4>3, <4>4, <4>5
    <3> QED BY <3>1, <3>2, <3>3
  <2>10. m \in Best(b)
    BY <1>0, <2>7, <2>9
  <2> QED BY <1>0, <2>1, <2>10
<1>2. PICK m \in Best(Length) : TRUE
  BY <1>0, <1>1, ByteFacts
<1>3. ASSUME NEW a \in S PROVE Ranges!Upto(m, a)
  <2>1. CASE Same(a, m, Length)
    BY <1>0, <1>2, <2>1, SameBytes, ByteFacts DEF Ranges!Upto
  <2>2. CASE Before(m, a, Length)
    BY <2>2 DEF Ranges!Upto
  <2> QED BY <1>0, <1>2, <2>1, <2>2
<1> QED BY <1>0, <1>2, <1>3

\* ... and a last one: that of what is left of each byte is the first.
LEMMA LastAddress ==
    ASSUME NEW S \in SUBSET Ranges!Address, S # {}
    PROVE  \E m \in S : \A a \in S : Ranges!Upto(a, m)
<1> DEFINE Left(a) == [i \in 1 .. Length |-> Byte - 1 - a[i]]
           T == {Left(a) : a \in S}
<1>1. \A a \in S, i \in 1 .. Length : Left(a)[i] = Byte - 1 - a[i] /\ Left(a)[i] \in 0 .. Byte - 1
  BY ByteFacts
<1>2. \A a \in S : Left(a) \in Ranges!Address
  BY <1>1 DEF Ranges!Address
<1>3. T \in SUBSET Ranges!Address /\ T # {}
  BY <1>2
<1> HIDE DEF Left
<1>4. PICK t \in T : \A u \in T : Ranges!Upto(t, u)
  <2> HIDE DEF T
  <2> QED BY <1>3, FirstAddress
<1>5. PICK m \in S : t = Left(m)
  BY <1>4
<1>6. ASSUME NEW a \in S PROVE Ranges!Upto(a, m)
  <2>1. Ranges!Upto(Left(m), Left(a))
    BY <1>4, <1>5
  <2>2. CASE Left(m) = Left(a)
    <3>1. \A i \in 1 .. Length : m[i] = a[i]
      BY <1>1, <2>2, ByteFacts
    <3> QED BY <3>1, SameBytes DEF Ranges!Upto
  <2>3. CASE Left(m) # Left(a)
    <3>1. PICK i \in 1 .. Length : Left(m)[i] < Left(a)[i] /\ \A j \in 1 .. i - 1 : Left(m)[j] = Left(a)[j]
      BY <2>1, <2>3 DEF Ranges!Upto
    <3>2. a[i] < m[i]
      BY <1>1, <3>1, ByteFacts
    <3>3. \A j \in 1 .. i - 1 : a[j] = m[j]
      <4> SUFFICES ASSUME NEW j \in 1 .. i - 1 PROVE a[j] = m[j]
        OBVIOUS
      <4>1. j \in 1 .. Length
        BY ByteFacts
      <4>2. Byte - 1 - m[j] = Byte - 1 - a[j]
        BY <1>1, <3>1, <4>1
      <4>3. m[j] \in Nat /\ a[j] \in Nat
        BY <4>1, ByteFacts
      <4> QED BY <4>2, <4>3, ByteFacts
    <3> QED BY <3>2, <3>3 DEF Ranges!Upto
  <2> QED BY <2>2, <2>3
<1> QED BY <1>6

\* inc() counts by one: nothing lies between an address and the next, unless all
\* of its bytes are at their ends.
LEMMA IncIsNext ==
    ASSUME NEW ip \in Ranges!Address, NEW top \in Ranges!Address, ~Ranges!Upto(top, ip)
    PROVE  /\ Ranges!inc(ip) \in Ranges!Address /\ Ranges!inc(ip) # ip
           /\ Ranges!Upto(ip, Ranges!inc(ip))
           /\ \A other \in Ranges!Address : Ranges!Upto(other, ip) \/ Ranges!Upto(Ranges!inc(ip), other)
<1> DEFINE S == {Length - i : i \in {j \in 1 .. Length : ip[j] # Byte - 1}}
           next == Ranges!inc(ip)
<1>1. S # {}
  <2> SUFFICES ASSUME \A j \in 1 .. Length : ip[j] = Byte - 1
               PROVE  FALSE
    OBVIOUS
  <2>1. top # ip
    BY UptoOrders
  <2>2. PICK i \in 1 .. Length : top[i] # ip[i] /\ \A j \in 1 .. i - 1 : top[j] = ip[j]
    BY <2>1, FirstDifference
  <2>3. top[i] < ip[i]
    BY <2>2, ByteFacts
  <2> QED BY <2>2, <2>3 DEF Ranges!Upto
<1>2. S \in SUBSET Nat
  BY ByteFacts
<1>3. PICK s \in S : \A u \in S : s <= u
  <2> HIDE DEF S
  <2> QED BY <1>1, <1>2, LeastNumber
<1>4. PICK k \in 1 .. Length : ip[k] # Byte - 1 /\ s = Length - k
  BY <1>3
<1>5. \A j \in k + 1 .. Length : ip[j] = Byte - 1
  <2> SUFFICES ASSUME NEW j \in k + 1 .. Length, ip[j] # Byte - 1
               PROVE  FALSE
    OBVIOUS
  <2>1. j \in 1 .. Length /\ Length - j < Length - k
    BY ByteFacts
  <2>2. Length - j \in S
    BY <2>1
  <2> HIDE DEF S
  <2>3. Length - k <= Length - j
    BY <1>3, <1>4, <2>2
  <2> QED BY <2>1, <2>3, ByteFacts
<1> HIDE DEF S
<1>6. \A i \in 1 .. Length : (\A j \in i + 1 .. Length : ip[j] = Byte - 1) <=> k <= i
  <2> TAKE i \in 1 .. Length
  <2>1. CASE k <= i
    BY <1>5, <2>1, ByteFacts
  <2>2. CASE i < k
    <3>1. k \in i + 1 .. Length
      BY <2>2, ByteFacts
    <3> QED BY <1>4, <2>2, <3>1, ByteFacts
  <2> QED BY <2>1, <2>2, ByteFacts
<1>7. \A i \in 1 .. Length : next[i] = IF k <= i THEN (ip[i] + 1) % Byte ELSE ip[i]
  BY <1>6 DEF Ranges!inc
<1>8. next = [i \in 1 .. Length |-> next[i]]
  BY DEF Ranges!inc
<1> HIDE DEF next
<1>9. next[k] = ip[k] + 1
  <2>1. ip[k] + 1 \in 0 .. Byte - 1
    BY <1>4, ByteFacts
  <2>2. \A n \in 0 .. Byte - 1 : n % Byte = n
    BY ByteFacts
  <2> QED BY <1>4, <1>7, <2>1, <2>2, ByteFacts
<1>10. \A i \in 1 .. k - 1 : next[i] = ip[i]
  BY <1>4, <1>7, ByteFacts
<1>11. \A i \in k + 1 .. Length : next[i] = 0
  <2> TAKE i \in k + 1 .. Length
  <2>1. i \in 1 .. Length /\ k <= i
    BY ByteFacts
  <2>2. next[i] = Byte % Byte
    BY <1>5, <1>7, <2>1, ByteFacts
  <2>3. Byte % Byte = 0
    BY ByteFacts
  <2> QED BY <2>2, <2>3
<1>12. next \in Ranges!Address
  <2>1. \A i \in 1 .. Length : next[i] \in 0 .. Byte - 1
    <3> TAKE i \in 1 .. Length
    <3>1. i = k \/ i \in 1 .. k - 1 \/ i \in k + 1 .. Length
      BY ByteFacts
    <3>2. CASE i = k
      BY <1>4, <1>9, <3>2, ByteFacts
    <3>3. CASE i \in 1 .. k - 1
      BY <1>10, <3>3, ByteFacts
    <3>4. CASE i \in k + 1 .. Length
      BY <1>11, <3>4, ByteFacts
    <3> QED BY <3>1, <3>2, <3>3, <3>4
  <2> QED BY <1>8, <2>1 DEF Ranges!Address
<1>13. ip[k] < next[k]
  BY <1>9, ByteFacts
<1>14. Ranges!Upto(ip, next) /\ next # ip
  BY <1>10, <1>13, ByteFacts DEF Ranges!Upto
<1>15. ASSUME NEW other \in Ranges!Address, ~Ranges!Upto(other, ip)
       PROVE  Ranges!Upto(next, other)
  <2>1. other # ip
    BY <1>15, UptoOrders
  <2>2. PICK i \in 1 .. Length : other[i] # ip[i] /\ \A j \in 1 .. i - 1 : other[j] = ip[j]
    BY <2>1, FirstDifference
  <2>3. ip[i] < other[i]
    <3>1. ~(other[i] < ip[i])
      BY <1>15, <2>2 DEF Ranges!Upto
    <3> QED BY <2>2, <3>1, ByteFacts
  <2>4. i <= k
    <3>1. i \in k + 1 .. Length => ip[i] = Byte - 1
      BY <1>5
    <3> QED BY <2>3, <3>1, ByteFacts
  <2>5. CASE i < k
    <3>1. next[i] < other[i]
      BY <1>10, <2>3, <2>5, ByteFacts
    <3>2. \A j \in 1 .. i - 1 : next[j] = other[j]
      BY <1>10, <2>2, <2>5, ByteFacts
    <3> QED BY <3>1, <3>2 DEF Ranges!Upto
  <2>6. CASE i = k
    <3>1. \A j \in 1 .. k - 1 : next[j] = other[j]
      BY <1>10, <2>2, <2>6
    <3>2. CASE next[k] < other[k]
      BY <3>1, <3>2 DEF Ranges!Upto
    <3>3. CASE next[k] = other[k] /\ next # other
      <4>1. PICK l \in 1 .. Length : next[l] # other[l] /\ \A j \in 1 .. l - 1 : next[j] = other[j]
        BY <1>12, <3>3, FirstDifference
      <4>2. l \in k + 1 .. Length
        BY <3>1, <3>3, <4>1, ByteFacts
      <4>3. next[l] < other[l]
        BY <1>11, <4>1, <4>2, ByteFacts
      <4> QED BY <4>1, <4>3 DEF Ranges!Upto
    <3>4. CASE next = other
      BY <3>4 DEF Ranges!Upto
    <3>5. next[k] <= other[k]
      BY <1>9, <2>3, <2>6, ByteFacts
    <3>6. next[k] < other[k] \/ next[k] = other[k]
      BY <1>9, <3>5, ByteFacts
    <3> QED BY <3>2, <3>3, <3>4, <3>6
  <2> QED BY <2>4, <2>5, <2>6, ByteFacts
<1>16. next \in Ranges!Address /\ next # ip /\ Ranges!Upto(ip, next)
       /\ \A other \in Ranges!Address : Ranges!Upto(other, ip) \/ Ranges!Upto(next, other)
  BY <1>12, <1>14, <1>15
<1> QED BY <1>16 DEF next
-----------------------------------------------------------------------------
\* Next() goes from each address of a range to the one behind it, across every
\* carry, and ends behind the last (iprange.go), with bytes and addresses of any
\* width.
THEOREM NextIsBehind ==
    ASSUME NEW r \in [from : Ranges!Address, to : Ranges!Address],
           NEW ip \in Ranges!Address, Ranges!Contains(r, ip)
    PROVE  /\ Ranges!Next(r, ip) = Nil <=> ip = r.to
           /\ ip # r.to =>
                 /\ Ranges!Next(r, ip) \in Ranges!Address /\ Ranges!Contains(r, Ranges!Next(r, ip))
                 /\ Ranges!Upto(ip, Ranges!Next(r, ip)) /\ Ranges!Next(r, ip) # ip
                 /\ \A other \in Ranges!Address :
                       Ranges!Upto(other, ip) \/ Ranges!Upto(Ranges!Next(r, ip), other)
<1>1. Ranges!Upto(r.from, ip) /\ Ranges!Upto(ip, r.to)
  BY DEF Ranges!Contains
<1>2. Ranges!Upto(r.to, ip) <=> ip = r.to
  BY <1>1, UptoOrders
<1>3. CASE ip = r.to
  BY <1>2, <1>3 DEF Ranges!Next
<1>4. CASE ip # r.to
  <2>1. Ranges!Next(r, ip) = Ranges!inc(ip)
    BY <1>2, <1>4 DEF Ranges!Next
  <2>2. /\ Ranges!inc(ip) \in Ranges!Address /\ Ranges!inc(ip) # ip
        /\ Ranges!Upto(ip, Ranges!inc(ip))
        /\ \A other \in Ranges!Address : Ranges!Upto(other, ip) \/ Ranges!Upto(Ranges!inc(ip), other)
    BY <1>2, <1>4, IncIsNext
  <2>3. Ranges!Upto(r.from, Ranges!inc(ip)) /\ Ranges!Upto(Ranges!inc(ip), r.to)
    BY <1>1, <1>2, <1>4, <2>2, UptoOrders
  <2> QED BY <1>4, <2>1, <2>2, <2>3 DEF Ranges!Contains
<1> QED BY <1>3, <1>4

\* The loop of AssignNext() (localpool.go:102) ends with the first free address of
\* the range, whichever are free, and with none if none is.  The address that the
\* range begins with it takes unseen: one that is given the wrong way round
\* contains no address, and has that one to give all the same.
THEOREM AssignNextFindsFirst ==
    ASSUME NEW r \in [from : Ranges!Address, to : Ranges!Address],
           NEW free \in SUBSET Ranges!Address
    PROVE  LET found == {ip \in free : Ranges!Contains(r, ip) \/ ip = Ranges!First(r)} IN
           IF found = {} THEN AssignNext(r, free) = Nil
           ELSE /\ AssignNext(r, free) \in found
                /\ \A ip \in found : Ranges!Upto(AssignNext(r, free), ip)
<1> DEFINE Positions == Ranges!Address \cup {Nil}
           Behind(pos) == {ip \in free : Ranges!Upto(pos, ip) /\ (Ranges!Upto(ip, r.to) \/ ip = pos)}
           FirstOf(S) == CHOOSE m \in S : \A ip \in S : Ranges!Upto(m, ip)
           \* Where the loop ends from pos.
           End(pos) == IF pos = Nil \/ Behind(pos) = {} THEN Nil ELSE FirstOf(Behind(pos))
           Walk(f) == [pos \in Positions |->
                         IF pos = Nil \/ pos \in free THEN pos ELSE f[Ranges!Next(r, pos)]]
<1>0. free \subseteq Ranges!Address /\ r.from \in Ranges!Address /\ r.to \in Ranges!Address
  OBVIOUS
<1>1. \A pos \in Ranges!Address : Behind(pos) # {} =>
         /\ End(pos) \in Behind(pos)
         /\ \A ip \in Behind(pos) : Ranges!Upto(End(pos), ip)
  <2> TAKE pos \in Ranges!Address
  <2> HAVE Behind(pos) # {}
  <2>1. Behind(pos) \in SUBSET Ranges!Address
    BY <1>0
  <2>2. \E m \in Behind(pos) : \A ip \in Behind(pos) : Ranges!Upto(m, ip)
    <3> HIDE DEF Behind
    <3> QED BY <2>1, FirstAddress
  <2>3. End(pos) = FirstOf(Behind(pos))
    OBVIOUS
  <2> HIDE DEF Behind
  <2> QED BY <2>2, <2>3
<1>2. \A pos \in free : End(pos) = pos
  <2> TAKE pos \in free
  <2>1. pos \in Ranges!Address /\ pos \in Behind(pos)
    BY <1>0, UptoOrders
  <2>2. End(pos) \in Behind(pos) /\ Ranges!Upto(End(pos), pos)
    BY <1>1, <2>1
  <2>3. End(pos) \in Ranges!Address /\ Ranges!Upto(pos, End(pos))
    BY <1>0, <2>2
  <2> HIDE DEF End, Behind
  <2> QED BY <2>1, <2>2, <2>3, UptoOrders
<1>3. \A pos \in Ranges!Address \ free :
         /\ Ranges!Next(r, pos) \in Positions
         /\ Ranges!Next(r, pos) # Nil => Ranges!Upto(pos, Ranges!Next(r, pos)) /\ Ranges!Next(r, pos) # pos
         /\ End(Ranges!Next(r, pos)) = End(pos)
  <2> TAKE pos \in Ranges!Address \ free
  <2>1. CASE Ranges!Upto(r.to, pos)
    <3>1. Ranges!Next(r, pos) = Nil
      BY <2>1 DEF Ranges!Next
    <3>2. Behind(pos) = {}
      <4> SUFFICES ASSUME NEW ip \in free, Ranges!Upto(pos, ip), Ranges!Upto(ip, r.to) \/ ip = pos
                   PROVE  FALSE
        OBVIOUS
      <4>1. Ranges!Upto(ip, r.to) /\ ip \in Ranges!Address
        BY <1>0
      <4>2. ip = pos
        BY <2>1, <4>1, UptoOrders
      <4> QED BY <4>2
    <3> QED BY <3>1, <3>2
  <2>2. CASE ~Ranges!Upto(r.to, pos)
    <3> DEFINE next == Ranges!Next(r, pos)
    <3>1. next = Ranges!inc(pos)
      BY <2>2 DEF Ranges!Next
    <3>2. /\ next \in Ranges!Address /\ next # pos /\ Ranges!Upto(pos, next)
          /\ \A other \in Ranges!Address : Ranges!Upto(other, pos) \/ Ranges!Upto(next, other)
      BY <2>2, <3>1, IncIsNext
    <3> HIDE DEF next
    <3>3. \A ip \in free : Ranges!Upto(next, ip) <=> Ranges!Upto(pos, ip)
      BY <1>0, <3>2, UptoOrders
    <3>4. Behind(next) = Behind(pos)
      <4>1. Ranges!Upto(next, r.to)
        BY <1>0, <2>2, <3>2
      <4> QED BY <3>3, <4>1
    <3>5. next # Nil /\ pos # Nil
      BY <3>2
    <3> HIDE DEF Behind
    <3>6. End(next) = End(pos)
      BY <3>4, <3>5
    <3> QED BY <3>2, <3>6 DEF next
  <2> QED BY <2>1, <2>2
<1> HIDE DEF End
<1>4. End(Nil) = Nil
  BY DEF End
\* The loop's function exists, ...
<1> DEFINE ends == [pos \in Positions |-> End(pos)]
           from == CHOOSE f : f = Walk(f)
<1>5. ends = Walk(ends)
  <2>1. \A pos \in Positions : ends[pos] = IF pos = Nil \/ pos \in free THEN pos ELSE ends[Ranges!Next(r, pos)]
    <3> TAKE pos \in Positions
    <3>1. CASE pos = Nil \/ pos \in free
      BY <1>2, <1>4, <3>1
    <3>2. CASE pos # Nil /\ pos \notin free
      <4>1. Ranges!Next(r, pos) \in Positions /\ End(Ranges!Next(r, pos)) = End(pos)
        BY <1>3, <3>2
      <4>2. ends[Ranges!Next(r, pos)] = End(Ranges!Next(r, pos)) /\ ends[pos] = End(pos)
        BY <4>1
      <4> QED BY <3>2, <4>1, <4>2
    <3> QED BY <3>1, <3>2
  <2>2. ends = [pos \in Positions |-> ends[pos]]
    OBVIOUS
  <2> HIDE DEF ends
  <2> QED BY <2>1, <2>2
<1>6. from = Walk(from)
  <2> HIDE DEF Walk, ends
  <2> QED BY <1>5
\* ... and there is no other.
<1>7. \A pos \in Positions : from[pos] = IF pos = Nil \/ pos \in free THEN pos ELSE from[Ranges!Next(r, pos)]
  <2> HIDE DEF from
  <2>1. \A pos \in Positions : Walk(from)[pos] = IF pos = Nil \/ pos \in free THEN pos
                                                ELSE from[Ranges!Next(r, pos)]
    OBVIOUS
  <2> HIDE DEF Walk
  <2> QED BY <1>6, <2>1
<1>8. AssignNext(r, free) = from[r.from]
  BY DEF AssignNext, Ranges!First
<1> HIDE DEF from
<1> DEFINE Wrong == {pos \in Ranges!Address : from[pos] # End(pos)}
<1>9. Wrong = {}
  <2> SUFFICES ASSUME Wrong # {} PROVE FALSE
    OBVIOUS
  <2>1. PICK m \in Wrong : \A pos \in Wrong : Ranges!Upto(pos, m)
    <3>1. Wrong \in SUBSET Ranges!Address
      OBVIOUS
    <3> HIDE DEF Wrong
    <3> QED BY <3>1, LastAddress
  <2>2. m \in Ranges!Address /\ m \notin free /\ m # Nil
    BY <1>2, <1>7
  <2>3. from[m] = from[Ranges!Next(r, m)] /\ End(Ranges!Next(r, m)) = End(m)
    BY <1>3, <1>7, <2>2
  <2>4. CASE Ranges!Next(r, m) = Nil
    BY <1>4, <1>7, <2>3, <2>4
  <2>5. CASE Ranges!Next(r, m) # Nil
    <3> DEFINE next == Ranges!Next(r, m)
    <3>1. next \in Ranges!Address /\ Ranges!Upto(m, next) /\ next # m
      BY <1>3, <2>2, <2>5
    <3>2. next \notin Wrong
      BY <2>1, <2>2, <3>1, UptoOrders
    <3> QED BY <2>3, <3>1, <3>2
  <2> QED BY <2>4, <2>5
<1> DEFINE found == {ip \in free : Ranges!Contains(r, ip) \/ ip = Ranges!First(r)}
<1>10. AssignNext(r, free) = End(r.from) /\ r.from # Nil
  BY <1>0, <1>8, <1>9
<1>11. Behind(r.from) = found
  BY <1>0, UptoOrders DEF Ranges!Contains, Ranges!First
<1>12. ASSUME found = {} PROVE AssignNext(r, free) = Nil
  BY <1>10, <1>11, <1>12 DEF End
<1>13. ASSUME found # {}
       PROVE  /\ AssignNext(r, free) \in found
              /\ \A ip \in found : Ranges!Upto(AssignNext(r, free), ip)
  <2> HIDE DEF Behind, found
  <2>1. /\ End(r.from) \in found
        /\ \A ip \in found : Ranges!Upto(End(r.from), ip)
    BY <1>0, <1>1, <1>11, <1>13
  <2> QED BY <1>10, <1>13, <2>1
<1>14. IF found = {} THEN AssignNext(r, free) = Nil
       ELSE /\ AssignNext(r, free) \in found
            /\ \A ip \in found : Ranges!Upto(AssignNext(r, free), ip)
  <2> HIDE DEF found
  <2> QED BY <1>12, <1>13
<1> QED BY <1>14 DEF found
-----------------------------------------------------------------------------
\* Arithmetic.

HIDE BytesAssumption
HIDE NoAddressAssumption

\* Division with remainder.
LEMMA DivFacts ==
    ASSUME NEW a \in Nat, NEW d \in Nat \ {0}
    PROVE  /\ a \div d \in Nat /\ a % d \in 0 .. d - 1
           /\ a = d * (a \div d) + (a % d)
OBVIOUS

\* Multiplication keeps the order.
LEMMA MulBound ==
    ASSUME NEW d \in Nat, NEW p \in Nat, NEW q \in Nat, p < q
    PROVE  d * p + d <= d * q
<1>1. PICK k \in Nat : q = p + 1 + k
  <2>1. q - p - 1 \in Nat /\ q = p + 1 + (q - p - 1)
    OBVIOUS
  <2> QED BY <2>1
<1>2. d * q = d * p + d + d * k
  BY <1>1
<1>3. d * k \in Nat /\ d * p \in Nat /\ d * q \in Nat
  OBVIOUS
<1> QED BY <1>2, <1>3

\* There is only one quotient, and one remainder.
LEMMA DivUnique ==
    ASSUME NEW d \in Nat \ {0}, NEW q \in Nat, NEW r \in 0 .. d - 1
    PROVE  (d * q + r) \div d = q /\ (d * q + r) % d = r
<1> DEFINE a == d * q + r
           p == a \div d
           s == a % d
<1>1. a \in Nat /\ d * q \in Nat
  OBVIOUS
<1>2. p \in Nat /\ s \in 0 .. d - 1 /\ a = d * p + s
  BY <1>1, DivFacts
<1>3. d * p \in Nat
  BY <1>2
<1>4. a = d * q + r
  OBVIOUS
<1> HIDE DEF a, p, s
<1>5. ~(p < q)
  <2> SUFFICES ASSUME p < q PROVE FALSE
    OBVIOUS
  <2>1. d * p + d <= d * q
    BY <1>2, MulBound
  <2> QED BY <1>1, <1>2, <1>3, <1>4, <2>1
<1>6. ~(q < p)
  <2> SUFFICES ASSUME q < p PROVE FALSE
    OBVIOUS
  <2>1. d * q + d <= d * p
    BY <1>2, MulBound
  <2> QED BY <1>1, <1>2, <1>3, <1>4, <2>1
<1>7. p = q
  BY <1>2, <1>5, <1>6
<1>8. s = r
  BY <1>1, <1>2, <1>4, <1>7
<1> QED BY <1>7, <1>8 DEF a, p, s

\* Induction over numbers, as a statement about sets.
LEMMA UpTo ==
    ASSUME NEW N \in Nat, NEW S, 0 \in S, \A n \in 0 .. N - 1 : n \in S => n + 1 \in S
    PROVE  \A n \in 0 .. N : n \in S
<1> SUFFICES ASSUME NEW x \in 0 .. N, x \notin S PROVE FALSE
  OBVIOUS
<1> DEFINE Bad == {n \in 0 .. N : n \notin S}
<1>1. Bad \in SUBSET Nat /\ Bad # {}
  OBVIOUS
<1>2. PICK n \in Bad : \A m \in Bad : n <= m
  <2> HIDE DEF Bad
  <2> QED BY <1>1, LeastNumber
<1>3. n # 0 /\ n \in 0 .. N
  BY <1>2
<1>4. n - 1 \in 0 .. N - 1 /\ ~(n <= n - 1) /\ n = (n - 1) + 1
  BY <1>3
<1>5. n - 1 \in S
  BY <1>2, <1>4
<1> QED BY <1>2, <1>4, <1>5

\* f is defined from each number to the next.
Recursion(f, N, base, step) ==
    f[0] = base /\ \A n \in 1 .. N : f[n] = step[<<n, f[n - 1]>>]

LEMMA RecursionExists ==
    ASSUME NEW N \in Nat, NEW X, NEW base \in X, NEW step \in [(1 .. N) \X X -> X]
    PROVE  \E f \in [0 .. N -> X] : Recursion(f, N, base, step)
<1> DEFINE Good(f, k) == f[0] = base /\ \A n \in 1 .. k : f[n] = step[<<n, f[n - 1]>>]
           S == {k \in 0 .. N : \E f \in [0 .. N -> X] : Good(f, k)}
<1>1. 0 \in S
  <2>1. [n \in 0 .. N |-> base] \in [0 .. N -> X] /\ Good([n \in 0 .. N |-> base], 0) /\ 0 \in 0 .. N
    OBVIOUS
  <2> QED BY <2>1
<1>2. \A k \in 0 .. N - 1 : k \in S => k + 1 \in S
  <2> SUFFICES ASSUME NEW k \in 0 .. N - 1, k \in S PROVE k + 1 \in S
    OBVIOUS
  <2>1. PICK f \in [0 .. N -> X] : Good(f, k)
    OBVIOUS
  <2> DEFINE g == [n \in 0 .. N |-> IF n = k + 1 THEN step[<<k + 1, f[k]>>] ELSE f[n]]
  <2>2. k + 1 \in 1 .. N /\ f[k] \in X
    OBVIOUS
  <2>3. <<k + 1, f[k]>> \in (1 .. N) \X X
    BY <2>2
  <2>4. step[<<k + 1, f[k]>>] \in X
    BY <2>3
  <2>5. g \in [0 .. N -> X]
    BY <2>4
  <2>6. \A n \in 1 .. k + 1 : g[n] = step[<<n, g[n - 1]>>]
    <3> TAKE n \in 1 .. k + 1
    <3>1. n \in 0 .. N /\ n - 1 \in 0 .. N /\ n - 1 # k + 1
      OBVIOUS
    <3>2. g[n - 1] = f[n - 1]
      BY <3>1
    <3>3. CASE n = k + 1
      BY <3>1, <3>2, <3>3
    <3>4. CASE n # k + 1
      BY <2>1, <3>1, <3>2, <3>4
    <3> QED BY <3>3, <3>4
  <2>7. g[0] = base
    BY <2>1
  <2>8. Good(g, k + 1) /\ k + 1 \in 0 .. N
    <3> HIDE DEF g
    <3> QED BY <2>2, <2>6, <2>7
  <2> HIDE DEF g, Good
  <2> QED BY <2>5, <2>8
<1>3. N \in S
  <2>1. N \in 0 .. N
    OBVIOUS
  <2> HIDE DEF S
  <2> QED BY <1>1, <1>2, <2>1, UpTo
<1>4. PICK f \in [0 .. N -> X] : Good(f, N)
  BY <1>3
<1> QED BY <1>4 DEF Recursion

\* The powers of a byte are what their name says.
LEMMA PowerFacts ==
    /\ Ranges!Power[0] = 1
    /\ \A n \in 1 .. Length : Ranges!Power[n] = Byte * Ranges!Power[n - 1]
    /\ \A n \in 0 .. Length : Ranges!Power[n] \in Nat \ {0}
<1> DEFINE Powers(f) == [n \in 0 .. Length |-> IF n = 0 THEN 1 ELSE Byte * f[n - 1]]
           power == CHOOSE f : f = Powers(f)
           step == [x \in (1 .. Length) \X Nat |-> Byte * x[2]]
<1>1. step \in [(1 .. Length) \X Nat -> Nat] /\ 1 \in Nat /\ Length \in Nat
  BY ByteFacts
<1>2. PICK f \in [0 .. Length -> Nat] : Recursion(f, Length, 1, step)
  <2> HIDE DEF step
  <2> QED BY <1>1, RecursionExists
<1>3. f = Powers(f)
  <2>1. \A n \in 0 .. Length : f[n] = IF n = 0 THEN 1 ELSE Byte * f[n - 1]
    <3> TAKE n \in 0 .. Length
    <3>1. CASE n = 0
      BY <1>2, <3>1 DEF Recursion
    <3>2. CASE n # 0
      <4>1. n \in 1 .. Length /\ n - 1 \in 0 .. Length
        BY <3>2, ByteFacts
      <4>2. <<n, f[n - 1]>> \in (1 .. Length) \X Nat
        BY <4>1
      <4>3. step[<<n, f[n - 1]>>] = Byte * f[n - 1]
        BY <4>2
      <4> QED BY <1>2, <3>2, <4>1, <4>3 DEF Recursion
    <3> QED BY <3>1, <3>2
  <2>2. f = [n \in 0 .. Length |-> f[n]]
    OBVIOUS
  <2> HIDE DEF step
  <2> QED BY <2>1, <2>2
<1>4. power = Powers(power)
  <2> HIDE DEF Powers
  <2> QED BY <1>3
<1>5. Ranges!Power = power
  BY DEF Ranges!Power
<1>6. \A n \in 0 .. Length : power[n] = IF n = 0 THEN 1 ELSE Byte * power[n - 1]
  <2> HIDE DEF power
  <2>1. \A n \in 0 .. Length : Powers(power)[n] = IF n = 0 THEN 1 ELSE Byte * power[n - 1]
    OBVIOUS
  <2> HIDE DEF Powers
  <2> QED BY <1>4, <2>1
<1> HIDE DEF power
<1>7. power[0] = 1 /\ \A n \in 1 .. Length : power[n] = Byte * power[n - 1]
  BY <1>6, ByteFacts
<1>8. \A n \in 0 .. Length : power[n] \in Nat \ {0}
  <2> DEFINE S == {n \in 0 .. Length : power[n] \in Nat \ {0}}
  <2>1. 0 \in S
    BY <1>7, ByteFacts
  <2>2. \A n \in 0 .. Length - 1 : n \in S => n + 1 \in S
    <3> SUFFICES ASSUME NEW n \in 0 .. Length - 1, n \in S PROVE n + 1 \in S
      OBVIOUS
    <3>1. n + 1 \in 1 .. Length /\ (n + 1) - 1 = n
      BY ByteFacts
    <3>2. power[n + 1] = Byte * power[n]
      BY <1>7, <3>1
    <3>3. Byte * power[n] \in Nat \ {0}
      BY ByteFacts
    <3> QED BY <3>1, <3>2, <3>3
  <2> HIDE DEF S
  <2>3. \A n \in 0 .. Length : n \in S
    BY <2>1, <2>2, UpTo, ByteFacts
  <2> QED BY <2>3 DEF S
<1> QED BY <1>5, <1>7, <1>8

\* Dividing twice.
LEMMA NestedDiv ==
    ASSUME NEW x \in Nat, NEW p \in Nat \ {0}, NEW b \in Nat \ {0}
    PROVE  x \div (b * p) = (x \div p) \div b
<1> DEFINE q == x \div p
           r == x % p
           h == q \div b
           d == q % b
<1>1. q \in Nat /\ r \in 0 .. p - 1 /\ x = p * q + r
  BY DivFacts
<1>2. h \in Nat /\ d \in 0 .. b - 1 /\ q = b * h + d
  BY <1>1, DivFacts
<1> HIDE DEF q, r, h, d
<1>3. x = (b * p) * h + (p * d + r)
  <2>1. p * q = p * (b * h) + p * d
    BY <1>2
  <2>2. p * (b * h) = (b * p) * h
    BY <1>2
  <2>3. p * d \in Nat /\ (b * p) * h \in Nat
    BY <1>2
  <2> QED BY <1>1, <2>1, <2>2, <2>3
<1>4. p * d + r \in 0 .. (b * p) - 1
  <2>1. p * d + p <= p * b
    BY <1>2, MulBound
  <2>2. p * d \in Nat /\ p * b = b * p /\ b * p \in Nat
    BY <1>2
  <2> QED BY <1>1, <2>1, <2>2
<1>5. b * p \in Nat \ {0}
  OBVIOUS
<1>6. x \div (b * p) = h
  BY <1>2, <1>3, <1>4, <1>5, DivUnique
<1> QED BY <1>6 DEF h, q

\* A multiple of the modulus does not matter.
LEMMA ModShift ==
    ASSUME NEW h \in Nat \ {0}, NEW k \in Nat, NEW m \in Nat
    PROVE  (h * k + m) % h = m % h
<1> DEFINE q == m \div h
           r == m % h
<1>1. q \in Nat /\ r \in 0 .. h - 1 /\ m = h * q + r
  BY DivFacts
<1> HIDE DEF q, r
<1>2. h * (k + q) = h * k + h * q
  BY <1>1
<1>3. h * k \in Nat /\ h * q \in Nat /\ k + q \in Nat
  BY <1>1
<1>4. h * k + m = h * (k + q) + r
  BY <1>1, <1>2, <1>3
<1>5. (h * (k + q) + r) % h = r
  BY <1>1, <1>3, DivUnique
<1> QED BY <1>4, <1>5 DEF r

\* What is reduced at each step of a sum is reduced in the end.
LEMMA ModStep ==
    ASSUME NEW h \in Nat \ {0}, NEW b \in Nat, NEW a \in Nat, NEW c \in Nat
    PROVE  (b * (a % h) + c) % h = (b * a + c) % h
<1> DEFINE q == a \div h
           r == a % h
<1>1. q \in Nat /\ r \in 0 .. h - 1 /\ a = h * q + r
  BY DivFacts
<1> HIDE DEF q, r
<1>2. b * a = h * (b * q) + b * r
  <2>1. b * a = b * (h * q) + b * r
    BY <1>1
  <2>2. b * (h * q) = h * (b * q)
    BY <1>1
  <2> QED BY <2>1, <2>2
<1>3. b * q \in Nat /\ b * r \in Nat /\ h * (b * q) \in Nat
  BY <1>1
<1>4. b * a + c = h * (b * q) + (b * r + c) /\ b * r + c \in Nat
  BY <1>2, <1>3
<1>5. (h * (b * q) + (b * r + c)) % h = (b * r + c) % h
  BY <1>3, <1>4, ModShift
<1> QED BY <1>4, <1>5 DEF r
-----------------------------------------------------------------------------
\* The first i bytes of a number, read as a number.
Head(x, i) == x \div Ranges!Power[Length - i]

\* One byte more.
LEMMA HeadFacts ==
    ASSUME NEW x \in Nat, NEW i \in 1 .. Length
    PROVE  /\ Head(x, i) \in Nat /\ Head(x, i - 1) \in Nat
           /\ Bytes(x)[i] \in 0 .. Byte - 1
           /\ Head(x, i) = Byte * Head(x, i - 1) + Bytes(x)[i]
<1> DEFINE p == Ranges!Power[Length - i]
<1>1. Length - i \in 0 .. Length /\ Length - (i - 1) \in 1 .. Length
      /\ (Length - (i - 1)) - 1 = Length - i
  BY ByteFacts
<1>2. p \in Nat \ {0} /\ Ranges!Power[Length - (i - 1)] = Byte * p
  BY <1>1, PowerFacts
<1> HIDE DEF p
<1>3. Head(x, i - 1) = (x \div p) \div Byte
  BY <1>2, NestedDiv, ByteFacts DEF Head
<1>4. Head(x, i) = x \div p
  BY DEF Head, p
<1>5. Bytes(x)[i] = (x \div p) % Byte
  BY DEF Bytes, p
<1> DEFINE q == x \div p
<1>6. q \in Nat
  BY <1>2, DivFacts
<1> HIDE DEF q
<1>7. q \div Byte \in Nat /\ q % Byte \in 0 .. Byte - 1 /\ q = Byte * (q \div Byte) + (q % Byte)
  <2>1. Byte \in Nat \ {0}
    BY ByteFacts
  <2> QED BY <1>6, <2>1, DivFacts
<1>8. Head(x, i - 1) = q \div Byte /\ Head(x, i) = q /\ Bytes(x)[i] = q % Byte
  BY <1>3, <1>4, <1>5 DEF q
<1> QED BY <1>6, <1>7, <1>8

\* All the bytes, and none.
LEMMA HeadEnds ==
    ASSUME NEW x \in Nat
    PROVE  Head(x, Length) = x /\ (x < Ranges!Power[Length] => Head(x, 0) = 0)
<1>1. Length - Length = 0 /\ Length - 0 = Length /\ Length \in 0 .. Length
  BY ByteFacts
<1>2. Head(x, Length) = x \div 1
  BY <1>1, PowerFacts DEF Head
<1>3. x \div 1 = x
  OBVIOUS
<1>4. ASSUME x < Ranges!Power[Length] PROVE Head(x, 0) = 0
  <2> DEFINE p == Ranges!Power[Length]
  <2>1. p \in Nat \ {0} /\ Head(x, 0) = x \div p /\ x < p
    BY <1>1, <1>4, PowerFacts DEF Head
  <2> HIDE DEF p
  <2>2. x \in 0 .. p - 1 /\ x = p * 0 + x
    BY <2>1
  <2>3. (p * 0 + x) \div p = 0
    BY <2>1, <2>2, DivUnique
  <2> QED BY <2>1, <2>2, <2>3
<1> QED BY <1>2, <1>3, <1>4

LEMMA BytesAreAddress ==
    ASSUME NEW x \in Nat
    PROVE  Bytes(x) \in Ranges!Address
<1>1. \A i \in 1 .. Length : Bytes(x)[i] \in 0 .. Byte - 1
  BY HeadFacts
<1> QED BY <1>1 DEF Bytes, Ranges!Address

\* The numbers that Length bytes can write.
Number == {x \in Nat : x < Ranges!Power[Length]}

\* Numbers whose first bytes are the same.
LEMMA SameHead ==
    ASSUME NEW x \in Number, NEW y \in Number, NEW i \in 0 .. Length,
           \A j \in 1 .. i : Bytes(x)[j] = Bytes(y)[j]
    PROVE  Head(x, i) = Head(y, i)
<1> DEFINE S == {n \in 0 .. i : Head(x, n) = Head(y, n)}
<1>0. x \in Nat /\ y \in Nat /\ i \in Nat
  BY ByteFacts DEF Number
<1>1. 0 \in S
  BY HeadEnds, ByteFacts DEF Number
<1>2. \A n \in 0 .. i - 1 : n \in S => n + 1 \in S
  <2> SUFFICES ASSUME NEW n \in 0 .. i - 1, n \in S PROVE n + 1 \in S
    OBVIOUS
  <2>1. n + 1 \in 1 .. Length /\ n + 1 \in 1 .. i /\ n + 1 \in 0 .. i /\ (n + 1) - 1 = n
    BY ByteFacts
  <2>2. /\ Head(x, n + 1) = Byte * Head(x, n) + Bytes(x)[n + 1]
        /\ Head(y, n + 1) = Byte * Head(y, n) + Bytes(y)[n + 1]
    BY <1>0, <2>1, HeadFacts
  <2>3. Head(x, n + 1) = Head(y, n + 1)
    BY <2>1, <2>2
  <2> QED BY <2>1, <2>3
<1>3. i \in S
  <2>1. i \in 0 .. i
    BY <1>0
  <2> HIDE DEF S
  <2> QED BY <1>0, <1>1, <1>2, <2>1, UpTo
<1> QED BY <1>3

\* Numbers whose bytes first differ at i.
LEMMA SmallerByte ==
    ASSUME NEW x \in Number, NEW y \in Number, NEW i \in 1 .. Length,
           \A j \in 1 .. i - 1 : Bytes(x)[j] = Bytes(y)[j], Bytes(x)[i] < Bytes(y)[i]
    PROVE  x < y
<1> DEFINE p == Ranges!Power[Length - i]
           q == x \div p
           s == y \div p
<1>1. x \in Nat /\ y \in Nat /\ i - 1 \in 0 .. Length /\ Length - i \in 0 .. Length
  BY ByteFacts DEF Number
<1>2. Head(x, i - 1) = Head(y, i - 1)
  BY <1>1, SameHead
<1>3. Head(x, i) < Head(y, i)
  <2> DEFINE h == Byte * Head(x, i - 1)
  <2>1. Head(x, i) = h + Bytes(x)[i] /\ Head(y, i) = h + Bytes(y)[i]
    BY <1>1, <1>2, HeadFacts
  <2>2. h \in Nat
    BY <1>1, HeadFacts, ByteFacts
  <2>3. Bytes(x)[i] \in Nat /\ Bytes(y)[i] \in Nat
    BY <1>1, HeadFacts, ByteFacts
  <2> HIDE DEF h
  <2> QED BY <2>1, <2>2, <2>3
<1>4. q < s
  BY <1>3 DEF Head
<1>5. p \in Nat \ {0}
  BY <1>1, PowerFacts
<1> HIDE DEF p
<1>6. /\ q \in Nat /\ x % p \in 0 .. p - 1 /\ x = p * q + (x % p)
      /\ s \in Nat /\ y % p \in 0 .. p - 1 /\ y = p * s + (y % p)
  BY <1>1, <1>5, DivFacts
<1> HIDE DEF q, s
<1>7. p * q + p <= p * s
  BY <1>4, <1>5, <1>6, MulBound
<1>8. p * q \in Nat /\ p * s \in Nat
  BY <1>5, <1>6
<1> QED BY <1>1, <1>5, <1>6, <1>7, <1>8

\* The bytes of numbers compare as the numbers do.
LEMMA BytesOrder ==
    ASSUME NEW x \in Number, NEW y \in Number
    PROVE  /\ Ranges!Upto(Bytes(x), Bytes(y)) <=> x <= y
           /\ Bytes(x) = Bytes(y) => x = y
<1>1. x \in Nat /\ y \in Nat /\ Bytes(x) \in Ranges!Address /\ Bytes(y) \in Ranges!Address
  BY BytesAreAddress DEF Number
<1>2. Bytes(x) = Bytes(y) => x = y
  <2> SUFFICES ASSUME Bytes(x) = Bytes(y) PROVE x = y
    OBVIOUS
  <2>1. Head(x, Length) = Head(y, Length)
    BY SameHead, ByteFacts
  <2> QED BY <1>1, <2>1, HeadEnds
<1>3. ASSUME NEW u \in Number, NEW v \in Number, Ranges!Upto(Bytes(u), Bytes(v)), Bytes(u) # Bytes(v)
      PROVE  u < v
  <2>1. PICK i \in 1 .. Length : /\ Bytes(u)[i] < Bytes(v)[i]
                                 /\ \A j \in 1 .. i - 1 : Bytes(u)[j] = Bytes(v)[j]
    BY <1>3 DEF Ranges!Upto
  <2> QED BY <2>1, SmallerByte
<1>4. Ranges!Upto(Bytes(x), Bytes(y)) => x <= y
  BY <1>1, <1>2, <1>3
<1>5. x <= y => Ranges!Upto(Bytes(x), Bytes(y))
  <2> SUFFICES ASSUME x <= y, ~Ranges!Upto(Bytes(x), Bytes(y)) PROVE FALSE
    OBVIOUS
  <2>1. Ranges!Upto(Bytes(y), Bytes(x)) /\ Bytes(x) # Bytes(y)
    BY <1>1, UptoOrders
  <2>2. y < x
    BY <1>3, <2>1
  <2> QED BY <1>1, <2>2
<1> QED BY <1>2, <1>4, <1>5

-----------------------------------------------------------------------------
\* What a uint64 holds of an address is its number, but for the upper half.
LEMMA ToIntIsNumber ==
    ASSUME NEW x \in Number
    PROVE  Ranges!toInt(Bytes(x)) = x % Ranges!Half
<1> DEFINE H == Ranges!Half
           ip == Bytes(x)
           Values(f) == [i \in 0 .. Length |-> IF i = 0 THEN 0 ELSE (Byte * f[i - 1] + ip[i]) % H]
           value == CHOOSE f : f = Values(f)
           step == [u \in (1 .. Length) \X Nat |-> (Byte * u[2] + ip[u[1]]) % H]
<1>1. H \in Nat \ {0}
  <2>1. Length \div 2 \in 0 .. Length
    BY ByteFacts
  <2> QED BY <2>1, PowerFacts DEF Ranges!Half
<1>2. x \in Nat /\ Length \in Nat /\ 0 \in Nat /\ \A i \in 1 .. Length : ip[i] \in Nat
  <2>1. x \in Nat
    BY DEF Number
  <2> QED BY <2>1, BytesAreAddress, ByteFacts
<1> HIDE DEF H, ip
<1>3. step \in [(1 .. Length) \X Nat -> Nat]
  <2> SUFFICES ASSUME NEW i \in 1 .. Length, NEW v \in Nat
               PROVE  (Byte * v + ip[i]) % H \in Nat
    OBVIOUS
  <2>1. Byte * v + ip[i] \in Nat
    BY <1>2, ByteFacts
  <2> QED BY <1>1, <2>1, DivFacts
<1>4. PICK f \in [0 .. Length -> Nat] : Recursion(f, Length, 0, step)
  <2> HIDE DEF step
  <2> QED BY <1>2, <1>3, RecursionExists
<1>5. f = Values(f)
  <2>1. \A i \in 0 .. Length : f[i] = IF i = 0 THEN 0 ELSE (Byte * f[i - 1] + ip[i]) % H
    <3> TAKE i \in 0 .. Length
    <3>1. CASE i = 0
      BY <1>4, <3>1 DEF Recursion
    <3>2. CASE i # 0
      <4>1. i \in 1 .. Length /\ i - 1 \in 0 .. Length
        BY <3>2, ByteFacts
      <4>2. <<i, f[i - 1]>> \in (1 .. Length) \X Nat
        BY <4>1
      <4>3. step[<<i, f[i - 1]>>] = (Byte * f[i - 1] + ip[i]) % H
        BY <4>2
      <4> QED BY <1>4, <3>2, <4>1, <4>3 DEF Recursion
    <3> QED BY <3>1, <3>2
  <2>2. f = [i \in 0 .. Length |-> f[i]]
    OBVIOUS
  <2> HIDE DEF step
  <2> QED BY <2>1, <2>2
<1>6. value = Values(value)
  <2> HIDE DEF Values
  <2> QED BY <1>5
<1>7. Ranges!toInt(Bytes(x)) = value[Length]
  BY DEF Ranges!toInt, H, ip
<1>8. \A i \in 0 .. Length : value[i] = IF i = 0 THEN 0 ELSE (Byte * value[i - 1] + ip[i]) % H
  <2> HIDE DEF value
  <2>1. \A i \in 0 .. Length :
           Values(value)[i] = IF i = 0 THEN 0 ELSE (Byte * value[i - 1] + ip[i]) % H
    OBVIOUS
  <2> HIDE DEF Values
  <2> QED BY <1>6, <2>1
<1> HIDE DEF value
<1> DEFINE S == {i \in 0 .. Length : value[i] = Head(x, i) % H}
<1>9. 0 \in S
  <2>1. Head(x, 0) = 0
    BY HeadEnds DEF Number
  <2>2. H * 0 + 0 = 0 /\ 0 \in 0 .. H - 1
    BY <1>1
  <2>3. 0 % H = 0
    BY <1>1, <2>2, DivUnique
  <2>4. 0 \in 0 .. Length
    BY <1>2
  <2> QED BY <1>8, <2>1, <2>3, <2>4
<1>10. \A n \in 0 .. Length - 1 : n \in S => n + 1 \in S
  <2> SUFFICES ASSUME NEW n \in 0 .. Length - 1, n \in S PROVE n + 1 \in S
    OBVIOUS
  <2>1. n + 1 \in 1 .. Length /\ n + 1 \in 0 .. Length /\ (n + 1) - 1 = n /\ n + 1 # 0
    BY <1>2
  <2>2. Head(x, n + 1) = Byte * Head(x, n) + ip[n + 1] /\ Head(x, n) \in Nat
    BY <1>2, <2>1, HeadFacts DEF ip
  <2>3. value[n + 1] = (Byte * (Head(x, n) % H) + ip[n + 1]) % H
    BY <1>8, <2>1
  <2>4. (Byte * (Head(x, n) % H) + ip[n + 1]) % H = (Byte * Head(x, n) + ip[n + 1]) % H
    <3> DEFINE a == Head(x, n)
               c == ip[n + 1]
    <3>1. a \in Nat /\ c \in Nat /\ Byte \in Nat
      BY <1>2, <2>1, <2>2, ByteFacts
    <3> HIDE DEF a, c
    <3>2. (Byte * (a % H) + c) % H = (Byte * a + c) % H
      BY <1>1, <3>1, ModStep
    <3> QED BY <3>2 DEF a, c
  <2> QED BY <2>1, <2>2, <2>3, <2>4
<1>11. Length \in S
  <2>1. Length \in 0 .. Length
    BY <1>2
  <2> HIDE DEF S
  <2> QED BY <1>2, <1>9, <1>10, <2>1, UpTo
<1>12. value[Length] = x % H
  BY <1>11, <1>2, HeadEnds
<1> QED BY <1>7, <1>12 DEF H

\* The capacity of a range whose ends have one upper half.
LEMMA SizeOfRange ==
    ASSUME NEW x \in Number, NEW y \in Number, x <= y,
           \A i \in 1 .. Length \div 2 : Bytes(x)[i] = Bytes(y)[i]
    PROVE  LET size == Ranges!Size(Ranges!parseFromTo(Bytes(x), Bytes(y))) IN
           size = IF y - x + 1 = Ranges!Half THEN 0 ELSE y - x + 1
<1> DEFINE H == Ranges!Half
           h == Length \div 2
           r == Ranges!parseFromTo(Bytes(x), Bytes(y))
<1>1. h \in 0 .. Length /\ Length - h = h
  <2>1. Length = 2 * h + (Length % 2) /\ Length % 2 = 0 /\ h \in Nat /\ Length \in Nat
    BY BytesAssumption, DivFacts
  <2> HIDE DEF h
  <2> QED BY <2>1
<1>2. x \in Nat /\ y \in Nat
  BY DEF Number
<1>3. x \div H = y \div H
  <2>1. Head(x, h) = Head(y, h)
    BY <1>1, SameHead
  <2> HIDE DEF h
  <2>2. Head(x, h) = x \div Ranges!Power[h] /\ Head(y, h) = y \div Ranges!Power[h]
    BY <1>1 DEF Head
  <2> QED BY <2>1, <2>2 DEF h, Ranges!Half
<1>4. H \in Nat \ {0}
  BY <1>1, PowerFacts DEF Ranges!Half
<1>5. r.from = Bytes(x) /\ r.to = Bytes(y)
  BY DEF Ranges!parseFromTo
<1>6. Ranges!Size(r) = (1 + (y % H) - (x % H)) % H
  <2>1. ~ \E i \in 1 .. Length \div 2 : r.from[i] # r.to[i]
    BY <1>5
  <2>2. Ranges!Size(r) = (1 + Ranges!toInt(r.to) - Ranges!toInt(r.from)) % H
    BY <2>1 DEF Ranges!Size
  <2> QED BY <1>5, <2>2, ToIntIsNumber
<1> HIDE DEF H, r
<1> DEFINE q == x \div H
           s == x % H
           t == y % H
<1>7. /\ q \in Nat /\ s \in 0 .. H - 1 /\ x = H * q + s
      /\ t \in 0 .. H - 1 /\ y = H * q + t
  <2>1. q \in Nat /\ s \in 0 .. H - 1 /\ x = H * q + s
    BY <1>2, <1>4, DivFacts
  <2>2. t \in 0 .. H - 1 /\ y = H * (y \div H) + t
    BY <1>2, <1>4, DivFacts
  <2> QED BY <1>3, <2>1, <2>2
<1>8. Ranges!Size(r) = (1 + t - s) % H
  BY <1>6
<1> HIDE DEF q, s, t
<1>9. H * q \in Nat
  BY <1>4, <1>7
<1>10. y - x + 1 = 1 + t - s /\ 1 + t - s \in 1 .. H
  BY <1>2, <1>4, <1>7, <1>9
<1> DEFINE c == 1 + t - s
<1>11. c \in 1 .. H /\ Ranges!Size(r) = c % H /\ y - x + 1 = c
  BY <1>8, <1>10
<1> HIDE DEF c
<1>12. CASE c = H
  <2>1. c = H * 1 + 0 /\ 0 \in 0 .. H - 1 /\ 1 \in Nat
    BY <1>4, <1>12
  <2>2. (H * 1 + 0) % H = 0
    BY <1>4, <2>1, DivUnique
  <2> QED BY <1>11, <1>12, <2>1, <2>2 DEF H, r
<1>13. CASE c # H
  <2>1. c = H * 0 + c /\ c \in 0 .. H - 1 /\ 0 \in Nat
    BY <1>4, <1>11, <1>13
  <2>2. (H * 0 + c) % H = c
    BY <1>4, <2>1, DivUnique
  <2> QED BY <1>11, <1>13, <2>1, <2>2 DEF H, r
<1> QED BY <1>12, <1>13

-----------------------------------------------------------------------------
\* The pools.

LEMMA GreatestNumber ==
    ASSUME NEW b \in Nat, NEW S \in SUBSET (0 .. b), S # {}
    PROVE  \E n \in S : \A m \in S : m <= n
<1> DEFINE T == {b - n : n \in S}
<1>1. T \in SUBSET Nat /\ T # {}
  <2>1. \A n \in S : b - n \in Nat
    OBVIOUS
  <2> QED BY <2>1
<1>2. PICK t \in T : \A u \in T : t <= u
  <2> HIDE DEF T
  <2> QED BY <1>1, LeastNumber
<1>3. PICK n \in S : t = b - n
  BY <1>2
<1>4. \A m \in S : b - n <= b - m
  BY <1>2, <1>3
<1> QED BY <1>4

LEMMA AddressesAreNumbers == IP \subseteq Number
BY IPAssumption, WidthAssumption DEF Number

\* A range that is not empty goes from its least address to its greatest.
LEMMA RangeOfFacts ==
    ASSUME NEW addrs, IsRange(addrs), addrs # {}
    PROVE  \E lo, hi \in IP : /\ lo <= hi /\ addrs = lo .. hi
                              /\ RangeOf(addrs) = Ranges!parseFromTo(Bytes(lo), Bytes(hi))
<1>1. PICK r \in [from : Ranges!Address, to : Ranges!Address] : addrs = Addresses(r)
  BY DEF IsRange
<1>2. addrs \subseteq IP /\ IP \subseteq Nat /\ IP \subseteq Number
  BY <1>1, IPAssumption, AddressesAreNumbers DEF Addresses
<1>3. \E ip \in addrs : \A other \in addrs : ip <= other
  BY <1>2, LeastNumber
<1>4. \E ip \in addrs : \A other \in addrs : other <= ip
  <2> DEFINE b == Ranges!Power[Length] - 1
  <2>1. b \in Nat
    BY PowerFacts, ByteFacts
  <2>2. addrs \in SUBSET (0 .. b)
    <3>1. Ranges!Power[Length] \in Nat
      BY PowerFacts, ByteFacts
    <3> QED BY <1>2, <3>1 DEF Number
  <2> HIDE DEF b
  <2> QED BY <2>1, <2>2, GreatestNumber
<1> DEFINE lo == CHOOSE ip \in addrs : \A other \in addrs : ip <= other
           hi == CHOOSE ip \in addrs : \A other \in addrs : other <= ip
<1>5. lo \in addrs /\ \A other \in addrs : lo <= other
  BY <1>3
<1>6. hi \in addrs /\ \A other \in addrs : other <= hi
  BY <1>4
<1>7. RangeOf(addrs) = Ranges!parseFromTo(Bytes(lo), Bytes(hi))
  BY DEF RangeOf
<1> HIDE DEF lo, hi
<1>8. addrs \subseteq lo .. hi /\ lo <= hi
  BY <1>2, <1>5, <1>6
<1>9. ASSUME NEW ip \in lo .. hi PROVE ip \in addrs
  <2>1. ip \in IP /\ lo \in IP /\ hi \in IP /\ lo <= ip /\ ip <= hi
    BY <1>2, <1>5, <1>6, WidthAssumption
  <2>2. Ranges!Upto(r.from, Bytes(lo)) /\ Ranges!Upto(Bytes(hi), r.to)
    BY <1>1, <1>5, <1>6 DEF Addresses, Ranges!Contains
  <2>3. Ranges!Upto(Bytes(lo), Bytes(ip)) /\ Ranges!Upto(Bytes(ip), Bytes(hi))
    BY <1>2, <2>1, BytesOrder
  <2>4. /\ Bytes(lo) \in Ranges!Address /\ Bytes(ip) \in Ranges!Address
        /\ Bytes(hi) \in Ranges!Address /\ r.from \in Ranges!Address /\ r.to \in Ranges!Address
    BY <1>2, <2>1, BytesAreAddress
  <2>5. Ranges!Upto(r.from, Bytes(ip)) /\ Ranges!Upto(Bytes(ip), r.to)
    BY <2>2, <2>3, <2>4, UptoOrders
  <2> QED BY <1>1, <2>1, <2>5 DEF Addresses, Ranges!Contains
<1>10. addrs = lo .. hi
  BY <1>8, <1>9
<1> QED BY <1>2, <1>5, <1>6, <1>7, <1>8, <1>10

\* In numbers, what AssignNextFindsFirst says in bytes.
LEMMA WalkFindsFirst ==
    ASSUME NEW lo \in IP, NEW hi \in IP, NEW free \in SUBSET (lo .. hi)
    PROVE  AssignNext(Ranges!parseFromTo(Bytes(lo), Bytes(hi)), {Bytes(ip) : ip \in free}) =
              IF free = {} THEN Nil ELSE Bytes(CHOOSE ip \in free : IsFirst(ip, free))
<1> DEFINE r == Ranges!parseFromTo(Bytes(lo), Bytes(hi))
           taken == {Bytes(ip) : ip \in free}
<1>1. IP \subseteq Nat /\ IP \subseteq Number /\ free \subseteq IP
  BY IPAssumption, AddressesAreNumbers, WidthAssumption
<1>2. \A ip \in IP : Bytes(ip) \in Ranges!Address
  BY <1>1, BytesAreAddress
<1>3. r \in [from : Ranges!Address, to : Ranges!Address] /\ r.from = Bytes(lo) /\ r.to = Bytes(hi)
  BY <1>2 DEF Ranges!parseFromTo
<1>4. taken \in SUBSET {a \in Ranges!Address : Ranges!Contains(r, a)}
  <2> SUFFICES ASSUME NEW ip \in free
               PROVE  Bytes(ip) \in Ranges!Address /\ Ranges!Contains(r, Bytes(ip))
    OBVIOUS
  <2>1. ip \in IP /\ lo <= ip /\ ip <= hi
    BY <1>1
  <2>2. Ranges!Upto(Bytes(lo), Bytes(ip)) /\ Ranges!Upto(Bytes(ip), Bytes(hi))
    BY <1>1, <2>1, BytesOrder
  <2> HIDE DEF r
  <2> QED BY <1>2, <1>3, <2>1, <2>2 DEF Ranges!Contains
<1> HIDE DEF r
<1>5. IF taken = {} THEN AssignNext(r, taken) = Nil
      ELSE /\ AssignNext(r, taken) \in taken
           /\ \A a \in taken : Ranges!Upto(AssignNext(r, taken), a)
  <2> HIDE DEF taken
  <2>1. {a \in taken : Ranges!Contains(r, a) \/ a = Ranges!First(r)} = taken
    BY <1>4
  <2>2. taken \in SUBSET Ranges!Address
    BY <1>4
  <2> QED BY <1>3, <2>1, <2>2, AssignNextFindsFirst
<1>6. CASE free = {}
  BY <1>5, <1>6 DEF r
<1>7. CASE free # {}
  <2> DEFINE first == CHOOSE ip \in free : IsFirst(ip, free)
  <2>1. \E ip \in free : \A other \in free : ip <= other
    BY <1>1, <1>7, LeastNumber
  <2>2. \E ip \in free : IsFirst(ip, free)
    BY <2>1 DEF IsFirst
  <2>3. first \in free /\ \A other \in free : first <= other
    BY <2>2 DEF IsFirst
  <2> HIDE DEF first
  <2>4. PICK ip \in free : AssignNext(r, taken) = Bytes(ip)
    BY <1>5, <1>7
  <2>5. Ranges!Upto(Bytes(ip), Bytes(first))
    BY <1>5, <1>7, <2>3, <2>4
  <2>6. ip <= first /\ first <= ip
    BY <1>1, <2>3, <2>4, <2>5, BytesOrder
  <2>7. ip = first
    BY <1>1, <2>3, <2>4, <2>6
  <2> QED BY <1>7, <2>4, <2>7 DEF first, r
<1> QED BY <1>6, <1>7

\* Every pool has a range that was specified for it.
PoolsHaveRanges == \A n \in PoolNames : pools[n] # Nil =>
                       IsRange(pools[n].addrs) /\ pools[n].addrs # {}

\* No range is specified the wrong way round. NewIPRange() accepts one, whose pool
\* contains no address.
NoneReversed == \A sp \in Prefixes : \A s \in PoolSpecs[sp] : s.main # {} /\ s.alt # {}

LEMMA NextHasRanges ==
    ASSUME NoneReversed, CallsInv, PoolsHaveRanges, [Next]_vars
    PROVE  PoolsHaveRanges'
<1>0. ASSUME RangesStay PROVE PoolsHaveRanges'
  BY <1>0 DEF RangesStay, PoolsHaveRanges
<1>1. CASE UNCHANGED vars
  BY <1>1 DEF vars, PoolsHaveRanges
<1>2. ASSUME NEW sp \in Prefixes, RemovePool(sp)
      PROVE  PoolsHaveRanges'
  <2>1. \A n \in PoolNames : pools'[n] # Nil => pools'[n] = pools[n]
    BY <1>2 DEF RemovePool, CallsInv, AllocatorOK
  <2> QED BY <2>1 DEF PoolsHaveRanges
<1>3. ASSUME NEW sp \in Prefixes, NEW s \in PoolSpecs[sp], AddPrefix(sp, s)
      PROVE  PoolsHaveRanges'
  <2> SUFFICES ASSUME NEW n \in PoolNames, pools'[n] # Nil
               PROVE  IsRange(pools'[n].addrs) /\ pools'[n].addrs # {}
    BY DEF PoolsHaveRanges
  <2>1. /\ IsRange(s.main) /\ s.main # {}
        /\ s.alt \notin {Malformed, Nil} => IsRange(s.alt) /\ s.alt # {}
    BY <1>3, RangesAssumption DEF NoneReversed, AddPrefix
  <2>2. pools'[n] = IF n = Main(sp) THEN NewLocalPool(s.main)
                    ELSE IF n = Alt(sp) /\ s.alt \notin {Malformed, Nil} THEN NewLocalPool(s.alt)
                    ELSE pools[n]
    BY <1>3 DEF AddPrefix
  <2>3. \A addrs : NewLocalPool(addrs).addrs = addrs
    BY DEF NewLocalPool
  <2> QED BY <2>1, <2>2, <2>3 DEF PoolsHaveRanges
<1>4. ASSUME NEW svc \in Services, NEW ports \in SUBSET Ports, NEW key \in Keys,
             \/ \E ip \in IP : Assign(svc, ip, ports, key)
             \/ \E n \in PoolNames : AllocateFromPool(svc, n, ports, key)
      PROVE  PoolsHaveRanges'
  <2>1. PICK n \in PoolNames, ip \in IP :
              /\ pools[n] # Nil /\ Available(pools[n], ip, ports, svc, key)
              /\ Install(svc, [pool |-> n, ip |-> ip, ports |-> ports, key |-> key])
    BY <1>4, AssignIsInstall DEF CallsInv
  <2>2. RangesStay
    BY <2>1, InstallGains DEF Gains
  <2> QED BY <1>0, <2>2
<1>5. ASSUME NEW svc \in Services, Unassign(svc)
      PROVE  PoolsHaveRanges'
  BY <1>0, <1>5, UnassignLoses DEF Loses
<1> QED BY <1>1, <1>2, <1>3, <1>4, <1>5 DEF Next

\* Whatever is in use, the walk of AssignNext() through the range of a pool that
\* AddPrefix installed finds the first free address or none, and Size() counts the
\* addresses of a range within a half, for bytes and addresses of any width.
THEOREM RangesWalkedHolds == ASSUME NoneReversed
                             PROVE  Spec => []RangesWalked
<1>1. Init => CallsInv /\ PoolsHaveRanges
  BY InitCallsInv DEF Init, New, PoolsHaveRanges
<1>2. CallsInv /\ PoolsHaveRanges /\ [Next]_vars => (CallsInv /\ PoolsHaveRanges)'
  BY NextCallsInv, NextHasRanges
<1>3. CallsInv /\ PoolsHaveRanges => RangesWalked
  <2> SUFFICES ASSUME CallsInv, PoolsHaveRanges, NEW n \in PoolNames, pools[n] # Nil
               PROVE  /\ WalkFinds(pools[n], RangeOf(pools[n].addrs))
                      /\ SizeCounts(pools[n], RangeOf(pools[n].addrs))
    BY DEF RangesWalked
  <2> DEFINE addrs == pools[n].addrs
             r == RangeOf(addrs)
  <2>1. PICK lo, hi \in IP : /\ lo <= hi /\ addrs = lo .. hi
                             /\ r = Ranges!parseFromTo(Bytes(lo), Bytes(hi))
    <3>1. IsRange(addrs) /\ addrs # {}
      BY DEF PoolsHaveRanges
    <3> HIDE DEF addrs
    <3> QED BY <3>1, RangeOfFacts
  <2> HIDE DEF r
  <2>2. ASSUME NEW free \in SUBSET addrs
        PROVE  AssignNext(r, {Bytes(ip) : ip \in free}) =
                  IF free = {} THEN Nil ELSE Bytes(CHOOSE ip \in free : IsFirst(ip, free))
    BY <2>1, WalkFindsFirst
  <2>3. WalkFinds(pools[n], r)
    <3> SUFFICES ASSUME NEW svc \in Services, NEW ports \in SUBSET Ports, NEW key \in Keys
                 PROVE  LET free == Candidates(pools[n], ports, svc, key) IN
                        AssignNext(r, {Bytes(ip) : ip \in free}) =
                           IF free = {} THEN Nil ELSE Bytes(CHOOSE ip \in free : IsFirst(ip, free))
      BY DEF WalkFinds
    <3> DEFINE free == Candidates(pools[n], ports, svc, key)
    <3>1. free \in SUBSET addrs
      BY DEF Candidates
    <3> HIDE DEF free, addrs
    <3>2. AssignNext(r, {Bytes(ip) : ip \in free}) =
             IF free = {} THEN Nil ELSE Bytes(CHOOSE ip \in free : IsFirst(ip, free))
      BY <2>2, <3>1
    <3> QED BY <3>2 DEF free
  <2>4. SizeCounts(pools[n], r)
    <3> SUFFICES ASSUME \A i \in 1 .. Length \div 2 : r.from[i] = r.to[i]
                 PROVE  Ranges!Size(r) = IF Cardinality(addrs) = Ranges!Half THEN 0 ELSE Cardinality(addrs)
      BY DEF SizeCounts
    <3>1. lo \in Number /\ hi \in Number /\ lo \in Nat /\ hi \in Nat
      BY AddressesAreNumbers, IPAssumption
    <3>2. \A i \in 1 .. Length \div 2 : Bytes(lo)[i] = Bytes(hi)[i]
      BY <2>1 DEF Ranges!parseFromTo
    <3>3. Cardinality(lo .. hi) = hi - lo + 1
      BY <2>1, <3>1, FS_Interval
    <3>4. Ranges!Size(r) = IF hi - lo + 1 = Ranges!Half THEN 0 ELSE hi - lo + 1
      BY <2>1, <3>1, <3>2, SizeOfRange
    <3> QED BY <2>1, <3>3, <3>4
  <2> QED BY <2>3, <2>4 DEF r
<1> QED BY <1>1, <1>2, <1>3, PTL DEF Spec
=============================================================================

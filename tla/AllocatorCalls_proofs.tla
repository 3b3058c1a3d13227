----------------------- MODULE AllocatorCalls_proofs -----------------------
(***************************************************************************)
(* What each call of the allocator does and keeps, for every set of        *)
(* services, addresses, ports, prefixes and range specifications, whoever  *)
(* makes it.                                                               *)
(***************************************************************************)
EXTENDS AllocatorCalls, TLAPS

\* An address with a key has a user.
KeyMeansUser == \A n \in PoolNames : pools[n] # Nil =>
                    \A ip \in IP : pools[n].key[ip] # Nil => pools[n].svcs[ip] # {}

\* What the calls keep, however the allocator is used.
CallsInv == AllocatorOK /\ NoGhostUsers /\ KeyMeansUser

-----------------------------------------------------------------------------
\* Lemmas about the operations of a pool.

LEMMA NewPoolType == ASSUME NEW addrs \in SUBSET IP
                     PROVE  NewLocalPool(addrs) \in Pool
BY DEF NewLocalPool, Pool

\* Release touches one address: its user goes, its key goes.
LEMMA ReleaseFacts ==
    ASSUME NEW p \in Pool, NEW ip \in IP, NEW svc \in Services
    PROVE  /\ Release(p, ip, svc) \in Pool
           /\ Release(p, ip, svc).addrs = p.addrs
           /\ Release(p, ip, svc).svcs = [p.svcs EXCEPT ![ip] = @ \ {svc}]
           /\ Release(p, ip, svc).key = [p.key EXCEPT ![ip] = Nil]
<1>1. /\ p.addrs \in SUBSET IP
      /\ [p.svcs EXCEPT ![ip] = @ \ {svc}] \in [IP -> SUBSET Services]
      /\ [p.key EXCEPT ![ip] = Nil] \in [IP -> Keys \cup {Nil}]
  BY DEF Pool
<1>2. [p.port EXCEPT ![ip] = [q \in Ports |-> IF @[q] = svc THEN svc ELSE Nil]]
         \in [IP -> [Ports -> Services \cup {Nil}]]
  BY DEF Pool
<1>3. Release(p, ip, svc) \in Pool
  BY <1>1, <1>2 DEF Release, Pool
<1> QED BY <1>3 DEF Release

\* Put touches one address: it gains a user, and has the user's key.
LEMMA PutFacts ==
    ASSUME NEW p \in Pool, NEW ip \in IP, NEW svc \in Services,
           NEW ports \in SUBSET Ports, NEW key \in Keys
    PROVE  /\ Put(p, ip, ports, svc, key) \in Pool
           /\ Put(p, ip, ports, svc, key).addrs = p.addrs
           /\ Put(p, ip, ports, svc, key).svcs = [p.svcs EXCEPT ![ip] = @ \cup {svc}]
           /\ Put(p, ip, ports, svc, key).key = [p.key EXCEPT ![ip] = key]
<1>1. /\ p.addrs \in SUBSET IP
      /\ [p.svcs EXCEPT ![ip] = @ \cup {svc}] \in [IP -> SUBSET Services]
      /\ [p.key EXCEPT ![ip] = key] \in [IP -> Keys \cup {Nil}]
  BY DEF Pool
<1>2. [p.port EXCEPT ![ip] = [q \in Ports |-> IF q \in ports THEN svc ELSE @[q]]]
         \in [IP -> [Ports -> Services \cup {Nil}]]
  BY DEF Pool
<1>3. Put(p, ip, ports, svc, key) \in Pool
  BY <1>1, <1>2 DEF Put, Pool
<1> QED BY <1>3 DEF Put

\* An address stays available to a service whose other address, or whose use of
\* this very address, is released.
LEMMA ReleaseKeepsAvailable ==
    ASSUME NEW p \in Pool, NEW ip \in IP, NEW old \in IP, NEW svc \in Services,
           NEW ports \in SUBSET Ports, NEW key \in Keys,
           Available(p, ip, ports, svc, key)
    PROVE  Available(Release(p, old, svc), ip, ports, svc, key)
<1>1. CASE ip = old
  <2>1. Release(p, old, svc).key[ip] = Nil
    BY <1>1 DEF Release, Pool
  <2> QED BY <2>1 DEF Available
<1>2. CASE ip # old
  <2>1. /\ Release(p, old, svc).key[ip] = p.key[ip]
        /\ Release(p, old, svc).svcs[ip] = p.svcs[ip]
        /\ Release(p, old, svc).port[ip] = p.port[ip]
    BY <1>2 DEF Release, Pool
  <2> QED BY <2>1 DEF Available
<1> QED BY <1>1, <1>2

-----------------------------------------------------------------------------
\* Lemmas about the operations of the allocator.

Holds(svc, n, ip) == /\ allocated[svc] # Nil
                     /\ allocated[svc].pool = n /\ allocated[svc].ip = ip

\* What releasing svc's address does to each pool and each address.
LEMMA ReleasedFacts ==
    ASSUME AllocatorOK, NEW svc \in Services
    PROVE  /\ Released(svc) \in [PoolNames -> Pool \cup {Nil}]
           /\ \A n \in PoolNames : Released(svc)[n] # Nil => pools[n] # Nil
           /\ \A n \in PoolNames : pools[n] # Nil =>
                /\ Released(svc)[n] \in Pool
                /\ \A ip \in IP :
                     /\ Released(svc)[n].svcs[ip] =
                          IF Holds(svc, n, ip) THEN pools[n].svcs[ip] \ {svc} ELSE pools[n].svcs[ip]
                     /\ Released(svc)[n].key[ip] =
                          IF Holds(svc, n, ip) THEN Nil ELSE pools[n].key[ip]
<1> DEFINE al == allocated[svc]
<1>1. CASE al = Nil \/ pools[al.pool] = Nil
  BY <1>1 DEF AllocatorOK, Released, Holds
<1>2. CASE al # Nil /\ pools[al.pool] # Nil
  <2>1. al \in Alloc /\ al.pool \in PoolNames /\ al.ip \in IP /\ pools[al.pool] \in Pool
    BY <1>2 DEF AllocatorOK, Alloc
  <2>2. Released(svc) = [pools EXCEPT ![al.pool] = Release(@, al.ip, svc)]
    BY <1>2 DEF Released
  <2>3. /\ Release(pools[al.pool], al.ip, svc) \in Pool
        /\ Release(pools[al.pool], al.ip, svc).svcs = [pools[al.pool].svcs EXCEPT ![al.ip] = @ \ {svc}]
        /\ Release(pools[al.pool], al.ip, svc).key = [pools[al.pool].key EXCEPT ![al.ip] = Nil]
    <3> HIDE DEF al
    <3> DEFINE p == pools[al.pool]
               ip == al.ip
    <3>1. p \in Pool /\ ip \in IP
      BY <2>1
    <3> HIDE DEF p, ip
    <3>2. /\ Release(p, ip, svc) \in Pool
          /\ Release(p, ip, svc).svcs = [p.svcs EXCEPT ![ip] = @ \ {svc}]
          /\ Release(p, ip, svc).key = [p.key EXCEPT ![ip] = Nil]
      BY <3>1, ReleaseFacts
    <3> QED BY <3>2 DEF p, ip
  <2>4. Released(svc) \in [PoolNames -> Pool \cup {Nil}]
    BY <2>1, <2>2, <2>3 DEF AllocatorOK
  <2>5. ASSUME NEW n \in PoolNames, pools[n] # Nil, NEW ip \in IP
        PROVE  /\ Released(svc)[n].svcs[ip] =
                    IF Holds(svc, n, ip) THEN pools[n].svcs[ip] \ {svc} ELSE pools[n].svcs[ip]
               /\ Released(svc)[n].key[ip] = IF Holds(svc, n, ip) THEN Nil ELSE pools[n].key[ip]
    <3>1. CASE n = al.pool
      <4>1. Released(svc)[n] = Release(pools[n], al.ip, svc)
        BY <2>1, <2>2, <3>1 DEF AllocatorOK
      <4>2. pools[n].svcs \in [IP -> SUBSET Services] /\ pools[n].key \in [IP -> Keys \cup {Nil}]
        BY <2>1, <3>1 DEF Pool
      <4>3. Holds(svc, n, ip) <=> ip = al.ip
        BY <1>2, <3>1 DEF Holds
      <4>4. /\ Released(svc)[n].svcs = [pools[n].svcs EXCEPT ![al.ip] = @ \ {svc}]
            /\ Released(svc)[n].key = [pools[n].key EXCEPT ![al.ip] = Nil]
        BY <2>3, <3>1, <4>1
      <4> HIDE DEF al
      <4> QED BY <2>1, <4>2, <4>3, <4>4
    <3>2. CASE n # al.pool
      BY <2>1, <2>2, <2>5, <3>2 DEF AllocatorOK, Holds
    <3> QED BY <3>1, <3>2
  <2>6. ASSUME NEW n \in PoolNames
        PROVE  /\ Released(svc)[n] # Nil => pools[n] # Nil
               /\ pools[n] # Nil => Released(svc)[n] \in Pool
    BY <1>2, <2>1, <2>2, <2>3 DEF AllocatorOK
  <2> QED BY <2>4, <2>5, <2>6
<1> QED BY <1>1, <1>2

\* What putting svc on address ip of pool n does to pool m.
AfterInstall(svc, n, ip, key, m) ==
    /\ pools[m] # Nil
    /\ \A i \in IP :
          /\ pools'[m].svcs[i] = IF m = n /\ i = ip THEN pools[m].svcs[i] \cup {svc}
                                 ELSE IF Holds(svc, m, i) THEN pools[m].svcs[i] \ {svc}
                                 ELSE pools[m].svcs[i]
          /\ pools'[m].key[i] = IF m = n /\ i = ip THEN key
                                ELSE IF Holds(svc, m, i) THEN Nil
                                ELSE pools[m].key[i]

\* assign() of an address that is available to svc: afterwards svc, and no
\* longer at its old address, is a user of the new one.
LEMMA InstallFacts ==
    ASSUME AllocatorOK, NEW svc \in Services, NEW n \in PoolNames, NEW ip \in IP,
           NEW ports \in SUBSET Ports, NEW key \in Keys,
           pools[n] # Nil, Available(pools[n], ip, ports, svc, key),
           Install(svc, [pool |-> n, ip |-> ip, ports |-> ports, key |-> key])
    PROVE  /\ AllocatorOK'
           /\ allocated' = [allocated EXCEPT ![svc] =
                              [pool |-> n, ip |-> ip, ports |-> ports, key |-> key]]
           /\ \A m \in PoolNames : pools'[m] # Nil => AfterInstall(svc, n, ip, key, m)
<1> DEFINE al == [pool |-> n, ip |-> ip, ports |-> ports, key |-> key]
           after == Released(svc)
<1>1. al \in Alloc /\ allocated' = [allocated EXCEPT ![svc] = al]
  BY DEF Alloc, Install
<1>2. after \in [PoolNames -> Pool \cup {Nil}]
  BY ReleasedFacts
<1>3. after[n] \in Pool /\ Available(after[n], ip, ports, svc, key)
  <2>1. pools[n] \in Pool
    BY DEF AllocatorOK
  <2>2. CASE allocated[svc] # Nil /\ allocated[svc].pool = n
    <3> DEFINE old == allocated[svc].ip
    <3>1. old \in IP
      BY <2>2 DEF AllocatorOK, Alloc
    <3>2. after[n] = Release(pools[n], old, svc)
      BY <2>2 DEF AllocatorOK, Released
    <3> HIDE DEF old, after
    <3>3. Release(pools[n], old, svc) \in Pool
      BY <2>1, <3>1, ReleaseFacts
    <3>4. Available(Release(pools[n], old, svc), ip, ports, svc, key)
      BY <2>1, <3>1, ReleaseKeepsAvailable
    <3> QED BY <3>2, <3>3, <3>4
  <2>3. CASE ~(allocated[svc] # Nil /\ allocated[svc].pool = n)
    <3>1. after[n] = pools[n]
      BY <2>3 DEF AllocatorOK, Released
    <3> QED BY <2>1, <3>1
  <2> QED BY <2>2, <2>3
<1>4. pools' = [after EXCEPT ![n] = Put(@, ip, ports, svc, key)]
  BY <1>3 DEF Install
<1>5. /\ Put(after[n], ip, ports, svc, key) \in Pool
      /\ Put(after[n], ip, ports, svc, key).svcs = [after[n].svcs EXCEPT ![ip] = @ \cup {svc}]
      /\ Put(after[n], ip, ports, svc, key).key = [after[n].key EXCEPT ![ip] = key]
  BY <1>3, PutFacts
<1>6. AllocatorOK'
  BY <1>1, <1>2, <1>4, <1>5 DEF AllocatorOK
<1> HIDE DEF after
<1>7. ASSUME NEW m \in PoolNames, pools'[m] # Nil
      PROVE  pools[m] # Nil
  BY <1>2, <1>4, <1>7, ReleasedFacts DEF after
<1>8. ASSUME NEW m \in PoolNames, pools'[m] # Nil, NEW i \in IP
      PROVE  /\ pools'[m].svcs[i] =
                  IF m = n /\ i = ip THEN pools[m].svcs[i] \cup {svc}
                  ELSE IF Holds(svc, m, i) THEN pools[m].svcs[i] \ {svc}
                  ELSE pools[m].svcs[i]
             /\ pools'[m].key[i] = IF m = n /\ i = ip THEN key
                                   ELSE IF Holds(svc, m, i) THEN Nil
                                   ELSE pools[m].key[i]
  <2>1. /\ after[m].svcs[i] = IF Holds(svc, m, i) THEN pools[m].svcs[i] \ {svc} ELSE pools[m].svcs[i]
        /\ after[m].key[i] = IF Holds(svc, m, i) THEN Nil ELSE pools[m].key[i]
        /\ after[m] \in Pool
    BY <1>7, <1>8, ReleasedFacts DEF after
  <2>2. after[m].svcs \in [IP -> SUBSET Services] /\ after[m].key \in [IP -> Keys \cup {Nil}]
    BY <2>1 DEF Pool
  <2>3. CASE m = n
    <3>1. pools'[m].svcs = [after[n].svcs EXCEPT ![ip] = @ \cup {svc}]
          /\ pools'[m].key = [after[n].key EXCEPT ![ip] = key]
      BY <1>2, <1>4, <1>5, <2>3
    <3>2. CASE i = ip
      BY <2>1, <2>2, <2>3, <3>1, <3>2
    <3>3. CASE i # ip
      BY <2>1, <2>2, <2>3, <3>1, <3>3
    <3> QED BY <3>2, <3>3
  <2>4. CASE m # n
    BY <1>2, <1>4, <2>1, <2>4
  <2> QED BY <2>3, <2>4
<1> QED BY <1>1, <1>6, <1>7, <1>8 DEF AfterInstall

-----------------------------------------------------------------------------
\* Each action preserves CallsInv.

LEMMA AddPrefixStep ==
    ASSUME CallsInv, NEW sp \in Prefixes, NEW s \in PoolSpecs[sp], AddPrefix(sp, s)
    PROVE  CallsInv'
<1> USE DEF CallsInv
<1> DEFINE Fresh(n) == \E addrs \in SUBSET IP : pools'[n] = NewLocalPool(addrs)
<1>1. allocated' = allocated
  BY DEF AddPrefix
<1>2. /\ \A n \in PoolNames : Fresh(n) \/ pools'[n] = pools[n]
      /\ pools' \in [PoolNames -> Pool \cup {Nil}]
  <2>1. s.main \in SUBSET IP /\ (s.alt \in {Malformed, Nil} \/ s.alt \in SUBSET IP)
    BY PoolSpecAssumption DEF AddPrefix
  <2>2. pools' = [n \in PoolNames |->
                    IF n = Main(sp) THEN NewLocalPool(s.main)
                    ELSE IF n = Alt(sp) /\ s.alt \notin {Malformed, Nil} THEN NewLocalPool(s.alt)
                    ELSE pools[n]]
    BY DEF AddPrefix
  <2>3. NewLocalPool(s.main) \in Pool /\ (s.alt \in SUBSET IP => NewLocalPool(s.alt) \in Pool)
    BY <2>1, NewPoolType
  <2>4. ASSUME NEW n \in PoolNames
        PROVE  /\ Fresh(n) \/ pools'[n] = pools[n]
               /\ pools'[n] \in Pool \cup {Nil}
    <3>1. CASE n = Main(sp)
      BY <2>1, <2>2, <2>3, <3>1
    <3>2. CASE n # Main(sp) /\ n = Alt(sp) /\ s.alt \notin {Malformed, Nil}
      BY <2>1, <2>2, <2>3, <3>2
    <3>3. CASE n # Main(sp) /\ ~(n = Alt(sp) /\ s.alt \notin {Malformed, Nil})
      BY <2>2, <3>3 DEF AllocatorOK
    <3> QED BY <3>1, <3>2, <3>3
  <2> QED BY <2>2, <2>4
<1>3. AllocatorOK'
  BY <1>1, <1>2 DEF AllocatorOK
<1>4. ASSUME NEW n \in PoolNames, pools'[n] # Nil, NEW ip \in IP
      PROVE  /\ pools'[n].svcs[ip] \subseteq Holders(n, ip)'
             /\ pools'[n].key[ip] # Nil => pools'[n].svcs[ip] # {}
  <2>1. Holders(n, ip)' = Holders(n, ip)
    BY <1>1 DEF Holders, Users
  <2>2. CASE Fresh(n)
    BY <2>2 DEF NewLocalPool
  <2>3. CASE pools'[n] = pools[n]
    BY <1>4, <2>1, <2>3 DEF NoGhostUsers, KeyMeansUser
  <2> QED BY <1>2, <2>2, <2>3
<1> QED BY <1>3, <1>4 DEF NoGhostUsers, KeyMeansUser

LEMMA RemovePoolStep ==
    ASSUME CallsInv, NEW sp \in Prefixes, RemovePool(sp)
    PROVE  CallsInv'
<1> USE DEF CallsInv
<1>1. allocated' = allocated /\ pools' = [pools EXCEPT ![Main(sp)] = Nil]
  BY DEF RemovePool
<1>2. AllocatorOK'
  BY <1>1 DEF AllocatorOK
<1>3. ASSUME NEW n \in PoolNames, pools'[n] # Nil
      PROVE  pools'[n] = pools[n] /\ pools[n] # Nil
  BY <1>1, <1>3 DEF AllocatorOK
<1>4. \A n, ip : Holders(n, ip)' = Holders(n, ip)
  BY <1>1 DEF Holders, Users
<1> QED BY <1>2, <1>3, <1>4 DEF NoGhostUsers, KeyMeansUser

\* The step of Assign and of AllocateFromPool.
LEMMA InstallStep ==
    ASSUME CallsInv, NEW svc \in Services, NEW n \in PoolNames, NEW ip \in IP,
           NEW ports \in SUBSET Ports, NEW key \in Keys,
           pools[n] # Nil, Available(pools[n], ip, ports, svc, key),
           Install(svc, [pool |-> n, ip |-> ip, ports |-> ports, key |-> key])
    PROVE  CallsInv'
<1> USE DEF CallsInv
<1> DEFINE al == [pool |-> n, ip |-> ip, ports |-> ports, key |-> key]
<1>1. AllocatorOK' /\ allocated' = [allocated EXCEPT ![svc] = al]
  BY InstallFacts
<1>2. /\ al # Nil
      /\ \A m \in PoolNames : pools'[m] # Nil => AfterInstall(svc, n, ip, key, m)
  BY RecordAssumption, InstallFacts DEF Alloc
<1>3. /\ allocated'[svc] = al
      /\ \A t \in Services \ {svc} : allocated'[t] = allocated[t]
  BY <1>1 DEF AllocatorOK
<1>4. ASSUME NEW m \in PoolNames, NEW i \in IP, pools'[m] # Nil
      PROVE  pools'[m].svcs[i] \subseteq Holders(m, i)'
  <2> SUFFICES ASSUME NEW t \in pools'[m].svcs[i]
               PROVE  t \in Holders(m, i)'
    OBVIOUS
  <2>1. pools[m] # Nil /\ pools[m].svcs[i] \subseteq Holders(m, i)
    BY <1>2, <1>4 DEF NoGhostUsers, AfterInstall
  <2>2. pools'[m].svcs[i] = IF m = n /\ i = ip THEN pools[m].svcs[i] \cup {svc}
                            ELSE IF Holds(svc, m, i) THEN pools[m].svcs[i] \ {svc}
                            ELSE pools[m].svcs[i]
    BY <1>2, <1>4 DEF AfterInstall
  <2>3. CASE t # svc
    <3>1. t \in pools[m].svcs[i]
      BY <2>2, <2>3
    <3> QED BY <1>3, <2>1, <2>3, <3>1 DEF Holders, Users
  <2>4. CASE t = svc
    <3>1. m = n /\ i = ip
      BY <2>1, <2>2, <2>4 DEF Holders, Users, Holds
    <3> QED BY <1>2, <1>3, <2>4, <3>1 DEF Holders, Users
  <2> QED BY <2>3, <2>4
<1>5. ASSUME NEW m \in PoolNames, NEW i \in IP, pools'[m] # Nil, pools'[m].key[i] # Nil
      PROVE  pools'[m].svcs[i] # {}
  <2>1. pools[m] # Nil
    BY <1>2, <1>5 DEF AfterInstall
  <2>2. /\ pools'[m].svcs[i] = IF m = n /\ i = ip THEN pools[m].svcs[i] \cup {svc}
                               ELSE IF Holds(svc, m, i) THEN pools[m].svcs[i] \ {svc}
                               ELSE pools[m].svcs[i]
        /\ pools'[m].key[i] = IF m = n /\ i = ip THEN key
                              ELSE IF Holds(svc, m, i) THEN Nil
                              ELSE pools[m].key[i]
    BY <1>2, <1>5 DEF AfterInstall
  <2> QED BY <1>5, <2>1, <2>2 DEF KeyMeansUser
<1> QED BY <1>1, <1>4, <1>5 DEF NoGhostUsers, KeyMeansUser

LEMMA UnassignStep ==
    ASSUME CallsInv, NEW svc \in Services, Unassign(svc)
    PROVE  CallsInv'
<1> USE DEF CallsInv
<1>1. pools' = Released(svc) /\ allocated' = [allocated EXCEPT ![svc] = Nil]
  BY DEF Unassign
<1>2. AllocatorOK'
  BY <1>1, ReleasedFacts DEF AllocatorOK
<1>3. /\ allocated'[svc] = Nil
      /\ \A t \in Services \ {svc} : allocated'[t] = allocated[t]
  BY <1>1 DEF AllocatorOK
<1>4. ASSUME NEW m \in PoolNames, NEW i \in IP, pools'[m] # Nil
      PROVE  /\ pools'[m].svcs[i] \subseteq Holders(m, i)'
             /\ pools'[m].key[i] # Nil => pools'[m].svcs[i] # {}
  <2>1. pools[m] # Nil
    BY <1>1, <1>4, ReleasedFacts
  <2>2. /\ pools'[m].svcs[i] = IF Holds(svc, m, i) THEN pools[m].svcs[i] \ {svc} ELSE pools[m].svcs[i]
        /\ pools'[m].key[i] = IF Holds(svc, m, i) THEN Nil ELSE pools[m].key[i]
    BY <1>1, <2>1, ReleasedFacts
  <2>3. pools[m].svcs[i] \subseteq Holders(m, i)
    BY <2>1 DEF NoGhostUsers
  <2>4. pools[m].key[i] # Nil => pools[m].svcs[i] # {}
    BY <2>1 DEF KeyMeansUser
  <2>5. ASSUME NEW t \in pools'[m].svcs[i]
        PROVE  t \in Holders(m, i)'
    <3>1. t \in pools[m].svcs[i] /\ t # svc
      BY <2>2, <2>3, <2>5 DEF Holders, Users, Holds
    <3> QED BY <1>3, <2>3, <3>1 DEF Holders, Users
  <2> QED BY <2>2, <2>4, <2>5
<1> QED BY <1>2, <1>4 DEF NoGhostUsers, KeyMeansUser

-----------------------------------------------------------------------------
\* Assign and AllocateFromPool both come down to Install of an available
\* address.
LEMMA AssignIsInstall ==
    ASSUME AllocatorOK, NEW svc \in Services, NEW ports \in SUBSET Ports, NEW key \in Keys,
           \/ \E ip \in IP : Assign(svc, ip, ports, key)
           \/ \E n \in PoolNames : AllocateFromPool(svc, n, ports, key)
    PROVE  \E n \in PoolNames, ip \in IP :
              /\ pools[n] # Nil /\ Available(pools[n], ip, ports, svc, key)
              /\ Install(svc, [pool |-> n, ip |-> ip, ports |-> ports, key |-> key])
<1>1. CASE \E ip \in IP : Assign(svc, ip, ports, key)
  BY <1>1 DEF Assign
<1>2. CASE \E n \in PoolNames : AllocateFromPool(svc, n, ports, key)
  <2>1. PICK n \in PoolNames : AllocateFromPool(svc, n, ports, key)
    BY <1>2
  <2>2. PICK ip \in pools[n].addrs :
           /\ IsFirst(ip, Candidates(pools[n], ports, svc, key))
           /\ Install(svc, [pool |-> n, ip |-> ip, ports |-> ports, key |-> key])
    BY <2>1 DEF AllocateFromPool
  <2>3. pools[n] \in Pool /\ pools[n] # Nil
    BY <2>1 DEF AllocateFromPool, AllocatorOK
  <2>4. ip \in IP
    BY <2>3 DEF Pool
  <2>5. Available(pools[n], ip, ports, svc, key)
    BY <2>2 DEF IsFirst, Candidates
  <2> QED BY <2>2, <2>3, <2>4, <2>5
<1> QED BY <1>1, <1>2

-----------------------------------------------------------------------------
\* What a call does to who has an address and to what the pools know of it.

\* A pool that is there has the address, and counts svc as a user of it.
InRange(n, ip) == pools[n] # Nil /\ ip \in pools[n].addrs
Taken(svc, n, ip) == /\ Holds(svc, n, ip) /\ pools[n] # Nil
                     /\ svc \in pools[n].svcs[ip] /\ pools[n].key[ip] # Nil

\* The pools' ranges stay.
RangesStay == \A m \in PoolNames : /\ pools'[m] # Nil <=> pools[m] # Nil
                                   /\ pools[m] # Nil => pools'[m].addrs = pools[m].addrs

\* Address ip of pool n is nobody's, or svc's.
Free(svc, n, ip) == pools[n].key[ip] = Nil \/ pools[n].svcs[ip] \subseteq {svc}

\* svc has address ip of pool n instead of the one it had.
Gains(svc, n, ip) ==
    /\ RangesStay
    /\ Holds(svc, n, ip)' /\ Taken(svc, n, ip)'
    /\ \A t \in Services \ {svc} : allocated'[t] = allocated[t]
    /\ \A t \in Services \ {svc}, m \in PoolNames, i \in IP :
          Taken(t, m, i) /\ ~Holds(svc, m, i) => Taken(t, m, i)'

\* svc has no address, instead of the one it had.
Loses(svc) ==
    /\ RangesStay
    /\ allocated'[svc] = Nil
    /\ \A t \in Services \ {svc} : allocated'[t] = allocated[t]
    /\ \A t \in Services \ {svc}, m \in PoolNames, i \in IP :
          Taken(t, m, i) /\ ~Holds(svc, m, i) => Taken(t, m, i)'

LEMMA ReleasedRanges ==
    ASSUME AllocatorOK, NEW svc \in Services, NEW m \in PoolNames
    PROVE  /\ Released(svc)[m] # Nil <=> pools[m] # Nil
           /\ pools[m] # Nil => Released(svc)[m].addrs = pools[m].addrs
<1> DEFINE al == allocated[svc]
<1>1. CASE al = Nil \/ pools[al.pool] = Nil
  BY <1>1 DEF Released
<1>2. CASE al # Nil /\ pools[al.pool] # Nil
  <2>1. al.pool \in PoolNames
    BY <1>2 DEF AllocatorOK, Alloc
  <2>2. Released(svc)[m] = IF m = al.pool THEN Release(pools[m], al.ip, svc) ELSE pools[m]
    BY <1>2, <2>1 DEF Released, AllocatorOK
  <2>3. Release(pools[m], al.ip, svc).addrs = pools[m].addrs
    BY DEF Release
  <2>4. Released(svc)[m] # Nil <=> pools[m] # Nil
    BY ReleasedFacts, RecordAssumption
  <2> QED BY <2>2, <2>3, <2>4
<1> QED BY <1>1, <1>2

LEMMA InstallGains ==
    ASSUME CallsInv, NEW svc \in Services, NEW n \in PoolNames, NEW ip \in IP,
           NEW ports \in SUBSET Ports, NEW key \in Keys,
           pools[n] # Nil, Available(pools[n], ip, ports, svc, key),
           Install(svc, [pool |-> n, ip |-> ip, ports |-> ports, key |-> key])
    PROVE  CallsInv' /\ Gains(svc, n, ip)
<1> DEFINE al == [pool |-> n, ip |-> ip, ports |-> ports, key |-> key]
           after == Released(svc)
<1>0. key # Nil
  BY NilAssumption
<1>1. CallsInv'
  BY InstallStep
<1>2. /\ allocated' = [allocated EXCEPT ![svc] = al]
      /\ \A m \in PoolNames : pools'[m] # Nil => AfterInstall(svc, n, ip, key, m)
  BY InstallFacts DEF CallsInv
<1>3. al \in Alloc /\ al # Nil
  BY RecordAssumption DEF Alloc
<1>4. RangesStay
  <2>1. /\ after \in [PoolNames -> Pool \cup {Nil}]
        /\ \A m \in PoolNames : /\ after[m] # Nil <=> pools[m] # Nil
                                /\ pools[m] # Nil => after[m].addrs = pools[m].addrs
    BY ReleasedFacts, ReleasedRanges DEF CallsInv
  <2> HIDE DEF after
  <2>2. after[n] \in Pool
    BY <2>1
  <2>3. Put(after[n], ip, ports, svc, key) # Nil /\ Put(after[n], ip, ports, svc, key).addrs = after[n].addrs
    <3> DEFINE p == after[n]
    <3> HIDE DEF p, al
    <3>1. p \in Pool
      BY <2>2 DEF p
    <3>2. Put(p, ip, ports, svc, key) \in Pool
      BY <3>1, PutFacts
    <3>3. Put(p, ip, ports, svc, key).addrs = p.addrs
      BY DEF Put
    <3> QED BY <3>2, <3>3, RecordAssumption DEF p
  <2>4. pools' = [after EXCEPT ![n] = Put(@, ip, ports, svc, key)] \/ pools' = after
    BY DEF Install, after
  <2> QED BY <2>1, <2>2, <2>3, <2>4, RecordAssumption DEF RangesStay
<1>5. Holds(svc, n, ip)'
  BY <1>2, <1>3 DEF Holds, CallsInv, AllocatorOK
<1>6. \A t \in Services \ {svc} : allocated'[t] = allocated[t]
  BY <1>2 DEF CallsInv, AllocatorOK
<1>7. Taken(svc, n, ip)'
  <2>1. pools'[n] # Nil
    BY <1>4 DEF RangesStay
  <2>2. svc \in pools'[n].svcs[ip] /\ pools'[n].key[ip] # Nil
    BY <1>0, <1>2, <2>1 DEF AfterInstall
  <2> QED BY <1>5, <2>1, <2>2 DEF Taken
<1>8. ASSUME NEW t \in Services \ {svc}, NEW m \in PoolNames, NEW i \in IP,
             Taken(t, m, i), ~Holds(svc, m, i)
      PROVE  Taken(t, m, i)'
  <2>1. pools'[m] # Nil
    BY <1>4, <1>8 DEF RangesStay, Taken
  <2>2. t \in pools'[m].svcs[i] /\ pools'[m].key[i] # Nil
    BY <1>0, <1>2, <1>8, <2>1 DEF AfterInstall, Taken
  <2> QED BY <1>6, <1>8, <2>1, <2>2 DEF Taken, Holds
<1> QED BY <1>1, <1>4, <1>5, <1>6, <1>7, <1>8 DEF Gains

\* The address that AllocateFromPool() and Assign() give is free, and in range.
LEMMA AllocateGains ==
    ASSUME CallsInv, NEW svc \in Services, NEW n \in PoolNames, AllocateFromPool(svc, n, {}, Unshared)
    PROVE  /\ allocated[svc] = Nil
           /\ \E ip \in IP : InRange(n, ip) /\ Free(svc, n, ip) /\ CallsInv' /\ Gains(svc, n, ip)
<1>1. Unshared \in Keys /\ {} \in SUBSET Ports
  BY KeyAssumption
<1>2. PICK ip \in pools[n].addrs :
         /\ IsFirst(ip, Candidates(pools[n], {}, svc, Unshared))
         /\ Install(svc, [pool |-> n, ip |-> ip, ports |-> {}, key |-> Unshared])
  BY DEF AllocateFromPool
<1>3. pools[n] # Nil /\ pools[n] \in Pool /\ allocated[svc] = Nil
  BY DEF AllocateFromPool, CallsInv, AllocatorOK
<1>4. ip \in IP
  BY <1>3 DEF Pool
<1>5. Available(pools[n], ip, {}, svc, Unshared)
  BY <1>2 DEF IsFirst, Candidates
<1>6. CallsInv' /\ Gains(svc, n, ip)
  BY <1>1, <1>2, <1>3, <1>4, <1>5, InstallGains
<1>7. Free(svc, n, ip)
  BY <1>5 DEF Available, SharingOK, Free
<1> QED BY <1>3, <1>4, <1>6, <1>7 DEF InRange

LEMMA AssignGains ==
    ASSUME CallsInv, NEW svc \in Services, NEW ip \in IP, Assign(svc, ip, {}, Unshared)
    PROVE  /\ CallsInv'
           /\ \E n \in PoolNames : InRange(n, ip) /\ Free(svc, n, ip) /\ Gains(svc, n, ip)
<1>1. Unshared \in Keys /\ {} \in SUBSET Ports
  BY KeyAssumption
<1>2. PICK n \in PoolNames :
         /\ pools[n] # Nil /\ ip \in pools[n].addrs
         /\ Available(pools[n], ip, {}, svc, Unshared)
         /\ Install(svc, [pool |-> n, ip |-> ip, ports |-> {}, key |-> Unshared])
  BY DEF Assign
<1>3. CallsInv' /\ Gains(svc, n, ip)
  BY <1>1, <1>2, InstallGains
<1>4. Free(svc, n, ip)
  BY <1>2 DEF Available, SharingOK, Free
<1> QED BY <1>2, <1>3, <1>4 DEF InRange

\* An address that is refused is not free.
LEMMA RefusedIsNotFree ==
    ASSUME NEW svc \in Services, NEW n \in PoolNames, NEW ip \in IP,
           ~Available(pools[n], ip, {}, svc, Unshared)
    PROVE  ~Free(svc, n, ip)
BY DEF Available, Free

LEMMA UnassignLoses ==
    ASSUME CallsInv, NEW svc \in Services, Unassign(svc)
    PROVE  CallsInv' /\ Loses(svc)
<1>1. CallsInv'
  BY UnassignStep
<1>2. pools' = Released(svc) /\ allocated' = [allocated EXCEPT ![svc] = Nil]
  BY DEF Unassign
<1>3. RangesStay
  BY <1>2, ReleasedRanges DEF RangesStay, CallsInv
<1>4. allocated'[svc] = Nil /\ \A t \in Services \ {svc} : allocated'[t] = allocated[t]
  BY <1>2 DEF CallsInv, AllocatorOK
<1>5. ASSUME NEW t \in Services \ {svc}, NEW m \in PoolNames, NEW i \in IP,
             Taken(t, m, i), ~Holds(svc, m, i)
      PROVE  Taken(t, m, i)'
  <2>1. pools[m] # Nil /\ pools'[m] # Nil
    BY <1>3, <1>5 DEF RangesStay, Taken
  <2>2. pools'[m].svcs[i] = pools[m].svcs[i] /\ pools'[m].key[i] = pools[m].key[i]
    BY <1>2, <1>5, <2>1, ReleasedFacts DEF CallsInv
  <2> QED BY <1>4, <1>5, <2>1, <2>2 DEF Taken, Holds
<1> QED BY <1>1, <1>3, <1>4, <1>5 DEF Loses
=============================================================================

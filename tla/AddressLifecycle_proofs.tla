---------------------- MODULE AddressLifecycle_proofs ----------------------
(***************************************************************************)
(* Proofs about AddressLifecycle, for every set of objects, every range    *)
(* and any number of restarts and reconciles of the prefix, in the worlds  *)
(* of GoodWorld.  The invariant relates four things: the addresses that    *)
(* objects have, those that the allocator has given to services, those     *)
(* that the pools count as used, and what the reconcile of the prefix has  *)
(* yet to tell the allocator.                                              *)
(***************************************************************************)
EXTENDS AddressLifecycle, AllocatorCalls_proofs

USE WorldAssumption, NamesAssumption, AddressAssumption

\* An object has an address of each kind, and may be known by two names to have
\* the public one.
Kinds == {"public", "alt"}
Used(o, k) == IF k = "public" THEN spec[o].public ELSE spec[o].alt
NamesOf(o, k) == IF k = "public" THEN {FullName(o), WarmName(o)} ELSE {AltName(o)}
WarmOf(o, k) == IF k = "public" THEN WarmName(o) ELSE AltName(o)
GrantOf(o, k) == IF k = "public" THEN FullName(o) ELSE AltName(o)
PoolOf(k) == IF k = "public" THEN Main(Prefix) ELSE Alt(Prefix)
RangeOf(k) == IF k = "public" THEN MainsOf(world) ELSE AltsOf(world)

\* An object in admission, in service, or whose address is not yet returned.
Present(o) == phase[o] \notin {"absent", "freed"}

\* What the reconcile of the prefix is yet to tell the allocator, where the
\* prefix may be reconciled after objects have been given addresses.
Steady == ~Happens("restart") /\ ~Happens("resync")
Awaiting == IF Steady THEN {}
            ELSE IF step = "list lbs" THEN LBClaims \cup ProxyClaims
            ELSE IF step = "assign lbs" THEN todo \cup ProxyClaims
            ELSE IF step = "assign proxies" THEN todo
            ELSE {}

\* The world is one in which the code is right, and has these objects.
WorldStays == /\ world \in Worlds /\ GoodWorld(world)
              /\ \A o \in Objects : phase[o] # "absent" => o \in world.objects

\* An address is returned, and an object admitted, outside the reconcile of the
\* prefix only, where admissions do not happen during it.
PhasesMakeSense == \A o \in Objects :
    /\ phase[o] = "freed" => step = "idle"
    /\ phase[o] \in {"defaulting", "defaulted"} => step = "idle" \/ Happens("admission")
    /\ o.kind = "lb" => phase[o] # "defaulting" /\ spec[o].alt = Nil
    /\ phase[o] # "absent" => spec[o].public # Nil

\* What is to be assigned is still used by an object.
TodoMakesSense == /\ step = "assign lbs" => todo \subseteq LBClaims
                  /\ step = "assign proxies" => todo \subseteq ProxyClaims
                  /\ step \notin {"assign lbs", "assign proxies"} => todo = {}

\* Addresses come from the range of their kind, or are asked for.
RangesKept ==
    /\ \A n \in PoolNames : pools[n] # Nil =>
           \E k \in Kinds : n = PoolOf(k) /\ pools[n].addrs \subseteq RangeOf(k)
    /\ \A svc \in Services : allocated[svc] # Nil =>
           \E k \in Kinds : allocated[svc].pool = PoolOf(k) /\ allocated[svc].ip \in RangeOf(k)
    /\ \A o \in Objects, k \in Kinds :
           Used(o, k) \in MainsOf(world) \cup AltsOf(world) \cup Requested[o] \cup {Nil}

\* Before the prefix is first reconciled there is nothing to allocate from.
PendingIsEmpty == step = "pending" =>
    /\ \A n \in PoolNames : pools[n] = Nil
    /\ \A svc \in Services : allocated[svc] = Nil
    /\ Steady => \A o \in Objects, k, l \in Kinds : Used(o, k) \notin RangeOf(l)

\* No address is given to two services, and none is used twice.
Alone == \A s, t \in Services :
    s # t /\ allocated[s] # Nil /\ allocated[t] # Nil => allocated[s].ip # allocated[t].ip
Distinct == \A o, p \in Objects, k, l \in Kinds :
    Present(o) /\ Present(p) /\ Used(o, k) = Used(p, l) /\ Used(o, k) # Nil => o = p /\ k = l

\* Whoever is given an address that an object uses is that object.
HoldersOwn == \A o \in Objects, k \in Kinds, svc \in Services :
    Present(o) /\ allocated[svc] # Nil /\ allocated[svc].ip = Used(o, k) => svc \in NamesOf(o, k)

\* What is given to a service the pool knows, or is about to be told again.
HeldIsTaken == \A svc \in Services, n \in PoolNames, ip \in IP :
    Holds(svc, n, ip) /\ InRange(n, ip) => Taken(svc, n, ip) \/ <<svc, ip>> \in Awaiting

\* What an object uses is given to it and known, or is about to be.
UsedIsTaken == \A o \in Objects, k \in Kinds, n \in PoolNames :
    Present(o) /\ InRange(n, Used(o, k)) =>
        \/ \E svc \in NamesOf(o, k) : Taken(svc, n, Used(o, k))
        \/ <<WarmOf(o, k), Used(o, k)>> \in Awaiting

\* Where names are the same throughout and creations do not fail, an object that
\* is gone, or is about to be, has nothing.
Orderly == /\ ~Happens("reject") /\ \A s \in world.specs : s.alt = Nil
           /\ \A o \in world.objects : o.kind = "proxy" \/ ~Happens("restart")
HeldIsUsed == Orderly =>
    /\ \A o \in Objects : spec[o].alt = Nil
    /\ \A svc \in Services : allocated[svc] # Nil =>
           \E o \in world.objects : svc = FullName(o) /\ Present(o) /\ allocated[svc].ip = spec[o].public

Core == Alone /\ Distinct /\ HoldersOwn /\ HeldIsTaken /\ UsedIsTaken
IInv == /\ TypeOK /\ CallsInv /\ WorldStays /\ PhasesMakeSense /\ TodoMakesSense
        /\ RangesKept /\ PendingIsEmpty /\ Core /\ HeldIsUsed

-----------------------------------------------------------------------------
\* What the world is like.

\* Different objects, and the different addresses of one, go by other names.
LEMMA NamesDiffer ==
    ASSUME WorldStays, NEW o \in world.objects, NEW p \in world.objects, NEW k \in Kinds, NEW l \in Kinds,
           NEW svc, svc \in NamesOf(o, k), svc \in NamesOf(p, l)
    PROVE  o = p /\ k = l
<1>1. o \in Objects /\ p \in Objects
  BY DEF WorldStays
<1>2. o.kind \in {"lb", "proxy"} /\ p.kind \in {"lb", "proxy"}
  BY <1>1
<1>3. o # p => /\ FullName(o) # FullName(p)
               /\ o.kind = "lb" /\ p.kind = "lb" => o.name # p.name
  BY DEF WorldStays, GoodWorld
<1>4. CASE k = l
  <2>1. CASE k = "public"
    BY <1>2, <1>3, <1>4, <2>1 DEF NamesOf, FullName, WarmName
  <2>2. CASE k = "alt"
    BY <1>3, <1>4, <2>2 DEF NamesOf, FullName, AltName
  <2> QED BY <2>1, <2>2 DEF Kinds
<1>5. CASE k # l
  BY <1>5 DEF NamesOf, FullName, WarmName, AltName, Kinds
<1> QED BY <1>4, <1>5

LEMMA NamesAreServices ==
    ASSUME NEW o \in Objects, NEW k \in Kinds
    PROVE  /\ NamesOf(o, k) \subseteq Services
           /\ WarmOf(o, k) \in NamesOf(o, k) /\ GrantOf(o, k) \in NamesOf(o, k)
BY DEF NamesOf, WarmOf, GrantOf, Kinds

LEMMA RangesDiffer ==
    ASSUME WorldStays
    PROVE  /\ \A k, l \in Kinds : \A ip : ip \in RangeOf(k) /\ ip \in RangeOf(l) => k = l
           /\ \A o \in world.objects, k \in Kinds : \A ip : ip \in RangeOf(k) => ip \notin Requested[o]
BY DEF WorldStays, GoodWorld, RangeOf, Kinds

LEMMA PoolsDiffer == ASSUME NEW k \in Kinds, NEW l \in Kinds, PoolOf(k) = PoolOf(l)
                     PROVE  k = l
BY DEF PoolOf, Main, Alt, Kinds

LEMMA PoolOfType == \A k \in Kinds : PoolOf(k) \in PoolNames
BY DEF PoolOf, Main, Alt, Kinds, PoolNames

LEMMA NilOutOfRange ==
    ASSUME WorldStays
    PROVE  \A k \in Kinds : RangeOf(k) \subseteq IP /\ Nil \notin RangeOf(k)
<1>1. world.specs \subseteq PoolSpecs[Prefix]
  BY DEF WorldStays
<1>2. MainsOf(world) \subseteq IP
  BY <1>1, PoolSpecAssumption DEF MainsOf
<1>3. AltsOf(world) \subseteq IP
  BY <1>1, PoolSpecAssumption DEF AltsOf
<1> QED BY <1>2, <1>3 DEF RangeOf

-----------------------------------------------------------------------------
\* What is yet to be assigned.

\* An object that exists claims the addresses that it uses, and nothing else is
\* claimed.
LEMMA ClaimsAreUsed ==
    ASSUME PhasesMakeSense, NEW c \in LBClaims \cup ProxyClaims
    PROVE  \E p \in Objects, l \in Kinds :
              Exists(p) /\ c = <<WarmOf(p, l), Used(p, l)>> /\ Used(p, l) # Nil
<1>1. CASE \E p \in Objects : Exists(p) /\ c = <<WarmName(p), spec[p].public>>
  <2>1. PICK p \in Objects : Exists(p) /\ c = <<WarmName(p), spec[p].public>>
    BY <1>1
  <2>2. spec[p].public # Nil
    BY <2>1 DEF PhasesMakeSense, Exists
  <2> QED BY <2>1, <2>2 DEF WarmOf, Used, Kinds
<1>2. CASE \E p \in Objects : Exists(p) /\ c = <<AltName(p), spec[p].alt>> /\ spec[p].alt # Nil
  BY <1>2 DEF WarmOf, Used, Kinds
<1> QED BY <1>1, <1>2 DEF LBClaims, ProxyClaims, Existing

LEMMA UsedAreClaims ==
    ASSUME PhasesMakeSense, NEW p \in Objects, NEW l \in Kinds, Exists(p), Used(p, l) # Nil
    PROVE  <<WarmOf(p, l), Used(p, l)>> \in LBClaims \cup ProxyClaims
<1>1. p.kind \in {"lb", "proxy"}
  OBVIOUS
<1>2. CASE l = "public"
  BY <1>1, <1>2 DEF LBClaims, ProxyClaims, Existing, WarmOf, Used
<1>3. CASE l = "alt"
  <2>1. p.kind = "proxy" /\ spec[p].alt # Nil
    BY <1>1, <1>3 DEF PhasesMakeSense, Used
  <2> QED BY <1>3, <2>1 DEF ProxyClaims, Existing, WarmOf, Used
<1> QED BY <1>2, <1>3 DEF Kinds

LEMMA AwaitingAreUsed ==
    ASSUME PhasesMakeSense, TodoMakesSense, NEW c \in Awaiting
    PROVE  \E p \in Objects, l \in Kinds :
              Exists(p) /\ c = <<WarmOf(p, l), Used(p, l)>> /\ Used(p, l) # Nil
BY ClaimsAreUsed DEF Awaiting, TodoMakesSense

\* Who awaits an address is not another name of the object that uses it.
LEMMA AwaitingName ==
    ASSUME WorldStays, PhasesMakeSense, TodoMakesSense,
           NEW o \in world.objects, NEW k \in Kinds, NEW svc \in NamesOf(o, k),
           NEW ip, <<svc, ip>> \in Awaiting
    PROVE  svc = WarmOf(o, k)
<1>1. PICK p \in Objects, l \in Kinds : Exists(p) /\ <<svc, ip>> = <<WarmOf(p, l), Used(p, l)>>
  BY AwaitingAreUsed
<1>2. p \in world.objects
  BY <1>1 DEF WorldStays, Exists
<1>3. svc \in NamesOf(p, l)
  BY <1>1, NamesAreServices
<1> QED BY <1>1, <1>2, <1>3, NamesDiffer

\* Nothing is awaited while somebody may be admitted.
LEMMA NothingAwaited ==
    ASSUME WorldStays, step = "idle" \/ Happens("admission")
    PROVE  Awaiting = {}
BY DEF Awaiting, Steady, WorldStays, GoodWorld, Happens

-----------------------------------------------------------------------------
\* Addresses and ranges.

\* An address is in the range of one pool only, that which it is given from.
LEMMA OneRange ==
    ASSUME WorldStays, RangesKept, NEW n \in PoolNames, NEW ip, InRange(n, ip)
    PROVE  /\ \A m \in PoolNames : InRange(m, ip) => m = n
           /\ \A t \in Services : allocated[t] # Nil /\ allocated[t].ip = ip => Holds(t, n, ip)
<1>1. PICK k \in Kinds : n = PoolOf(k) /\ ip \in RangeOf(k)
  BY DEF RangesKept, InRange
<1>2. ASSUME NEW m \in PoolNames, InRange(m, ip) PROVE m = n
  <2>1. PICK l \in Kinds : m = PoolOf(l) /\ ip \in RangeOf(l)
    BY <1>2 DEF RangesKept, InRange
  <2> QED BY <1>1, <2>1, RangesDiffer
<1>3. ASSUME NEW t \in Services, allocated[t] # Nil, allocated[t].ip = ip PROVE Holds(t, n, ip)
  <2>1. PICK l \in Kinds : allocated[t].pool = PoolOf(l) /\ ip \in RangeOf(l)
    BY <1>3 DEF RangesKept
  <2> QED BY <1>1, <1>3, <2>1, RangesDiffer DEF Holds
<1> QED BY <1>2, <1>3

LEMMA AddressesAreIPs ==
    ASSUME TypeOK
    PROVE  /\ \A o \in Objects, k \in Kinds : Used(o, k) \in IP \cup {Nil}
           /\ \A svc \in Services : allocated[svc] # Nil => allocated[svc] \in Alloc /\ allocated[svc].ip \in IP
           /\ \A n \in PoolNames : \A ip : InRange(n, ip) => ip \in IP
<1>1. \A o \in Objects : spec[o] \in [public : IP \cup {Nil}, alt : IP \cup {Nil}]
  BY DEF TypeOK
<1>2. \A svc \in Services : allocated[svc] \in Alloc \cup {Nil}
  BY DEF TypeOK, AllocatorOK
<1>3. \A n \in PoolNames : pools[n] \in Pool \cup {Nil}
  BY DEF TypeOK, AllocatorOK
<1>4. \A o \in Objects, k \in Kinds : Used(o, k) \in IP \cup {Nil}
  BY <1>1 DEF Used
<1>5. \A svc \in Services : allocated[svc] # Nil => allocated[svc] \in Alloc /\ allocated[svc].ip \in IP
  BY <1>2 DEF Alloc
<1>6. \A n \in PoolNames : \A ip : InRange(n, ip) => ip \in IP
  BY <1>3 DEF InRange, Pool
<1> QED BY <1>4, <1>5, <1>6

\* An address that is free for a service without one is nobody's: the heart of
\* the matter.
LEMMA FreeIsNobodys ==
    ASSUME IInv, Awaiting = {}, NEW svc \in Services, allocated[svc] = Nil,
           NEW n \in PoolNames, NEW ip \in IP, InRange(n, ip), Free(svc, n, ip)
    PROVE  /\ \A t \in Services : allocated[t] # Nil => allocated[t].ip # ip
           /\ \A p \in Objects, l \in Kinds : Present(p) => Used(p, l) # ip
<1>1. ASSUME NEW t \in Services, Taken(t, n, ip) PROVE FALSE
  <2>1. pools[n].key[ip] # Nil /\ t \in pools[n].svcs[ip] /\ allocated[t] # Nil
    BY <1>1 DEF Taken, Holds
  <2> QED BY <2>1 DEF Free
<1>2. ASSUME NEW t \in Services, allocated[t] # Nil, allocated[t].ip = ip PROVE FALSE
  <2>1. Holds(t, n, ip)
    BY <1>2, OneRange DEF IInv
  <2> QED BY <1>1, <2>1 DEF IInv, Core, HeldIsTaken
<1>3. ASSUME NEW p \in Objects, NEW l \in Kinds, Present(p), Used(p, l) = ip PROVE FALSE
  <2>1. \E t \in NamesOf(p, l) : Taken(t, n, ip)
    BY <1>3 DEF IInv, Core, UsedIsTaken
  <2> QED BY <1>1, <2>1, NamesAreServices
<1> QED BY <1>2, <1>3

-----------------------------------------------------------------------------
\* Kinds of steps, and why each of them keeps Core.

\* Nothing is given or returned, and no object has more addresses than before.
LEMMA KeepStep ==
    ASSUME IInv, UNCHANGED Allocator,
           \A o \in Objects : Present(o)' => Present(o) /\ spec'[o] = spec[o],
           \A c \in Awaiting : c \in Awaiting'
    PROVE  Core'
<1>1. \A o \in Objects, k \in Kinds : Present(o)' => Present(o) /\ Used(o, k)' = Used(o, k)
  BY DEF Used
<1>2. /\ \A svc, n, ip : Holds(svc, n, ip)' <=> Holds(svc, n, ip)
      /\ \A n, ip : InRange(n, ip)' <=> InRange(n, ip)
      /\ \A svc, n, ip : Taken(svc, n, ip)' <=> Taken(svc, n, ip)
      /\ allocated' = allocated
  BY DEF Allocator, Holds, InRange, Taken
<1>3. Alone'
  BY <1>2 DEF IInv, Core, Alone
<1>4. Distinct'
  BY <1>1 DEF IInv, Core, Distinct
<1>5. HoldersOwn'
  BY <1>1, <1>2 DEF IInv, Core, HoldersOwn
<1>6. HeldIsTaken'
  BY <1>2 DEF IInv, Core, HeldIsTaken
<1>7. UsedIsTaken'
  <2> SUFFICES ASSUME NEW o \in Objects, NEW k \in Kinds, NEW n \in PoolNames,
                      Present(o)', InRange(n, Used(o, k))'
               PROVE  \/ \E svc \in NamesOf(o, k) : Taken(svc, n, Used(o, k))'
                      \/ <<WarmOf(o, k), Used(o, k)'>> \in Awaiting'
    BY DEF UsedIsTaken
  <2>1. Present(o) /\ Used(o, k)' = Used(o, k) /\ InRange(n, Used(o, k))
    BY <1>1, <1>2
  <2>2. \/ \E svc \in NamesOf(o, k) : Taken(svc, n, Used(o, k))
        \/ <<WarmOf(o, k), Used(o, k)>> \in Awaiting
    BY <2>1 DEF IInv, Core, UsedIsTaken
  <2> QED BY <1>2, <2>1, <2>2
<1> QED BY <1>3, <1>4, <1>5, <1>6, <1>7 DEF Core

\* Object o is given ip, which is nobody else's.
LEMMA TakesStep ==
    ASSUME IInv, Awaiting = {}, NEW o \in world.objects, NEW k \in Kinds, NEW ip \in IP,
           \A p \in Objects, l \in Kinds : Present(p)' =>
               \/ p = o /\ l = k /\ Used(p, l)' = ip
               \/ Present(p) /\ ~(p = o /\ l = k) /\ Used(p, l)' = Used(p, l)
               \/ Used(p, l)' = Nil,
           \A p \in Objects, l \in Kinds : Present(p) /\ ~(p = o /\ l = k) => Used(p, l) # ip,
           \A t \in Services : allocated'[t] # Nil /\ allocated'[t].ip = ip => t \in NamesOf(o, k),
           \A n \in PoolNames : InRange(n, ip)' => Taken(GrantOf(o, k), n, ip)',
           \/ UNCHANGED Allocator
           \/ /\ allocated[GrantOf(o, k)] = Nil
              /\ \A t \in Services : allocated[t] # Nil => allocated[t].ip # ip
              /\ \E n \in PoolNames : Gains(GrantOf(o, k), n, ip)
    PROVE  Core'
<1> DEFINE svc == GrantOf(o, k)
<1>0. o \in Objects /\ svc \in Services /\ svc \in NamesOf(o, k) /\ WorldStays /\ TypeOK /\ Nil # ip
  BY NamesAreServices DEF IInv, WorldStays
<1>1. \A t \in Services \ {svc} : allocated'[t] = allocated[t]
  BY DEF Allocator, Gains
<1>2. \A n \in PoolNames : \A i : InRange(n, i)' <=> InRange(n, i)
  BY DEF Allocator, Gains, RangesStay, InRange
<1>3. ASSUME NEW t \in Services, NEW n \in PoolNames, NEW i \in IP, Taken(t, n, i)
      PROVE  Taken(t, n, i)'
  <2>1. CASE UNCHANGED Allocator
    BY <1>3, <2>1 DEF Allocator, Taken, Holds
  <2>2. CASE allocated[svc] = Nil /\ \E m \in PoolNames : Gains(svc, m, ip)
    <3>1. t # svc /\ ~Holds(svc, n, i)
      BY <1>3, <2>2 DEF Taken, Holds
    <3> QED BY <1>3, <2>2, <3>1 DEF Gains
  <2> QED BY <2>1, <2>2
<1>4. \/ allocated'[svc] = allocated[svc]
      \/ allocated'[svc] # Nil /\ allocated'[svc].ip = ip /\ \A t \in Services : allocated[t] # Nil => allocated[t].ip # ip
  BY DEF Allocator, Gains, Holds
<1>5. Alone'
  BY <1>0, <1>1, <1>4 DEF IInv, Core, Alone
<1>6. Distinct'
  <2> SUFFICES ASSUME NEW p \in Objects, NEW q \in Objects, NEW l \in Kinds, NEW m \in Kinds,
                      Present(p)', Present(q)', Used(p, l)' = Used(q, m)', Used(p, l)' # Nil
               PROVE  p = q /\ l = m
    BY DEF Distinct
  <2> QED BY DEF IInv, Core, Distinct
<1>7. HoldersOwn'
  <2> SUFFICES ASSUME NEW p \in Objects, NEW l \in Kinds, NEW t \in Services,
                      Present(p)', allocated'[t] # Nil, allocated'[t].ip = Used(p, l)'
               PROVE  t \in NamesOf(p, l)
    BY DEF HoldersOwn, NamesOf, FullName, WarmName, AltName
  <2>1. CASE p = o /\ l = k /\ Used(p, l)' = ip
    BY <2>1
  <2>2. CASE Present(p) /\ ~(p = o /\ l = k) /\ Used(p, l)' = Used(p, l)
    <3>1. allocated'[t] = allocated[t]
      BY <1>1, <1>4, <2>2
    <3> QED BY <2>2, <3>1 DEF IInv, Core, HoldersOwn
  <2>3. CASE Used(p, l)' = Nil
    <3>1. allocated'[t] = allocated[t] \/ allocated'[t].ip = ip
      BY <1>1, <1>4
    <3>2. allocated'[t] # allocated[t]
      BY <1>0, <2>3, AddressesAreIPs
    <3> QED BY <1>0, <2>3, <3>1, <3>2
  <2> QED BY <2>1, <2>2, <2>3
<1>8. HeldIsTaken'
  <2> SUFFICES ASSUME NEW t \in Services, NEW n \in PoolNames, NEW i \in IP,
                      Holds(t, n, i)', InRange(n, i)'
               PROVE  Taken(t, n, i)'
    BY DEF HeldIsTaken
  <2>1. CASE allocated'[t] = allocated[t]
    <3>1. Holds(t, n, i) /\ InRange(n, i)
      BY <1>2, <2>1 DEF Holds
    <3> QED BY <1>3, <3>1 DEF IInv, Core, HeldIsTaken
  <2>2. CASE allocated'[t] # allocated[t]
    <3>1. t = svc /\ i = ip
      BY <1>1, <1>4, <2>2 DEF Holds
    <3> QED BY <3>1
  <2> QED BY <2>1, <2>2
<1>9. UsedIsTaken'
  <2> SUFFICES ASSUME NEW p \in Objects, NEW l \in Kinds, NEW n \in PoolNames,
                      Present(p)', InRange(n, Used(p, l))'
               PROVE  \E t \in NamesOf(p, l) : Taken(t, n, Used(p, l))'
    BY DEF UsedIsTaken
  <2>1. CASE p = o /\ l = k /\ Used(p, l)' = ip
    BY <1>0, <2>1
  <2>2. CASE Present(p) /\ ~(p = o /\ l = k) /\ Used(p, l)' = Used(p, l)
    <3>1. InRange(n, Used(p, l))
      BY <1>2, <2>2
    <3>2. PICK t \in NamesOf(p, l) : Taken(t, n, Used(p, l))
      BY <2>2, <3>1 DEF IInv, Core, UsedIsTaken
    <3>3. Taken(t, n, Used(p, l))'
      <4>1. t \in Services /\ Used(p, l) \in IP
        BY <1>0, <3>1, NamesAreServices, AddressesAreIPs
      <4>2. \A i \in IP : Taken(t, n, i) => Taken(t, n, i)'
        BY <4>1, <1>3
      <4> QED BY <2>2, <3>2, <4>1, <4>2 DEF Taken, Holds
    <3> QED BY <3>3
  <2>3. CASE Used(p, l)' = Nil
    <3>1. InRange(n, Nil)
      BY <1>2, <2>3
    <3> QED BY <1>0, <3>1, AddressesAreIPs
  <2> QED BY <2>1, <2>2, <2>3
<1> QED BY <1>5, <1>6, <1>7, <1>8, <1>9 DEF Core

\* That is what a webhook obtains from the allocator: the address that the name
\* has already, or one that is free.
Obtained(o, k, ip) ==
    /\ allocated'[GrantOf(o, k)] # Nil /\ allocated'[GrantOf(o, k)].ip = ip
    /\ \A p \in Objects, l \in Kinds : Present(p) /\ ~(p = o /\ l = k) => Used(p, l) # ip
    /\ \A t \in Services : allocated'[t] # Nil /\ allocated'[t].ip = ip => t \in NamesOf(o, k)
    /\ \A n \in PoolNames : InRange(n, ip)' => Taken(GrantOf(o, k), n, ip)'
    /\ \/ UNCHANGED Allocator
       \/ /\ allocated[GrantOf(o, k)] = Nil
          /\ \A t \in Services : allocated[t] # Nil => allocated[t].ip # ip
          /\ \E n \in PoolNames : InRange(n, ip) /\ Gains(GrantOf(o, k), n, ip)

LEMMA ObtainGives ==
    ASSUME IInv, Awaiting = {}, NEW o \in world.objects, NEW k \in Kinds, Obtain(GrantOf(o, k), PoolOf(k))
    PROVE  CallsInv' /\ \E ip \in IP : Obtained(o, k, ip)
<1> DEFINE svc == GrantOf(o, k)
<1>0. /\ o \in Objects /\ svc \in Services /\ svc \in NamesOf(o, k) /\ PoolOf(k) \in PoolNames
      /\ WorldStays /\ RangesKept /\ TypeOK /\ CallsInv
  BY NamesAreServices, PoolOfType DEF IInv, WorldStays
<1>1. CASE allocated[svc] # Nil /\ UNCHANGED Allocator
  <2>0. PICK ip \in IP : ip = allocated[svc].ip
    BY <1>0, <1>1, AddressesAreIPs
  <2>1. CallsInv'
    BY <1>0, <1>1 DEF Allocator, CallsInv, AllocatorOK, NoGhostUsers, Holders, Users, KeyMeansUser
  <2>2. ASSUME NEW p \in Objects, NEW l \in Kinds, Present(p), ~(p = o /\ l = k) PROVE Used(p, l) # ip
    <3>1. SUFFICES ASSUME Used(p, l) = ip PROVE FALSE
      OBVIOUS
    <3>2. svc \in NamesOf(p, l)
      BY <1>0, <1>1, <2>0, <2>2, <3>1 DEF IInv, Core, HoldersOwn
    <3>3. p \in world.objects
      BY <1>0, <2>2 DEF WorldStays, Present
    <3> QED BY <1>0, <2>2, <3>2, <3>3, NamesDiffer
  <2>3. ASSUME NEW t \in Services, allocated'[t] # Nil, allocated'[t].ip = ip PROVE t \in NamesOf(o, k)
    <3>1. allocated[t] # Nil /\ allocated[t].ip = ip
      BY <1>1, <2>3 DEF Allocator
    <3>2. t = svc
      BY <1>0, <1>1, <2>0, <3>1 DEF IInv, Core, Alone
    <3> QED BY <1>0, <3>2
  <2>4. ASSUME NEW n \in PoolNames, InRange(n, ip)' PROVE Taken(svc, n, ip)'
    <3>1. InRange(n, ip)
      BY <1>1, <2>4 DEF Allocator, InRange
    <3>2. Holds(svc, n, ip)
      BY <1>0, <1>1, <2>0, <3>1, OneRange
    <3>3. Taken(svc, n, ip)
      BY <1>0, <3>1, <3>2 DEF IInv, Core, HeldIsTaken
    <3> QED BY <1>1, <3>3 DEF Allocator, Taken, Holds
  <2>5. allocated'[svc] # Nil /\ allocated'[svc].ip = ip
    BY <1>1, <2>0 DEF Allocator
  <2>6. Obtained(o, k, ip)
    BY <1>1, <2>2, <2>3, <2>4, <2>5 DEF Obtained
  <2> QED BY <2>1, <2>6
<1>2. CASE AllocateFromPool(svc, PoolOf(k), {}, Unshared)
  <2> DEFINE n == PoolOf(k)
  <2>1. allocated[svc] = Nil
    BY <1>0, <1>2, AllocateGains
  <2>2. PICK ip \in IP : InRange(n, ip) /\ Free(svc, n, ip) /\ CallsInv' /\ Gains(svc, n, ip)
    BY <1>0, <1>2, AllocateGains
  <2>3. /\ \A t \in Services : allocated[t] # Nil => allocated[t].ip # ip
        /\ \A p \in Objects, l \in Kinds : Present(p) => Used(p, l) # ip
    BY <1>0, <2>1, <2>2, FreeIsNobodys
  <2>4. allocated'[svc] # Nil /\ allocated'[svc].ip = ip /\ Taken(svc, n, ip)'
    BY <2>2 DEF Gains, Holds
  <2>5. ASSUME NEW t \in Services, allocated'[t] # Nil, allocated'[t].ip = ip PROVE t \in NamesOf(o, k)
    <3>1. t = svc
      BY <2>2, <2>3, <2>5 DEF Gains
    <3> QED BY <1>0, <3>1
  <2>6. ASSUME NEW m \in PoolNames, InRange(m, ip)' PROVE Taken(svc, m, ip)'
    <3>1. InRange(m, ip)
      BY <2>2, <2>6 DEF Gains, RangesStay, InRange
    <3>2. m = n
      BY <1>0, <2>2, <3>1, OneRange
    <3> QED BY <2>4, <3>2
  <2>7. Obtained(o, k, ip)
    BY <1>0, <2>1, <2>2, <2>3, <2>4, <2>5, <2>6 DEF Obtained
  <2> QED BY <2>2, <2>7
<1> QED BY <1>1, <1>2 DEF Obtain

\* An address that the creator asks for: the allocator has nothing to do with it.
LEMMA RequestedIsNobodys ==
    ASSUME IInv, NEW o \in world.objects, NEW ip \in Requested[o] \ {Nil}, phase[o] = "absent"
    PROVE  /\ ip \in IP
           /\ \A p \in Objects, l \in Kinds : Present(p) => Used(p, l) # ip
           /\ \A t \in Services : allocated[t] # Nil => allocated[t].ip # ip
           /\ \A n \in PoolNames : ~InRange(n, ip)
<1>0. WorldStays /\ RangesKept /\ o \in Objects
  BY DEF IInv, WorldStays
<1>1. ip \in IP
  BY <1>0
<1>2. \A k \in Kinds : ip \notin RangeOf(k)
  BY <1>0, RangesDiffer
<1>3. ip \notin MainsOf(world) \cup AltsOf(world)
  BY <1>2 DEF RangeOf, Kinds
<1>4. ASSUME NEW p \in Objects, NEW l \in Kinds, Present(p), Used(p, l) = ip PROVE FALSE
  <2>1. ip \in Requested[p]
    BY <1>0, <1>3, <1>4 DEF RangesKept
  <2>2. p \in world.objects /\ p # o
    BY <1>0, <1>4 DEF WorldStays, Present
  <2>3. Requested[o] \cap Requested[p] \subseteq {Nil}
    BY <1>0, <2>2 DEF WorldStays, GoodWorld
  <2> QED BY <2>1, <2>3
<1> QED BY <1>0, <1>1, <1>2, <1>4 DEF RangesKept, InRange

\* An object that goes returns its address, and nobody else's.
LEMMA LosesStep ==
    ASSUME IInv, Awaiting = {}, NEW o \in world.objects, Loses(FullName(o)), spec' = spec,
           \A p \in Objects : Present(p)' => Present(p) /\ p # o
    PROVE  Core'
<1> DEFINE svc == FullName(o)
<1>0. o \in Objects /\ svc \in Services /\ WorldStays /\ svc \in NamesOf(o, "public") /\ "public" \in Kinds
  BY NamesAreServices DEF IInv, WorldStays, NamesOf, Kinds
<1>1. allocated'[svc] = Nil /\ \A t \in Services \ {svc} : allocated'[t] = allocated[t]
  BY DEF Loses
<1>2. \A n \in PoolNames : \A i : InRange(n, i)' <=> InRange(n, i)
  BY DEF Loses, RangesStay, InRange
<1>3. \A p \in Objects, l \in Kinds : Used(p, l)' = Used(p, l)
  BY DEF Used
<1>4. ASSUME NEW t \in Services \ {svc}, NEW n \in PoolNames, NEW i \in IP, Taken(t, n, i)
      PROVE  Taken(t, n, i)'
  <2>1. ~Holds(svc, n, i)
    BY <1>0, <1>4 DEF IInv, Core, Alone, Taken, Holds
  <2> QED BY <1>4, <2>1 DEF Loses
<1>5. Alone'
  BY <1>1 DEF IInv, Core, Alone
<1>6. Distinct'
  BY <1>3 DEF IInv, Core, Distinct
<1>7. HoldersOwn'
  <2> SUFFICES ASSUME NEW p \in Objects, NEW l \in Kinds, NEW t \in Services,
                      Present(p)', allocated'[t] # Nil, allocated'[t].ip = Used(p, l)'
               PROVE  t \in NamesOf(p, l)
    BY DEF HoldersOwn, NamesOf, FullName, WarmName, AltName
  <2>1. Present(p) /\ allocated'[t] = allocated[t] /\ Used(p, l)' = Used(p, l)
    BY <1>1, <1>3
  <2> QED BY <2>1 DEF IInv, Core, HoldersOwn
<1>8. HeldIsTaken'
  <2> SUFFICES ASSUME NEW t \in Services, NEW n \in PoolNames, NEW i \in IP, Holds(t, n, i)', InRange(n, i)'
               PROVE  Taken(t, n, i)'
    BY DEF HeldIsTaken
  <2>1. t # svc /\ Holds(t, n, i) /\ InRange(n, i)
    BY <1>1, <1>2 DEF Holds
  <2>2. Taken(t, n, i)
    BY <2>1 DEF IInv, Core, HeldIsTaken
  <2> QED BY <1>4, <2>1, <2>2
<1>9. UsedIsTaken'
  <2> SUFFICES ASSUME NEW p \in Objects, NEW l \in Kinds, NEW n \in PoolNames, Present(p)', InRange(n, Used(p, l))'
               PROVE  \E t \in NamesOf(p, l) : Taken(t, n, Used(p, l))'
    BY DEF UsedIsTaken
  <2>1. Present(p) /\ p # o /\ InRange(n, Used(p, l)) /\ p \in world.objects
    BY <1>0, <1>2, <1>3 DEF WorldStays, Present
  <2>2. PICK t \in NamesOf(p, l) : Taken(t, n, Used(p, l))
    BY <2>1 DEF IInv, Core, UsedIsTaken
  <2>3. t # svc
    BY <1>0, <2>1, NamesDiffer
  <2>4. t \in Services /\ Used(p, l) \in IP
    BY <2>1, NamesAreServices, AddressesAreIPs DEF IInv
  <2>5. \A i \in IP : Taken(t, n, i) => Taken(t, n, i)'
    BY <1>4, <2>3, <2>4
  <2> QED BY <1>3, <2>2, <2>4, <2>5 DEF Taken, Holds
<1> QED BY <1>5, <1>6, <1>7, <1>8, <1>9 DEF Core

\* What is listed is used by an object that has not lost it.
LEMMA ListedIsUsed ==
    ASSUME IInv, NEW t \in todo
    PROVE  \E p \in world.objects, l \in Kinds :
              /\ Exists(p) /\ Present(p) /\ Used(p, l) # Nil /\ Used(p, l) \in IP
              /\ t = <<WarmOf(p, l), Used(p, l)>>
<1>1. t \in LBClaims \cup ProxyClaims /\ step # "idle"
  BY DEF IInv, TodoMakesSense
<1>2. PICK p \in Objects, l \in Kinds :
         Exists(p) /\ t = <<WarmOf(p, l), Used(p, l)>> /\ Used(p, l) # Nil
  BY <1>1, ClaimsAreUsed DEF IInv
<1>3. p \in world.objects /\ Present(p)
  BY <1>1, <1>2 DEF IInv, WorldStays, PhasesMakeSense, Exists, Present
<1>4. Used(p, l) \in IP
  BY <1>2, AddressesAreIPs DEF IInv
<1> QED BY <1>2, <1>3, <1>4

\* Whoever has an address that is free for another awaits it.
LEMMA FreeIsOwn ==
    ASSUME IInv, NEW p \in world.objects, NEW l \in Kinds, Present(p), NEW n \in PoolNames,
           InRange(n, Used(p, l)), Free(WarmOf(p, l), n, Used(p, l)),
           NEW s \in Services, allocated[s] # Nil, allocated[s].ip = Used(p, l)
    PROVE  s = WarmOf(p, l)
<1> DEFINE ip == Used(p, l)
<1>0. p \in Objects /\ WorldStays /\ RangesKept /\ PhasesMakeSense /\ TodoMakesSense /\ ip \in IP
  BY AddressesAreIPs DEF IInv, WorldStays
<1>1. s \in NamesOf(p, l)
  BY <1>0 DEF IInv, Core, HoldersOwn
<1>2. Holds(s, n, ip)
  BY <1>0, OneRange
<1>3. Taken(s, n, ip) \/ <<s, ip>> \in Awaiting
  BY <1>0, <1>2 DEF IInv, Core, HeldIsTaken
<1>4. Taken(s, n, ip) => s = WarmOf(p, l)
  BY DEF Taken, Free
<1> QED BY <1>0, <1>1, <1>3, <1>4, AwaitingName

\* A listed address is assigned: to the object that uses it.
LEMMA AssignStep ==
    ASSUME IInv, NEW p \in world.objects, NEW l \in Kinds, Present(p), NEW ip \in IP, ip = Used(p, l),
           Assign(WarmOf(p, l), ip, {}, Unshared), phase' = phase, spec' = spec,
           \A c \in Awaiting : c # <<WarmOf(p, l), ip>> => c \in Awaiting'
    PROVE  /\ CallsInv' /\ Core'
           /\ \E n \in PoolNames : /\ InRange(n, ip) /\ Free(WarmOf(p, l), n, ip)
                                   /\ Gains(WarmOf(p, l), n, ip)
<1> DEFINE svc == WarmOf(p, l)
<1>0. p \in Objects /\ svc \in Services /\ svc \in NamesOf(p, l) /\ WorldStays /\ RangesKept
  BY NamesAreServices DEF IInv, WorldStays
<1>1. CallsInv' /\ \E n \in PoolNames : InRange(n, ip) /\ Free(svc, n, ip) /\ Gains(svc, n, ip)
  BY <1>0, AssignGains DEF IInv
<1>2. PICK n \in PoolNames : InRange(n, ip) /\ Free(svc, n, ip) /\ Gains(svc, n, ip)
  BY <1>1
<1>3. \A s \in Services : allocated[s] # Nil /\ allocated[s].ip = ip => s = svc
  BY <1>2, FreeIsOwn
<1>4. /\ allocated'[svc] # Nil /\ allocated'[svc].ip = ip /\ Taken(svc, n, ip)'
      /\ \A t \in Services \ {svc} : allocated'[t] = allocated[t]
  BY <1>2 DEF Gains, Holds
<1>5. \A m \in PoolNames : \A i : InRange(m, i)' <=> InRange(m, i)
  BY <1>2 DEF Gains, RangesStay, InRange
<1>6. ASSUME NEW t \in Services \ {svc}, NEW m \in PoolNames, NEW i \in IP, Taken(t, m, i)
      PROVE  Taken(t, m, i)'
  <2>1. ~Holds(svc, m, i)
    BY <1>0, <1>6 DEF IInv, Core, Alone, Taken, Holds
  <2> QED BY <1>2, <1>6, <2>1 DEF Gains
<1>7. /\ \A q \in Objects, k \in Kinds : Used(q, k)' = Used(q, k)
      /\ \A q \in Objects : Present(q)' <=> Present(q)
  BY DEF Used, Present
<1>8. Alone'
  BY <1>0, <1>3, <1>4 DEF IInv, Core, Alone
<1>9. Distinct'
  BY <1>7 DEF IInv, Core, Distinct
<1>10. HoldersOwn'
  <2> SUFFICES ASSUME NEW q \in Objects, NEW k \in Kinds, NEW t \in Services,
                      Present(q), allocated'[t] # Nil, allocated'[t].ip = Used(q, k)
               PROVE  t \in NamesOf(q, k)
    BY <1>7 DEF HoldersOwn, NamesOf, FullName, WarmName, AltName
  <2>1. CASE t = svc
    <3>1. Used(q, k) = ip /\ ip # Nil
      BY <1>4, <2>1
    <3>2. q = p /\ k = l
      BY <1>0, <3>1 DEF IInv, Core, Distinct
    <3> QED BY <1>0, <2>1, <3>2
  <2>2. CASE t # svc
    BY <1>4, <2>2 DEF IInv, Core, HoldersOwn
  <2> QED BY <2>1, <2>2
<1>11. HeldIsTaken'
  <2> SUFFICES ASSUME NEW t \in Services, NEW m \in PoolNames, NEW i \in IP, Holds(t, m, i)', InRange(m, i)'
               PROVE  Taken(t, m, i)' \/ <<t, i>> \in Awaiting'
    BY DEF HeldIsTaken
  <2>1. CASE t = svc
    <3>1. i = ip /\ m = n
      BY <1>2, <2>1 DEF Gains, Holds
    <3> QED BY <1>4, <2>1, <3>1
  <2>2. CASE t # svc
    <3>1. Holds(t, m, i) /\ InRange(m, i)
      BY <1>4, <1>5, <2>2 DEF Holds
    <3>2. Taken(t, m, i) \/ <<t, i>> \in Awaiting
      BY <3>1 DEF IInv, Core, HeldIsTaken
    <3>3. <<t, i>> # <<svc, ip>>
      BY <2>2
    <3> QED BY <1>6, <2>2, <3>2, <3>3
  <2> QED BY <2>1, <2>2
<1>12. UsedIsTaken'
  <2> SUFFICES ASSUME NEW q \in Objects, NEW k \in Kinds, NEW m \in PoolNames, Present(q), InRange(m, Used(q, k))
               PROVE  \/ \E t \in NamesOf(q, k) : Taken(t, m, Used(q, k))'
                      \/ <<WarmOf(q, k), Used(q, k)>> \in Awaiting'
    <3>1. \A q \in Objects, k \in Kinds, m \in PoolNames : InRange(m, Used(q, k))' => InRange(m, Used(q, k))
      BY <1>5, <1>7
    <3> QED BY <1>7, <3>1 DEF UsedIsTaken
  <2>1. CASE q = p /\ k = l
    <3>1. m = n
      BY <1>0, <1>2, <2>1, OneRange
    <3>2. Used(q, k)' = ip /\ Taken(svc, m, ip)'
      BY <1>4, <1>7, <2>1, <3>1
    <3>3. Taken(svc, m, Used(q, k))'
      BY <3>2 DEF Taken, Holds
    <3> QED BY <1>0, <2>1, <3>3
  <2>2. CASE ~(q = p /\ k = l)
    <3>0. q \in world.objects
      BY <1>0 DEF WorldStays, Present
    <3>1. svc \notin NamesOf(q, k)
      BY <1>0, <2>2, <3>0, NamesDiffer
    <3>2. CASE \E t \in NamesOf(q, k) : Taken(t, m, Used(q, k))
      <4>1. PICK t \in NamesOf(q, k) : Taken(t, m, Used(q, k))
        BY <3>2
      <4>2. t \in Services \ {svc} /\ Used(q, k) \in IP
        BY <3>1, NamesAreServices, AddressesAreIPs DEF IInv
      <4>3. \A i \in IP : Taken(t, m, i) => Taken(t, m, i)'
        BY <1>6, <4>2
      <4>4. Taken(t, m, Used(q, k))'
        BY <1>7, <4>1, <4>2, <4>3 DEF Taken, Holds
      <4> QED BY <4>4
    <3>3. CASE <<WarmOf(q, k), Used(q, k)>> \in Awaiting
      <4>1. <<WarmOf(q, k), Used(q, k)>> # <<svc, ip>>
        BY <3>1, NamesAreServices
      <4> QED BY <3>3, <4>1
    <3> QED BY <3>2, <3>3 DEF IInv, Core, UsedIsTaken
  <2> QED BY <2>1, <2>2
<1> QED BY <1>1, <1>8, <1>9, <1>10, <1>11, <1>12 DEF Core

\* The pool refuses a listed address: the object has it by its other name.
LEMMA RefuseStep ==
    ASSUME IInv, NEW p \in world.objects, NEW l \in Kinds, Present(p), NEW ip \in IP, ip = Used(p, l),
           UNCHANGED Allocator, phase' = phase, spec' = spec,
           \A n \in PoolNames : InRange(n, ip) => ~Free(WarmOf(p, l), n, ip),
           \A c \in Awaiting : c # <<WarmOf(p, l), ip>> => c \in Awaiting'
    PROVE  Core'
<1> DEFINE svc == WarmOf(p, l)
<1>0. p \in Objects /\ svc \in Services /\ svc \in NamesOf(p, l) /\ WorldStays /\ CallsInv
  BY NamesAreServices DEF IInv, WorldStays
<1>1. /\ \A t, n, i : Holds(t, n, i)' <=> Holds(t, n, i)
      /\ \A n, i : InRange(n, i)' <=> InRange(n, i)
      /\ \A t, n, i : Taken(t, n, i)' <=> Taken(t, n, i)
      /\ allocated' = allocated
  BY DEF Allocator, Holds, InRange, Taken
<1>2. /\ \A q \in Objects, k \in Kinds : Used(q, k)' = Used(q, k)
      /\ \A q \in Objects : Present(q)' <=> Present(q)
  BY DEF Used, Present
<1>3. ASSUME NEW n \in PoolNames, InRange(n, ip)
      PROVE  \E s \in Services : s # svc /\ s \in NamesOf(p, l) /\ Taken(s, n, ip)
  <2>1. PICK s : s \in pools[n].svcs[ip] /\ s # svc
    BY <1>3 DEF Free
  <2>2. pools[n] # Nil /\ pools[n].key[ip] # Nil
    BY <1>3 DEF Free, InRange
  <2>3. s \in Services /\ Holds(s, n, ip)
    BY <1>0, <2>1, <2>2 DEF CallsInv, NoGhostUsers, Holders, Users, Holds
  <2>4. Taken(s, n, ip)
    BY <2>1, <2>2, <2>3 DEF Taken
  <2>5. s \in NamesOf(p, l)
    BY <1>0, <2>3 DEF IInv, Core, HoldersOwn, Holds
  <2> QED BY <2>1, <2>3, <2>4, <2>5
<1>4. Alone' /\ Distinct'
  BY <1>1, <1>2 DEF IInv, Core, Alone, Distinct
<1>5. HoldersOwn'
  BY <1>1, <1>2 DEF IInv, Core, HoldersOwn
<1>6. HeldIsTaken'
  <2> SUFFICES ASSUME NEW t \in Services, NEW n \in PoolNames, NEW i \in IP, Holds(t, n, i), InRange(n, i)
               PROVE  Taken(t, n, i) \/ <<t, i>> \in Awaiting'
    BY <1>1 DEF HeldIsTaken
  <2>1. Taken(t, n, i) \/ <<t, i>> \in Awaiting
    BY DEF IInv, Core, HeldIsTaken
  <2>2. CASE t = svc /\ i = ip
    <3>1. PICK s \in Services : s # svc /\ Taken(s, n, ip)
      BY <1>3, <2>2
    <3> QED BY <1>0, <2>2, <3>1 DEF IInv, Core, Alone, Taken, Holds
  <2> QED BY <2>1, <2>2
<1>7. UsedIsTaken'
  <2> SUFFICES ASSUME NEW q \in Objects, NEW k \in Kinds, NEW n \in PoolNames, Present(q), InRange(n, Used(q, k))
               PROVE  \/ \E t \in NamesOf(q, k) : Taken(t, n, Used(q, k))
                      \/ <<WarmOf(q, k), Used(q, k)>> \in Awaiting'
    <3>1. \A q \in Objects, k \in Kinds, n \in PoolNames : InRange(n, Used(q, k))' => InRange(n, Used(q, k))
      BY <1>1, <1>2
    <3>2. \A q \in Objects, k \in Kinds : \A n, t : Taken(t, n, Used(q, k)) => Taken(t, n, Used(q, k))'
      BY <1>1, <1>2
    <3> QED BY <1>2, <3>1, <3>2 DEF UsedIsTaken
  <2>1. CASE q = p /\ k = l
    BY <1>3, <2>1
  <2>2. CASE ~(q = p /\ k = l)
    <3>1. q \in world.objects
      BY <1>0 DEF WorldStays, Present
    <3>2. <<WarmOf(q, k), Used(q, k)>> # <<svc, ip>>
      BY <1>0, <2>2, <3>1, NamesDiffer, NamesAreServices
    <3> QED BY <3>2 DEF IInv, Core, UsedIsTaken
  <2> QED BY <2>1, <2>2
<1> QED BY <1>4, <1>5, <1>6, <1>7 DEF Core

\* The prefix's pools are new, and all that is given or used is to be listed.
LEMMA AddPrefixRanges ==
    ASSUME IInv, NEW s \in world.specs, AddPrefix(Prefix, s)
    PROVE  \A n \in PoolNames : pools'[n] # Nil =>
               \E k \in Kinds : n = PoolOf(k) /\ pools'[n].addrs \subseteq RangeOf(k)
<1> SUFFICES ASSUME NEW n \in PoolNames, pools'[n] # Nil
             PROVE  \E k \in Kinds : n = PoolOf(k) /\ pools'[n].addrs \subseteq RangeOf(k)
  OBVIOUS
<1>1. CASE n = Main(Prefix)
  <2>1. pools'[n].addrs = s.main /\ s.main # Malformed
    BY <1>1 DEF AddPrefix, NewLocalPool
  <2>2. pools'[n].addrs \subseteq RangeOf("public")
    BY <2>1 DEF RangeOf, MainsOf
  <2> QED BY <1>1, <2>2 DEF Kinds, PoolOf
<1>2. CASE n = Alt(Prefix) /\ n # Main(Prefix) /\ s.alt \notin {Malformed, Nil}
  <2>1. pools'[n].addrs = s.alt
    BY <1>2 DEF AddPrefix, NewLocalPool
  <2>2. pools'[n].addrs \subseteq RangeOf("alt")
    BY <1>2, <2>1 DEF RangeOf, AltsOf
  <2> QED BY <1>2, <2>2 DEF Kinds, PoolOf
<1>3. CASE pools'[n] = pools[n]
  BY <1>3 DEF IInv, RangesKept
<1> QED BY <1>1, <1>2, <1>3 DEF AddPrefix

LEMMA StartStep ==
    ASSUME IInv, StartReconcile, world' = world
    PROVE  Core'
<1>0. /\ WorldStays /\ PhasesMakeSense /\ phase' = phase /\ spec' = spec /\ step' = "list lbs"
      /\ step = "pending" \/ (step = "idle" /\ Happens("resync"))
  BY DEF IInv, StartReconcile
<1>1. PICK s \in world.specs : AddPrefix(Prefix, s)
  BY DEF StartReconcile
<1>2. allocated' = allocated
  BY <1>1 DEF AddPrefix
<1>3. /\ \A q \in Objects, k \in Kinds : Used(q, k)' = Used(q, k)
      /\ \A q \in Objects : Present(q)' <=> Present(q)
  BY <1>0 DEF Used, Present
<1>4. Alone' /\ Distinct'
  BY <1>2, <1>3 DEF IInv, Core, Alone, Distinct
<1>5. HoldersOwn'
  BY <1>2, <1>3 DEF IInv, Core, HoldersOwn
<1>6. CASE Steady
  <2>1. step = "pending"
    BY <1>0, <1>6 DEF Steady
  <2>2. HeldIsTaken'
    BY <1>2, <2>1 DEF IInv, PendingIsEmpty, HeldIsTaken, Holds
  <2>3. \A q \in Objects, k \in Kinds, n \in PoolNames : ~InRange(n, Used(q, k))'
    <3> SUFFICES ASSUME NEW q \in Objects, NEW k \in Kinds, NEW n \in PoolNames, InRange(n, Used(q, k))'
                 PROVE  FALSE
      OBVIOUS
    <3>1. PICK l \in Kinds : pools'[n].addrs \subseteq RangeOf(l)
      BY <1>1, AddPrefixRanges DEF InRange
    <3>2. Used(q, k) \in RangeOf(l)
      BY <1>3, <3>1 DEF InRange
    <3> QED BY <1>6, <2>1, <3>2 DEF IInv, PendingIsEmpty
  <2>4. UsedIsTaken'
    BY <2>3 DEF UsedIsTaken
  <2> QED BY <1>4, <1>5, <2>2, <2>4 DEF Core
<1>7. CASE ~Steady
  <2>1. Awaiting' = LBClaims \cup ProxyClaims
    BY <1>0, <1>7 DEF Awaiting, Steady, Happens, LBClaims, ProxyClaims, Existing, Exists
  <2>2. \A q \in Objects : Present(q) => Exists(q)
    <3>1. ~Happens("admission")
      BY <1>0, <1>7 DEF Steady, Happens, WorldStays, GoodWorld
    <3>2. \A q \in Objects : phase[q] \notin {"defaulting", "defaulted"}
      BY <3>1 DEF StartReconcile
    <3>3. \A q \in Objects : phase[q] \in {"absent", "defaulting", "defaulted", "live", "deleting", "freed"}
      BY DEF IInv, TypeOK
    <3> QED BY <3>2, <3>3 DEF Present, Exists
  <2>3. HeldIsTaken'
    <3> SUFFICES ASSUME NEW t \in Services, NEW n \in PoolNames, NEW i \in IP, Holds(t, n, i)
                 PROVE  <<t, i>> \in LBClaims \cup ProxyClaims
      BY <1>2, <2>1 DEF HeldIsTaken, Holds
    <3>1. step = "idle" /\ Happens("resync") /\ allocated[t] # Nil /\ allocated[t].ip = i
      BY <1>0 DEF Holds, IInv, PendingIsEmpty
    <3>2. Orderly /\ \A o \in world.objects : o.kind = "proxy"
      BY <1>0, <3>1 DEF Orderly, WorldStays, GoodWorld, Happens
    <3>3. PICK o \in world.objects : t = FullName(o) /\ Present(o) /\ i = spec[o].public
      BY <3>1, <3>2 DEF IInv, HeldIsUsed
    <3>4. o \in Objects /\ Exists(o) /\ t = WarmOf(o, "public") /\ i = Used(o, "public") /\ i # Nil
      BY <1>0, <2>2, <3>2, <3>3 DEF WorldStays, WarmOf, WarmName, Used
    <3> QED BY <1>0, <3>4, UsedAreClaims DEF Kinds
  <2>4. UsedIsTaken'
    <3> SUFFICES ASSUME NEW q \in Objects, NEW k \in Kinds, NEW n \in PoolNames, Present(q), InRange(n, Used(q, k))'
                 PROVE  <<WarmOf(q, k), Used(q, k)>> \in LBClaims \cup ProxyClaims
      BY <1>3, <2>1 DEF UsedIsTaken
    <3>1. Used(q, k) # Nil
      <4>1. PICK l \in Kinds : pools'[n].addrs \subseteq RangeOf(l)
        BY <1>1, AddPrefixRanges DEF InRange
      <4>2. Used(q, k) \in RangeOf(l)
        BY <1>3, <4>1 DEF InRange
      <4> QED BY <1>0, <4>2, NilOutOfRange
    <3> QED BY <1>0, <2>2, <3>1, UsedAreClaims
  <2> QED BY <1>4, <1>5, <2>3, <2>4 DEF Core
<1> QED BY <1>6, <1>7

\* The allocator has forgotten everything, and so have those in admission.
LEMMA RestartStep ==
    ASSUME IInv, Restart, world' = world
    PROVE  Core'
<1>1. /\ \A n \in PoolNames : pools'[n] = Nil
      /\ \A svc \in Services : allocated'[svc] = Nil
  BY DEF Restart
<1>2. ~Happens("crash") /\ \A o \in Objects : phase[o] # "freed"
  BY DEF IInv, WorldStays, GoodWorld, Happens, Restart
<1>3. ASSUME NEW o \in Objects, Present(o)' PROVE Present(o) /\ spec'[o] = spec[o]
  <2>1. Exists(o)
    BY <1>2, <1>3 DEF Restart, Present, Exists
  <2> QED BY <1>2, <2>1 DEF Restart, Present, Exists
<1>4. \A o \in Objects, k \in Kinds : Present(o)' => Present(o) /\ Used(o, k)' = Used(o, k)
  BY <1>3 DEF Used
<1>5. Distinct'
  BY <1>4 DEF IInv, Core, Distinct
<1>6. Alone' /\ HoldersOwn'
  BY <1>1 DEF Alone, HoldersOwn
<1>7. HeldIsTaken' /\ UsedIsTaken'
  BY <1>1 DEF HeldIsTaken, UsedIsTaken, InRange
<1> QED BY <1>5, <1>6, <1>7 DEF Core

-----------------------------------------------------------------------------
\* Each action preserves the invariant.

LEMMA WorldFrame ==
    ASSUME world' = world
    PROVE  /\ \A d : Happens(d)' <=> Happens(d)
           /\ \A k : RangeOf(k)' = RangeOf(k)
           /\ Steady' <=> Steady
           /\ Orderly' <=> Orderly
BY DEF Happens, RangeOf, Steady, Orderly

\* The allocator as it was is still in order.
LEMMA CallsFrame == ASSUME CallsInv, UNCHANGED Allocator PROVE CallsInv'
BY DEF Allocator, CallsInv, AllocatorOK, NoGhostUsers, Holders, Users, KeyMeansUser

\* Who exists still claims the same.
LEMMA ClaimsKept ==
    ASSUME \A p \in Objects : Exists(p) => Exists(p)' /\ spec'[p] = spec[p]
    PROVE  (\A c \in LBClaims : c \in LBClaims') /\ \A c \in ProxyClaims : c \in ProxyClaims'
<1>1. \A kind : \A p \in Existing(kind) : p \in Existing(kind)' /\ spec'[p] = spec[p]
  BY DEF Existing
<1>2. ASSUME NEW c \in LBClaims PROVE c \in LBClaims'
  <2>1. PICK p \in Existing("lb") : c = <<WarmName(p), spec[p].public>>
    BY <1>2 DEF LBClaims
  <2>2. p \in Existing("lb")' /\ c = <<WarmName(p), spec'[p].public>>
    BY <1>1, <2>1
  <2> QED BY <2>2 DEF LBClaims
<1>3. ASSUME NEW c \in ProxyClaims PROVE c \in ProxyClaims'
  <2>1. CASE \E p \in Existing("proxy") : c = <<WarmName(p), spec[p].public>>
    <3>1. PICK p \in Existing("proxy") : c = <<WarmName(p), spec[p].public>>
      BY <2>1
    <3>2. p \in Existing("proxy")' /\ c = <<WarmName(p), spec'[p].public>>
      BY <1>1, <3>1
    <3> QED BY <3>2 DEF ProxyClaims
  <2>2. CASE \E p \in Existing("proxy") : spec[p].alt # Nil /\ c = <<AltName(p), spec[p].alt>>
    <3>1. PICK p \in Existing("proxy") : spec[p].alt # Nil /\ c = <<AltName(p), spec[p].alt>>
      BY <2>2
    <3>2. p \in Existing("proxy")' /\ spec'[p].alt # Nil /\ c = <<AltName(p), spec'[p].alt>>
      BY <1>1, <3>1
    <3> QED BY <3>2 DEF ProxyClaims
  <2> QED BY <1>3, <2>1, <2>2 DEF ProxyClaims
<1> QED BY <1>2, <1>3

\* An object goes on to its next phase, or goes, without the allocator.
LEMMA QuietStep ==
    ASSUME IInv, world' = world, UNCHANGED <<Allocator, step, todo>>, NEW o \in Objects,
           NEW ph \in {"absent", "defaulted", "live", "deleting", "freed"},
           phase' = [phase EXCEPT ![o] = ph], phase[o] # "absent",
           \/ ph # "absent" /\ spec' = spec
           \/ ph = "absent" /\ spec' = [spec EXCEPT ![o] = NoAddress],
           ph = "defaulted" => phase[o] = "defaulting",
           ph = "freed" => step = "idle",
           ph \in {"defaulted", "live", "deleting"} => phase[o] # "freed",
           \/ step = "idle"
           \/ phase[o] \in {"live", "deleting", "freed"} => ph \in {"live", "deleting", "freed"},
           Orderly /\ allocated[FullName(o)] # Nil => ph \notin {"absent", "freed"} \/ phase[o] = "freed"
    PROVE  IInv'
<1>0. /\ TypeOK /\ CallsInv /\ WorldStays /\ PhasesMakeSense /\ TodoMakesSense
      /\ RangesKept /\ PendingIsEmpty /\ HeldIsUsed
      /\ allocated' = allocated /\ pools' = pools /\ step' = step /\ todo' = todo
  BY DEF IInv, Allocator
<1>1. /\ \A p \in Objects : p # o => phase'[p] = phase[p] /\ spec'[p] = spec[p]
      /\ phase'[o] = ph
      /\ spec'[o] = IF ph = "absent" THEN NoAddress ELSE spec[o]
  BY <1>0 DEF TypeOK
<1>2. \A p \in Objects : Present(p)' => Present(p) /\ spec'[p] = spec[p]
  BY <1>1 DEF Present
<1>3. \A p \in Objects, k \in Kinds : Used(p, k)' = Used(p, k) \/ Used(p, k)' = Nil
  BY <1>1 DEF Used, NoAddress
<1>4. \/ step = "idle"
      \/ \A p \in Objects : Exists(p) => Exists(p)' /\ spec'[p] = spec[p]
  BY <1>1 DEF Exists
<1>5. \/ step = "idle"
      \/ (\A c \in LBClaims : c \in LBClaims') /\ \A c \in ProxyClaims : c \in ProxyClaims'
  BY <1>4, ClaimsKept
<1>6. TypeOK'
  <2>1. phase' \in [Objects -> {"absent", "defaulting", "defaulted", "live", "deleting", "freed"}]
    BY <1>0 DEF TypeOK
  <2>2. spec' \in [Objects -> [public : IP \cup {Nil}, alt : IP \cup {Nil}]]
    <3>1. NoAddress \in [public : IP \cup {Nil}, alt : IP \cup {Nil}]
      BY DEF NoAddress
    <3> QED BY <1>0, <3>1 DEF TypeOK
  <2>3. \A p \in Objects : phase'[p] = "absent" <=> spec'[p] = NoAddress
    BY <1>0, <1>1 DEF TypeOK
  <2>4. AllocatorOK'
    BY <1>0 DEF TypeOK, AllocatorOK
  <2> QED BY <1>0, <2>1, <2>2, <2>3, <2>4 DEF TypeOK
<1>7. CallsInv'
  BY <1>0, CallsFrame
<1>8. WorldStays'
  BY <1>0, <1>1 DEF WorldStays
<1>9. PhasesMakeSense'
  BY <1>0, <1>1, WorldFrame DEF PhasesMakeSense, NoAddress
<1>10. TodoMakesSense'
  BY <1>0, <1>5 DEF TodoMakesSense
<1>11. RangesKept'
  <2>1. \A k : RangeOf(k)' = RangeOf(k)
    BY WorldFrame
  <2>2. \A p \in Objects, k \in Kinds :
           Used(p, k)' \in MainsOf(world') \cup AltsOf(world') \cup Requested[p] \cup {Nil}
    BY <1>0, <1>3 DEF RangesKept
  <2> QED BY <1>0, <2>1, <2>2 DEF RangesKept
<1>12. PendingIsEmpty'
  BY <1>0, <1>3, WorldFrame, NilOutOfRange DEF PendingIsEmpty
<1>13. Core'
  <2>1. \A c \in Awaiting : c \in Awaiting'
    BY <1>0, <1>5, WorldFrame DEF Awaiting
  <2> QED BY <1>2, <2>1, KeepStep
<1>14. HeldIsUsed'
  <2> SUFFICES ASSUME Orderly
               PROVE  /\ \A p \in Objects : spec'[p].alt = Nil
                      /\ \A svc \in Services : allocated[svc] # Nil =>
                            \E p \in world.objects : svc = FullName(p) /\ Present(p)' /\ allocated[svc].ip = spec'[p].public
    BY <1>0, WorldFrame DEF HeldIsUsed
  <2>1. \A p \in Objects : spec'[p].alt = Nil
    BY <1>0, <1>1 DEF HeldIsUsed, NoAddress
  <2>2. ASSUME NEW svc \in Services, allocated[svc] # Nil
        PROVE  \E p \in world.objects : svc = FullName(p) /\ Present(p)' /\ allocated[svc].ip = spec'[p].public
    <3>1. PICK p \in world.objects : svc = FullName(p) /\ Present(p) /\ allocated[svc].ip = spec[p].public
      BY <1>0, <2>2 DEF HeldIsUsed
    <3>2. p \in Objects
      BY <1>0 DEF WorldStays
    <3>3. Present(p)' /\ spec'[p] = spec[p]
      BY <1>1, <1>2, <2>2, <3>1, <3>2 DEF Present
    <3> QED BY <3>1, <3>3
  <2> QED BY <2>1, <2>2
<1> QED BY <1>6, <1>7, <1>8, <1>9, <1>10, <1>11, <1>12, <1>13, <1>14 DEF IInv

LEMMA AdmitStep == ASSUME IInv, NEW o \in Objects, Admit(o), world' = world PROVE IInv'
<1>1. UNCHANGED <<Allocator, step, todo>> /\ spec' = spec /\ phase[o] = "defaulted"
      /\ phase' = [phase EXCEPT ![o] = "live"]
  BY DEF Admit
<1> QED BY <1>1, QuietStep

LEMMA RejectStep == ASSUME IInv, NEW o \in Objects, Reject(o), world' = world PROVE IInv'
<1>1. /\ UNCHANGED <<Allocator, step, todo>> /\ phase[o] = "defaulted" /\ Happens("reject")
      /\ phase' = [phase EXCEPT ![o] = "absent"] /\ spec' = [spec EXCEPT ![o] = NoAddress]
  BY DEF Reject
<1>2. ~Orderly
  BY <1>1 DEF Orderly
<1> QED BY <1>1, <1>2, QuietStep

LEMMA DeleteStep == ASSUME IInv, NEW o \in Objects, Delete(o), world' = world PROVE IInv'
<1>1. UNCHANGED <<Allocator, step, todo>> /\ spec' = spec /\ phase[o] = "live"
      /\ phase' = [phase EXCEPT ![o] = "deleting"]
  BY DEF Delete
<1> QED BY <1>1, QuietStep

LEMMA FinalizeStep == ASSUME IInv, NEW o \in Objects, Finalize(o), world' = world PROVE IInv'
<1>1. /\ UNCHANGED <<Allocator, step, todo>> /\ phase[o] = "freed"
      /\ phase' = [phase EXCEPT ![o] = "absent"] /\ spec' = [spec EXCEPT ![o] = NoAddress]
  BY DEF Finalize
<1>2. step = "idle"
  BY <1>1 DEF IInv, PhasesMakeSense
<1> QED BY <1>1, <1>2, QuietStep

LEMMA AbsentHasNone ==
    ASSUME TypeOK, NEW o \in Objects, phase[o] = "absent"
    PROVE  \A l \in Kinds : Used(o, l) = Nil
<1>1. spec[o] = NoAddress
  BY DEF TypeOK
<1>2. spec[o].public = Nil /\ spec[o].alt = Nil
  BY <1>1 DEF NoAddress
<1> QED BY <1>2 DEF Used

\* An object in admission has an address ip of kind k, and others are as before.
Given(o, k, ip, ph) ==
    /\ phase' = [phase EXCEPT ![o] = ph]
    /\ spec' = IF k = "public" THEN [spec EXCEPT ![o].public = ip] ELSE [spec EXCEPT ![o].alt = ip]

LEMMA GivenFacts ==
    ASSUME TypeOK, NEW o \in Objects, NEW k \in Kinds, NEW ip \in IP, NEW ph, Given(o, k, ip, ph)
    PROVE  /\ spec' \in [Objects -> [public : IP \cup {Nil}, alt : IP \cup {Nil}]]
           /\ phase'[o] = ph
           /\ \A p \in Objects : p # o => phase'[p] = phase[p] /\ spec'[p] = spec[p]
           /\ Used(o, k)' = ip
           /\ \A l \in Kinds : l # k => Used(o, l)' = Used(o, l)
<1>1. /\ spec \in [Objects -> [public : IP \cup {Nil}, alt : IP \cup {Nil}]]
      /\ spec[o] \in [public : IP \cup {Nil}, alt : IP \cup {Nil}]
      /\ phase'[o] = ph
      /\ \A p \in Objects : p # o => phase'[p] = phase[p]
  BY DEF TypeOK, Given
<1>2. CASE k = "public"
  <2>1. spec' = [spec EXCEPT ![o].public = ip]
    BY <1>2 DEF Given
  <2>2. spec'[o] = [public |-> ip, alt |-> spec[o].alt] /\ \A p \in Objects : p # o => spec'[p] = spec[p]
    BY <1>1, <2>1
  <2>3. spec' \in [Objects -> [public : IP \cup {Nil}, alt : IP \cup {Nil}]]
    BY <1>1, <2>1
  <2> QED BY <1>1, <1>2, <2>2, <2>3 DEF Used, Kinds
<1>3. CASE k = "alt"
  <2>1. spec' = [spec EXCEPT ![o].alt = ip]
    BY <1>3 DEF Given
  <2>2. spec'[o] = [public |-> spec[o].public, alt |-> ip] /\ \A p \in Objects : p # o => spec'[p] = spec[p]
    BY <1>1, <2>1
  <2>3. spec' \in [Objects -> [public : IP \cup {Nil}, alt : IP \cup {Nil}]]
    BY <1>1, <2>1
  <2> QED BY <1>1, <1>3, <2>2, <2>3 DEF Used, Kinds
<1> QED BY <1>2, <1>3 DEF Kinds

\* An object in admission is given an address, by the allocator or its creator.
LEMMA GrantStep ==
    ASSUME IInv, world' = world, step' = step, todo' = todo, NEW o \in world.objects, NEW k \in Kinds, NEW ip \in IP,
           step = "idle" \/ Happens("admission"),
           NEW ph \in {"defaulting", "defaulted"}, Given(o, k, ip, ph),
           \/ k = "public" /\ phase[o] = "absent" /\ (o.kind = "lb" => ph = "defaulted")
           \/ k = "alt" /\ phase[o] = "defaulting" /\ ph = "defaulted",
           \/ Obtained(o, k, ip) /\ CallsInv'
           \/ k = "public" /\ ip \in Requested[o] \ {Nil} /\ UNCHANGED Allocator,
           Orderly => k = "public"
    PROVE  IInv'
<1> DEFINE svc == GrantOf(o, k)
<1>0. /\ TypeOK /\ CallsInv /\ WorldStays /\ PhasesMakeSense /\ TodoMakesSense
      /\ RangesKept /\ PendingIsEmpty /\ HeldIsUsed /\ Awaiting = {}
      /\ o \in Objects /\ svc \in Services /\ svc \in NamesOf(o, k)
  BY NothingAwaited, NamesAreServices DEF IInv, WorldStays
<1>1. /\ spec' \in [Objects -> [public : IP \cup {Nil}, alt : IP \cup {Nil}]]
      /\ phase'[o] = ph
      /\ \A p \in Objects : p # o => phase'[p] = phase[p] /\ spec'[p] = spec[p]
      /\ Used(o, k)' = ip
      /\ \A l \in Kinds : l # k => Used(o, l)' = Used(o, l)
  BY <1>0, GivenFacts
<1>2. \A p \in Objects : p # o => /\ Present(p)' <=> Present(p)
                                  /\ Exists(p)' <=> Exists(p)
                                  /\ \A l \in Kinds : Used(p, l)' = Used(p, l)
  BY <1>1 DEF Present, Exists, Used
<1>3. /\ spec'[o].public = IF k = "public" THEN ip ELSE spec[o].public
      /\ spec'[o].alt = IF k = "public" THEN spec[o].alt ELSE ip
  BY <1>1 DEF Used, Kinds
<1>4. CallsInv'
  BY <1>0, CallsFrame
<1>5. ip # Nil
  OBVIOUS
<1>6. TypeOK'
  <2>1. phase' \in [Objects -> {"absent", "defaulting", "defaulted", "live", "deleting", "freed"}]
    BY <1>0 DEF TypeOK, Given
  <2>2. spec'[o].public # Nil
    BY <1>0, <1>3, <1>5 DEF PhasesMakeSense
  <2>3. \A p \in Objects : phase'[p] = "absent" <=> spec'[p] = NoAddress
    <3>1. phase'[o] # "absent" /\ spec'[o] # NoAddress
      BY <1>1, <2>2 DEF NoAddress
    <3> QED BY <1>0, <1>1, <3>1 DEF TypeOK
  <2> QED BY <1>0, <1>1, <1>4, <2>1, <2>3 DEF TypeOK, CallsInv
<1>7. WorldStays'
  BY <1>0, <1>1 DEF WorldStays
<1>8. PhasesMakeSense'
  <2>1. ASSUME NEW p \in Objects
        PROVE  /\ phase'[p] = "freed" => step = "idle"
               /\ phase'[p] \in {"defaulting", "defaulted"} => step = "idle" \/ Happens("admission")
               /\ p.kind = "lb" => phase'[p] # "defaulting" /\ spec'[p].alt = Nil
               /\ phase'[p] # "absent" => spec'[p].public # Nil
    <3>1. CASE p # o
      BY <1>0, <1>1, <3>1 DEF PhasesMakeSense
    <3>2. CASE p = o
      BY <1>0, <1>1, <1>3, <1>5, <3>2 DEF PhasesMakeSense
    <3> QED BY <3>1, <3>2
  <2> QED BY <2>1, WorldFrame DEF PhasesMakeSense
<1>9. TodoMakesSense'
  <2>1. ~Exists(o)
    BY DEF Exists
  <2>2. \A p \in Objects : Exists(p) => Exists(p)' /\ spec'[p] = spec[p]
    BY <1>1, <1>2, <2>1
  <2>3. (\A c \in LBClaims : c \in LBClaims') /\ \A c \in ProxyClaims : c \in ProxyClaims'
    BY <2>2, ClaimsKept
  <2> QED BY <1>0, <2>3 DEF TodoMakesSense
<1>10. \A p \in Objects, l \in Kinds : ~(p = o /\ l = k) => Used(p, l)' = Used(p, l)
  BY <1>1, <1>2
<1>11. CASE Obtained(o, k, ip)
  <2>1. \/ UNCHANGED Allocator /\ allocated[svc] # Nil /\ allocated[svc].ip = ip
        \/ /\ allocated[svc] = Nil
           /\ \E n \in PoolNames : InRange(n, ip) /\ Gains(svc, n, ip)
    BY <1>11 DEF Obtained, Allocator
  <2>2. ip \in MainsOf(world) \cup AltsOf(world) /\ step # "pending"
    <3>1. CASE UNCHANGED Allocator /\ allocated[svc] # Nil /\ allocated[svc].ip = ip
      <4>1. PICK l \in Kinds : ip \in RangeOf(l)
        BY <1>0, <3>1 DEF RangesKept
      <4> QED BY <1>0, <3>1, <4>1 DEF PendingIsEmpty, RangeOf
    <3>2. CASE \E n \in PoolNames : InRange(n, ip) /\ Gains(svc, n, ip)
      <4>1. PICK n \in PoolNames : InRange(n, ip)
        BY <3>2
      <4>2. PICK l \in Kinds : ip \in RangeOf(l)
        BY <1>0, <4>1 DEF RangesKept, InRange
      <4> QED BY <1>0, <4>1, <4>2 DEF PendingIsEmpty, RangeOf, InRange
    <3> QED BY <2>1, <3>1, <3>2
  <2>3. RangesKept'
    <3>1. \A n \in PoolNames : pools'[n] # Nil =>
             \E l \in Kinds : n = PoolOf(l) /\ pools'[n].addrs \subseteq RangeOf(l)
      BY <1>0, <2>1 DEF RangesKept, Allocator, Gains, RangesStay
    <3>2. ASSUME NEW t \in Services, allocated'[t] # Nil
          PROVE  \E l \in Kinds : allocated'[t].pool = PoolOf(l) /\ allocated'[t].ip \in RangeOf(l)
      <4>1. CASE allocated'[t] = allocated[t]
        BY <1>0, <3>2, <4>1 DEF RangesKept
      <4>2. CASE allocated'[t] # allocated[t]
        <5>1. PICK n \in PoolNames : InRange(n, ip) /\ Gains(svc, n, ip)
          BY <2>1, <4>2 DEF Allocator
        <5>2. allocated'[t].pool = n /\ allocated'[t].ip = ip
          BY <4>2, <5>1 DEF Gains, Holds
        <5> QED BY <1>0, <5>1, <5>2 DEF RangesKept, InRange
      <4> QED BY <4>1, <4>2
    <3>3. \A p \in Objects, l \in Kinds :
             Used(p, l)' \in MainsOf(world') \cup AltsOf(world') \cup Requested[p] \cup {Nil}
      BY <1>0, <1>1, <1>10, <2>2 DEF RangesKept
    <3> QED BY <3>1, <3>2, <3>3, WorldFrame DEF RangesKept
  <2>4. PendingIsEmpty'
    BY <2>2 DEF PendingIsEmpty
  <2>5. Core'
    <3>1. \A p \in Objects, l \in Kinds : Present(p)' =>
               \/ p = o /\ l = k /\ Used(p, l)' = ip
               \/ Present(p) /\ ~(p = o /\ l = k) /\ Used(p, l)' = Used(p, l)
               \/ Used(p, l)' = Nil
      <4>1. phase[o] = "absent" => \A l \in Kinds : Used(o, l) = Nil
        BY <1>0, AbsentHasNone
      <4>2. phase[o] = "defaulting" => Present(o)
        BY DEF Present
      <4> QED BY <1>0, <1>1, <1>2, <1>10, <4>1, <4>2
    <3>2. /\ \A p \in Objects, l \in Kinds : Present(p) /\ ~(p = o /\ l = k) => Used(p, l) # ip
          /\ \A t \in Services : allocated'[t] # Nil /\ allocated'[t].ip = ip => t \in NamesOf(o, k)
          /\ \A n \in PoolNames : InRange(n, ip)' => Taken(GrantOf(o, k), n, ip)'
          /\ \/ UNCHANGED Allocator
             \/ /\ allocated[GrantOf(o, k)] = Nil
                /\ \A t \in Services : allocated[t] # Nil => allocated[t].ip # ip
                /\ \E n \in PoolNames : Gains(GrantOf(o, k), n, ip)
      BY <1>11 DEF Obtained
    <3> QED BY <1>0, <3>1, <3>2, TakesStep
  <2>6. HeldIsUsed'
    <3> SUFFICES ASSUME Orderly
                 PROVE  /\ \A p \in Objects : spec'[p].alt = Nil
                        /\ \A t \in Services : allocated'[t] # Nil =>
                              \E p \in world.objects : t = FullName(p) /\ Present(p)' /\ allocated'[t].ip = spec'[p].public
      BY WorldFrame DEF HeldIsUsed
    <3>1. k = "public" /\ phase[o] = "absent" /\ svc = FullName(o)
      BY DEF GrantOf
    <3>2. \A p \in Objects : spec'[p].alt = Nil
      BY <1>0, <1>1, <1>3, <3>1 DEF HeldIsUsed
    <3>3. ASSUME NEW t \in Services, allocated'[t] # Nil
          PROVE  \E p \in world.objects : t = FullName(p) /\ Present(p)' /\ allocated'[t].ip = spec'[p].public
      <4>1. CASE t = svc
        <5>1. Present(o)' /\ spec'[o].public = ip /\ allocated'[t].ip = ip
          BY <1>1, <1>3, <1>11, <3>1, <4>1 DEF Present, Obtained
        <5> QED BY <3>1, <4>1, <5>1
      <4>2. CASE t # svc
        <5>1. allocated'[t] = allocated[t]
          BY <2>1, <4>2 DEF Allocator, Gains
        <5>2. PICK p \in world.objects : t = FullName(p) /\ Present(p) /\ allocated[t].ip = spec[p].public
          BY <1>0, <3>3, <5>1 DEF HeldIsUsed
        <5>3. p # o /\ p \in Objects
          BY <1>0, <3>1, <4>2, <5>2 DEF WorldStays
        <5> QED BY <1>1, <1>2, <5>1, <5>2, <5>3
      <4> QED BY <4>1, <4>2
    <3> QED BY <3>2, <3>3
  <2> QED BY <1>4, <1>6, <1>7, <1>8, <1>9, <2>3, <2>4, <2>5, <2>6 DEF IInv
<1>12. CASE k = "public" /\ phase[o] = "absent" /\ ip \in Requested[o] \ {Nil} /\ UNCHANGED Allocator
  <2>1. /\ pools' = pools /\ allocated' = allocated
        /\ \A p \in Objects, l \in Kinds : Present(p) => Used(p, l) # ip
        /\ \A t \in Services : allocated[t] # Nil => allocated[t].ip # ip
        /\ \A n \in PoolNames : ~InRange(n, ip)
    BY <1>12, RequestedIsNobodys DEF Allocator
  <2>2. \A l \in Kinds : ip \notin RangeOf(l)
    BY <1>0, <1>12, RangesDiffer
  <2>3. RangesKept'
    <3>1. \A p \in Objects, l \in Kinds :
             Used(p, l)' \in MainsOf(world') \cup AltsOf(world') \cup Requested[p] \cup {Nil}
      BY <1>0, <1>1, <1>10, <1>12 DEF RangesKept
    <3> QED BY <1>0, <2>1, <3>1, WorldFrame DEF RangesKept
  <2>4. PendingIsEmpty'
    <3>1. \A p \in Objects, l \in Kinds : Used(p, l)' = ip \/ Used(p, l)' = Used(p, l)
      BY <1>1, <1>10
    <3> QED BY <1>0, <2>1, <2>2, <3>1, WorldFrame DEF PendingIsEmpty
  <2>5. Core'
    <3>1. \A p \in Objects, l \in Kinds : Present(p)' =>
               \/ p = o /\ l = k /\ Used(p, l)' = ip
               \/ Present(p) /\ ~(p = o /\ l = k) /\ Used(p, l)' = Used(p, l)
               \/ Used(p, l)' = Nil
      <4>1. \A l \in Kinds : Used(o, l) = Nil
        BY <1>0, <1>12, AbsentHasNone
      <4> QED BY <1>0, <1>1, <1>2, <1>10, <4>1
    <3>2. \A n \in PoolNames : ~InRange(n, ip)'
      BY <2>1 DEF InRange
    <3> QED BY <1>0, <1>12, <2>1, <3>1, <3>2, TakesStep
  <2>6. HeldIsUsed'
    <3> SUFFICES ASSUME Orderly
                 PROVE  /\ \A p \in Objects : spec'[p].alt = Nil
                        /\ \A t \in Services : allocated[t] # Nil =>
                              \E p \in world.objects : t = FullName(p) /\ Present(p)' /\ allocated[t].ip = spec'[p].public
      BY <2>1, WorldFrame DEF HeldIsUsed
    <3>2. \A p \in Objects : spec'[p].alt = Nil
      BY <1>0, <1>1, <1>3, <1>12 DEF HeldIsUsed
    <3>3. ASSUME NEW t \in Services, allocated[t] # Nil
          PROVE  \E p \in world.objects : t = FullName(p) /\ Present(p)' /\ allocated[t].ip = spec'[p].public
      <4>1. PICK p \in world.objects : t = FullName(p) /\ Present(p) /\ allocated[t].ip = spec[p].public
        BY <1>0, <3>3 DEF HeldIsUsed
      <4>2. p # o /\ p \in Objects
        BY <1>0, <1>12, <4>1 DEF WorldStays, Present
      <4> QED BY <1>1, <1>2, <4>1, <4>2
    <3> QED BY <3>2, <3>3
  <2> QED BY <1>4, <1>6, <1>7, <1>8, <1>9, <2>3, <2>4, <2>5, <2>6 DEF IInv
<1> QED BY <1>11, <1>12

LEMMA DefaultPublicStep == ASSUME IInv, NEW o \in Objects, DefaultPublic(o), world' = world PROVE IInv'
<1> DEFINE ph == IF o.kind = "lb" THEN "defaulted" ELSE "defaulting"
<1>1. /\ o \in world.objects /\ phase[o] = "absent" /\ step' = step /\ todo' = todo
      /\ step = "idle" \/ Happens("admission")
      /\ phase' = [phase EXCEPT ![o] = ph]
  BY DEF DefaultPublic, Permitted
<1>2. ph \in {"defaulting", "defaulted"} /\ (o.kind = "lb" => ph = "defaulted") /\ "public" \in Kinds
  BY DEF Kinds
<1>3. CASE \E ip \in Requested[o] \ {Nil} : UNCHANGED Allocator /\ spec' = [spec EXCEPT ![o].public = ip]
  <2>1. PICK ip \in Requested[o] \ {Nil} : UNCHANGED Allocator /\ spec' = [spec EXCEPT ![o].public = ip]
    BY <1>3
  <2>2. ip \in IP
    BY <2>1
  <2>3. Given(o, "public", ip, ph)
    BY <1>1, <2>1 DEF Given
  <2> QED BY <1>1, <1>2, <2>1, <2>2, <2>3, GrantStep
<1>4. CASE Obtain(FullName(o), Main(Prefix)) /\ spec' = [spec EXCEPT ![o].public = allocated'[FullName(o)].ip]
  <2>1. GrantOf(o, "public") = FullName(o) /\ PoolOf("public") = Main(Prefix) /\ Awaiting = {}
    BY <1>1, NothingAwaited DEF GrantOf, PoolOf, IInv
  <2>2. CallsInv' /\ \E ip \in IP : Obtained(o, "public", ip)
    BY <1>1, <1>2, <1>4, <2>1, ObtainGives
  <2>3. PICK ip \in IP : Obtained(o, "public", ip)
    BY <2>2
  <2>4. allocated'[FullName(o)].ip = ip
    BY <2>1, <2>3 DEF Obtained
  <2>5. Given(o, "public", ip, ph)
    BY <1>1, <1>4, <2>4 DEF Given
  <2> QED BY <1>1, <1>2, <2>2, <2>3, <2>5, GrantStep
<1> QED BY <1>3, <1>4 DEF DefaultPublic

\* Where no prefix has alt addresses, there is none to obtain.
LEMMA OrderlyWithoutAlt ==
    ASSUME IInv, NEW o \in Objects, Orderly, Obtain(AltName(o), Alt(Prefix))
    PROVE  FALSE
<1>0. /\ AltName(o) \in Services /\ WorldStays /\ RangesKept /\ CallsInv /\ HeldIsUsed
      /\ Alt(Prefix) \in PoolNames /\ Alt(Prefix) = PoolOf("alt") /\ "alt" \in Kinds
  BY PoolOfType DEF IInv, PoolOf, Kinds
<1>1. CASE allocated[AltName(o)] # Nil
  <2>1. PICK p \in world.objects : AltName(o) = FullName(p)
    BY <1>0, <1>1 DEF HeldIsUsed
  <2> QED BY <2>1 DEF AltName, FullName
<1>2. CASE AllocateFromPool(AltName(o), Alt(Prefix), {}, Unshared)
  <2>1. PICK ip \in IP : InRange(Alt(Prefix), ip)
    BY <1>0, <1>2, AllocateGains
  <2>2. PICK k \in Kinds : Alt(Prefix) = PoolOf(k) /\ ip \in RangeOf(k)
    BY <1>0, <2>1 DEF RangesKept, InRange
  <2>3. k = "alt"
    BY <1>0, <2>2, PoolsDiffer
  <2>4. ip \in AltsOf(world)
    BY <2>2, <2>3 DEF RangeOf
  <2> QED BY <2>4 DEF AltsOf, Orderly
<1> QED BY <1>1, <1>2 DEF Obtain

LEMMA DefaultAltStep == ASSUME IInv, NEW o \in Objects, DefaultAlt(o), world' = world PROVE IInv'
<1>1. /\ phase[o] = "defaulting" /\ step' = step /\ todo' = todo
      /\ phase' = [phase EXCEPT ![o] = "defaulted"]
  BY DEF DefaultAlt
<1>2. o \in world.objects /\ (step = "idle" \/ Happens("admission")) /\ "alt" \in Kinds
  BY <1>1 DEF IInv, WorldStays, PhasesMakeSense, Kinds
<1>3. CASE UNCHANGED <<Allocator, spec>>
  BY <1>1, <1>3, QuietStep
<1>4. CASE Obtain(AltName(o), Alt(Prefix)) /\ spec' = [spec EXCEPT ![o].alt = allocated'[AltName(o)].ip]
  <2>1. GrantOf(o, "alt") = AltName(o) /\ PoolOf("alt") = Alt(Prefix) /\ Awaiting = {}
    BY <1>2, NothingAwaited DEF GrantOf, PoolOf, IInv
  <2>2. CallsInv' /\ \E ip \in IP : Obtained(o, "alt", ip)
    BY <1>2, <1>4, <2>1, ObtainGives
  <2>3. PICK ip \in IP : Obtained(o, "alt", ip)
    BY <2>2
  <2>4. allocated'[AltName(o)].ip = ip
    BY <2>1, <2>3 DEF Obtained
  <2>5. Given(o, "alt", ip, "defaulted")
    BY <1>1, <1>4, <2>4 DEF Given
  <2>6. ~Orderly
    BY <1>4, OrderlyWithoutAlt
  <2> QED BY <1>1, <1>2, <2>2, <2>3, <2>5, <2>6, GrantStep
<1> QED BY <1>3, <1>4 DEF DefaultAlt

LEMMA FreeAddressStep == ASSUME IInv, NEW o \in Objects, FreeAddress(o), world' = world PROVE IInv'
<1>0. /\ TypeOK /\ CallsInv /\ WorldStays /\ PhasesMakeSense /\ TodoMakesSense
      /\ RangesKept /\ PendingIsEmpty /\ HeldIsUsed
  BY DEF IInv
<1>1. /\ phase[o] \in {"deleting", "freed"} /\ spec' = spec /\ step' = step /\ todo' = todo
      /\ phase' = [phase EXCEPT ![o] = "freed"]
  BY DEF FreeAddress
<1>2. step = "idle" /\ o \in world.objects
  BY <1>0, <1>1 DEF FreeAddress, Permitted, Happens, WorldStays, GoodWorld
<1>3. CASE allocated[FullName(o)] = Nil /\ UNCHANGED Allocator
  BY <1>1, <1>2, <1>3, QuietStep
<1>4. CASE Unassign(FullName(o))
  <2>1. CallsInv' /\ Loses(FullName(o))
    BY <1>0, <1>4, UnassignLoses
  <2>2. /\ allocated'[FullName(o)] = Nil
        /\ \A t \in Services : allocated'[t] = allocated[t] \/ allocated'[t] = Nil
        /\ \A n \in PoolNames : pools'[n] # Nil => pools[n] # Nil /\ pools'[n].addrs = pools[n].addrs
    BY <2>1 DEF Loses, RangesStay
  <2>3. /\ phase'[o] = "freed"
        /\ \A p \in Objects : p # o => phase'[p] = phase[p]
    BY <1>0, <1>1 DEF TypeOK
  <2>4. TypeOK'
    <3>1. phase' \in [Objects -> {"absent", "defaulting", "defaulted", "live", "deleting", "freed"}]
      BY <1>0, <1>1 DEF TypeOK
    <3>2. \A p \in Objects : phase'[p] = "absent" <=> spec[p] = NoAddress
      BY <1>0, <1>1, <2>3 DEF TypeOK
    <3> QED BY <1>0, <1>1, <2>1, <3>1, <3>2 DEF TypeOK, CallsInv
  <2>5. WorldStays' /\ PhasesMakeSense'
    BY <1>0, <1>1, <1>2, <2>3, WorldFrame DEF WorldStays, PhasesMakeSense
  <2>6. TodoMakesSense'
    BY <1>0, <1>1, <1>2 DEF TodoMakesSense
  <2>7. RangesKept'
    <3>1. \A p \in Objects, l \in Kinds :
             Used(p, l)' \in MainsOf(world') \cup AltsOf(world') \cup Requested[p] \cup {Nil}
      BY <1>0, <1>1 DEF RangesKept, Used
    <3> QED BY <1>0, <2>2, <3>1, WorldFrame DEF RangesKept
  <2>8. PendingIsEmpty'
    BY <1>1, <1>2 DEF PendingIsEmpty
  <2>9. Core'
    <3>1. Awaiting = {}
      BY <1>0, <1>2, NothingAwaited
    <3>2. \A p \in Objects : Present(p)' => Present(p) /\ p # o
      BY <2>3 DEF Present
    <3> QED BY <1>1, <1>2, <2>1, <3>1, <3>2, LosesStep
  <2>10. HeldIsUsed'
    <3> SUFFICES ASSUME Orderly, NEW t \in Services, allocated'[t] # Nil
                 PROVE  \E p \in world.objects : t = FullName(p) /\ Present(p)' /\ allocated'[t].ip = spec[p].public
      BY <1>0, <1>1, WorldFrame DEF HeldIsUsed
    <3>1. allocated'[t] = allocated[t] /\ t # FullName(o)
      BY <2>2
    <3>2. PICK p \in world.objects : t = FullName(p) /\ Present(p) /\ allocated[t].ip = spec[p].public
      BY <1>0, <3>1 DEF HeldIsUsed
    <3>3. p \in Objects /\ p # o
      BY <1>0, <3>1, <3>2 DEF WorldStays
    <3> QED BY <2>3, <3>1, <3>2, <3>3 DEF Present
  <2> QED BY <2>1, <2>4, <2>5, <2>6, <2>7, <2>8, <2>9, <2>10 DEF IInv
<1> QED BY <1>3, <1>4 DEF FreeAddress

\* Objects and allocator stay as they are while the claims are listed.
LEMMA ListStep ==
    ASSUME IInv, UNCHANGED <<world, Allocator, phase, spec>>, step \notin {"pending", "idle"},
           step' \in {"assign lbs", "assign proxies", "idle"}, todo' \subseteq LBClaims \cup ProxyClaims,
           TodoMakesSense', \A c \in Awaiting : c \in Awaiting'
    PROVE  IInv'
<1>0. /\ TypeOK /\ CallsInv /\ WorldStays /\ PhasesMakeSense /\ RangesKept /\ HeldIsUsed
      /\ allocated' = allocated /\ pools' = pools /\ phase' = phase /\ spec' = spec
  BY DEF IInv, Allocator
<1>1. CallsInv'
  BY <1>0, CallsFrame
<1>2. TypeOK'
  <2>1. todo' \subseteq Services \X IP
    <3> SUFFICES ASSUME NEW c \in todo' PROVE c \in Services \X IP
      OBVIOUS
    <3>1. PICK p \in Objects, l \in Kinds : c = <<WarmOf(p, l), Used(p, l)>> /\ Used(p, l) # Nil
      BY <1>0, ClaimsAreUsed
    <3>2. WarmOf(p, l) \in Services /\ Used(p, l) \in IP
      BY <1>0, <3>1, NamesAreServices, AddressesAreIPs
    <3> QED BY <3>1, <3>2
  <2> QED BY <1>0, <1>1, <2>1 DEF TypeOK, CallsInv
<1>3. WorldStays' /\ PhasesMakeSense'
  BY <1>0, WorldFrame DEF WorldStays, PhasesMakeSense
<1>4. RangesKept'
  <2>1. \A p \in Objects, l \in Kinds :
           Used(p, l)' \in MainsOf(world') \cup AltsOf(world') \cup Requested[p] \cup {Nil}
    BY <1>0 DEF RangesKept, Used
  <2>2. \A k : RangeOf(k)' = RangeOf(k)
    BY WorldFrame
  <2>3. \A n \in PoolNames : pools'[n] # Nil =>
           \E k \in Kinds : n = PoolOf(k) /\ pools'[n].addrs \subseteq RangeOf(k)
    BY <1>0 DEF RangesKept
  <2>4. \A svc \in Services : allocated'[svc] # Nil =>
           \E k \in Kinds : allocated'[svc].pool = PoolOf(k) /\ allocated'[svc].ip \in RangeOf(k)
    BY <1>0 DEF RangesKept
  <2> QED BY <2>1, <2>2, <2>3, <2>4 DEF RangesKept
<1>5. PendingIsEmpty'
  BY DEF PendingIsEmpty
<1>6. Core'
  BY <1>0, KeepStep DEF Present
<1>7. HeldIsUsed'
  BY <1>0, WorldFrame DEF HeldIsUsed, Present
<1> QED BY <1>1, <1>2, <1>3, <1>4, <1>5, <1>6, <1>7 DEF IInv

LEMMA ListsAndEnd == ASSUME IInv, ListLBs \/ ListProxies \/ EndReconcile, world' = world PROVE IInv'
<1>0. TodoMakesSense /\ UNCHANGED <<world, Allocator, phase, spec>> /\ (Steady' <=> Steady)
  BY WorldFrame DEF IInv, ListLBs, ListProxies, EndReconcile
<1>1. LBClaims' = LBClaims /\ ProxyClaims' = ProxyClaims
  BY <1>0 DEF LBClaims, ProxyClaims, Existing, Exists
<1>2. CASE ListLBs
  <2>1. step = "list lbs" /\ step' = "assign lbs" /\ todo' = LBClaims
    BY <1>2 DEF ListLBs
  <2>2. TodoMakesSense' /\ \A c \in Awaiting : c \in Awaiting'
    BY <1>0, <1>1, <2>1 DEF TodoMakesSense, Awaiting
  <2> QED BY <1>0, <2>1, <2>2, ListStep
<1>3. CASE ListProxies
  <2>1. step = "assign lbs" /\ todo = {} /\ step' = "assign proxies" /\ todo' = ProxyClaims
    BY <1>3 DEF ListProxies
  <2>2. TodoMakesSense' /\ \A c \in Awaiting : c \in Awaiting'
    BY <1>0, <1>1, <2>1 DEF TodoMakesSense, Awaiting
  <2> QED BY <1>0, <2>1, <2>2, ListStep
<1>4. CASE EndReconcile
  <2>1. step = "assign proxies" /\ todo = {} /\ step' = "idle" /\ todo' = {}
    BY <1>4 DEF EndReconcile
  <2>2. TodoMakesSense' /\ \A c \in Awaiting : c \in Awaiting'
    BY <1>0, <1>1, <2>1 DEF TodoMakesSense, Awaiting
  <2> QED BY <1>0, <2>1, <2>2, ListStep
<1> QED BY <1>2, <1>3, <1>4

\* In an orderly world only proxies are warmed up, by the name that they have
\* always had: that of a LoadBalancer is refused, as it has its address.
LEMMA OrderlyAssign ==
    ASSUME IInv, Orderly, NEW p \in world.objects, NEW l \in Kinds, Present(p),
           NEW ip \in IP, ip = Used(p, l), NEW n \in PoolNames, InRange(n, ip), Free(WarmOf(p, l), n, ip)
    PROVE  l = "public" /\ WarmOf(p, l) = FullName(p)
<1>0. p \in Objects /\ WorldStays /\ HeldIsUsed /\ ip # Nil
  BY DEF IInv, WorldStays
<1>1. l = "public"
  BY <1>0 DEF HeldIsUsed, Used, Kinds
<1>2. CASE p.kind = "proxy"
  BY <1>1, <1>2 DEF WarmOf, WarmName
<1>3. CASE p.kind = "lb"
  <2>1. Awaiting = {}
    BY <1>0, <1>3 DEF Awaiting, Steady, Orderly, WorldStays, GoodWorld, Happens
  <2>2. PICK s \in NamesOf(p, l) : Taken(s, n, ip)
    BY <1>0, <2>1 DEF IInv, Core, UsedIsTaken
  <2>3. s \in Services
    BY <1>0, NamesAreServices
  <2>4. PICK q \in world.objects : s = FullName(q)
    BY <1>0, <2>2, <2>3 DEF HeldIsUsed, Taken, Holds
  <2>5. s # WarmOf(p, l)
    BY <1>1, <1>3, <2>4 DEF WarmOf, WarmName, FullName
  <2> QED BY <2>2, <2>5 DEF Taken, Free
<1> QED BY <1>0, <1>1, <1>2, <1>3

LEMMA WarmUpStep == ASSUME IInv, WarmUp, world' = world PROVE IInv'
<1>0. /\ TypeOK /\ CallsInv /\ WorldStays /\ PhasesMakeSense /\ TodoMakesSense
      /\ RangesKept /\ PendingIsEmpty /\ HeldIsUsed
      /\ phase' = phase /\ spec' = spec /\ step' = step
  BY DEF IInv, WarmUp
<1>1. PICK t \in todo :
         /\ todo' = todo \ {t}
         /\ \/ Assign(t[1], t[2], {}, Unshared)
            \/ /\ \A n \in PoolNames : pools[n] # Nil /\ t[2] \in pools[n].addrs
                                         => ~Available(pools[n], t[2], {}, t[1], Unshared)
               /\ UNCHANGED Allocator
  BY DEF WarmUp
<1>2. PICK p \in world.objects, l \in Kinds :
         /\ Exists(p) /\ Present(p) /\ Used(p, l) # Nil /\ Used(p, l) \in IP
         /\ t = <<WarmOf(p, l), Used(p, l)>>
  BY <1>1, ListedIsUsed
<1>3. PICK ip \in IP : ip = Used(p, l)
  BY <1>2
<1> DEFINE svc == WarmOf(p, l)
<1>4. t = <<svc, ip>> /\ t[1] = svc /\ t[2] = ip /\ svc \in Services /\ p \in Objects
  BY <1>0, <1>2, <1>3, NamesAreServices DEF WorldStays
<1>5. LBClaims' = LBClaims /\ ProxyClaims' = ProxyClaims
  BY <1>0 DEF LBClaims, ProxyClaims, Existing, Exists
<1>6. step \in {"assign lbs", "assign proxies"}
  BY <1>0, <1>1 DEF TodoMakesSense
<1>7. TodoMakesSense'
  BY <1>0, <1>1, <1>5, <1>6 DEF TodoMakesSense
<1>8. \A c \in Awaiting : c # <<svc, ip>> => c \in Awaiting'
  BY <1>0, <1>1, <1>4, <1>5, WorldFrame DEF Awaiting
<1>9. WorldStays' /\ PhasesMakeSense' /\ PendingIsEmpty'
  BY <1>0, <1>6, WorldFrame DEF WorldStays, PhasesMakeSense, PendingIsEmpty
<1>10. CallsInv' => TypeOK'
  BY <1>0, <1>1 DEF TypeOK, CallsInv
<1>11. \A q \in Objects, k \in Kinds :
          Used(q, k)' \in MainsOf(world') \cup AltsOf(world') \cup Requested[q] \cup {Nil}
  BY <1>0 DEF RangesKept, Used
<1>12. CASE Assign(t[1], t[2], {}, Unshared)
  <2>1. /\ CallsInv' /\ Core'
        /\ \E n \in PoolNames : InRange(n, ip) /\ Free(svc, n, ip) /\ Gains(svc, n, ip)
    BY <1>0, <1>2, <1>3, <1>4, <1>8, <1>12, AssignStep
  <2>2. PICK n \in PoolNames : InRange(n, ip) /\ Free(svc, n, ip) /\ Gains(svc, n, ip)
    BY <2>1
  <2>3. /\ allocated'[svc] # Nil /\ allocated'[svc].pool = n /\ allocated'[svc].ip = ip
        /\ \A s \in Services \ {svc} : allocated'[s] = allocated[s]
        /\ \A m \in PoolNames : pools'[m] # Nil => pools[m] # Nil /\ pools'[m].addrs = pools[m].addrs
    BY <2>2 DEF Gains, Holds, RangesStay
  <2>4. RangesKept'
    <3>1. \A m \in PoolNames : pools'[m] # Nil =>
             \E k \in Kinds : m = PoolOf(k) /\ pools'[m].addrs \subseteq RangeOf(k)
      BY <1>0, <2>3 DEF RangesKept
    <3>2. \E k \in Kinds : n = PoolOf(k) /\ ip \in RangeOf(k)
      BY <1>0, <2>2 DEF RangesKept, InRange
    <3>3. \A s \in Services : allocated'[s] # Nil =>
             \E k \in Kinds : allocated'[s].pool = PoolOf(k) /\ allocated'[s].ip \in RangeOf(k)
      BY <1>0, <2>3, <3>2 DEF RangesKept
    <3> QED BY <1>11, <3>1, <3>3, WorldFrame DEF RangesKept
  <2>5. HeldIsUsed'
    <3> SUFFICES ASSUME Orderly, NEW s \in Services, allocated'[s] # Nil
                 PROVE  \E q \in world.objects : s = FullName(q) /\ Present(q) /\ allocated'[s].ip = spec[q].public
      BY <1>0, WorldFrame DEF HeldIsUsed, Present
    <3>1. CASE s = svc
      <4>1. l = "public" /\ svc = FullName(p)
        BY <1>2, <1>3, <2>2, OrderlyAssign
      <4> QED BY <1>2, <1>3, <2>3, <3>1, <4>1 DEF Used
    <3>2. CASE s # svc
      BY <1>0, <2>3, <3>2 DEF HeldIsUsed
    <3> QED BY <3>1, <3>2
  <2> QED BY <1>7, <1>9, <1>10, <2>1, <2>4, <2>5 DEF IInv
<1>13. CASE /\ \A n \in PoolNames : pools[n] # Nil /\ t[2] \in pools[n].addrs
                                      => ~Available(pools[n], t[2], {}, t[1], Unshared)
            /\ UNCHANGED Allocator
  <2>1. \A n \in PoolNames : InRange(n, ip) => ~Free(svc, n, ip)
    BY <1>4, <1>13, RefusedIsNotFree DEF InRange
  <2>2. Core'
    BY <1>0, <1>2, <1>3, <1>8, <1>13, <2>1, RefuseStep
  <2>3. CallsInv'
    BY <1>0, <1>13, CallsFrame
  <2>4. RangesKept'
    BY <1>0, <1>11, <1>13, WorldFrame DEF RangesKept, Allocator
  <2>5. HeldIsUsed'
    BY <1>0, <1>13, WorldFrame DEF HeldIsUsed, Present, Allocator
  <2> QED BY <1>7, <1>9, <1>10, <2>2, <2>3, <2>4, <2>5 DEF IInv
<1> QED BY <1>1, <1>12, <1>13

LEMMA StartReconcileStep == ASSUME IInv, StartReconcile, world' = world PROVE IInv'
<1>0. /\ TypeOK /\ CallsInv /\ WorldStays /\ PhasesMakeSense /\ TodoMakesSense
      /\ RangesKept /\ PendingIsEmpty /\ HeldIsUsed
      /\ phase' = phase /\ spec' = spec /\ step' = "list lbs" /\ todo' = todo
      /\ step = "pending" \/ step = "idle"
  BY DEF IInv, StartReconcile
<1>1. PICK s \in world.specs : AddPrefix(Prefix, s)
  BY DEF StartReconcile
<1>2. allocated' = allocated
  BY <1>1 DEF AddPrefix
<1>3. CallsInv'
  <2>1. s \in PoolSpecs[Prefix] /\ Prefix \in Prefixes
    BY <1>0 DEF WorldStays
  <2> QED BY <1>0, <1>1, <2>1, AddPrefixStep
<1>4. TypeOK'
  BY <1>0, <1>3 DEF TypeOK, CallsInv
<1>5. WorldStays'
  BY <1>0 DEF WorldStays
<1>6. PhasesMakeSense'
  <2>1. ASSUME NEW o \in Objects
        PROVE  phase[o] # "freed" /\ (phase[o] \in {"defaulting", "defaulted"} => Happens("admission"))
    BY <1>0 DEF StartReconcile, WorldStays, GoodWorld, Happens
  <2> QED BY <1>0, <2>1, WorldFrame DEF PhasesMakeSense
<1>7. TodoMakesSense' /\ PendingIsEmpty'
  BY <1>0 DEF TodoMakesSense, PendingIsEmpty
<1>8. RangesKept'
  <2>1. \A n \in PoolNames : pools'[n] # Nil =>
           \E k \in Kinds : n = PoolOf(k) /\ pools'[n].addrs \subseteq RangeOf(k)
    BY <1>1, AddPrefixRanges
  <2>2. \A q \in Objects, k \in Kinds :
           Used(q, k)' \in MainsOf(world') \cup AltsOf(world') \cup Requested[q] \cup {Nil}
    BY <1>0 DEF RangesKept, Used
  <2>3. \A k : RangeOf(k)' = RangeOf(k)
    BY WorldFrame
  <2>4. \A svc \in Services : allocated'[svc] # Nil =>
           \E k \in Kinds : allocated'[svc].pool = PoolOf(k) /\ allocated'[svc].ip \in RangeOf(k)
    BY <1>0, <1>2 DEF RangesKept
  <2> QED BY <2>1, <2>2, <2>3, <2>4 DEF RangesKept
<1>9. Core'
  BY StartStep
<1>10. HeldIsUsed'
  BY <1>0, <1>2, WorldFrame DEF HeldIsUsed, Present
<1> QED BY <1>3, <1>4, <1>5, <1>6, <1>7, <1>8, <1>9, <1>10 DEF IInv

LEMMA RestartAction == ASSUME IInv, Restart, world' = world PROVE IInv'
<1>0. /\ TypeOK /\ CallsInv /\ WorldStays /\ PhasesMakeSense /\ RangesKept /\ HeldIsUsed
      /\ step' = "pending" /\ todo' = {} /\ ~Steady
      /\ \A n \in PoolNames : pools'[n] = Nil
      /\ \A svc \in Services : allocated'[svc] = Nil
  BY DEF IInv, Restart, Steady
<1>1. \A o \in Objects : phase[o] # "freed"
  BY <1>0 DEF Restart, WorldStays, GoodWorld, Happens
<1>2. /\ phase' = [o \in Objects |-> IF Exists(o) THEN phase[o] ELSE "absent"]
      /\ spec' = [o \in Objects |-> IF Exists(o) THEN spec[o] ELSE NoAddress]
  BY <1>1 DEF Restart
<1>3. NoAddress \in [public : IP \cup {Nil}, alt : IP \cup {Nil}] /\ NoAddress.public = Nil /\ NoAddress.alt = Nil
  BY DEF NoAddress
<1>4. TypeOK' /\ CallsInv'
  <2>1. AllocatorOK'
    BY DEF Restart, AllocatorOK
  <2>2. NoGhostUsers' /\ KeyMeansUser'
    BY <1>0 DEF NoGhostUsers, KeyMeansUser
  <2>3. phase' \in [Objects -> {"absent", "defaulting", "defaulted", "live", "deleting", "freed"}]
    BY <1>0, <1>2 DEF TypeOK
  <2>4. spec' \in [Objects -> [public : IP \cup {Nil}, alt : IP \cup {Nil}]]
    BY <1>0, <1>2, <1>3 DEF TypeOK
  <2>5. \A o \in Objects : phase'[o] = "absent" <=> spec'[o] = NoAddress
    BY <1>0, <1>2 DEF TypeOK, Exists
  <2> QED BY <1>0, <2>1, <2>2, <2>3, <2>4, <2>5 DEF TypeOK, CallsInv
<1>5. WorldStays' /\ PhasesMakeSense'
  BY <1>0, <1>1, <1>2, <1>3, WorldFrame DEF WorldStays, PhasesMakeSense, Exists
<1>6. TodoMakesSense'
  BY <1>0 DEF TodoMakesSense
<1>7. RangesKept'
  <2>1. \A q \in Objects, k \in Kinds : Used(q, k)' = Used(q, k) \/ Used(q, k)' = Nil
    BY <1>2, <1>3 DEF Used
  <2>2. \A q \in Objects, k \in Kinds :
           Used(q, k)' \in MainsOf(world') \cup AltsOf(world') \cup Requested[q] \cup {Nil}
    BY <1>0, <2>1 DEF RangesKept
  <2> QED BY <1>0, <2>2 DEF RangesKept
<1>8. PendingIsEmpty'
  BY <1>0, WorldFrame DEF PendingIsEmpty
<1>9. Core'
  BY RestartStep
<1>10. HeldIsUsed'
  BY <1>0, <1>2, <1>3, WorldFrame DEF HeldIsUsed
<1> QED BY <1>4, <1>5, <1>6, <1>7, <1>8, <1>9, <1>10 DEF IInv

-----------------------------------------------------------------------------
\* The invariant holds in every state of a behaviour in a good world.

LEMMA IInvInit == ASSUME GoodWorld(world), Init PROVE IInv
<1>0. /\ world \in Worlds /\ New /\ step = "pending" /\ todo = {}
      /\ \A o \in Objects : phase[o] = "absent" /\ spec[o] = NoAddress
  BY DEF Init
<1>1. NoAddress \in [public : IP \cup {Nil}, alt : IP \cup {Nil}] /\ NoAddress.public = Nil /\ NoAddress.alt = Nil
  BY DEF NoAddress
<1>2. (\A n \in PoolNames : pools[n] = Nil) /\ \A svc \in Services : allocated[svc] = Nil
  BY <1>0 DEF New
<1>3. TypeOK /\ CallsInv
  <2>1. AllocatorOK
    BY <1>0 DEF New, AllocatorOK
  <2>2. NoGhostUsers /\ KeyMeansUser
    BY <1>2 DEF NoGhostUsers, KeyMeansUser
  <2>3. /\ phase \in [Objects -> {"absent", "defaulting", "defaulted", "live", "deleting", "freed"}]
        /\ spec \in [Objects -> [public : IP \cup {Nil}, alt : IP \cup {Nil}]]
    BY <1>1 DEF Init
  <2> QED BY <1>0, <2>1, <2>2, <2>3 DEF TypeOK, CallsInv
<1>4. WorldStays
  BY <1>0 DEF WorldStays
<1>5. PhasesMakeSense /\ TodoMakesSense
  BY <1>0, <1>1 DEF PhasesMakeSense, TodoMakesSense
<1>6. \A o \in Objects, k \in Kinds : Used(o, k) = Nil
  BY <1>0, <1>1 DEF Used
<1>7. RangesKept
  BY <1>2, <1>6 DEF RangesKept
<1>8. PendingIsEmpty
  BY <1>2, <1>4, <1>6, NilOutOfRange DEF PendingIsEmpty
<1>9. Core
  <2>1. \A o \in Objects : ~Present(o)
    BY <1>0 DEF Present
  <2>2. Alone /\ HoldersOwn /\ HeldIsTaken
    BY <1>2 DEF Alone, HoldersOwn, HeldIsTaken, Holds
  <2>3. Distinct /\ UsedIsTaken
    BY <2>1 DEF Distinct, UsedIsTaken
  <2> QED BY <2>2, <2>3 DEF Core
<1>10. HeldIsUsed
  BY <1>0, <1>1, <1>2 DEF HeldIsUsed
<1> QED BY <1>3, <1>4, <1>5, <1>7, <1>8, <1>9, <1>10 DEF IInv

LEMMA IInvStep == ASSUME IInv, [Next]_vars PROVE IInv'
<1>1. CASE UNCHANGED vars
  <2>1. UNCHANGED <<world, Allocator, phase, spec, step, todo>>
    BY <1>1 DEF vars, Allocator
  <2>2. /\ TypeOK' /\ WorldStays' /\ PhasesMakeSense' /\ PendingIsEmpty' /\ RangesKept'
    <3>1. /\ allocated' = allocated /\ pools' = pools /\ phase' = phase /\ spec' = spec
          /\ step' = step /\ todo' = todo /\ world' = world
      BY <2>1 DEF Allocator
    <3>2. TypeOK'
      BY <3>1 DEF IInv, TypeOK, AllocatorOK
    <3>3. WorldStays' /\ PhasesMakeSense'
      BY <3>1, WorldFrame DEF IInv, WorldStays, PhasesMakeSense
    <3>4. PendingIsEmpty'
      BY <3>1, WorldFrame DEF IInv, PendingIsEmpty, Used
    <3>5. RangesKept'
      BY <3>1, WorldFrame DEF IInv, RangesKept, Used
    <3> QED BY <3>2, <3>3, <3>4, <3>5
  <2>3. CallsInv'
    BY <2>1, CallsFrame DEF IInv
  <2>4. LBClaims' = LBClaims /\ ProxyClaims' = ProxyClaims
    BY <2>1 DEF LBClaims, ProxyClaims, Existing, Exists
  <2>5. TodoMakesSense' /\ Awaiting' = Awaiting
    BY <2>1, <2>4, WorldFrame DEF IInv, TodoMakesSense, Awaiting
  <2>6. Core'
    BY <2>1, <2>5, KeepStep DEF Present
  <2>7. HeldIsUsed'
    BY <2>1, WorldFrame DEF IInv, HeldIsUsed, Present, Allocator
  <2> QED BY <2>2, <2>3, <2>5, <2>6, <2>7 DEF IInv
<1>2. CASE \E o \in Objects : ObjectStep(o) /\ world' = world
  BY <1>2, DefaultPublicStep, DefaultAltStep, AdmitStep, RejectStep, DeleteStep, FreeAddressStep, FinalizeStep
     DEF ObjectStep
<1>3. CASE (StartReconcile \/ ListLBs \/ ListProxies \/ WarmUp \/ EndReconcile \/ Restart) /\ world' = world
  BY <1>3, StartReconcileStep, ListsAndEnd, WarmUpStep, RestartAction
<1> QED BY <1>1, <1>2, <1>3 DEF Next

\* The lasting facts above, together.
THEOREM Invariant == Spec => [](GoodWorld(world) => IInv)
<1>1. Init => (GoodWorld(world) => IInv)
  BY IInvInit
<1>2. (GoodWorld(world) => IInv) /\ [Next]_vars => (GoodWorld(world) => IInv)'
  <2> SUFFICES ASSUME GoodWorld(world) => IInv, [Next]_vars, GoodWorld(world')
               PROVE  IInv'
    OBVIOUS
  <2>1. world' = world
    BY DEF Next, vars
  <2> QED BY <2>1, IInvStep
<1> QED BY <1>1, <1>2, PTL DEF Spec

\* No two objects in service have an address in common, whatever the webhooks,
\* the reconcilers, restarts and reconciles of the prefix do in good worlds.
THEOREM AddressesUnique == Spec => [](GoodWorld(world) => UniqueAddresses)
<1>1. IInv => UniqueAddresses
  <2> SUFFICES ASSUME IInv, NEW o \in Objects, NEW p \in Objects, o # p,
                      phase[o] = "live", phase[p] = "live", NEW ip \in Addresses(o) \cap Addresses(p)
               PROVE  FALSE
    BY DEF UniqueAddresses
  <2>1. PICK k \in Kinds : Used(o, k) = ip
    BY DEF Addresses, Used, Kinds
  <2>2. PICK l \in Kinds : Used(p, l) = ip
    BY DEF Addresses, Used, Kinds
  <2>3. ip # Nil /\ Present(o) /\ Present(p)
    BY DEF Addresses, Present
  <2> QED BY <2>1, <2>2, <2>3 DEF IInv, Core, Distinct
<1> QED BY <1>1, Invariant, PTL

\* Once the prefix has been reconciled the allocator knows what is in service.
THEOREM AllocatorKnows == Spec => [](GoodWorld(world) => LiveKnown)
<1>1. IInv => LiveKnown
  <2> SUFFICES ASSUME IInv, step = "idle", NEW o \in Objects, phase[o] = "live", NEW ip \in Addresses(o),
                      NEW n \in PoolNames, pools[n] # Nil, ip \in pools[n].addrs
               PROVE  \E svc \in {FullName(o), AltName(o), WarmName(o)} :
                         allocated[svc] # Nil /\ allocated[svc].ip = ip
    BY DEF LiveKnown
  <2>1. PICK k \in Kinds : Used(o, k) = ip
    BY DEF Addresses, Used, Kinds
  <2>2. Present(o) /\ InRange(n, ip) /\ Awaiting = {}
    BY NothingAwaited DEF Present, InRange, IInv
  <2>3. PICK svc \in NamesOf(o, k) : Taken(svc, n, ip)
    BY <2>1, <2>2 DEF IInv, Core, UsedIsTaken
  <2> QED BY <2>3 DEF NamesOf, Taken, Holds
<1> QED BY <1>1, Invariant, PTL

\* What a deleted object had has been returned, where its reconciler knows it by
\* the name that it was given under.
THEOREM DeletedReturn == Spec => [](GoodWorld(world) => AddressesReturned)
<1>1. IInv => AddressesReturned
  <2> SUFFICES ASSUME IInv, Orderly, NEW o \in world.objects, phase[o] = "absent",
                      NEW svc \in {FullName(o), AltName(o), WarmName(o)}, allocated[svc] # Nil
               PROVE  FALSE
    BY DEF AddressesReturned, Orderly
  <2>0. o \in Objects /\ svc \in Services /\ WorldStays /\ HeldIsUsed
    BY DEF IInv, WorldStays
  <2>1. PICK p \in world.objects : svc = FullName(p) /\ Present(p)
    BY <2>0 DEF HeldIsUsed
  <2>2. svc = FullName(o)
    BY <2>0, <2>1 DEF FullName, AltName, WarmName
  <2>3. p = o
    BY <2>0, <2>1, <2>2 DEF WorldStays, GoodWorld
  <2> QED BY <2>1, <2>3 DEF Present
<1> QED BY <1>1, Invariant, PTL

-----------------------------------------------------------------------------
\* In the other worlds too, where addresses are lost or given twice, every
\* object that there is has an address, and the calls keep what they keep.

TypeInv == /\ TypeOK /\ CallsInv /\ world \in Worlds
           /\ \A o \in Objects : phase[o] # "absent" => spec[o].public # Nil

\* What Default() puts into the spec of an object is an address.
LEMMA ObtainIsIP ==
    ASSUME CallsInv, NEW svc \in Services, NEW n \in PoolNames, Obtain(svc, n)
    PROVE  CallsInv' /\ allocated'[svc].ip \in IP
<1>1. CASE allocated[svc] # Nil /\ UNCHANGED Allocator
  <2>1. allocated[svc] \in Alloc
    BY <1>1 DEF CallsInv, AllocatorOK
  <2>2. allocated'[svc].ip \in IP
    BY <1>1, <2>1 DEF Alloc, Allocator
  <2> QED BY <1>1, <2>2, CallsFrame
<1>2. CASE AllocateFromPool(svc, n, {}, Unshared)
  BY <1>2, AllocateGains DEF Gains, Holds
<1> QED BY <1>1, <1>2 DEF Obtain

LEMMA TypeGiven ==
    ASSUME TypeInv, CallsInv', NEW o \in Objects, NEW k \in Kinds, NEW ip \in IP,
           NEW ph \in {"defaulting", "defaulted"}, Given(o, k, ip, ph),
           k = "public" \/ phase[o] # "absent", UNCHANGED <<world, step, todo>>
    PROVE  TypeInv'
<1>1. /\ spec' \in [Objects -> [public : IP \cup {Nil}, alt : IP \cup {Nil}]]
      /\ phase'[o] = ph
      /\ \A p \in Objects : p # o => phase'[p] = phase[p] /\ spec'[p] = spec[p]
      /\ Used(o, k)' = ip
      /\ \A l \in Kinds : l # k => Used(o, l)' = Used(o, l)
  BY GivenFacts DEF TypeInv
<1>2. phase' \in [Objects -> {"absent", "defaulting", "defaulted", "live", "deleting", "freed"}]
  BY DEF TypeInv, TypeOK, Given
<1>3. spec'[o].public # Nil
  BY <1>1 DEF TypeInv, Used, Kinds
<1>4. \A p \in Objects : phase'[p] # "absent" => spec'[p].public # Nil
  BY <1>1, <1>3 DEF TypeInv
<1>5. \A p \in Objects : phase'[p] = "absent" <=> spec'[p] = NoAddress
  <2>1. phase'[o] # "absent" /\ spec'[o] # NoAddress
    BY <1>1, <1>3 DEF NoAddress
  <2> QED BY <1>1, <2>1 DEF TypeInv, TypeOK
<1> QED BY <1>1, <1>2, <1>4, <1>5 DEF TypeInv, TypeOK, CallsInv

\* The steps of an object that give it no address.
LEMMA TypeGoesOn ==
    ASSUME TypeInv, CallsInv', UNCHANGED <<world, step, todo>>, NEW o \in Objects, phase[o] # "absent",
           NEW ph \in {"absent", "defaulted", "live", "deleting", "freed"}, phase' = [phase EXCEPT ![o] = ph],
           \/ ph # "absent" /\ spec' = spec
           \/ ph = "absent" /\ spec' = [spec EXCEPT ![o] = NoAddress]
    PROVE  TypeInv'
<1>0. NoAddress \in [public : IP \cup {Nil}, alt : IP \cup {Nil}]
  BY DEF NoAddress
<1>1. /\ \A p \in Objects : p # o => phase'[p] = phase[p] /\ spec'[p] = spec[p]
      /\ phase'[o] = ph
      /\ spec'[o] = IF ph = "absent" THEN NoAddress ELSE spec[o]
  BY DEF TypeInv, TypeOK
<1>2. phase' \in [Objects -> {"absent", "defaulting", "defaulted", "live", "deleting", "freed"}]
  BY DEF TypeInv, TypeOK
<1>3. spec' \in [Objects -> [public : IP \cup {Nil}, alt : IP \cup {Nil}]]
  BY <1>0 DEF TypeInv, TypeOK
<1>4. \A p \in Objects : phase'[p] # "absent" => spec'[p].public # Nil
  BY <1>1 DEF TypeInv
<1>5. \A p \in Objects : phase'[p] = "absent" <=> spec'[p] = NoAddress
  BY <1>1 DEF TypeInv, TypeOK
<1> QED BY <1>2, <1>3, <1>4, <1>5 DEF TypeInv, TypeOK, CallsInv

LEMMA TypeObjectStep == ASSUME TypeInv, NEW o \in Objects, ObjectStep(o), world' = world PROVE TypeInv'
<1>0. CallsInv /\ FullName(o) \in Services /\ AltName(o) \in Services /\ (UNCHANGED Allocator => CallsInv')
      /\ Main(Prefix) \in PoolNames /\ Alt(Prefix) \in PoolNames /\ "public" \in Kinds /\ "alt" \in Kinds
  BY CallsFrame DEF TypeInv, PoolNames, Main, Alt, Kinds
<1>1. CASE DefaultPublic(o)
  <2> DEFINE ph == IF o.kind = "lb" THEN "defaulted" ELSE "defaulting"
  <2>1. UNCHANGED <<step, todo>> /\ phase' = [phase EXCEPT ![o] = ph] /\ ph \in {"defaulting", "defaulted"}
    BY <1>1 DEF DefaultPublic
  <2>2. CallsInv' /\ \E ip \in IP : spec' = [spec EXCEPT ![o].public = ip]
    BY <1>0, <1>1, ObtainIsIP DEF DefaultPublic
  <2>3. PICK ip \in IP : Given(o, "public", ip, ph)
    BY <2>1, <2>2 DEF Given
  <2> QED BY <1>0, <2>1, <2>2, <2>3, TypeGiven
<1>2. CASE DefaultAlt(o)
  <2>1. UNCHANGED <<step, todo>> /\ phase' = [phase EXCEPT ![o] = "defaulted"] /\ phase[o] # "absent"
    BY <1>2 DEF DefaultAlt
  <2>2. CASE UNCHANGED <<Allocator, spec>>
    BY <1>0, <2>1, <2>2, TypeGoesOn
  <2>3. CASE Obtain(AltName(o), Alt(Prefix)) /\ spec' = [spec EXCEPT ![o].alt = allocated'[AltName(o)].ip]
    <3>1. CallsInv' /\ \E ip \in IP : spec' = [spec EXCEPT ![o].alt = ip]
      BY <1>0, <2>3, ObtainIsIP
    <3>2. PICK ip \in IP : Given(o, "alt", ip, "defaulted")
      BY <2>1, <3>1 DEF Given
    <3> QED BY <1>0, <2>1, <3>1, <3>2, TypeGiven
  <2> QED BY <1>2, <2>2, <2>3 DEF DefaultAlt
<1>3. CASE Admit(o)
  BY <1>0, <1>3, TypeGoesOn DEF Admit
<1>4. CASE Reject(o)
  BY <1>0, <1>4, TypeGoesOn DEF Reject
<1>5. CASE Delete(o)
  BY <1>0, <1>5, TypeGoesOn DEF Delete
<1>6. CASE FreeAddress(o)
  <2>1. CallsInv'
    BY <1>0, <1>6, UnassignStep DEF FreeAddress
  <2> QED BY <1>6, <2>1, TypeGoesOn DEF FreeAddress
<1>7. CASE Finalize(o)
  BY <1>0, <1>7, TypeGoesOn DEF Finalize
<1> QED BY <1>1, <1>2, <1>3, <1>4, <1>5, <1>6, <1>7 DEF ObjectStep

LEMMA ClaimTypes == ASSUME TypeInv PROVE LBClaims \cup ProxyClaims \subseteq Services \X IP
<1>1. \A o \in Objects : Exists(o) => spec[o].public \in IP /\ spec[o].alt \in IP \cup {Nil}
  BY DEF TypeInv, TypeOK, Exists
<1> QED BY <1>1 DEF LBClaims, ProxyClaims, Existing

\* In every world, with every disturbance that it allows.
THEOREM TypesKept == Spec => []TypeOK
<1>1. Init => TypeInv
  <2> SUFFICES ASSUME Init PROVE TypeInv
    OBVIOUS
  <2>1. NoAddress \in [public : IP \cup {Nil}, alt : IP \cup {Nil}]
    BY DEF NoAddress
  <2>2. AllocatorOK /\ NoGhostUsers /\ KeyMeansUser
    BY DEF Init, New, AllocatorOK, NoGhostUsers, KeyMeansUser
  <2>3. /\ phase \in [Objects -> {"absent", "defaulting", "defaulted", "live", "deleting", "freed"}]
        /\ spec \in [Objects -> [public : IP \cup {Nil}, alt : IP \cup {Nil}]]
        /\ \A o \in Objects : phase[o] = "absent" /\ spec[o] = NoAddress
        /\ step = "pending" /\ todo = {} /\ world \in Worlds
    BY <2>1 DEF Init
  <2> QED BY <2>2, <2>3 DEF TypeInv, TypeOK, CallsInv
<1>2. TypeInv /\ [Next]_vars => TypeInv'
  <2> SUFFICES ASSUME TypeInv, [Next]_vars PROVE TypeInv'
    OBVIOUS
  <2>0. TypeOK /\ CallsInv
    BY DEF TypeInv
  <2>1. CASE UNCHANGED vars
    <3>1. CallsInv'
      BY <2>0, <2>1, CallsFrame DEF vars, Allocator
    <3> QED BY <2>1, <3>1 DEF vars, TypeInv, TypeOK, CallsInv
  <2>2. CASE \E o \in Objects : ObjectStep(o) /\ world' = world
    BY <2>2, TypeObjectStep
  <2>3. CASE StartReconcile /\ world' = world
    <3>1. PICK s \in PoolSpecs[Prefix] : AddPrefix(Prefix, s)
      BY <2>3 DEF StartReconcile, TypeInv
    <3>2. CallsInv'
      BY <2>0, <3>1, AddPrefixStep
    <3> QED BY <2>3, <3>2 DEF StartReconcile, TypeInv, TypeOK, CallsInv
  <2>4. CASE (ListLBs \/ ListProxies \/ EndReconcile) /\ world' = world
    <3>1. CallsInv'
      BY <2>0, <2>4, CallsFrame DEF ListLBs, ListProxies, EndReconcile
    <3>2. /\ phase' = phase /\ spec' = spec /\ step' \in {"assign lbs", "assign proxies", "idle"}
          /\ todo' \subseteq Services \X IP
      BY <2>0, <2>4, ClaimTypes DEF ListLBs, ListProxies, EndReconcile, TypeOK
    <3> QED BY <2>4, <3>1, <3>2 DEF TypeInv, TypeOK, CallsInv
  <2>5. CASE WarmUp /\ world' = world
    <3>1. PICK t \in todo : /\ todo' = todo \ {t}
                            /\ Assign(t[1], t[2], {}, Unshared) \/ UNCHANGED Allocator
      BY <2>5 DEF WarmUp
    <3>2. t[1] \in Services /\ t[2] \in IP
      BY <2>0 DEF TypeOK
    <3>3. CallsInv'
      BY <2>0, <3>1, <3>2, AssignGains, CallsFrame
    <3>4. phase' = phase /\ spec' = spec /\ step' = step /\ todo' \subseteq todo
      BY <2>5, <3>1 DEF WarmUp
    <3> QED BY <2>5, <3>3, <3>4 DEF TypeInv, TypeOK, CallsInv
  <2>6. CASE Restart /\ world' = world
    <3>1. NoAddress \in [public : IP \cup {Nil}, alt : IP \cup {Nil}]
      BY DEF NoAddress
    <3>2. AllocatorOK' /\ NoGhostUsers' /\ KeyMeansUser'
      BY <2>6 DEF Restart, AllocatorOK, NoGhostUsers, KeyMeansUser
    <3>3. /\ phase' \in [Objects -> {"absent", "defaulting", "defaulted", "live", "deleting", "freed"}]
          /\ spec' \in [Objects -> [public : IP \cup {Nil}, alt : IP \cup {Nil}]]
          /\ step' = "pending" /\ todo' = {}
      BY <2>0, <2>6, <3>1 DEF Restart, TypeOK
    <3>4. \A o \in Objects : /\ phase'[o] # "absent" => Exists(o) /\ spec'[o] = spec[o]
                             /\ phase'[o] = "absent" => ~Exists(o) /\ spec'[o] = NoAddress
      BY <2>6 DEF Restart, Exists
    <3>5. \A o \in Objects : Exists(o) => spec[o].public # Nil /\ spec[o] # NoAddress
      BY <2>0 DEF TypeInv, TypeOK, Exists
    <3> QED BY <2>6, <3>2, <3>3, <3>4, <3>5 DEF TypeInv, TypeOK, CallsInv
  <2> QED BY <2>1, <2>2, <2>3, <2>4, <2>5, <2>6 DEF Next
<1>3. TypeInv => TypeOK
  BY DEF TypeInv
<1> QED BY <1>1, <1>2, <1>3, PTL DEF Spec
=============================================================================

----------------------------- MODULE PoolRanges -----------------------------
(***************************************************************************)
(* The allocator with the ranges that its pools are made of: Allocator     *)
(* takes a range as a set of numbers, here are the bytes.                  *)
(***************************************************************************)
EXTENDS Allocator, FiniteSets

CONSTANTS
    Byte,     \* the number of values of a byte, 256
    Length    \* the number of bytes of an address, 16

ASSUME BytesAssumption == Byte \in Nat \ {0, 1} /\ Length \in Nat \ {0} /\ Length % 2 = 0

Ranges == INSTANCE IPRange WITH nil <- Nil

ASSUME NoAddressAssumption == Nil \notin Ranges!Address

\* The bytes of an address in IP, and the addresses in IP of a range.
Bytes(ip) == [i \in 1 .. Length |-> (ip \div Ranges!Power[Length - i]) % Byte]
Addresses(r) == {ip \in IP : Ranges!Contains(r, Bytes(ip))}

\* The addresses of IP follow one another, and have numbers of Length bytes.
ASSUME WidthAssumption == /\ \A ip \in IP : ip < Ranges!Power[Length]
                          /\ \A ip, other \in IP : ip .. other \subseteq IP

\* What NewIPRange() makes of a specification.
IsRange(addrs) == \E r \in [from : Ranges!Address, to : Ranges!Address] : addrs = Addresses(r)
ASSUME RangesAssumption ==
    \A sp \in Prefixes : \A s \in PoolSpecs[sp] :
        /\ s.main # Malformed => IsRange(s.main)
        /\ s.alt \notin {Malformed, Nil} => IsRange(s.alt)

\* The range of a pool, whose addresses come one after the other.
RangeOf(addrs) ==
    Ranges!parseFromTo(Bytes(CHOOSE ip \in addrs : \A other \in addrs : ip <= other),
                       Bytes(CHOOSE ip \in addrs : \A other \in addrs : other <= ip))

\* The loop of AssignNext() through r: the address that it ends with.
AssignNext(r, free) ==
    LET from[pos \in Ranges!Address \cup {Nil}] ==
            IF pos = Nil \/ pos \in free THEN pos ELSE from[Ranges!Next(r, pos)]
    IN from[Ranges!First(r)]

\* What AssignNext() finds in a pool, whoever asks.
WalkFinds(p, r) ==
    \A svc \in Services, ports \in SUBSET Ports, key \in Keys :
        LET free == Candidates(p, ports, svc, key) IN
        AssignNext(r, {Bytes(ip) : ip \in free}) =
            IF free = {} THEN Nil ELSE Bytes(CHOOSE ip \in free : IsFirst(ip, free))

\* What is reported to be the capacity of a pool.
SizeCounts(p, r) ==
    (\A i \in 1 .. Length \div 2 : r.from[i] = r.to[i])
        => Ranges!Size(r) = IF Cardinality(p.addrs) = Ranges!Half THEN 0 ELSE Cardinality(p.addrs)

\* Whatever is in use, counting through the range finds the first address that
\* is free, across every carry, and stops behind the last.  The capacity of a
\* range whose ends have one upper half is the number of its addresses, and 0
\* if it has all that a lower half can tell apart.
RangesWalked == \A n \in PoolNames : pools[n] # Nil =>
                    /\ WalkFinds(pools[n], RangeOf(pools[n].addrs))
                    /\ SizeCounts(pools[n], RangeOf(pools[n].addrs))
=============================================================================

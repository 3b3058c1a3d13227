------------------------------ MODULE IPRange ------------------------------
(***************************************************************************)
(* Ranges of addresses (internal/allocator/iprange.go).  An address is a   *)
(* sequence of bytes, compared as bytes.Compare() does, and counted up     *)
(* with a carry; its number is that of its lower half.  A mask is taken in *)
(* bytes: where Byte is 2, it may have any length.                         *)
(***************************************************************************)
EXTENDS Integers

CONSTANTS
    Byte,     \* the number of values of a byte, 256
    Length,   \* the number of bytes of an address, 16
    nil       \* no address

Address == [1 .. Length -> 0 .. Byte - 1]

\* bytes.Compare(ip, other) <= 0
Upto(ip, other) ==
    ip = other \/ \E i \in 1 .. Length : /\ ip[i] < other[i]
                                         /\ \A j \in 1 .. i - 1 : ip[j] = other[j]

\* The bytes behind the last that is not at its end start again.
inc(ip) ==
    LET carry(i) == \A j \in i + 1 .. Length : ip[j] = Byte - 1
    IN [i \in 1 .. Length |-> IF carry(i) THEN (ip[i] + 1) % Byte ELSE ip[i]]

Contains(r, ip) == Upto(r.from, ip) /\ Upto(ip, r.to)
First(r) == r.from

\* Mutant: the last address is left out.
NextExclusive(r, ip) == IF Upto(r.to, inc(ip)) THEN nil ELSE inc(ip)

Next(r, ip) == IF Upto(r.to, ip) THEN nil ELSE inc(ip)

\* The powers of Byte.
Power[n \in 0 .. Length] == IF n = 0 THEN 1 ELSE Byte * Power[n - 1]

Half == Power[Length \div 2]

\* A uint64 holds half of the bytes.
toInt(ip) ==
    LET value[i \in 0 .. Length] == IF i = 0 THEN 0 ELSE (Byte * value[i - 1] + ip[i]) % Half
    IN value[Length]

\* The upper half of an IPv4 address is that of every other.
Size(r) ==
    IF \E i \in 1 .. Length \div 2 : r.from[i] # r.to[i] THEN Half - 1
    ELSE (1 + toInt(r.to) - toInt(r.from)) % Half

parseFromTo(from, to) == [from |-> from, to |-> to]

\* A CIDR's range begins with the address that it is written with, and its last
\* address is looked for from there: for ever, if every address belongs to it.
parseCIDR(from, mask) ==
    LET network == {ip \in Address : \A i \in 1 .. mask : ip[i] = from[i]}
    IN [from |-> from, to |-> CHOOSE ip \in network : \A other \in network : Upto(other, ip)]
=============================================================================

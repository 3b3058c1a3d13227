---------------------------- MODULE MCAllocator -----------------------------
(***************************************************************************)
(* Small instances of the allocator: addresses 3 .. 5 of six bits, and     *)
(* one prefix, with or without an alt range, whose pool specification may  *)
(* be malformed.  From 3 to 4 a carry passes two of the bits.              *)
(***************************************************************************)
EXTENDS PoolRanges, TLC

CONSTANT a

MCIP == 3 .. 5

FromTo(from, to) == Addresses(Ranges!parseFromTo(Bytes(from), Bytes(to)))
CIDR(from, mask) == Addresses(Ranges!parseCIDR(Bytes(from), mask))

MCOnePrefix == a :> {[main |-> FromTo(3, 4), alt |-> CIDR(5, 5)],
                     [main |-> FromTo(3, 4), alt |-> Malformed],
                     [main |-> Malformed, alt |-> Nil]}

MCSymmetry == Permutations(Services) \cup Permutations(Ports)
=============================================================================

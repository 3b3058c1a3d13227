CONSTANTS
    Byte = 2
    Length = 6
    a = a
    IP <- MCIP
    Services = {s1, s2, s3}
    Ports = {q1}
    Keys = {Unshared, k1}
    Unshared = Unshared
    Nil = Nil
    Malformed = Malformed
    Prefixes = {a}
    PoolSpecs <- MCOnePrefix
    MayReset = TRUE
SPECIFICATION Spec
SYMMETRY MCSymmetry
INVARIANT NoGhostUsers
INVARIANT NoLeak

CONSTANTS
    Byte = 2
    Length = 6
    a = a
    IP <- MCIP
    Services = {s1, s2, s3}
    Ports = {q1, q2}
    Keys = {Unshared}
    Unshared = Unshared
    Nil = Nil
    Malformed = Malformed
    Prefixes = {a}
    PoolSpecs <- MCOnePrefix
    MayReset = FALSE
SPECIFICATION Spec
INVARIANT TypeOK
INVARIANT Agreement
INVARIANT RangesWalked
PROPERTY ImplementsLeases

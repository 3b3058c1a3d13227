CONSTANTS
    Objects <- MCObjects
    PoolSpecs <- MCPoolSpecs
    Requested <- MCRequested
    Worlds <- MCGoodWorlds
    Services <- MCNames
    IP <- MCIP
    Ports = {}
    Keys = {Unshared}
    Unshared = Unshared
    Nil = Nil
    Malformed = Malformed
    Prefix = sp
    Prefixes = {sp}
    MayReset = TRUE
SPECIFICATION Spec
INVARIANT TypeOK
INVARIANT UniqueAddresses
INVARIANT LiveKnown
INVARIANT AddressesReturned

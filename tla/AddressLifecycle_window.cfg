CONSTANTS
    Objects <- MCObjects
    PoolSpecs <- MCPoolSpecs
    Requested <- MCRequested
    Worlds <- MCWindow
    Services <- MCNames
    IP <- MCIP
    Ports = {}
    Keys = {Unshared}
    Unshared = Unshared
    Nil = Nil
    Malformed = Malformed
    Prefix = sp
    Prefixes = {sp}
    MayReset = TRUE
SPECIFICATION Spec
INVARIANT UniqueAddresses

CONSTANTS
    ProxyCalls = {p1, p2}
    LBCalls = {r1}
    ProxyTries = 3
    LBTries = 2
    Width = 6
    Demand = 2
    MaxFaults = 1
SPECIFICATION FairSpec
CHECK_DEADLOCK FALSE
INVARIANT TypeOK
INVARIANT UniquePerFunction
INVARIANT VersionsIdentify
INVARIANT ZeroNeverReturned
PROPERTY OneCounter
PROPERTY EveryoneServed

CONSTANTS
    ProxyCalls = {p1}
    LBCalls = {r1}
    ProxyTries = 3
    LBTries = 2
    Width = 8
    Demand = 2
    MaxFaults = 0
SPECIFICATION Spec
CHECK_DEADLOCK FALSE
INVARIANT UniqueIDs

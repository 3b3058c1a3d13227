CONSTANTS
    Namespaces = {n, m}
    Cluster = Cluster
    Idle = Idle
    MaxChanges = 3
    MaxFaults = 1
SPECIFICATION FairSpec
PROPERTY EveryNamespaceServed
CHECK_DEADLOCK FALSE

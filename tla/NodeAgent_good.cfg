CONSTANTS
    p1 = p1
    b1 = b1
    q1 = q1
    Owners = {p1, b1}
    Kind <- MCKind
    Name <- MCName
    Pools <- MCPools
    Aggregation <- MCSubnets
    Ports = {q1}
    FirstPorts <- MCFirstPorts
    Endpoints = {e1}
    Idle = Idle
    MaxChanges = 2
    MaxFaults = 1
    MaxDisturbed = 1
SPECIFICATION FairSpec
INVARIANT TypeOK
INVARIANT PodsHaveRoutes
INVARIANT RoutesHaveOwners
INVARIANT PortsMatchPods
INVARIANT GonePortsClosed
INVARIANT PodsHaveGateways
PROPERTY ComesToRest
CHECK_DEADLOCK FALSE

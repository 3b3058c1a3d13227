CONSTANTS
    p1 = p1
    b1 = b1
    q1 = q1
    Owners = {p1, b1}
    Kind <- MCKind
    Name <- MCName
    Pools <- MCPools
    Aggregation <- MCSubnets
    Ports = {q1}
    FirstPorts <- MCFirstPorts
    Endpoints = {e1}
    Idle = Idle
    MaxChanges = 2
    MaxFaults = 0
    MaxDisturbed = 1
SPECIFICATION Spec
INVARIANT SharedRoutesStay
CHECK_DEADLOCK FALSE

CONSTANTS
    m1 = m1
    n1 = n1
    ra = ra
    Endpoints = {r1, r2, ra}
    Pods = {d1}
    ClientNodes = {m1}
    AdHoc = AdHoc
    NodeAddress <- MCNodeAddress
    HostIP <- MCHostIP
    LB = LB
    Idle = Idle
    None = None
    Ports = {80, 443}
    Allowed = {"unlisted pod", "unseen endpoint", "revived node", "missed removal", "lost removal"}
    MaxChanges = 4
    MaxFaults = 1
SPECIFICATION FairSpec
INVARIANT TypeOK
INVARIANT PairsHaveTunnels
INVARIANT NodesHaveEndpoints
INVARIANT OnlyAdHocStay
INVARIANT DeploymentFollows
INVARIANT NothingOutlivesLB
PROPERTY ComesToRest
CHECK_DEADLOCK FALSE

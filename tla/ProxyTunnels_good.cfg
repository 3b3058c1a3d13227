CONSTANTS
    p1 = p1
    c1 = c1
    n1 = n1
    Proxies = {p1}
    Routes = {r1}
    Slices = {s1}
    Pods = {d1, d2}
    Clusters = {c1}
    ClusterOf <- MCClusterOf
    ClientNodes = {m1}
    Owner <- MCOwner
    NodeOf <- MCNodeOf
    IDs = {1, 2}
    Nil = Nil
    Allowed = {"reparent", "early delete", "lost nudge", "delete slice"}
    MaxChanges = 3
    MaxFaults = 1
SPECIFICATION FairSpec
INVARIANT TypeOK
INVARIANT NothingForgotten
INVARIANT TunnelsLeadToPods
PROPERTY StaysUpToDate
PROPERTY RestsOrExchangesIDs
CHECK_DEADLOCK FALSE

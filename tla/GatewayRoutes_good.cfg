CONSTANTS
    l1 = l1
    l2 = l2
    l3 = l3
    l4 = l4
    Listeners = {l1, l2, l3, l4}
    Port <- MCPort
    Protocol <- MCProtocol
    Hostname <- MCHostname
    Inputs <- MCInputs
    Names <- MCNames
    InvalidHosts <- MCInvalidHosts
    Labels <- MCLabels
    Segments <- MCSegments
    Methods = {"GET"}
    Criteria <- MCCriteria
    Filters = {"f", "g"}
    Backends = {1, 2, 3}
    NoHost = NoHost
    NoPath = NoPath
    NoMethod = NoMethod
    AnySection = AnySection
SPECIFICATION Spec
INVARIANT TypeOK
INVARIANT RulesComplete
INVARIANT RulesReached
INVARIANT RoutesServed
CHECK_DEADLOCK FALSE

\* Two handlers at a time on an app and its instance, failures, operators.
CONSTANTS
    Nil = Nil
    i1 = i1
    i2 = i2
    n1 = n1
    n2 = n2
    h1 = h1
    h2 = h2
    c1 = c1
    c2 = c2
    s1 = s1
    s2 = s2
    o1 = o1
    Ids = {i1, i2}
    Names = {n1, n2}
    AppName <- AppNames
    ResourceName <- ResourceNames
    GatewayHost <- GatewayHosts
    CNames = {c1, c2}
    Services = {s1, s2}
    OtherHosts = {o1}
    Requests <- SomeRequests
    Handlers = {p1, p2}
    MaxRequests = 4
    MaxFaults = 1
    MaxEvents = 1
SPECIFICATION Spec
INVARIANTS
    TypeOK
    AnnotationServed
    EnsureApplied
    NoDangling
PROPERTIES
    KeepsOthers
    Atomic
CHECK_DEADLOCK FALSE

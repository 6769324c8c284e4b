\* One request at a time; no API call fails.
CONSTANTS
    Nil = Nil
    Torn = Torn
    a1 = a1
    a2 = a2
    default = default
    v1 = v1
    c1 = c1
    c2 = c2
    g1 = g1
    g2 = g2
    na = na
    nb = nb
    s1 = s1
    s2 = s2
    p2 = p2
    Apps = {a1}
    Prefixes = {default, v1}
    CNames = {c1, c2}
    Default = default
    AppNamespace <- NamespaceOf
    Gateways = {g1, g2}
    Namespaces = {na, nb}
    Suffixes = {s1, s2}
    Flags <- DefaultFlags
    Shared = TRUE
    Requests <- LifeRequests
    Freezable = {}
    Handlers = {p1}
    MaxRequests = 3
    MaxFaults = 0
    MaxEvents = 1
SPECIFICATION Spec
INVARIANTS
    OnlyItsCNames
CHECK_DEADLOCK FALSE

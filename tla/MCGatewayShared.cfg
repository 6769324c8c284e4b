\* Two apps on one service; nothing fails.
CONSTANTS
    Nil = Nil
    Torn = Torn
    a1 = a1
    a2 = a2
    default = default
    v1 = v1
    c1 = c1
    c2 = c2
    g1 = g1
    g2 = g2
    na = na
    nb = nb
    s1 = s1
    s2 = s2
    p2 = p2
    Apps = {a1, a2}
    Prefixes = {default}
    CNames = {c1, c2}
    Default = default
    AppNamespace <- NamespaceOf
    Gateways = {g1, g2}
    Namespaces = {na, nb}
    Suffixes = {s1, s2}
    Flags <- DefaultFlags
    Shared = TRUE
    Requests <- TwoAppRequests
    Freezable = {}
    Handlers = {p1, p2}
    MaxRequests = 2
    MaxFaults = 0
    MaxEvents = 0
SPECIFICATION Spec
INVARIANTS
    NamespaceDefaults
CHECK_DEADLOCK FALSE

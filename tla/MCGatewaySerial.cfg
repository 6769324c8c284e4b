\* Three requests one after the other, or two at the same time, on one service:
\* failures half-way, restarts, operators that freeze and release routes between any
\* two calls.
CONSTANTS
    Nil = Nil
    Torn = Torn
    a1 = a1
    a2 = a2
    default = default
    v1 = v1
    c1 = c1
    c2 = c2
    g1 = g1
    g2 = g2
    na = na
    nb = nb
    s1 = s1
    s2 = s2
    p2 = p2
    Apps = {a1}
    Prefixes = {default, v1}
    CNames = {c1, c2}
    Default = default
    AppNamespace <- NamespaceOf
    Gateways = {g1, g2}
    Namespaces = {na, nb}
    Suffixes = {s1, s2}
    Flags <- DefaultFlags
    Shared = TRUE
    Requests <- LifeRequests
    Freezable = {default, v1, c1}
    Handlers = {p1, p2}
    MaxRequests = 3
    MaxFaults = 2
    MaxEvents = 2
SPECIFICATION Spec
INVARIANTS
    TypeOK
    PrefixesApplied
    CNamesAttached
    ListenerThere
    NoOtherCNames
    RemovedIsGone
PROPERTIES
    FrozenSpecKept
    NoLostUpdate
CONSTRAINT FewWithSecond
CHECK_DEADLOCK FALSE

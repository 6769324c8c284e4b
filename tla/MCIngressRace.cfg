\* Two handlers at a time on the ingresses of two apps: failures, operators that freeze
\* them, the garbage collector.
CONSTANTS
    Nil = Nil
    a1 = a1
    a2 = a2
    x = x
    c1 = c1
    c2 = c2
    r1 = r1
    r2 = r2
    Apps = {a1, a2}
    CNames = {c1}
    AppHosts <- TwoHosts
    Routes = {r1, r2}
    Requests <- MixedRequests
    Freezable = {a1, c1}
    Handlers = {p1, p2}
    MaxRequests = 3
    MaxFaults = 2
    MaxEvents = 1
SPECIFICATION FairSpec
PROPERTIES
    CertificatePinned
    FrozenKept
    EventuallyCollected
    Atomic
CHECK_DEADLOCK FALSE

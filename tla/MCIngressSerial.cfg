\* One request at a time: failures half-way, retries, a recreated main ingress, certificates,
\* a CName that another app takes over.
CONSTANTS
    Nil = Nil
    a1 = a1
    a2 = a2
    x = x
    c1 = c1
    c2 = c2
    r1 = r1
    r2 = r2
    Apps = {a1, a2}
    CNames = {c1, c2}
    AppHosts <- OneHost
    Routes = {r1}
    Requests <- TakenOverRequests
    Freezable = {a1}
    Handlers = {p1}
    MaxRequests = 4
    MaxFaults = 2
    MaxEvents = 1
SPECIFICATION Spec
INVARIANTS
    TypeOK
    CNamesApplied
    NoOtherCNames
    NoStrayCertificate
    TLSHasSecret
CHECK_DEADLOCK FALSE

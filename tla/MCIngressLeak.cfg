\* An Ensure that stops half-way.
CONSTANTS
    Nil = Nil
    a1 = a1
    a2 = a2
    x = x
    c1 = c1
    c2 = c2
    r1 = r1
    r2 = r2
    Apps = {a1}
    CNames = {c1, c2}
    AppHosts <- OneHost
    Routes = {r1}
    Requests <- LifeRequests
    Freezable = {}
    Handlers = {p1}
    MaxRequests = 3
    MaxFaults = 1
    MaxEvents = 0
SPECIFICATION Spec
INVARIANTS
    OnlyItsCNames
CHECK_DEADLOCK FALSE
